\* Are AND, OR and GROUP BY refused, as the package comment has it?
SPECIFICATION ParserSpec
CONSTANTS
  Names <- MCNames
  EmptyName = ""
  Bits <- MCBits
  OutOfRange = OutOfRange
  Inputs <- MCInputs
  Grammar <- MCGrammar
INVARIANTS
  OneComparison
\* The parser ends.
CHECK_DEADLOCK FALSE
