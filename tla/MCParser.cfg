\* Sentences of the grammar and everything one edit away from them.
SPECIFICATION ParserSpec
CONSTANTS
  Names <- MCNames
  EmptyName = ""
  Bits <- MCBits
  OutOfRange = OutOfRange
  Inputs <- MCInputs
  Grammar <- MCGrammar
INVARIANTS
  ReadsBack
  AcceptsGrammar
  TreeShape
  BlameIsDue
PROPERTIES
  ParserStops
\* The parser ends.
CHECK_DEADLOCK FALSE
