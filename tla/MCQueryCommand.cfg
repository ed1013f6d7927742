\* Four segments, 32 statements and three broken forms of each, nine command lines.
SPECIFICATION CommandSpec
CONSTANTS
  Names <- MCNames
  EmptyName = ""
  Bits <- MCBits
  MaxInt = 3
  Number <- MCNumber
  NaN = NaN
  Undecodable = Undecodable
  OutOfRange = OutOfRange
  Segments <- MCSegments
  Queries <- MCGrammar
  Grammar <- MCGrammar
  Inputs <- MCInputs
  Commands <- MCCommands
INVARIANTS
  CommandTypeOK
  PrintsTheAnswer
  FailsForAReason
PROPERTIES
  CommandEnds
\* The process ends.
CHECK_DEADLOCK FALSE
