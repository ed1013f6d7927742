\* The same instance: is --limit respected in every format?
SPECIFICATION CommandSpec
CONSTANTS
  Names <- MCNames
  EmptyName = ""
  Bits <- MCBits
  MaxInt = 3
  Number <- MCNumber
  NaN = NaN
  Undecodable = Undecodable
  OutOfRange = OutOfRange
  Segments <- MCSegments
  Queries <- MCGrammar
  Grammar <- MCGrammar
  Inputs <- MCInputs
  Commands <- MCCommands
INVARIANTS
  LimitRespected
CHECK_DEADLOCK FALSE
