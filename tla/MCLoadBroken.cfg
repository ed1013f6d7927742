\* A CSV file that cannot be read to its end keeps the loader in its loop.
SPECIFICATION LoadSpec
CONSTANTS
  Names <- MCNames
  EmptyName = ""
  Bits <- MCBits
  Word = 16
  H1 <- MCH1
  H2 <- MCH2
  MaxItems = 1
  OptimalM <- MCOptimalM
  MaxM = 8
  Paths = {out}
  NoPath = NoPath
  Schemas <- MCSchemas
  Options <- MCOptions
  Rows <- MCRows
  Foreign <- MCForeign
  MaxInserts = 2
  Arguments <- MCArguments
  Inputs <- MCInputs
  NoValue = NoValue
  maxLoadWarnings = 1
PROPERTY Returns
CHECK_DEADLOCK FALSE
