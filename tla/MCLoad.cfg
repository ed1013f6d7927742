\* Every CSV file of at most three records, warnings suppressed after one.
SPECIFICATION LoadSpec
CONSTANTS
  Names <- MCNames
  EmptyName = ""
  Bits <- MCBits
  Word = 16
  H1 <- MCH1
  H2 <- MCH2
  MaxItems = 1
  OptimalM <- MCOptimalM
  MaxM = 8
  Paths = {out}
  NoPath = NoPath
  Schemas <- MCSchemas
  Options <- MCOptions
  Rows <- MCRows
  Foreign <- MCForeign
  MaxInserts = 3
  Arguments <- MCArguments
  Inputs <- MCInputs
  NoValue = NoValue
  maxLoadWarnings = 1
INVARIANTS
  LoadTypeOK
  RowsAddUp
  ErrorsAddUp
  SuccessIsSaved
  KeysReadAreKnown
  OutputIsLast
  StoresWhatItRead
PROPERTIES
  EndsWithFile
\* The process ends.
CHECK_DEADLOCK FALSE
