\* One process after another, two paths, three keys, two inserts per session.
SPECIFICATION Spec
CONSTANTS
  Names <- MCNames
  EmptyName = ""
  Bits <- MCBits
  Word = 16
  H1 <- MCH1
  H2 <- MCH2
  MaxItems = 1
  OptimalM <- MCOptimalM
  MaxM = 8
  Paths = {p1, p2}
  NoPath = NoPath
  Schemas <- MCSchemas
  Options <- MCOptions
  Rows <- MCRows
  Foreign <- MCForeign
  MaxInserts = 2
SYMMETRY PathSymmetry
INVARIANTS
  TypeOK
  RowsStored
  FilterExact
  NoDuplicateKeys
  KnownKeysStored
PROPERTIES
  FlushReopens
  ImplementsStore
