\* Every table of two columns and at most three rows, cut off at every cell.
SPECIFICATION Spec
CONSTANTS
  Tables <- MCTables
  ForeignFiles <- MCForeignFiles
  NoFilter = NoFilter
  MaxLen = 100
  MaxInt = 1000
  segmentMagic = 1001
  bloomTrailerMagic = 1002
INVARIANTS
  TypeOK
  TornRefused
  CompleteAccepted
  RoundTrip
  HeaderAgrees
  ColumnsAlign
  InspectTellsTruth
\* Writer and readers finish.
CHECK_DEADLOCK FALSE
