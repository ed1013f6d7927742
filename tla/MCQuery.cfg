\* 194 segments of at most three rows and 68 queries.
SPECIFICATION QuerySpec
CONSTANTS
  Names <- MCNames
  EmptyName = ""
  Bits <- MCBits
  MaxInt = 3
  Number <- MCNumber
  NaN = NaN
  Undecodable = Undecodable
  Segments <- MCSegments
  Queries <- MCQueries
INVARIANTS
  QueryTypeOK
  SelectionRight
  CountsExact
  Pruned
PROPERTIES
  AddsExactly
  ImplementsRelation
  Terminates
\* A query ends.
CHECK_DEADLOCK FALSE
