\* The same segments; GROUP BY the float64 column.
SPECIFICATION QuerySpec
CONSTANTS
  Names <- MCNames
  EmptyName = ""
  Bits <- MCBits
  MaxInt = 3
  Number <- MCNumber
  NaN = NaN
  Undecodable = Undecodable
  Segments <- MCSegments
  Queries <- MCNaNQueries
INVARIANTS
  NaNsAreGroups
CHECK_DEADLOCK FALSE
