\* Every n up to 5 with fractions from below 0 to above 1.
SPECIFICATION GenSpec
CONSTANTS
  Counts <- MCCounts
  Fractions <- MCFractions
INVARIANTS
  DuplicatesLast
PROPERTIES
  GeneratesAll
\* The generator ends.
CHECK_DEADLOCK FALSE
