\* Is the number of duplicates the documented one?
SPECIFICATION GenSpec
CONSTANTS
  Counts <- MCCounts
  Fractions <- MCFractions
INVARIANTS
  ExactFraction
CHECK_DEADLOCK FALSE
