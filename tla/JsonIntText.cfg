\* Numbers of which int_to_string gets 1, and 0 for all others.
SPECIFICATION Spec
CONSTANTS
  Texts <- MCZeros
  Faults = {}
  NumberSize = 64
  IntMax = 2147483647
INVARIANTS IntTextFits
CHECK_DEADLOCK FALSE
