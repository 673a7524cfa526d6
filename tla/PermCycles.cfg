SPECIFICATION FairSpec
CONSTANTS
  n = 6
  Inputs <- MCPermutations
INVARIANTS
  TypeOK
  CyclesClosed
  Factorised
PROPERTIES
  Termination
CHECK_DEADLOCK FALSE
