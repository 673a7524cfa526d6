SPECIFICATION SolveSpec
CONSTANTS
  n = 24
  Inputs <- MCButterflies
INVARIANTS
  NoResidualSigns
CHECK_DEADLOCK FALSE
