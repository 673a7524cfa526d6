SPECIFICATION Spec
CONSTANTS
  Calls <- BdmmCfg
  Shapes <- OddShapes
  TM = 2
  TN = 2
  GridLimit = 4
  Unset = unset
INVARIANTS
  ZeroIsSuccess
