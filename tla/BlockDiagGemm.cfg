SPECIFICATION Spec
CONSTANTS
  Calls <- AllCalls
  Shapes <- MCShapes
  TM = 2
  TN = 2
  GridLimit = 4
  Unset = unset
INVARIANTS
  ProductComplete
  NothingWrong
  SuccessIsComplete
  BatchFastest
PROPERTIES
  WrittenOnce
