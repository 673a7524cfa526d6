SPECIFICATION BuildSpec
CONSTANTS
  n = 24
  Inputs <- MCInputs
INVARIANTS
  NoKeyError
  FormsAgree
  OthersUntouched
  SwapsFollowPerm
CHECK_DEADLOCK FALSE
