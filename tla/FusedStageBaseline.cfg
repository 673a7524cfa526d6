SPECIFICATION Spec
CONSTANTS
  M = 3
  nb = 3
  N_OUT = 1
  WARP = 2
  Configs <- MCBaseline
  Planes <- MCPlanes
  Unset = unset
INVARIANTS
  ReturnsStage
