SPECIFICATION FairSpec
CONSTANTS
  M = 3
  nb = 3
  N_OUT = 1
  WARP = 2
  Configs <- MCConfigs
  Planes <- MCPlanes
  Unset = unset
INVARIANTS
  PhasesApart
  ReturnsStage
PROPERTIES
  WrittenOnce
  Termination
