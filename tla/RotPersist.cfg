SPECIFICATION FairSpec
CONSTANTS
  NFEAT = 5
  M = 10
  LMAX = 2
  NPAIR = 1
  n_cyc = 2
  gridDim = 2
  THREADS = 2
  VEC = 1
  cyc_feat <- MCCycFeat
  cyc_cs <- MCCycCs
  Orig <- MCOrig
  Rot <- MCRot
  GarbageFeat <- MCGarbageFeat
  GarbageCs <- MCGarbageCs
INVARIANTS
  TypeOK
  BarrierUniform
  TablesCurrent
  LanesDisjoint
  ResultRotated
PROPERTIES
  Termination
  PassSpec
