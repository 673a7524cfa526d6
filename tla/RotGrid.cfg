SPECIFICATION Spec
CONSTANTS
  NFEAT = 5
  LMAX = 2
  NPAIR = 1
  NCYC = 3
  cyc_feat <- MCCycFeat
  cyc_cs <- MCCycCs
  Rot <- MCRot
  THREADS = 3
  Calls <- MCCalls
  Content <- MCContent
  Garbage = garbage
INVARIANTS
  TypeOK
  TablesFilled
  LanesOwned
  ResultRotated
