SPECIFICATION FairSpec
CONSTANTS
  Warp = {w0, w1}
  nb = 3
  depth <- MCDepth
  Loops <- MCLoops
  Zero = Zero
  Unset = Unset
INVARIANTS TypeOK SlotsRaceFree NoOverread
PROPERTIES PromiseSpec Termination
