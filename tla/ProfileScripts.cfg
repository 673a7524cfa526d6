SPECIFICATION Spec
CONSTANTS
  warmup = 2
  iters = 2
  Scripts = {"parallel_stage", "two_stage", "fused_stage"}
INVARIANTS
  ConflictsInOrder
  TimesAreFinal
  ArmTimedWhole
CHECK_DEADLOCK FALSE
