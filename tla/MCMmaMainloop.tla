--------------------------- MODULE MCMmaMainloop ----------------------------
(***************************************************************************)
(* MmaMainloop with the stages and the groups that the repository's tiles  *)
(* have, for a block that wraps around the storage and blocks that are     *)
(* shorter than it.                                                        *)
(***************************************************************************)
EXTENDS MmaMainloop

MCLoops == [kStages : 2 .. 4, kWarpGemmIterations : {2, 4}]
MCDepth == [b \in Block |-> <<5, 1, 2>>[b + 1]]
=============================================================================
