-------------------------- MODULE MCBlockDiagGemm --------------------------
(***************************************************************************)
(* BlockDiagGemm for all seven functions.  The shapes keep the proportions *)
(* of the profiling scripts: blocks as deep as two strides, so that each   *)
(* overlaps with the next and the last is cut off.  Their unit is what one *)
(* access moves (8 elements): all but OddShape are aligned.                *)
(***************************************************************************)
EXTENDS BlockDiagGemm

Shape(m, n, k, blocks, step) ==
  [M |-> m, N |-> n, K |-> k, nb |-> blocks, stride |-> step, Ktot |-> blocks * step,
   access |-> 1]

AllCalls == {bdmm, bdmm_cfg, swz_s1, noswz_s1, rowout_s1, rowout_swz_s1, swz_s2}

\* Two elements per access, and an X of an odd number of columns.
OddShape == [Shape(2, 2, 4, 2, 2) EXCEPT !.Ktot = 5, !.access = 2]

\* Overlapping blocks; blocks side by side; a tail and nothing else; blocks that
\* leave the last one no columns of X, and more than swz_s2 has rows for; as many
\* batches as the grid limit, and more; a grid too large along y; and bad
\* alignment.
MCShapes == {Shape(3, 2, 4, 3, 2), Shape(2, 1, 2, 4, 2), Shape(3, 2, 2, 1, 2),
             [Shape(3, 2, 2, 3, 2) EXCEPT !.Ktot = 4],
             Shape(1, 1, 2, 5, 2), Shape(3, 1, 2, 7, 2), Shape(7, 1, 2, 2, 2), OddShape}

BdmmCfg   == {bdmm_cfg}
OddShapes == {OddShape}
=============================================================================
