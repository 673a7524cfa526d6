---------------------------- MODULE MCFusedStage ----------------------------
(***************************************************************************)
(* FusedStage with warps of two threads on three rows: one and two warps   *)
(* per CTA, more rows than threads and fewer, a last CTA that is not full. *)
(***************************************************************************)
EXTENDS FusedStage

MCPlanes == <<<<0, 2>>, <<1, 2>>>>

Tiling(tbm, wm, check) == [TBM |-> tbm, WM |-> wm, checked |-> check]
MCConfigs  == {Tiling(2, 1, TRUE), Tiling(2, 2, TRUE), Tiling(4, 2, TRUE), Tiling(4, 4, TRUE)}
MCBaseline == {Tiling(2, 2, FALSE)}
=============================================================================
