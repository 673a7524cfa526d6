----------------------------- MODULE MCRotGrid -----------------------------
(***************************************************************************)
(* RotGrid for every kernel, with CTAs of three threads and two cycles of  *)
(* two features, and a third that overlaps both, for a second layer.       *)
(* Values are tuples that record where they come from.                     *)
(***************************************************************************)
EXTENDS RotGrid

MCCycFeat ==
  [c \in 0 .. 2 |-> [p \in 0 .. 1 |-> CASE c = 0 -> 2 + 2 * p [] c = 1 -> 1 + 2 * p [] c = 2 -> 4 - 3 * p]]
MCCycCs   == [c \in 0 .. NCYC - 1 |-> [i \in 0 .. NPAIR - 1 |-> <<c, i>>]]
MCRot(vec, cs, p) == <<vec, cs, p>>
MCContent == [a \in 0 .. 111 |-> <<a>>]

\* Every kernel on a grid that leaves a thread of the last tile without a lane.
MCLaunches ==
  { launch_rot_cycle(4, 1), launch_rot_cycle(2, 2),
    launch_rot_cycle_vec(16, 1),
    launch_rot_cycle_vec_n(8, 1, 2), launch_rot_cycle_vec_n(8, 2, 4),
    launch_rot_cycle_h2(8, 2), launch_rot_h2roll(16, 1), launch_rot_fixed(8, 2),
    launch_rot_fixed_fr(8, 2),
    launch_rot_fixed_io(8, 2, 8, 14, 4) }

MCCalls == {<<l>> : l \in MCLaunches} \cup {launch_rot_colmajor(2, 2, 1)}
=============================================================================
