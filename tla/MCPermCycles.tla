---------------------------- MODULE MCPermCycles ----------------------------
(***************************************************************************)
(* PermCycles for every permutation of a few coordinates.                  *)
(***************************************************************************)
EXTENDS PermCycles

MCPermutations ==
  {p \in [0 .. n - 1 -> 0 .. n - 1] :
     \A f, g \in 0 .. n - 1 : p[f] = p[g] => f = g}
=============================================================================
