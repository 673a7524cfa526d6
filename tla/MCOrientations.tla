--------------------------- MODULE MCOrientations ---------------------------
(***************************************************************************)
(* Orientations for every permutation of a few coordinates, and for the    *)
(* butterfly permutations of more.                                         *)
(***************************************************************************)
EXTENDS Orientations

MCPermutations ==
  {p \in [0 .. n - 1 -> 0 .. n - 1] :
     \A a, b \in 0 .. n - 1 : p[a] = p[b] => a = b}

\* Every grid of n coordinates.
MCButterflies ==
  {perm1(nblocks, n \div nblocks) : nblocks \in {d \in 1 .. n : n % d = 0}}
=============================================================================
