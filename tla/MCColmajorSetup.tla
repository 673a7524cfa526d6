-------------------------- MODULE MCColmajorSetup --------------------------
(***************************************************************************)
(* ColmajorSetup for butterflies with cycles of 11, for their inverses (the *)
(* second stage of the layer), and for permutations with cycles of other   *)
(* lengths beside one of 11.                                               *)
(***************************************************************************)
EXTENDS ColmajorSetup

Inverse(p) == [f \in Coord |-> CHOOSE g \in Coord : p[g] = f]

Butterflies == {perm1(nblocks, n \div nblocks) : nblocks \in {2, 3, 4, 6, 8, 12}}

\* An 11-cycle over scattered features, a 3-cycle, a 4-cycle, a swap.
Mixed(step) ==
  LET eleven == [i \in 0 .. 10 |-> 13 + ((step * i) % 11)]
  IN  [f \in Coord |->
         CASE f \in 13 .. 23 ->
                LET i == CHOOSE i \in 0 .. 10 : eleven[i] = f
                IN  eleven[(i + 1) % 11]
           [] f \in 0 .. 2 -> (f + 1) % 3
           [] f \in 3 .. 6 -> 3 + ((f - 2) % 4)
           [] f \in 7 .. 8 -> 15 - f
           [] OTHER -> f]

\* As Mixed, without the 3-cycle.
Even(step) == [f \in Coord |-> IF f < 3 THEN f ELSE Mixed(step)[f]]

MCInputs ==
  Butterflies \cup {Inverse(p) : p \in Butterflies}
    \cup {Mixed(step) : step \in 1 .. 10} \cup {Even(step) : step \in {3, 7}}
=============================================================================
