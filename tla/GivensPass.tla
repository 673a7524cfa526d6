----------------------------- MODULE GivensPass -----------------------------
(***************************************************************************)
(* What a rotation kernel promises, whatever its grid, its threads and its *)
(* order of work: each element of `data` that belongs to a cycle goes once *)
(* from its original value to its rotated value, a lane of a row at a      *)
(* time, and nothing else is ever written.                                 *)
(***************************************************************************)
EXTENDS GivensLayout

VARIABLE data

Init == data = Orig

\* Position k of cycle c is rotated in the adjacent columns lo .. hi, none of
\* which has been written yet.
RotateCells(c, k, lo, hi) ==
  LET row == Cell(cyc_feat[c][k], 0)
  IN  /\ \A m \in lo .. hi : /\ data[row + m] = Orig[row + m]
                             /\ data'[row + m] = Rotated(c, k, m)
      /\ IsTable(data', Cells)
      /\ \A a \in Cells : a - row \notin lo .. hi => data'[a] = data[a]

Next == \E c \in Cycle, k \in Pos, lo \in Col :
          \E hi \in lo .. M - 1 : RotateCells(c, k, lo, hi)

Spec == Init /\ [][Next]_data
=============================================================================
