---------------------------- MODULE BlockProduct ----------------------------
(***************************************************************************)
(* What the multiplications of a CTA promise the kernel around them: block *)
(* after block, every warp gets the whole product of its rows with the     *)
(* block, and no warp starts the next block before all have this one's.    *)
(***************************************************************************)
EXTENDS Integers

CONSTANTS
  Warp,
  nb,           \* blocks
  Unset

VARIABLES
  blk,
  prod          \* [warp -> block whose whole product it holds, or Unset]

vars == <<blk, prod>>

Init == blk = 0 /\ prod = [w \in Warp |-> Unset]

Multiply(w) ==
  /\ prod[w] = Unset
  /\ prod' = [prod EXCEPT ![w] = blk]
  /\ UNCHANGED blk

NextBlock ==
  /\ blk + 1 < nb /\ \A w \in Warp : prod[w] = blk
  /\ blk' = blk + 1
  /\ prod' = [w \in Warp |-> Unset]

Next == (\E w \in Warp : Multiply(w)) \/ NextBlock

Spec == Init /\ [][Next]_vars
=============================================================================
