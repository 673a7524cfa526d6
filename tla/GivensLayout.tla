---------------------------- MODULE GivensLayout ----------------------------
(***************************************************************************)
(* The feature-major matrix that every rotation kernel works on, and the   *)
(* per-cycle tables that drive it.  `data` is (NFEAT, M) row-major, so     *)
(* column m of feature f is element f * M + m.  cyc_feat[c][k] is the      *)
(* feature at position k of cycle c; cyc_cs[c] holds the (cos, sin) pairs  *)
(* of that cycle's tau and rho rotations.                                  *)
(*                                                                         *)
(* The arithmetic of one column of one cycle, fp16 rounding included, is   *)
(* the uninterpreted operator Rot: Rot(vec, cs, k) is what a thread holds  *)
(* at position k after it applied both layers, with coefficients cs, to    *)
(* the LMAX values vec.  What is shown here holds for every such function. *)
(***************************************************************************)
EXTENDS Integers

CONSTANTS
  NFEAT,        \* rows of data (features)
  M,            \* columns of data (tokens)
  LMAX,         \* features per cycle
  NPAIR,        \* plane rotations per cycle, tau and rho together
  n_cyc,        \* cycles
  cyc_feat,     \* [cycle -> [position -> feature]]
  cyc_cs,       \* [cycle -> [pair -> coefficients]]
  Orig,         \* data before the pass
  Rot(_, _, _)

Feat  == 0 .. NFEAT - 1
Col   == 0 .. M - 1
Pos   == 0 .. LMAX - 1
Pair  == 0 .. NPAIR - 1
Cycle == 0 .. n_cyc - 1
Cells == 0 .. NFEAT * M - 1

\* f is a function on S (nothing is said of its values).
IsTable(f, S) == f = [s \in S |-> f[s]]

ASSUME SizeAssumption ==
  /\ NFEAT \in Nat \ {0}
  /\ M \in Nat \ {0}
  /\ LMAX \in Nat \ {0}
  /\ NPAIR \in Nat
  /\ n_cyc \in Nat

\* Cycles are disjoint: no feature occurs twice in cyc_feat.
ASSUME TableAssumption ==
  /\ cyc_feat \in [Cycle -> [Pos -> Feat]]
  /\ \A c, d \in Cycle : \A k, l \in Pos :
        cyc_feat[c][k] = cyc_feat[d][l] => c = d /\ k = l
  /\ IsTable(cyc_cs, Cycle)
  /\ \A c \in Cycle : IsTable(cyc_cs[c], Pair)
  /\ IsTable(Orig, Cells)

\* The element of `data` that holds column m of feature f.
Cell(f, m) == f * M + m

\* The value position k of cycle c must have in column m after the pass.
Rotated(c, k, m) ==
  Rot([q \in Pos |-> Orig[Cell(cyc_feat[c][q], m)]], cyc_cs[c], k)

\* d is the result of one complete pass: every cycle rotated once, in every
\* column, and the features outside every cycle left alone.
IsRotated(d) ==
  /\ \A c \in Cycle, k \in Pos, m \in Col :
        d[Cell(cyc_feat[c][k], m)] = Rotated(c, k, m)
  /\ \A f \in Feat, m \in Col :
        (\A c \in Cycle, k \in Pos : cyc_feat[c][k] # f)
           => d[Cell(f, m)] = Orig[Cell(f, m)]
=============================================================================
