---------------------------- MODULE MCRotPersist ----------------------------
(***************************************************************************)
(* RotPersist with two cycles of two features, feature 0 outside every     *)
(* cycle, and tables whose values are all distinct.  The elements of data, *)
(* the coefficients and the results of Rot are tuples that record where    *)
(* they come from, so that two values are equal only if they were computed *)
(* in the same way from the same elements.                                 *)
(***************************************************************************)
EXTENDS RotPersist

MCCycFeat == [c \in 0 .. n_cyc - 1 |-> [p \in 0 .. LMAX - 1 |-> (n_cyc - c) + p * n_cyc]]
MCCycCs   == [c \in 0 .. n_cyc - 1 |-> [i \in 0 .. NPAIR - 1 |-> <<c, i>>]]
MCOrig    == [a \in 0 .. NFEAT * M - 1 |-> <<a>>]
MCRot(vec, cs, p) == <<vec, cs, p>>

\* What a word of shared memory holds at launch: left over from other kernels.
MCGarbageFeat == {0}
MCGarbageCs   == {<<>>}
=============================================================================
