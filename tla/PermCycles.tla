----------------------------- MODULE PermCycles -----------------------------
(***************************************************************************)
(* The factorisation of a permutation into two layers of disjoint swaps    *)
(* (givens_perm.py): cycles_of walks the cycles of perm, and two_matchings *)
(* reflects each cycle twice, tau : i -> -i and sig : i -> 1 - i, indices  *)
(* taken modulo the length of the cycle, so that tau first and then sig    *)
(* is perm.                                                                *)
(*                                                                         *)
(* A step is one turn of a loop of cycles_of, or one cycle of              *)
(* two_matchings.                                                          *)
(***************************************************************************)
EXTENDS Integers, Sequences

CONSTANTS
  n,            \* coordinates
  Inputs        \* the permutations two_matchings may be called with

Coord == 0 .. n - 1

IsPermutation(p) ==
  /\ p \in [Coord -> Coord]
  /\ \A f, g \in Coord : p[f] = p[g] => f = g

ASSUME InputAssumption ==
  /\ n \in Nat
  /\ \A p \in Inputs : IsPermutation(p)

\* The butterfly permutation: the transpose of a per_block x nblocks grid.
perm1(nblocks, per_block) ==
  [f \in Coord |-> (f % nblocks) * per_block + (f \div nblocks)]

\* Element i of the list c, which counts from 0.
At(c, i) == c[i + 1]

VARIABLES
  perm,         \* the argument
  pc,
  s,            \* where the scan for unseen coordinates is
  seen,
  c,            \* the cycle being walked
  x,            \* the coordinate the walk has come to
  cycles,       \* the cycles found
  m,            \* cycles that two_matchings has reflected
  tau, sig

vars == <<perm, pc, s, seen, c, x, cycles, m, tau, sig>>

Init ==
  /\ perm \in Inputs
  /\ pc = "scan"
  /\ s = 0
  /\ seen = [f \in Coord |-> FALSE]
  /\ c = <<>>
  /\ x = 0
  /\ cycles = <<>>
  /\ m = 0
  /\ tau = [f \in Coord |-> f]
  /\ sig = [f \in Coord |-> f]

-----------------------------------------------------------------------------
\* Slip: `continue` without the step of the loop.
SkipSeenStuck ==
  /\ pc = "scan" /\ s < n /\ seen[s]
  /\ UNCHANGED vars

SkipSeen ==
  /\ pc = "scan" /\ s < n /\ seen[s]
  /\ s' = s + 1
  /\ UNCHANGED <<perm, pc, seen, c, x, cycles, m, tau, sig>>

\* Slip: the list of the last cycle is not emptied.
StartCycleKeeps ==
  /\ pc = "scan" /\ s < n /\ ~seen[s]
  /\ pc' = "walk"
  /\ x' = s
  /\ UNCHANGED <<perm, s, seen, c, cycles, m, tau, sig>>

StartCycle ==
  /\ pc = "scan" /\ s < n /\ ~seen[s]
  /\ pc' = "walk"
  /\ c' = <<>>
  /\ x' = s
  /\ UNCHANGED <<perm, s, seen, cycles, m, tau, sig>>

\* Slip: the coordinate is not marked, so that the walk goes round and round.
WalkUnmarked ==
  /\ pc = "walk" /\ ~seen[x]
  /\ c' = Append(c, x)
  /\ x' = perm[x]
  /\ UNCHANGED <<perm, pc, s, seen, cycles, m, tau, sig>>

Walk ==
  /\ pc = "walk" /\ ~seen[x]
  /\ seen' = [seen EXCEPT ![x] = TRUE]
  /\ c' = Append(c, x)
  /\ x' = perm[x]
  /\ UNCHANGED <<perm, pc, s, cycles, m, tau, sig>>

Close ==
  /\ pc = "walk" /\ seen[x]
  /\ cycles' = Append(cycles, c)
  /\ s' = s + 1
  /\ pc' = "scan"
  /\ UNCHANGED <<perm, seen, c, x, m, tau, sig>>

EndScan ==
  /\ pc = "scan" /\ s = n
  /\ pc' = "match"
  /\ UNCHANGED <<perm, s, seen, c, x, cycles, m, tau, sig>>

\* Slip: the second reflection turns the cycle the other way round.
ReflectBack(inv, d, r) ==
  [f \in Coord |->
     IF \E i \in 0 .. Len(d) - 1 : At(d, i) = f
     THEN LET i == CHOOSE i \in 0 .. Len(d) - 1 : At(d, i) = f
          IN  At(d, (-r - i) % Len(d))
     ELSE inv[f]]

\* inv with the elements of the cycle d reflected: At(d, i) to At(d, r - i).
Reflect(inv, d, r) ==
  [f \in Coord |->
     IF \E i \in 0 .. Len(d) - 1 : At(d, i) = f
     THEN LET i == CHOOSE i \in 0 .. Len(d) - 1 : At(d, i) = f
          IN  At(d, (r - i) % Len(d))
     ELSE inv[f]]

MatchCycle ==
  /\ pc = "match" /\ m < Len(cycles)
  /\ tau' = Reflect(tau, At(cycles, m), 0)
  /\ sig' = Reflect(sig, At(cycles, m), 1)
  /\ m' = m + 1
  /\ UNCHANGED <<perm, pc, s, seen, c, x, cycles>>

EndMatch ==
  /\ pc = "match" /\ m = Len(cycles)
  /\ pc' = "matched"
  /\ UNCHANGED <<perm, s, seen, c, x, cycles, m, tau, sig>>

Next ==
  \/ SkipSeen \/ StartCycle \/ Walk \/ Close \/ EndScan
  \/ MatchCycle \/ EndMatch

Spec     == Init /\ [][Next]_vars
FairSpec == Spec /\ WF_vars(Next)

-----------------------------------------------------------------------------
\* The lists hold coordinates, none holds more than there are, and the scan
\* does not run past the end.
TypeOK ==
  /\ perm \in Inputs
  /\ pc \in {"scan", "walk", "match", "matched"}
  /\ s \in 0 .. n
  /\ seen \in [Coord -> BOOLEAN]
  /\ c \in Seq(Coord) /\ Len(c) <= n
  /\ pc = "walk" => s \in Coord /\ x \in Coord
  /\ cycles \in Seq(Seq(Coord))
  /\ m \in 0 .. Len(cycles)
  /\ tau \in [Coord -> Coord]
  /\ sig \in [Coord -> Coord]

\* `while not seen[x]` stops at any coordinate seen before, yet what it has
\* walked is exactly one cycle: perm takes each element of a list to the next
\* and the last to the first, and no coordinate is in two places.
CyclesClosed ==
  /\ \A j \in 1 .. Len(cycles) :
       /\ cycles[j] # <<>>
       /\ \A i \in 0 .. Len(cycles[j]) - 1 :
            perm[At(cycles[j], i)] = At(cycles[j], (i + 1) % Len(cycles[j]))
  /\ \A j, k \in 1 .. Len(cycles) :
       \A i \in 1 .. Len(cycles[j]), l \in 1 .. Len(cycles[k]) :
         cycles[j][i] = cycles[k][l] => j = k /\ i = l

\* Checks (1) and (2) of verify(): both layers are involutions, and the tau
\* layer followed by the sig layer is the permutation.
Factorised ==
  pc = "matched" => \A f \in Coord : /\ tau[tau[f]] = f
                                     /\ sig[sig[f]] = f
                                     /\ sig[tau[f]] = perm[f]

\* The three loops come to an end.
Termination == <>(pc = "matched")
=============================================================================
