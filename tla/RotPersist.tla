----------------------------- MODULE RotPersist -----------------------------
(***************************************************************************)
(* The persistent-CTA rotation kernel rot_persist: a fixed grid of CTAs    *)
(* walks the (cycle, column tile) pairs with a grid stride.  A CTA caches  *)
(* the tables of its current cycle in shared memory and reloads them, be-  *)
(* tween two barriers, when its next tile belongs to another cycle.  Each  *)
(* thread loads its lane of 2*VEC columns of the LMAX features of a cycle, *)
(* rotates it in registers and stores it back in place, reading sfeat once *)
(* more for the addresses of the stores.                                   *)
(*                                                                         *)
(* A step is one access of one thread to shared or global memory, so that  *)
(* threads of a CTA, which are not in lockstep, interleave between any two *)
(* of them.                                                                *)
(***************************************************************************)
EXTENDS GivensLayout

CONSTANTS
  gridDim,      \* CTAs in the grid
  THREADS,      \* threads per CTA
  VEC,          \* __half2 words per thread and feature
  GarbageFeat,  \* what uninitialised words of sfeat may hold
  GarbageCs     \* what uninitialised words of scs and ssn may hold

Cta    == 0 .. gridDim - 1
Tid    == 0 .. THREADS - 1
Thread == Cta \X Tid
COLS   == 2 * VEC
Lane   == 0 .. COLS - 1

\* The extension admits only M % (2*vec) = 0, and every instantiated variant
\* has at least 128 threads, more than the 11 and 10 words they fill.
ASSUME LaunchAssumption ==
  /\ gridDim \in Nat \ {0}
  /\ THREADS \in Nat \ {0}
  /\ VEC \in Nat \ {0}
  /\ LMAX <= THREADS
  /\ NPAIR <= THREADS
  /\ \E lanes \in 1 .. M : M = lanes * COLS
  /\ GarbageFeat \subseteq Feat

cols_per_tile == THREADS * COLS
tiles_per_cyc == (M + cols_per_tile - 1) \div cols_per_tile
total         == n_cyc * tiles_per_cyc

CycleOf(u)     == u \div tiles_per_cyc
TileOf(u)      == u - CycleOf(u) * tiles_per_cyc
\* Slip: a lane of VEC columns instead of VEC words of two columns.
MBaseNarrow(u, i) == (TileOf(u) * THREADS + i) * VEC
MBase(u, i)    == (TileOf(u) * THREADS + i) * COLS

VARIABLES
  data,         \* global memory, rotated in place
  sfeat,        \* shared: features of the cached cycle, per CTA
  scs,          \* shared: coefficients of the cached cycle, per CTA
  pc,           \* where each thread is
  t,            \* register: the thread's position in the grid-stride loop
  cur_c,        \* register: the cycle the thread takes to be cached
  k,            \* register: loop counter of the load and store loops
  v             \* registers: the lane, one entry per position

vars == <<data, sfeat, scs, pc, t, cur_c, k, v>>

PC == {"head", "sync1", "fill", "sync2", "body", "load", "rotate", "store",
       "exit"}

Init ==
  /\ data = Orig
  /\ sfeat \in [Cta -> [Pos -> GarbageFeat]]
  /\ scs \in [Cta -> [Pair -> GarbageCs]]
  /\ pc = [x \in Thread |-> "head"]
  /\ t = [x \in Thread |-> x[1]]
  /\ cur_c = [x \in Thread |-> -1]
  /\ k = [x \in Thread |-> 0]
  /\ v = [x \in Thread |-> [q \in Pos |-> [j \in Lane |-> Orig[0]]]]

Goto(x, from, to) == pc[x] = from /\ pc' = [pc EXCEPT ![x] = to]

-----------------------------------------------------------------------------
\* `for (t = blockIdx.x; t < total; ...)`: no tile is left for this CTA.
Exit(x) ==
  /\ t[x] >= total
  /\ Goto(x, "head", "exit")
  /\ UNCHANGED <<data, sfeat, scs, t, cur_c, k, v>>

\* Slip: the reload starts without the first barrier.
NewCycleUnguarded(x) ==
  /\ t[x] < total
  /\ CycleOf(t[x]) # cur_c[x]
  /\ Goto(x, "head", "fill")
  /\ UNCHANGED <<data, sfeat, scs, t, cur_c, k, v>>

\* `if (c != cur_c)`: the thread reaches the first __syncthreads().
NewCycle(x) ==
  /\ t[x] < total
  /\ CycleOf(t[x]) # cur_c[x]
  /\ Goto(x, "head", "sync1")
  /\ UNCHANGED <<data, sfeat, scs, t, cur_c, k, v>>

SameCycle(x) ==
  /\ t[x] < total
  /\ CycleOf(t[x]) = cur_c[x]
  /\ Goto(x, "head", "body")
  /\ UNCHANGED <<data, sfeat, scs, t, cur_c, k, v>>

\* __syncthreads(): one hardware barrier per CTA, whatever the call site.  It
\* opens when every thread of the CTA that has not exited waits at it.
Barrier(b) ==
  LET peers   == {b} \X Tid
      waiting == {x \in peers : pc[x] \in {"sync1", "sync2"}}
  IN  /\ waiting # {}
      /\ \A x \in peers : x \in waiting \/ pc[x] = "exit"
      /\ pc' = [x \in Thread |->
                  IF x \notin waiting THEN pc[x]
                  ELSE IF pc[x] = "sync1" THEN "fill" ELSE "body"]
      /\ cur_c' = [x \in Thread |->
                     IF x \in waiting /\ pc[x] = "sync2" THEN CycleOf(t[x])
                     ELSE cur_c[x]]
      /\ UNCHANGED <<data, sfeat, scs, t, k, v>>

\* The first LMAX threads copy a feature each, the first NPAIR a coefficient.
Fill(x) ==
  LET b == x[1]
      i == x[2]
      c == CycleOf(t[x])
  IN  /\ Goto(x, "fill", "sync2")
      /\ sfeat' = IF i \in Pos THEN [sfeat EXCEPT ![b][i] = cyc_feat[c][i]] ELSE sfeat
      /\ scs' = IF i \in Pair THEN [scs EXCEPT ![b][i] = cyc_cs[c][i]] ELSE scs
      /\ UNCHANGED <<data, t, cur_c, k, v>>

\* Slip: `return`, as in the kernels with one tile per CTA, for `continue`.
SkipLaneReturns(x) ==
  /\ MBase(t[x], x[2]) >= M
  /\ Goto(x, "body", "exit")
  /\ UNCHANGED <<data, sfeat, scs, t, cur_c, k, v>>

\* Slip: the grid stride is not applied on the way past an idle lane.
SkipLaneStuck(x) ==
  /\ MBase(t[x], x[2]) >= M
  /\ Goto(x, "body", "head")
  /\ UNCHANGED <<data, sfeat, scs, t, cur_c, k, v>>

\* `if (m_base >= M) continue`: the thread has no lane in this tile.
SkipLane(x) ==
  /\ MBase(t[x], x[2]) >= M
  /\ Goto(x, "body", "head")
  /\ t' = [t EXCEPT ![x] = @ + gridDim]
  /\ UNCHANGED <<data, sfeat, scs, cur_c, k, v>>

TakeLane(x) ==
  /\ MBase(t[x], x[2]) < M
  /\ Goto(x, "body", "load")
  /\ k' = [k EXCEPT ![x] = 0]
  /\ UNCHANGED <<data, sfeat, scs, t, cur_c, v>>

\* The first element of the lane of position k[x].
LaneBase(x) == Cell(sfeat[x[1]][k[x]], MBase(t[x], x[2]))

\* Slip: the counter is left at LMAX for the next loop.
NextPosNoReset(x, loop, next) ==
  /\ k' = [k EXCEPT ![x] = @ + 1]
  /\ IF k[x] + 1 < LMAX THEN Goto(x, loop, loop) ELSE Goto(x, loop, next)

\* Advance the loop over the positions; after the last one go to `next`.
NextPos(x, loop, next) ==
  IF k[x] + 1 < LMAX
  THEN Goto(x, loop, loop) /\ k' = [k EXCEPT ![x] = @ + 1]
  ELSE Goto(x, loop, next) /\ k' = [k EXCEPT ![x] = 0]

Load(x) ==
  /\ NextPos(x, "load", "rotate")
  /\ v' = [v EXCEPT ![x][k[x]] = [j \in Lane |-> data[LaneBase(x) + j]]]
  /\ UNCHANGED <<data, sfeat, scs, t, cur_c>>

\* Every column of the lane is rotated in registers, with the coefficients
\* read from shared memory.
Rotate(x) ==
  /\ Goto(x, "rotate", "store")
  /\ v' = [v EXCEPT ![x] = [q \in Pos |-> [j \in Lane |->
                               Rot([p \in Pos |-> v[x][p][j]], scs[x[1]], q)]]]
  /\ UNCHANGED <<data, sfeat, scs, t, cur_c, k>>

\* Slip: only one column of each word is written back.
StoreLowHalf(x) ==
  /\ NextPos(x, "store", "head")
  /\ data' = [data EXCEPT ![LaneBase(x)] = v[x][k[x]][0]]
  /\ t' = IF k[x] + 1 < LMAX THEN t ELSE [t EXCEPT ![x] = @ + gridDim]
  /\ UNCHANGED <<sfeat, scs, cur_c, v>>

Store(x) ==
  /\ NextPos(x, "store", "head")
  /\ data' = [a \in Cells |->
                IF a - LaneBase(x) \in Lane THEN v[x][k[x]][a - LaneBase(x)]
                ELSE data[a]]
  /\ t' = IF k[x] + 1 < LMAX THEN t ELSE [t EXCEPT ![x] = @ + gridDim]
  /\ UNCHANGED <<sfeat, scs, cur_c, v>>

-----------------------------------------------------------------------------
ThreadStep(x) ==
  \/ Exit(x) \/ NewCycle(x) \/ SameCycle(x) \/ Fill(x)
  \/ SkipLane(x) \/ TakeLane(x) \/ Load(x) \/ Rotate(x) \/ Store(x)

AllExited == \A x \in Thread : pc[x] = "exit"

\* The grid has drained; the kernel is complete.
Done == AllExited /\ UNCHANGED vars

Next ==
  \/ \E x \in Thread : ThreadStep(x)
  \/ \E b \in Cta : Barrier(b)
  \/ Done

\* Each thread of a running CTA keeps being scheduled, and a barrier all of
\* whose threads have arrived opens.
Fairness ==
  /\ \A x \in Thread : WF_vars(ThreadStep(x))
  /\ \A b \in Cta : WF_vars(Barrier(b))

Spec     == Init /\ [][Next]_vars
FairSpec == Spec /\ Fairness

-----------------------------------------------------------------------------
\* Every variable keeps the shape the kernel declares: loop counters stay
\* within the arrays, t never runs below the CTA's index, cur_c is a cycle or -1.
TypeOK ==
  /\ IsTable(data, Cells)
  /\ sfeat \in [Cta -> [Pos -> Feat]]
  /\ IsTable(scs, Cta) /\ \A b \in Cta : IsTable(scs[b], Pair)
  /\ pc \in [Thread -> PC]
  /\ t \in [Thread -> Nat]
  /\ cur_c \in [Thread -> Cycle \cup {-1}]
  /\ k \in [Thread -> Pos]
  /\ IsTable(v, Thread)
  /\ \A x \in Thread : IsTable(v[x], Pos) /\ \A q \in Pos : IsTable(v[x][q], Lane)

\* The comment on the loop: "t is uniform across the CTA, so the
\* __syncthreads() below is never divergent".  While a thread waits at a
\* barrier no peer has exited, and every peer that waits too is at the same
\* call and for the same tile; so a barrier never joins different call sites.
BarrierUniform ==
  \A x, y \in Thread :
    x[1] = y[1] /\ pc[x] \in {"sync1", "sync2"} =>
      /\ pc[y] # "exit"
      /\ pc[y] \in {"sync1", "sync2"} => pc[y] = pc[x] /\ t[y] = t[x]

\* The reload of the shared tables for the next cycle never reaches a thread
\* that still works on the previous one: from the first load of a lane to its
\* last store (which reads sfeat again) the tables are those of its own cycle.
TablesCurrent ==
  \A x \in Thread : pc[x] \in {"load", "rotate", "store"} =>
    /\ sfeat[x[1]] = cyc_feat[CycleOf(t[x])]
    /\ scs[x[1]] = cyc_cs[CycleOf(t[x])]

\* The elements of global memory that x loads and stores for its tile.
LaneCells(x) ==
  {Cell(cyc_feat[CycleOf(t[x])][q], MBase(t[x], x[2])) + j : q \in Pos, j \in Lane}

\* The pass works in place without any synchronisation between CTAs: at no
\* time do two threads hold a common element of data, and nobody's lane runs
\* past the end of its feature rows.
LanesDisjoint ==
  LET busy == {x \in Thread : pc[x] \in {"load", "rotate", "store"}}
  IN  /\ \A x \in busy : MBase(t[x], x[2]) + COLS <= M
      /\ \A x, y \in busy : x # y => LaneCells(x) \cap LaneCells(y) = {}

\* When the kernel is complete every cycle has been rotated in every column,
\* exactly once, and every other feature is as it was.
ResultRotated == AllExited => IsRotated(data)

\* The kernel implements the abstract pass: each store takes the elements of
\* one lane from original to rotated, and no other step writes global memory.
Pass     == INSTANCE GivensPass
PassSpec == Pass!Spec

\* Every thread runs its loop to the end: no barrier is waited at for ever.
Termination == <>AllExited
=============================================================================
