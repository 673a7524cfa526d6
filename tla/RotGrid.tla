------------------------------ MODULE RotGrid ------------------------------
(***************************************************************************)
(* The rotation kernels of givens_colmajor that work on one column tile of *)
(* one cycle per CTA: rot_cycle_cm, rot_cycle_cm_vec, rot_cycle_cm_vecT,   *)
(* rot_cycle_cm_h2, rot_cycle_h2roll, rot_cycle_fixed, rot_cycle_fixed_fr, *)
(* rot_cycle_fixed_io and rot_layer_cm, whose cycle is a plane, with the   *)
(* functions that launch them.  They share one course (fill the tables in  *)
(* shared memory, meet at a barrier, return if there is no lane, load,     *)
(* rotate, store) and differ in columns per thread, in where the tables    *)
(* are read, and in where a feature row begins in the input and in the     *)
(* output; a launch is the record of these.  A call of the extension       *)
(* launches one kernel or two, the second of which starts when the first   *)
(* is complete.                                                            *)
(*                                                                         *)
(* Memory is one address space: an in-place kernel reads and writes one    *)
(* matrix, rot_cycle_fixed_io reads one and writes a slab of another.  A   *)
(* step is one access of one thread to shared or global memory.            *)
(***************************************************************************)
EXTENDS Integers, Sequences

CONSTANTS
  NFEAT,        \* feature rows
  LMAX,         \* features per cycle
  NPAIR,        \* plane rotations per cycle
  NCYC,         \* cycles in the tables
  cyc_feat,     \* [cycle -> [position -> feature]]
  cyc_cs,       \* [cycle -> [pair -> coefficients]]
  Rot(_, _, _), \* one column of one cycle rotated: see GivensLayout
  THREADS,      \* threads per CTA
  Calls,        \* the calls to examine: sequences of launches
  Content,      \* [address -> what memory holds before the call]
  Garbage       \* what an uninitialised word of shared memory may hold

Pos   == 0 .. LMAX - 1
Pair  == 0 .. NPAIR - 1
Cyc   == 0 .. NCYC - 1
Feat  == 0 .. NFEAT - 1
Tid   == 0 .. THREADS - 1

ASSUME TableAssumption ==
  /\ NFEAT \in Nat /\ LMAX \in Nat \ {0} /\ NPAIR \in Nat /\ NCYC \in Nat
  /\ THREADS \in Nat \ {0} /\ LMAX <= THREADS /\ NPAIR <= THREADS
  /\ cyc_feat \in [Cyc -> [Pos -> Feat]]
  /\ \A c \in Cyc : cyc_cs[c] = [i \in Pair |-> cyc_cs[c][i]]

-----------------------------------------------------------------------------
\* Tiles of `cols` columns per thread that it takes to cover M columns.
\* Slip: the last tile, if it is not full, is forgotten.
TilesFloor(M, cols) == M \div (THREADS * cols)
Tiles(M, cols) == (M + THREADS * cols - 1) \div (THREADS * cols)

\* A launch on an (NFEAT, M) matrix at address 0, in place, of the first n_cyc
\* cycles of the tables.
InPlace(M, n_cyc, grid_x, COLS) ==
  [Mcols |-> M, first |-> 0, n_cyc |-> n_cyc, grid_x |-> grid_x, COLS |-> COLS,
   tables |-> "shared", free_read |-> FALSE, ld_in |-> M, ld_out |-> M, out |-> 0]

\* The tables are read from global memory, one column per thread.
launch_rot_cycle(M, n_cyc) == [InPlace(M, n_cyc, Tiles(M, 1), 1) EXCEPT !.tables = "global"]

launch_rot_cycle_vec(M, n_cyc) == InPlace(M, n_cyc, Tiles(M, 8), 8)

\* `cols` chooses the instance of the kernel: 2, 4, and 8 for anything else.
launch_rot_cycle_vec_n(M, n_cyc, cols) ==
  InPlace(M, n_cyc, Tiles(M, cols), IF cols \in {2, 4} THEN cols ELSE 8)

launch_rot_cycle_h2(M, n_cyc) == InPlace(M, n_cyc, Tiles(M, 4), 4)
launch_rot_h2roll(M, n_cyc)   == InPlace(M, n_cyc, Tiles(M, 4), 4)
launch_rot_fixed(M, n_cyc)    == InPlace(M, n_cyc, Tiles(M, 4), 4)

\* Every thread reads the lane of column 0 and writes its own.
launch_rot_fixed_fr(M, n_cyc) == [launch_rot_fixed(M, n_cyc) EXCEPT !.free_read = TRUE]

\* Input rows of ld_in elements; output rows of ld_out elements in another
\* buffer, of which the slab of Mcols columns from `off` on is written.
launch_rot_fixed_io(Mcols, n_cyc, ld_in, ld_out, off) ==
  [InPlace(Mcols, n_cyc, Tiles(Mcols, 4), 4) EXCEPT
     !.ld_in = ld_in, !.ld_out = ld_out, !.out = NFEAT * ld_in + off]

\* Two layers of planes, tau's and then rho's, which are behind tau's in the
\* tables.  A layer is rotated as cycles of two features.
rot_layer_cm(M, first, P) == [launch_rot_cycle(M, P) EXCEPT !.first = first]
launch_rot_colmajor(M, P1, P2) == <<rot_layer_cm(M, 0, P1), rot_layer_cm(M, P1, P2)>>

-----------------------------------------------------------------------------
Launches == UNION {{q[i] : i \in 1 .. Len(q)} : q \in Calls}

Cycles(l)  == l.first .. l.first + l.n_cyc - 1
Columns(l) == 0 .. l.Mcols - 1

InCell(l, f, m)  == f * l.ld_in + m
OutCell(l, f, m) == l.out + f * l.ld_out + m

\* A legal launch (the extension checks none of this): disjoint cycles of the
\* tables; whole lanes that fit into the rows of the input and of the slab; a
\* grid with tiles for all of them; one matrix in place, or a slab apart from
\* the input; both allocated.
ASSUME LaunchAssumption ==
  /\ DOMAIN Content \subseteq Int
  /\ Content = [a \in DOMAIN Content |-> Content[a]]
  /\ \A q \in Calls : Len(q) \in {1, 2}
  /\ \A l \in Launches :
       /\ l.first \in Nat /\ l.n_cyc \in Nat /\ l.first + l.n_cyc <= NCYC
       /\ \A c, d \in Cycles(l) : \A p, q \in Pos :
             cyc_feat[c][p] = cyc_feat[d][q] => c = d /\ p = q
       /\ l.COLS \in Nat \ {0} /\ l.Mcols \in Nat /\ l.Mcols % l.COLS = 0
       /\ l.grid_x \in Nat /\ Tiles(l.Mcols, l.COLS) <= l.grid_x
       /\ l.ld_in \in Nat /\ l.Mcols <= l.ld_in
       /\ l.ld_out \in Nat /\ l.Mcols <= l.ld_out
       /\ l.out \in Nat
       /\ (l.out = 0 /\ l.ld_in = l.ld_out) \/ NFEAT * l.ld_in <= l.out
       /\ \A f \in Feat, m \in Columns(l) :
            {InCell(l, f, m), OutCell(l, f, m)} \subseteq DOMAIN Content

-----------------------------------------------------------------------------
VARIABLES
  call, turn,   \* the launches of the call, and the one that runs
  before,       \* global memory when it was started
  mem,          \* global memory
  sfeat, scs,   \* shared: the tables of a CTA
  pc,
  k,            \* register: loop counter of the load and store loops
  v             \* registers: the lane

job  == <<call, turn, before>>
vars == <<job, mem, sfeat, scs, pc, k, v>>

\* The arguments of the kernel that runs, and its grid.
launch == call[turn]

\* blockIdx is (bx, c); CTAs do not share anything but global memory.
Ctas(l)    == (0 .. l.grid_x - 1) \X Cycles(l)
Threads(l) == Ctas(l) \X Tid

Cta    == Ctas(launch)
Thread == Threads(launch)
Lane   == 0 .. launch.COLS - 1

CycleOf(x) == x[1][2]

\* Slip: the threads' lanes begin one column apart.
MBaseNarrow(x) == x[1][1] * THREADS * launch.COLS + x[2]
MBase(x)       == (x[1][1] * THREADS + x[2]) * launch.COLS

\* The tables as the thread sees them.
FeatAt(x, p) == IF launch.tables = "shared" THEN sfeat[x[1]][p] ELSE cyc_feat[CycleOf(x)][p]
CsOf(x)      == IF launch.tables = "shared" THEN scs[x[1]] ELSE cyc_cs[CycleOf(x)]

\* What a kernel starts with.
NoTable(l, words) == [b \in Ctas(l) |-> [i \in words |-> Garbage]]
Entry(l)          == [x \in Threads(l) |-> IF l.tables = "shared" THEN "fill" ELSE "body"]
AllThreads(l, u)  == [x \in Threads(l) |-> u]

Init ==
  /\ call \in Calls
  /\ turn = 1
  /\ before = Content
  /\ mem = Content
  /\ sfeat = NoTable(launch, Pos)
  /\ scs = NoTable(launch, Pair)
  /\ pc = Entry(launch)
  /\ k = AllThreads(launch, 0)
  /\ v = AllThreads(launch, <<>>)

Goto(x, from, to) == pc[x] = from /\ pc' = [pc EXCEPT ![x] = to]

\* Slip: a thread without a lane returns first, as in rot_cycle_cm.
FillLate(x) ==
  LET b == x[1]
      i == x[2]
  IN  /\ Goto(x, "fill", IF MBase(x) >= launch.Mcols THEN "exit" ELSE "sync")
      /\ sfeat' = IF i \in Pos /\ MBase(x) < launch.Mcols
                  THEN [sfeat EXCEPT ![b][i] = cyc_feat[b[2]][i]] ELSE sfeat
      /\ scs' = IF i \in Pair THEN [scs EXCEPT ![b][i] = cyc_cs[b[2]][i]] ELSE scs
      /\ UNCHANGED <<job, mem, k, v>>

\* The first LMAX threads copy a feature each, the first NPAIR a coefficient.
Fill(x) ==
  LET b == x[1]
      i == x[2]
  IN  /\ Goto(x, "fill", "sync")
      /\ sfeat' = IF i \in Pos THEN [sfeat EXCEPT ![b][i] = cyc_feat[b[2]][i]] ELSE sfeat
      /\ scs' = IF i \in Pair THEN [scs EXCEPT ![b][i] = cyc_cs[b[2]][i]] ELSE scs
      /\ UNCHANGED <<job, mem, k, v>>

\* __syncthreads() opens when every thread of the CTA that runs has come.
Barrier(b) ==
  LET peers   == {b} \X Tid
      waiting == {x \in peers : pc[x] = "sync"}
  IN  /\ waiting # {}
      /\ \A x \in peers : x \in waiting \/ pc[x] = "exit"
      /\ pc' = [x \in Thread |-> IF x \in waiting THEN "body" ELSE pc[x]]
      /\ UNCHANGED <<job, mem, sfeat, scs, k, v>>

\* `if (m_base >= M) return`
Return(x) ==
  /\ MBase(x) >= launch.Mcols
  /\ Goto(x, "body", "exit")
  /\ UNCHANGED <<job, mem, sfeat, scs, k, v>>

TakeLane(x) ==
  /\ MBase(x) < launch.Mcols
  /\ Goto(x, "body", "load")
  /\ v' = [v EXCEPT ![x] = [p \in Pos |-> [j \in Lane |-> Content[0]]]]
  /\ UNCHANGED <<job, mem, sfeat, scs, k>>

\* Slip: the second loop does not start from zero.
NextPosNoReset(x, loop, next) ==
  /\ Goto(x, loop, IF k[x] + 1 < LMAX THEN loop ELSE next)
  /\ k' = [k EXCEPT ![x] = @ + 1]

\* Advance the loop over the positions; after the last one go to `next`.
NextPos(x, loop, next) ==
  IF k[x] + 1 < LMAX
  THEN Goto(x, loop, loop) /\ k' = [k EXCEPT ![x] = @ + 1]
  ELSE Goto(x, loop, next) /\ k' = [k EXCEPT ![x] = 0]

Load(x) ==
  LET m == IF launch.free_read THEN 0 ELSE MBase(x)
  IN  /\ NextPos(x, "load", "rotate")
      /\ v' = [v EXCEPT ![x][k[x]] = [j \in Lane |-> mem[InCell(launch, FeatAt(x, k[x]), m) + j]]]
      /\ UNCHANGED <<job, mem, sfeat, scs>>

Rotate(x) ==
  /\ Goto(x, "rotate", "store")
  /\ v' = [v EXCEPT ![x] = [p \in Pos |-> [j \in Lane |->
                               Rot([q \in Pos |-> v[x][q][j]], CsOf(x), p)]]]
  /\ UNCHANGED <<job, mem, sfeat, scs, k>>

Store(x) ==
  LET base == OutCell(launch, FeatAt(x, k[x]), MBase(x))
  IN  /\ NextPos(x, "store", "exit")
      /\ mem' = [a \in DOMAIN mem |-> IF a - base \in Lane THEN v[x][k[x]][a - base] ELSE mem[a]]
      /\ UNCHANGED <<job, sfeat, scs, v>>

ThreadStep(x) ==
  \/ Fill(x) \/ Return(x) \/ TakeLane(x) \/ Load(x) \/ Rotate(x) \/ Store(x)

AllExited == \A x \in Thread : pc[x] = "exit"

\* The stream starts the second kernel when the first is complete.
NextLaunch ==
  LET l == call[turn + 1]
  IN  /\ AllExited /\ turn < Len(call)
      /\ turn' = turn + 1
      /\ before' = mem
      /\ sfeat' = NoTable(l, Pos)
      /\ scs' = NoTable(l, Pair)
      /\ pc' = Entry(l)
      /\ k' = AllThreads(l, 0)
      /\ v' = AllThreads(l, <<>>)
      /\ UNCHANGED <<call, mem>>

Done == AllExited /\ turn = Len(call) /\ UNCHANGED vars

Next ==
  \/ \E x \in Thread : ThreadStep(x)
  \/ \E b \in Cta : Barrier(b)
  \/ NextLaunch
  \/ Done

Spec == Init /\ [][Next]_vars

-----------------------------------------------------------------------------
Working == {x \in Thread : pc[x] \in {"load", "rotate", "store"}}

\* The tables have a value for every word, the counters are positions.
TypeOK ==
  /\ call \in Calls /\ turn \in 1 .. Len(call)
  /\ \A b \in Cta, p \in Pos : sfeat[b][p] \in Feat \cup {Garbage}
  /\ pc \in [Thread -> {"fill", "sync", "body", "load", "rotate", "store", "exit"}]
  /\ k \in [Thread -> Pos]

\* No thread works with a table that is not filled: also the words that are
\* filled by threads which have no lane themselves are there.
TablesFilled ==
  \A x \in Working :
    /\ \A p \in Pos : FeatAt(x, p) = cyc_feat[CycleOf(x)][p]
    /\ CsOf(x) = cyc_cs[CycleOf(x)]

\* The addresses that x writes.
OutCells(x) ==
  {OutCell(launch, cyc_feat[CycleOf(x)][p], MBase(x)) + j : p \in Pos, j \in Lane}

\* Threads of all CTAs write disjoint lanes, inside the rows of the slab.
LanesOwned ==
  /\ \A x \in Working : MBase(x) + launch.COLS <= launch.Mcols
  /\ \A x, y \in Working : x # y => OutCells(x) \cap OutCells(y) = {}

\* What launch l makes of column m of position p of cycle c of memory `old`.
Rotated(l, old, c, p, m) ==
  Rot([q \in Pos |-> old[InCell(l, cyc_feat[c][q], m)]], cyc_cs[c], p)

\* The addresses of the slab that belong to a cycle.
Target(l) == {OutCell(l, cyc_feat[c][p], m) : c \in Cycles(l), p \in Pos, m \in Columns(l)}

\* `new` is `old` with every column of every cycle rotated once and stored in
\* its place, and nothing else written: neither a feature outside the cycles,
\* nor what lies beside the slab, nor a separate input.
IsRotated(l, old, new) ==
  /\ ~l.free_read =>
       \A c \in Cycles(l), p \in Pos, m \in Columns(l) :
         new[OutCell(l, cyc_feat[c][p], m)] = Rotated(l, old, c, p, m)
  /\ \A a \in DOMAIN Content \ Target(l) : new[a] = old[a]

\* At the end of a kernel memory is rotated, and if the kernel is the second of
\* the call it started from what the first has made of the original.
ResultRotated ==
  AllExited => /\ IsRotated(launch, before, mem)
               /\ IF turn = 1 THEN before = Content
                  ELSE IsRotated(call[1], Content, before)
=============================================================================
