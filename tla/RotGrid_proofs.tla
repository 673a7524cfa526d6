--------------------------- MODULE RotGrid_proofs ---------------------------
(***************************************************************************)
(* The invariants of RotGrid, proved for every legal call of every         *)
(* kernel, every number of threads and every table of disjoint cycles.     *)
(***************************************************************************)
EXTENDS RotGrid, DivisionLemmas

Cycle  == Cycles(launch)
Column == Columns(launch)
Stage  == {"load", "rotate", "store"}
PC     == {"fill", "sync", "body", "exit"} \cup Stage

\* The thread whose lane of cycle c holds column m.
Owner(c, m) ==
  <<<<m \div (THREADS * launch.COLS), c>>, (m % (THREADS * launch.COLS)) \div launch.COLS>>

\* Thread x has stored position p, so position p of cycle c is in column m.
Stored(x, p)     == pc[x] = "exit" \/ (pc[x] = "store" /\ p < k[x])
Written(c, p, m) == Stored(Owner(c, m), p)

\* The domains of the functions, which TypeOK leaves open.
ShapeInv ==
  /\ sfeat \in [Cta -> [Pos -> Feat \cup {Garbage}]]
  /\ scs = [b \in Cta |-> [i \in Pair |-> scs[b][i]]]
  /\ v = [x \in Thread |-> v[x]]
  /\ mem = [a \in DOMAIN Content |-> mem[a]]
  /\ \A x \in Thread : pc[x] \in Stage =>
       /\ v[x] = [p \in Pos |-> v[x][p]]
       /\ MBase(x) < launch.Mcols
  /\ \A x \in Thread : pc[x] \notin {"load", "store"} => k[x] = 0

\* A thread past its part of the filling has put its words in place, and one
\* past the barrier knows that all its peers have.
FilledInv ==
  launch.tables = "shared" =>
    \A x \in Thread :
      /\ pc[x] # "fill" =>
           /\ x[2] \in Pos => sfeat[x[1]][x[2]] = cyc_feat[CycleOf(x)][x[2]]
           /\ x[2] \in Pair => scs[x[1]][x[2]] = cyc_cs[CycleOf(x)][x[2]]
      /\ pc[x] \notin {"fill", "sync"} => \A y \in Thread : y[1] = x[1] => pc[y] # "fill"

\* The registers hold the original lane until the rotation, the rotated one after.
RegisterInv ==
  \A x \in Thread, q \in Pos, j \in Lane :
    /\ (pc[x] = "load" /\ q < k[x]) \/ pc[x] = "rotate" =>
         v[x][q][j] = before[InCell(launch, cyc_feat[CycleOf(x)][q], MBase(x) + j)]
    /\ pc[x] = "store" => v[x][q][j] = Rotated(launch, before, CycleOf(x), q, MBase(x) + j)

\* Every element of the slab is as it was or rotated, as the progress of its
\* owner says.
SlabInv ==
  \A c \in Cycle, p \in Pos, m \in Column :
    mem[OutCell(launch, cyc_feat[c][p], m)] =
      IF Written(c, p, m) THEN Rotated(launch, before, c, p, m) ELSE before[OutCell(launch, cyc_feat[c][p], m)]

\* Nothing else is written, not even by the kernel that reads the wrong lanes.
OutsideInv == \A a \in DOMAIN Content \ Target(launch) : mem[a] = before[a]

\* The second kernel was started on what the first has made of the original.
JobInv == IF turn = 1 THEN before = Content ELSE IsRotated(call[1], Content, before)

CtaInv    == launch \in Launches /\ TypeOK /\ ShapeInv /\ FilledInv
KernelInv == CtaInv /\ OutsideInv /\ (~launch.free_read => RegisterInv /\ SlabInv)
IInv      == JobInv /\ KernelInv

\* A step while a kernel runs, and the state in which one is started.
KernelStep ==
  \/ \E x \in Thread : ThreadStep(x)
  \/ \E b \in Cta : Barrier(b)
  \/ UNCHANGED vars

Fresh ==
  /\ call \in Calls /\ turn \in 1 .. Len(call)
  /\ mem = before
  /\ mem = [a \in DOMAIN Content |-> mem[a]]
  /\ sfeat = NoTable(launch, Pos)
  /\ scs = NoTable(launch, Pair)
  /\ pc = Entry(launch)
  /\ k = AllThreads(launch, 0)
  /\ v = AllThreads(launch, <<>>)

-----------------------------------------------------------------------------
\* The parameters are numbers of the right kind.
LEMMA Sizes ==
  ASSUME launch \in Launches
  PROVE  /\ THREADS \in Nat \ {0} /\ LMAX \in Nat \ {0} /\ NPAIR \in Nat
         /\ LMAX <= THREADS /\ NPAIR <= THREADS
         /\ NFEAT \in Nat /\ NCYC \in Nat
         /\ launch.COLS \in Nat \ {0} /\ launch.Mcols \in Nat
         /\ launch.first \in Nat /\ launch.n_cyc \in Nat
         /\ launch.first + launch.n_cyc <= NCYC /\ launch.grid_x \in Nat
         /\ launch.ld_in \in Nat /\ launch.Mcols <= launch.ld_in
         /\ launch.ld_out \in Nat /\ launch.Mcols <= launch.ld_out
         /\ launch.out \in Nat
         /\ THREADS * launch.COLS \in Nat \ {0}
<1>1. /\ THREADS \in Nat \ {0} /\ LMAX \in Nat \ {0} /\ NPAIR \in Nat
      /\ LMAX <= THREADS /\ NPAIR <= THREADS /\ NFEAT \in Nat /\ NCYC \in Nat
  BY TableAssumption
<1>2. /\ launch.COLS \in Nat \ {0} /\ launch.Mcols \in Nat
      /\ launch.first \in Nat /\ launch.n_cyc \in Nat
      /\ launch.first + launch.n_cyc <= NCYC /\ launch.grid_x \in Nat
      /\ launch.ld_in \in Nat /\ launch.Mcols <= launch.ld_in
      /\ launch.ld_out \in Nat /\ launch.Mcols <= launch.ld_out
      /\ launch.out \in Nat
  BY <1>1, LaunchAssumption
<1>3. PICK c \in Nat \ {0} : c = launch.COLS
  BY <1>2
<1>4. 1 * c <= THREADS * c /\ THREADS * c \in Int
  BY <1>1, <1>3, MulMono
<1> QED
  BY <1>1, <1>2, <1>3, <1>4

LEMMA ThreadType ==
  ASSUME launch \in Launches, NEW x \in Thread
  PROVE  /\ x[1] \in Cta /\ x[2] \in Tid
         /\ CycleOf(x) \in Cycle /\ CycleOf(x) \in Cyc
         /\ x[1][1] \in Nat /\ x[1][1] < launch.grid_x /\ x[1][2] = CycleOf(x)
         /\ x = <<x[1], x[2]>> /\ x[1] = <<x[1][1], x[1][2]>>
  BY Sizes DEF Thread, Threads, Cta, Ctas, CycleOf, Cycle, Cycles, Cyc

LEMMA CycleType == launch \in Launches => Cycle \subseteq Cyc
  BY Sizes DEF Cycle, Cycles, Cyc

\* A lane that starts inside the row ends inside it.
LEMMA LaneInRow ==
  ASSUME launch \in Launches, NEW x \in Thread, MBase(x) < launch.Mcols
  PROVE  /\ MBase(x) \in Nat
         /\ MBase(x) + launch.COLS <= launch.Mcols
         /\ \A j \in Lane : MBase(x) + j \in Column
<1>1. PICK cols \in Nat \ {0}, M \in Nat : cols = launch.COLS /\ M = launch.Mcols
  BY Sizes
<1>2. M % cols = 0
  BY <1>1, LaunchAssumption
<1>3. PICK lanes \in Nat : M = lanes * cols
  <2>1. PICK q \in Nat, r \in 0 .. cols - 1 : M = q * cols + r /\ r = M % cols
    BY DivMod
  <2>2. M = q * cols
    BY <1>2, <2>1
  <2> QED
    BY <2>2
<1>4. PICK n \in Nat : n = x[1][1] * THREADS + x[2]
  <2>1. x[1][1] \in Nat /\ x[2] \in Nat /\ THREADS \in Nat
    BY ThreadType, Sizes DEF Tid
  <2>2. 0 * THREADS <= x[1][1] * THREADS
    BY <2>1, MulMono
  <2>3. x[1][1] * THREADS + x[2] \in Nat
    BY <2>1, <2>2
  <2> QED
    BY <2>3
<1>5. MBase(x) = n * cols
  BY <1>1, <1>4 DEF MBase
<1>6. n < lanes
  <2>1. SUFFICES ASSUME lanes <= n PROVE FALSE
    BY <1>3, <1>4
  <2>2. lanes * cols <= n * cols
    BY <1>1, <2>1, MulMono
  <2>3. n * cols < M
    BY <1>1, <1>5
  <2> QED
    BY <1>1, <1>3, <2>2, <2>3
<1>7. (n + 1) * cols <= lanes * cols
  BY <1>1, <1>3, <1>4, <1>6, MulMono
<1>8. 0 * cols <= n * cols
  BY <1>1, <1>4, MulMono
<1>9. n * cols \in Nat /\ n * cols + cols <= M
  BY <1>1, <1>3, <1>4, <1>7, <1>8
<1> QED
  BY <1>1, <1>5, <1>9 DEF Lane, Column, Columns

\* A column of a lane belongs to the thread of that lane.
LEMMA OwnerOfLane ==
  ASSUME launch \in Launches, NEW x \in Thread, NEW j \in Lane
  PROVE  Owner(CycleOf(x), MBase(x) + j) = x
<1>1. PICK cols \in Nat \ {0}, tile \in Nat \ {0} :
        cols = launch.COLS /\ tile = THREADS * launch.COLS
  BY Sizes
<1>2. PICK bx \in Nat, i \in 0 .. THREADS - 1 : bx = x[1][1] /\ i = x[2]
  BY ThreadType DEF Tid
<1>3. THREADS \in Nat \ {0} /\ j \in 0 .. cols - 1 /\ tile = THREADS * cols
  BY <1>1, Sizes DEF Lane
<1>4. PICK r \in Int : r = i * cols + j
  BY <1>1, <1>2, <1>3
<1>5. r \in 0 .. tile - 1
  <2>1. (i + 1) * cols <= THREADS * cols
    BY <1>1, <1>2, <1>3, MulMono
  <2>2. 0 * cols <= i * cols
    BY <1>1, <1>2, MulMono
  <2> QED
    BY <1>1, <1>2, <1>3, <1>4, <2>1, <2>2
<1>6. PICK m \in Int : m = MBase(x) + j /\ m = bx * tile + r
  <2>1. (bx * THREADS + i) * cols + j = bx * tile + r
    BY <1>1, <1>2, <1>3, <1>4
  <2>2. MBase(x) = (bx * THREADS + i) * cols
    BY <1>1, <1>2 DEF MBase
  <2>3. bx * tile + r \in Int
    BY <1>1, <1>2, <1>4
  <2> QED
    BY <2>1, <2>2, <2>3
<1>7. m \div tile = bx /\ m % tile = r
  <2>1. bx \in Int /\ r \in 0 .. tile - 1 /\ m = bx * tile + r
    BY <1>5, <1>6
  <2> QED
    BY <2>1, DivModUnique
<1>8. r \div cols = i
  <2>1. i \in Int /\ j \in 0 .. cols - 1 /\ r = i * cols + j
    BY <1>3, <1>4
  <2> QED
    BY <2>1, DivModUnique
<1>9. x = <<<<bx, CycleOf(x)>>, i>>
  BY <1>2, ThreadType
<1> QED
  BY <1>1, <1>6, <1>7, <1>8, <1>9 DEF Owner

\* The grid is large enough: every column has an owner, with a lane.
LEMMA OwnerHasLane ==
  ASSUME launch \in Launches, NEW c \in Cycle, NEW m \in Column
  PROVE  /\ Owner(c, m) \in Thread
         /\ CycleOf(Owner(c, m)) = c
         /\ m - MBase(Owner(c, m)) \in Lane
         /\ MBase(Owner(c, m)) < launch.Mcols
<1>1. PICK cols \in Nat \ {0}, tile \in Nat \ {0}, M \in Nat, grid \in Nat :
        /\ cols = launch.COLS /\ tile = THREADS * launch.COLS
        /\ M = launch.Mcols /\ grid = launch.grid_x
  BY Sizes
<1>2. m \in Nat /\ m < M /\ THREADS \in Nat \ {0} /\ tile = THREADS * cols
  BY <1>1, Sizes DEF Column, Columns
<1>3. PICK bx \in Nat, r \in 0 .. tile - 1 : /\ m = bx * tile + r
                                            /\ bx = m \div tile /\ r = m % tile
  BY <1>2, DivMod
<1>4. PICK i \in Nat, j \in 0 .. cols - 1 : r = i * cols + j /\ i = r \div cols
  <2>1. r \in Nat
    OBVIOUS
  <2> QED
    BY <2>1, DivMod
<1>5. i < THREADS
  <2>1. SUFFICES ASSUME THREADS <= i PROVE FALSE
    BY <1>2
  <2>2. THREADS * cols <= i * cols
    BY <1>2, <2>1, MulMono
  <2>3. tile <= r
    BY <1>2, <1>4, <2>2
  <2> QED
    BY <2>3
<1>6. bx < grid
  <2>1. (M + tile - 1) \div tile <= grid
    BY <1>1, LaunchAssumption DEF Tiles
  <2>2. m + tile \in Nat /\ M + tile - 1 \in Nat /\ m + tile <= M + tile - 1
    BY <1>2
  <2>3. (m + tile) \div tile <= (M + tile - 1) \div tile
    BY <2>2, DivMono
  <2>4. (m + tile) \div tile = bx + 1
    <3>1. m = bx * tile + r /\ m \in Int
      BY <1>2, <1>3
    <3>2. (bx + 1) * tile = bx * tile + tile
      OBVIOUS
    <3>3. PICK a \in Int, b \in Int : a = m + tile /\ b = bx + 1
      BY <3>1
    <3>4. a = b * tile + r
      BY <3>1, <3>2, <3>3
    <3>5. a \div tile = b
      BY <3>4, DivModUnique
    <3> QED
      BY <3>3, <3>5
  <2>5. PICK q \in Nat : q = (M + tile - 1) \div tile
    BY <2>2, DivMod
  <2>6. bx + 1 <= q /\ q <= grid
    BY <2>1, <2>3, <2>4, <2>5
  <2> QED
    BY <2>6
<1>7. PICK x : x = <<<<bx, c>>, i>>
  OBVIOUS
<1>8. Owner(c, m) = x
  BY <1>1, <1>3, <1>4, <1>7 DEF Owner
<1>9. x \in Thread /\ CycleOf(x) = c
  <2>1. i \in Tid /\ bx \in 0 .. launch.grid_x - 1
    BY <1>1, <1>2, <1>5, <1>6 DEF Tid
  <2> QED
    BY <1>7, <2>1 DEF Thread, Threads, Cta, Ctas, Cycle, CycleOf
<1>10. m = MBase(x) + j /\ MBase(x) \in Nat
  <2>1. PICK n \in Nat : n = bx * THREADS + i
    <3>1. 0 * THREADS <= bx * THREADS
      BY <1>2, MulMono
    <3>2. bx * THREADS + i \in Nat
      BY <1>2, <3>1
    <3> QED
      BY <3>2
  <2>2. n * cols + j = m
    <3>1. n * cols = bx * (THREADS * cols) + i * cols
      BY <1>2, <2>1
    <3>2. n * cols = bx * tile + i * cols
      BY <1>2, <3>1
    <3>3. m = bx * tile + (i * cols + j)
      BY <1>3, <1>4
    <3>4. PICK a \in Int, b \in Int : a = bx * tile /\ b = i * cols
      OBVIOUS
    <3> QED
      BY <3>2, <3>3, <3>4
  <2>3. MBase(x) = n * cols
    BY <1>1, <1>7, <2>1 DEF MBase
  <2>4. 0 * cols <= n * cols
    BY MulMono
  <2>5. n * cols \in Nat
    BY <2>4
  <2> QED
    BY <2>2, <2>3, <2>5
<1>11. MBase(x) < M /\ m - MBase(x) = j
  <2>1. PICK b \in Nat : b = MBase(x)
    BY <1>10
  <2>2. b < M /\ m - b = j
    BY <1>2, <1>10, <2>1
  <2> QED
    BY <2>1, <2>2
<1> QED
  BY <1>1, <1>8, <1>9, <1>11 DEF Lane

-----------------------------------------------------------------------------
\* An address at distance j from column b of row g of the slab is column
\* b + j of row g, as long as that is in the row: rows do not overlap.
LEMMA OutUnique ==
  ASSUME launch \in Launches, NEW f \in Feat, NEW m \in Column, NEW g \in Feat,
         NEW b \in Int, NEW j \in Int, b + j \in Column,
         OutCell(launch, f, m) - OutCell(launch, g, b) = j
  PROVE  f = g /\ m = b + j
<1>1. PICK ld \in Nat, out \in Nat, M \in Nat :
        ld = launch.ld_out /\ out = launch.out /\ M = launch.Mcols /\ M <= ld
  BY Sizes
<1>2. m \in 0 .. M - 1 /\ b + j \in 0 .. M - 1
  BY <1>1 DEF Column, Columns
<1>3. ld \in Nat \ {0} /\ m \in 0 .. ld - 1 /\ b + j \in 0 .. ld - 1
  BY <1>1, <1>2
<1>4. f \in Int /\ g \in Int /\ f * ld \in Int /\ g * ld \in Int
  BY <1>1 DEF Feat
<1>5. f * ld + m = g * ld + (b + j)
  <2>1. (out + f * ld + m) - (out + g * ld + b) = j
    BY <1>1 DEF OutCell
  <2> QED
    BY <1>3, <1>4, <2>1
<1> QED
  BY <1>3, <1>4, <1>5, TwoDigits

\* The same as addition: the element at b + j, reached from the row's element b.
LEMMA OutOffset ==
  ASSUME launch \in Launches, NEW g \in Feat, NEW b \in Int, NEW j \in Int
  PROVE  /\ OutCell(launch, g, b) + j = OutCell(launch, g, b + j) /\ OutCell(launch, g, b) \in Int
         /\ InCell(launch, g, b) + j = InCell(launch, g, b + j)
<1>1. PICK ld \in Nat, out \in Nat, ldi \in Nat :
        ld = launch.ld_out /\ out = launch.out /\ ldi = launch.ld_in
  BY Sizes
<1>2. g * ld \in Int /\ g * ldi \in Int
  BY <1>1 DEF Feat
<1>3. /\ (out + g * ld + b) + j = out + g * ld + (b + j) /\ out + g * ld + b \in Int
      /\ (g * ldi + b) + j = g * ldi + (b + j)
  BY <1>1, <1>2
<1> QED
  BY <1>1, <1>3 DEF OutCell, InCell

\* The matrices are allocated.
LEMMA CellType ==
  ASSUME launch \in Launches, NEW f \in Feat, NEW m \in Column
  PROVE  OutCell(launch, f, m) \in DOMAIN Content /\ InCell(launch, f, m) \in DOMAIN Content
  BY LaunchAssumption DEF OutCell, InCell, Column, Columns

\* The input is the slab itself, or does not touch it.
LEMMA InputApart ==
  ASSUME launch \in Launches, NEW f \in Feat, NEW m \in Column
  PROVE  InCell(launch, f, m) = OutCell(launch, f, m) \/ InCell(launch, f, m) \notin Target(launch)
<1>1. CASE launch.out = 0 /\ launch.ld_in = launch.ld_out
  <2>1. PICK ld \in Nat : ld = launch.ld_in
    BY Sizes
  <2>2. f * ld \in Int /\ m \in Int
    BY <2>1 DEF Feat, Column, Columns
  <2>3. 0 + f * ld + m = f * ld + m
    BY <2>2
  <2> QED
    BY <1>1, <2>1, <2>3 DEF InCell, OutCell
<1>2. CASE NFEAT * launch.ld_in <= launch.out
  <2>1. PICK ld \in Nat, out \in Nat, M \in Nat, ldo \in Nat :
          /\ ld = launch.ld_in /\ out = launch.out /\ M = launch.Mcols /\ M <= ld
          /\ ldo = launch.ld_out
    BY Sizes
  <2>2. f \in Nat /\ f + 1 <= NFEAT /\ NFEAT \in Nat /\ m \in Nat /\ m < M
    BY <2>1, Sizes DEF Feat, Column, Columns
  <2>3. (f + 1) * ld <= NFEAT * ld
    BY <2>1, <2>2, MulMono
  <2>4. f * ld + m < out
    <3>1. f * ld \in Int /\ (f + 1) * ld = f * ld + ld /\ NFEAT * ld <= out /\ NFEAT * ld \in Int
      BY <1>2, <2>1, <2>2
    <3> QED
      BY <2>1, <2>2, <2>3, <3>1
  <2>5. ASSUME NEW c \in Cycle, NEW p \in Pos, NEW n \in Column
        PROVE  InCell(launch, f, m) # OutCell(launch, cyc_feat[c][p], n)
    <3>1. PICK g \in Nat : g = cyc_feat[c][p]
      BY TableAssumption, CycleType DEF Feat
    <3>2. 0 * ldo <= g * ldo /\ g * ldo \in Int /\ n \in Nat
      BY <2>1, <3>1, MulMono DEF Column, Columns
    <3>3. out <= out + g * ldo + n /\ f * ld + m \in Int
      BY <2>1, <2>2, <3>2
    <3>4. f * ld + m # out + g * ldo + n
      BY <2>1, <2>4, <3>2, <3>3
    <3> QED
      BY <2>1, <3>1, <3>4 DEF InCell, OutCell
  <2> QED
    BY <2>5 DEF Target, Cycle, Column
<1> QED
  BY <1>1, <1>2, LaunchAssumption

-----------------------------------------------------------------------------
LEMMA LaunchType ==
  ASSUME call \in Calls, turn \in 1 .. Len(call)
  PROVE  launch \in Launches
  BY DEF launch, Launches

LEMMA NextKernel == [Next]_vars => KernelStep \/ NextLaunch
  BY DEF Next, KernelStep, Done

\* The cycles of a launch do not share a feature.
LEMMA CyclesApart ==
  ASSUME launch \in Launches, NEW c \in Cycle, NEW d \in Cycle, NEW p \in Pos, NEW q \in Pos,
         cyc_feat[c][p] = cyc_feat[d][q]
  PROVE  c = d /\ p = q
  BY LaunchAssumption DEF Cycle

\* The launch does not change while it runs, nor what is defined by it.
LEMMA Frozen ==
  ASSUME KernelStep
  PROVE  job' = job /\ launch' = launch /\ before' = before /\ call' = call /\ turn' = turn
<1>1. job' = job
  BY DEF KernelStep, ThreadStep, vars, Fill, Return, TakeLane, Load, Rotate, Store, Barrier
<1> QED
  BY <1>1 DEF job, launch

LEMMA FrozenOps ==
  ASSUME launch' = launch /\ before' = before
  PROVE  /\ Cta' = Cta /\ Thread' = Thread /\ Cycle' = Cycle
         /\ Lane' = Lane /\ Column' = Column /\ Target(launch)' = Target(launch)
         /\ \A x : MBase(x)' = MBase(x)
         /\ \A f, m : InCell(launch, f, m)' = InCell(launch, f, m) /\ OutCell(launch, f, m)' = OutCell(launch, f, m)
         /\ \A c, m : Owner(c, m)' = Owner(c, m)
         /\ \A c, p, m : Rotated(launch, before, c, p, m)' = Rotated(launch, before, c, p, m)
<1>1. Cycle' = Cycle /\ Lane' = Lane /\ Column' = Column
  BY DEF Cycle, Cycles, Lane, Column, Columns
<1>2. Cta' = Cta
  BY <1>1 DEF Cta, Ctas
<1>3. Thread' = Thread
  BY <1>2 DEF Thread, Threads
<1>4. /\ \A x : MBase(x)' = MBase(x)
      /\ \A f, m : InCell(launch, f, m)' = InCell(launch, f, m) /\ OutCell(launch, f, m)' = OutCell(launch, f, m)
      /\ \A c, m : Owner(c, m)' = Owner(c, m)
  BY DEF MBase, InCell, OutCell, Owner
<1>5. \A c, p, m : Rotated(launch, before, c, p, m)' = Rotated(launch, before, c, p, m)
  BY DEF Rotated, InCell
<1>6. Target(launch)' = Target(launch)
  BY DEF Target
<1> QED
  BY <1>1, <1>2, <1>3, <1>4, <1>5, <1>6

LEMMA PosType == \A p \in Pos : p \in Nat /\ p < LMAX
  BY TableAssumption DEF Pos

\* What advancing a loop does.
LEMMA NextPosStep ==
  ASSUME TypeOK, NEW x \in Thread, NEW loop \in PC, NEW next \in PC, NextPos(x, loop, next)
  PROVE  /\ pc[x] = loop
         /\ pc' \in [Thread -> PC] /\ k' \in [Thread -> Pos]
         /\ \A y \in Thread \ {x} : pc'[y] = pc[y] /\ k'[y] = k[y]
         /\ \/ pc'[x] = loop /\ k'[x] = k[x] + 1
            \/ pc'[x] = next /\ k'[x] = 0 /\ k[x] = LMAX - 1
<1>1. /\ pc \in [Thread -> PC] /\ k \in [Thread -> Pos]
      /\ k[x] \in Nat /\ k[x] < LMAX /\ LMAX \in Nat \ {0}
  BY PosType, TableAssumption DEF TypeOK, PC, Stage
<1>2. CASE k[x] + 1 < LMAX
  <2>1. pc[x] = loop /\ pc' = [pc EXCEPT ![x] = loop] /\ k' = [k EXCEPT ![x] = k[x] + 1]
    BY <1>2 DEF NextPos, Goto
  <2>2. k[x] + 1 \in Pos
    BY <1>1, <1>2 DEF Pos
  <2> QED
    BY <1>1, <2>1, <2>2
<1>3. CASE ~(k[x] + 1 < LMAX)
  <2>1. pc[x] = loop /\ pc' = [pc EXCEPT ![x] = next] /\ k' = [k EXCEPT ![x] = 0]
    BY <1>3 DEF NextPos, Goto
  <2>2. 0 \in Pos /\ k[x] = LMAX - 1
    BY <1>1, <1>3 DEF Pos
  <2> QED
    BY <1>1, <2>1, <2>2
<1> QED
  BY <1>2, <1>3

LEMMA CtaInvFresh == Fresh => CtaInv
<1> SUFFICES ASSUME Fresh PROVE CtaInv
  OBVIOUS
<1>1. launch \in Launches /\ 0 \in Pos
  BY LaunchType, TableAssumption DEF Fresh, Pos
<1>2. /\ sfeat = [b \in Cta |-> [p \in Pos |-> Garbage]]
      /\ scs = [b \in Cta |-> [i \in Pair |-> Garbage]]
      /\ pc = [x \in Thread |-> IF launch.tables = "shared" THEN "fill" ELSE "body"]
      /\ k = [x \in Thread |-> 0]
      /\ v = [x \in Thread |-> <<>>]
      /\ call \in Calls /\ turn \in 1 .. Len(call)
      /\ mem = [a \in DOMAIN Content |-> mem[a]]
  BY DEF Fresh, NoTable, Entry, AllThreads, Cta, Thread
<1>3. TypeOK
  BY <1>1, <1>2 DEF TypeOK
<1>4. ShapeInv
  <2>1. \A x \in Thread : pc[x] \notin Stage /\ k[x] = 0
    BY <1>2 DEF Stage
  <2> QED
    BY <1>2, <2>1 DEF ShapeInv
<1>5. FilledInv
  BY <1>2 DEF FilledInv
<1> QED
  BY <1>1, <1>3, <1>4, <1>5 DEF CtaInv

LEMMA FillType ==
  ASSUME CtaInv, NEW x \in Thread, Fill(x)
  PROVE  /\ sfeat' \in [Cta -> [Pos -> Feat \cup {Garbage}]]
         /\ scs' = [b \in Cta |-> [i \in Pair |-> scs'[b][i]]]
         /\ \A b \in Cta, p \in Pos :
              sfeat'[b][p] = IF b = x[1] /\ p = x[2] THEN cyc_feat[CycleOf(x)][p] ELSE sfeat[b][p]
         /\ \A b \in Cta, i \in Pair :
              scs'[b][i] = IF b = x[1] /\ i = x[2] THEN cyc_cs[CycleOf(x)][i] ELSE scs[b][i]
<1>0. /\ launch \in Launches
      /\ sfeat \in [Cta -> [Pos -> Feat \cup {Garbage}]]
      /\ scs = [b \in Cta |-> [i \in Pair |-> scs[b][i]]]
  BY DEF CtaInv, TypeOK, ShapeInv
<1>1. x[1] \in Cta /\ x[1][2] = CycleOf(x) /\ CycleOf(x) \in Cyc
  BY <1>0, ThreadType
<1>2. \A p \in Pos : cyc_feat[CycleOf(x)][p] \in Feat
  BY <1>1, TableAssumption
<1>3. /\ sfeat' = IF x[2] \in Pos
                  THEN [sfeat EXCEPT ![x[1]][x[2]] = cyc_feat[CycleOf(x)][x[2]]] ELSE sfeat
      /\ scs' = IF x[2] \in Pair
                THEN [scs EXCEPT ![x[1]][x[2]] = cyc_cs[CycleOf(x)][x[2]]] ELSE scs
  BY <1>1 DEF Fill
<1>4. /\ sfeat' \in [Cta -> [Pos -> Feat \cup {Garbage}]]
      /\ \A b \in Cta, p \in Pos :
           sfeat'[b][p] = IF b = x[1] /\ p = x[2] THEN cyc_feat[CycleOf(x)][p] ELSE sfeat[b][p]
  BY <1>0, <1>1, <1>2, <1>3
<1>5. /\ scs' = [b \in Cta |-> [i \in Pair |-> scs'[b][i]]]
      /\ \A b \in Cta, i \in Pair :
           scs'[b][i] = IF b = x[1] /\ i = x[2] THEN cyc_cs[CycleOf(x)][i] ELSE scs[b][i]
  BY <1>0, <1>1, <1>3
<1> QED
  BY <1>4, <1>5

LEMMA TypeStep == CtaInv /\ KernelStep => TypeOK'
<1> SUFFICES ASSUME CtaInv, KernelStep PROVE TypeOK'
  OBVIOUS
<1>0. /\ launch' = launch /\ before' = before /\ call' = call /\ turn' = turn
      /\ launch \in Launches /\ call \in Calls /\ turn \in 1 .. Len(call)
      /\ sfeat \in [Cta -> [Pos -> Feat \cup {Garbage}]]
      /\ pc \in [Thread -> PC] /\ k \in [Thread -> Pos]
  BY Frozen DEF CtaInv, TypeOK, ShapeInv, PC, Stage
<1>a. Cta' = Cta /\ Thread' = Thread
  BY <1>0, FrozenOps
<1> DEFINE Typed == /\ sfeat' \in [Cta -> [Pos -> Feat \cup {Garbage}]]
                    /\ pc' \in [Thread -> PC] /\ k' \in [Thread -> Pos]
<1>b. Typed => TypeOK'
  BY <1>0, <1>a DEF TypeOK, PC, Stage
<1>1. ASSUME NEW x \in Thread, Fill(x) PROVE Typed
  <2>1. pc' = [pc EXCEPT ![x] = "sync"] /\ k' = k
    BY <1>1 DEF Fill, Goto
  <2> QED
    BY <1>0, <1>1, <2>1, FillType DEF PC
<1>2. ASSUME NEW x \in Thread, Return(x) PROVE Typed
  BY <1>0, <1>2 DEF Return, Goto, PC
<1>3. ASSUME NEW x \in Thread, TakeLane(x) PROVE Typed
  BY <1>0, <1>3 DEF TakeLane, Goto, PC, Stage
<1>4. ASSUME NEW x \in Thread, Load(x) PROVE Typed
  <2>1. sfeat' = sfeat /\ NextPos(x, "load", "rotate")
    BY <1>4 DEF Load
  <2> QED
    BY <1>0, <2>1, NextPosStep DEF CtaInv, PC, Stage
<1>5. ASSUME NEW x \in Thread, Rotate(x) PROVE Typed
  BY <1>0, <1>5 DEF Rotate, Goto, PC, Stage
<1>6. ASSUME NEW x \in Thread, Store(x) PROVE Typed
  <2>1. sfeat' = sfeat /\ NextPos(x, "store", "exit")
    BY <1>6 DEF Store
  <2> QED
    BY <1>0, <2>1, NextPosStep DEF CtaInv, PC, Stage
<1>7. ASSUME NEW b \in Cta, Barrier(b) PROVE Typed
  BY <1>0, <1>7 DEF Barrier, PC, Stage
<1>8. ASSUME UNCHANGED vars PROVE Typed
  BY <1>0, <1>8 DEF vars
<1> HIDE DEF Typed
<1> QED
  BY <1>b, <1>1, <1>2, <1>3, <1>4, <1>5, <1>6, <1>7, <1>8 DEF KernelStep, ThreadStep

\* When a barrier opens, the threads of the CTA wait at it or have returned.
LEMMA BarrierEffect ==
  ASSUME CtaInv, NEW b \in Cta, Barrier(b)
  PROVE  /\ UNCHANGED <<mem, sfeat, scs, k, v>>
         /\ \A y \in Thread : y[1] = b => pc[y] \in {"sync", "exit"}
         /\ \A y \in Thread : pc'[y] = IF y[1] = b /\ pc[y] = "sync" THEN "body" ELSE pc[y]
<1>1. launch \in Launches
  BY DEF CtaInv, TypeOK
<1>2. \A y \in Thread : y \in {b} \X Tid <=> y[1] = b
  BY <1>1, ThreadType
<1> QED
  BY <1>2 DEF Barrier

LEMMA ShapeStep == CtaInv /\ KernelStep => ShapeInv'
<1> SUFFICES ASSUME CtaInv, KernelStep PROVE ShapeInv'
  OBVIOUS
<1>0. /\ launch' = launch /\ before' = before /\ launch \in Launches /\ ShapeInv /\ TypeOK
      /\ sfeat' \in [Cta -> [Pos -> Feat \cup {Garbage}]]
      /\ pc \in [Thread -> PC] /\ k \in [Thread -> Pos]
  <2>1. launch' = launch /\ before' = before /\ launch \in Launches /\ ShapeInv /\ TypeOK
    BY Frozen DEF CtaInv, TypeOK
  <2>2. sfeat' \in [Cta -> [Pos -> Feat \cup {Garbage}]]
    <3>1. sfeat \in [Cta -> [Pos -> Feat \cup {Garbage}]]
      BY <2>1 DEF ShapeInv
    <3>2. ASSUME NEW x \in Thread, Fill(x) PROVE sfeat' \in [Cta -> [Pos -> Feat \cup {Garbage}]]
      BY <3>2, FillType
    <3>3. sfeat' = sfeat \/ \E x \in Thread : Fill(x)
      BY DEF KernelStep, ThreadStep, vars, Return, TakeLane, Load, Rotate, Store, Barrier
    <3> QED
      BY <3>1, <3>2, <3>3
  <2> QED
    BY <2>1, <2>2 DEF TypeOK, PC, Stage
<1>a. Cta' = Cta /\ Thread' = Thread /\ \A x : MBase(x)' = MBase(x)
  BY <1>0, FrozenOps
<1> DEFINE ScsShape == scs' = [b \in Cta |-> [i \in Pair |-> scs'[b][i]]]
           VShape == v' = [x \in Thread |-> v'[x]]
           MemShape == mem' = [a \in DOMAIN Content |-> mem'[a]]
           Lanes == \A x \in Thread : pc'[x] \in Stage =>
                      v'[x] = [p \in Pos |-> v'[x][p]] /\ MBase(x) < launch.Mcols
           Counters == \A x \in Thread : pc'[x] \notin {"load", "store"} => k'[x] = 0
           Shaped == ScsShape /\ VShape /\ MemShape /\ Lanes /\ Counters
<1>b. Shaped => ShapeInv'
  BY <1>0, <1>a DEF ShapeInv
<1>c. /\ scs = [b \in Cta |-> [i \in Pair |-> scs[b][i]]]
      /\ v = [x \in Thread |-> v[x]]
      /\ mem = [a \in DOMAIN Content |-> mem[a]]
      /\ \A x \in Thread : pc[x] \in Stage =>
           v[x] = [p \in Pos |-> v[x][p]] /\ MBase(x) < launch.Mcols
      /\ \A x \in Thread : pc[x] \notin {"load", "store"} => k[x] = 0
  BY <1>0 DEF ShapeInv
<1>1. ASSUME NEW x \in Thread, Fill(x) PROVE Shaped
  <2>1. pc' = [pc EXCEPT ![x] = "sync"] /\ pc[x] = "fill" /\ UNCHANGED <<mem, k, v>>
    BY <1>1 DEF Fill, Goto
  <2>2. ScsShape
    BY <1>1, FillType
  <2> QED
    BY <1>0, <1>c, <2>1, <2>2 DEF Stage
<1>2. ASSUME NEW x \in Thread, Return(x) PROVE Shaped
  BY <1>0, <1>c, <1>2 DEF Return, Goto, Stage
<1>3. ASSUME NEW x \in Thread, TakeLane(x) PROVE Shaped
  BY <1>0, <1>c, <1>3 DEF TakeLane, Goto, Stage
<1>4. ASSUME NEW x \in Thread, Load(x) PROVE Shaped
  <2>1. /\ NextPos(x, "load", "rotate") /\ UNCHANGED <<scs, mem>>
        /\ \E lane : v' = [v EXCEPT ![x][k[x]] = lane]
    BY <1>4 DEF Load
  <2>2. /\ pc[x] = "load"
        /\ \A y \in Thread \ {x} : pc'[y] = pc[y] /\ k'[y] = k[y]
        /\ pc'[x] = "load" \/ (pc'[x] = "rotate" /\ k'[x] = 0)
    BY <1>0, <2>1, NextPosStep DEF PC, Stage
  <2>3. VShape /\ (\A y \in Thread \ {x} : v'[y] = v[y])
    BY <1>c, <2>1
  <2>4. v'[x] = [p \in Pos |-> v'[x][p]]
    BY <1>c, <2>1, <2>2 DEF Stage
  <2>5. ScsShape /\ MemShape
    BY <1>c, <2>1
  <2>6. Lanes
    BY <1>c, <2>2, <2>3, <2>4 DEF Stage
  <2>7. Counters
    BY <1>c, <2>2
  <2> QED
    BY <2>3, <2>5, <2>6, <2>7
<1>5. ASSUME NEW x \in Thread, Rotate(x) PROVE Shaped
  <2> DEFINE regs == [p \in Pos |-> [j \in Lane |->
                        Rot([q \in Pos |-> v[x][q][j]], CsOf(x), p)]]
  <2>0. regs = [p \in Pos |-> regs[p]]
    OBVIOUS
  <2>1. /\ pc[x] = "rotate" /\ pc' = [pc EXCEPT ![x] = "store"] /\ UNCHANGED <<scs, mem, k>>
        /\ v' = [v EXCEPT ![x] = regs]
    BY <1>5 DEF Rotate, Goto
  <2> HIDE DEF regs
  <2>2. VShape /\ (\A y \in Thread \ {x} : v'[y] = v[y]) /\ v'[x] = [p \in Pos |-> v'[x][p]]
    BY <1>c, <2>0, <2>1
  <2> QED
    BY <1>0, <1>c, <2>1, <2>2 DEF Stage
<1>6. ASSUME NEW x \in Thread, Store(x) PROVE Shaped
  <2>1. /\ NextPos(x, "store", "exit") /\ UNCHANGED <<scs, v>>
        /\ mem' = [a \in DOMAIN mem |-> mem'[a]]
    BY <1>6 DEF Store
  <2>2. /\ pc[x] = "store"
        /\ \A y \in Thread \ {x} : pc'[y] = pc[y] /\ k'[y] = k[y]
        /\ pc'[x] = "store" \/ (pc'[x] = "exit" /\ k'[x] = 0)
    BY <1>0, <2>1, NextPosStep DEF PC, Stage
  <2>3. MemShape
    BY <1>c, <2>1
  <2> QED
    BY <1>c, <2>1, <2>2, <2>3 DEF Stage
<1>7. ASSUME NEW b \in Cta, Barrier(b) PROVE Shaped
  BY <1>c, <1>7, BarrierEffect DEF Stage
<1>8. ASSUME UNCHANGED vars PROVE Shaped
  BY <1>c, <1>8 DEF vars
<1> HIDE DEF Shaped
<1> QED
  BY <1>b, <1>1, <1>2, <1>3, <1>4, <1>5, <1>6, <1>7, <1>8 DEF KernelStep, ThreadStep

LEMMA FilledStep == CtaInv /\ KernelStep => FilledInv'
<1> SUFFICES ASSUME CtaInv, KernelStep PROVE FilledInv'
  OBVIOUS
<1>0. /\ launch' = launch /\ before' = before /\ launch \in Launches /\ TypeOK
      /\ pc \in [Thread -> PC]
  BY Frozen DEF CtaInv, TypeOK, PC, Stage
<1>a. Thread' = Thread
  BY <1>0, FrozenOps
<1>b. CASE launch.tables # "shared"
  BY <1>0, <1>b DEF FilledInv
<1>c. CASE launch.tables = "shared"
  <2> DEFINE Placed(x) == /\ x[2] \in Pos => sfeat'[x[1]][x[2]] = cyc_feat[CycleOf(x)][x[2]]
                          /\ x[2] \in Pair => scs'[x[1]][x[2]] = cyc_cs[CycleOf(x)][x[2]]
             Filled == \A x \in Thread :
                         /\ pc'[x] # "fill" => Placed(x)
                         /\ pc'[x] \notin {"fill", "sync"} =>
                              \A y \in Thread : y[1] = x[1] => pc'[y] # "fill"
  <2>0. Filled => FilledInv'
    BY <1>0, <1>a, <1>c DEF FilledInv
  <2>a. \A x \in Thread :
          /\ pc[x] # "fill" =>
               /\ x[2] \in Pos => sfeat[x[1]][x[2]] = cyc_feat[CycleOf(x)][x[2]]
               /\ x[2] \in Pair => scs[x[1]][x[2]] = cyc_cs[CycleOf(x)][x[2]]
          /\ pc[x] \notin {"fill", "sync"} => \A y \in Thread : y[1] = x[1] => pc[y] # "fill"
    BY <1>c DEF CtaInv, FilledInv
  <2>b. ASSUME NEW x \in Thread, NEW to \in PC \ {"fill", "sync"},
               pc[x] \notin {"fill", "sync"},
               pc'[x] = to, \A y \in Thread \ {x} : pc'[y] = pc[y], sfeat' = sfeat, scs' = scs
        PROVE  Filled
    BY <2>a, <2>b
  <2>1. ASSUME NEW x \in Thread, Fill(x) PROVE Filled
    <3>1. pc[x] = "fill" /\ pc'[x] = "sync" /\ \A y \in Thread \ {x} : pc'[y] = pc[y]
      BY <1>0, <2>1 DEF Fill, Goto
    <3>2. ASSUME NEW y \in Thread, pc'[y] # "fill" PROVE Placed(y)
      <4>1. y[1] \in Cta
        BY <1>0, ThreadType
      <4>2. CASE y = x
        BY <2>1, <4>1, <4>2, FillType
      <4>3. CASE y # x
        <5>1. ~(y[1] = x[1] /\ y[2] = x[2])
          BY <1>0, <4>3, ThreadType
        <5>2. pc[y] # "fill"
          BY <3>1, <3>2, <4>3
        <5> QED
          BY <2>1, <2>a, <4>1, <5>1, <5>2, FillType
      <4> QED
        BY <4>2, <4>3
    <3>3. ASSUME NEW y \in Thread, pc'[y] \notin {"fill", "sync"}, NEW z \in Thread, z[1] = y[1]
          PROVE  pc'[z] # "fill"
      BY <2>a, <3>1, <3>3
    <3> HIDE DEF Placed
    <3> QED
      BY <3>2, <3>3
  <2>2. ASSUME NEW x \in Thread, Return(x) PROVE Filled
    <3> HIDE DEF Filled
    <3> QED
      BY <1>0, <2>2, <2>b DEF Return, Goto, PC
  <2>3. ASSUME NEW x \in Thread, TakeLane(x) PROVE Filled
    <3> HIDE DEF Filled
    <3> QED
      BY <1>0, <2>3, <2>b DEF TakeLane, Goto, PC, Stage
  <2>4. ASSUME NEW x \in Thread, Load(x) PROVE Filled
    <3>1. NextPos(x, "load", "rotate") /\ sfeat' = sfeat /\ scs' = scs
      BY <2>4 DEF Load
    <3> HIDE DEF Filled
    <3> QED
      BY <1>0, <2>b, <3>1, NextPosStep DEF PC, Stage
  <2>5. ASSUME NEW x \in Thread, Rotate(x) PROVE Filled
    <3> HIDE DEF Filled
    <3> QED
      BY <1>0, <2>5, <2>b DEF Rotate, Goto, PC, Stage
  <2>6. ASSUME NEW x \in Thread, Store(x) PROVE Filled
    <3>1. NextPos(x, "store", "exit") /\ sfeat' = sfeat /\ scs' = scs
      BY <2>6 DEF Store
    <3> HIDE DEF Filled
    <3> QED
      BY <1>0, <2>b, <3>1, NextPosStep DEF PC, Stage
  <2>7. ASSUME NEW b \in Cta, Barrier(b) PROVE Filled
    BY <2>7, <2>a, BarrierEffect
  <2>8. ASSUME UNCHANGED vars PROVE Filled
    BY <2>8, <2>a DEF vars
  <2> HIDE DEF Filled
  <2> QED
    BY <2>0, <2>1, <2>2, <2>3, <2>4, <2>5, <2>6, <2>7, <2>8 DEF KernelStep, ThreadStep
<1> QED
  BY <1>b, <1>c

LEMMA CtaInvStep == CtaInv /\ KernelStep => CtaInv'
<1>1. CtaInv /\ KernelStep => (launch \in Launches)'
  BY Frozen DEF CtaInv
<1> QED
  BY <1>1, TypeStep, ShapeStep, FilledStep DEF CtaInv

\* No thread past the barrier sees a word that is not filled.
LEMMA TablesLemma ==
  ASSUME CtaInv, NEW x \in Thread, pc[x] \in Stage
  PROVE  /\ \A p \in Pos : FeatAt(x, p) = cyc_feat[CycleOf(x)][p]
         /\ CsOf(x) = cyc_cs[CycleOf(x)]
<1>0. launch \in Launches /\ ShapeInv /\ FilledInv
  BY DEF CtaInv, TypeOK
<1>1. CASE launch.tables # "shared"
  BY <1>1 DEF FeatAt, CsOf
<1>2. CASE launch.tables = "shared"
  <2>1. \A i \in Tid : <<x[1], i>> \in Thread /\ CycleOf(<<x[1], i>>) = CycleOf(x)
    BY <1>0, ThreadType DEF Thread, Threads, CycleOf
  <2>2. \A i \in Tid : pc[<<x[1], i>>] # "fill"
    BY <1>0, <1>2, <2>1 DEF FilledInv, Stage
  <2>3. \A i \in Tid : /\ i \in Pos => sfeat[x[1]][i] = cyc_feat[CycleOf(x)][i]
                       /\ i \in Pair => scs[x[1]][i] = cyc_cs[CycleOf(x)][i]
    <3>1. SUFFICES ASSUME NEW i \in Tid
                   PROVE  /\ i \in Pos => sfeat[x[1]][i] = cyc_feat[CycleOf(x)][i]
                          /\ i \in Pair => scs[x[1]][i] = cyc_cs[CycleOf(x)][i]
      OBVIOUS
    <3>2. PICK y \in Thread : y[1] = x[1] /\ y[2] = i /\ CycleOf(y) = CycleOf(x) /\ pc[y] # "fill"
      BY <2>1, <2>2
    <3> QED
      BY <1>0, <1>2, <3>2 DEF FilledInv
  <2>4. Pos \subseteq Tid /\ Pair \subseteq Tid
    BY TableAssumption DEF Pos, Pair, Tid
  <2>5. scs[x[1]] = [i \in Pair |-> scs[x[1]][i]]
    BY <1>0, ThreadType DEF ShapeInv
  <2>6. cyc_cs[CycleOf(x)] = [i \in Pair |-> cyc_cs[CycleOf(x)][i]]
    BY <1>0, ThreadType, TableAssumption
  <2>7. scs[x[1]] = cyc_cs[CycleOf(x)]
    BY <2>3, <2>4, <2>5, <2>6
  <2> QED
    BY <1>2, <2>3, <2>4, <2>7 DEF FeatAt, CsOf
<1> QED
  BY <1>1, <1>2

-----------------------------------------------------------------------------
\* Where an element of the lane of a working thread is.
LEMMA LaneElement ==
  ASSUME CtaInv, NEW x \in Thread, pc[x] \in Stage, NEW p \in Pos, NEW j \in Lane
  PROVE  /\ CycleOf(x) \in Cycle
         /\ MBase(x) + j \in Column /\ MBase(x) \in Nat
         /\ Owner(CycleOf(x), MBase(x) + j) = x
         /\ cyc_feat[CycleOf(x)][p] \in Feat
         /\ FeatAt(x, p) = cyc_feat[CycleOf(x)][p]
         /\ OutCell(launch, FeatAt(x, p), MBase(x)) \in Int
         /\ OutCell(launch, FeatAt(x, p), MBase(x)) + j = OutCell(launch, cyc_feat[CycleOf(x)][p], MBase(x) + j)
         /\ InCell(launch, FeatAt(x, p), MBase(x)) + j = InCell(launch, cyc_feat[CycleOf(x)][p], MBase(x) + j)
<1>1. launch \in Launches /\ MBase(x) < launch.Mcols /\ CycleOf(x) \in Cycle
  BY ThreadType DEF CtaInv, TypeOK, ShapeInv
<1>2. MBase(x) + j \in Column /\ MBase(x) \in Nat /\ Owner(CycleOf(x), MBase(x) + j) = x
  BY <1>1, LaneInRow, OwnerOfLane
<1>3. cyc_feat[CycleOf(x)][p] \in Feat /\ FeatAt(x, p) = cyc_feat[CycleOf(x)][p]
  BY <1>1, CycleType, TableAssumption, TablesLemma
<1>4. j \in Int /\ MBase(x) \in Int
  BY <1>1, <1>2, Sizes DEF Lane
<1> QED
  BY <1>1, <1>2, <1>3, <1>4, OutOffset

\* Nothing but a store writes.
LEMMA OnlyStores ==
  ASSUME KernelStep, ~(\E x \in Thread : Store(x))
  PROVE  mem' = mem
  BY DEF KernelStep, ThreadStep, vars, Fill, Return, TakeLane, Load, Rotate, Barrier

LEMMA OutsideStep == CtaInv /\ OutsideInv /\ KernelStep => OutsideInv'
<1> SUFFICES ASSUME CtaInv, OutsideInv, KernelStep PROVE OutsideInv'
  OBVIOUS
<1>0. Target(launch)' = Target(launch) /\ before' = before
  BY Frozen, FrozenOps
<1>1. CASE mem' = mem
  BY <1>0, <1>1 DEF OutsideInv
<1>2. ASSUME NEW x \in Thread, Store(x) PROVE OutsideInv'
  <2>1. pc[x] = "store" /\ pc[x] \in Stage /\ k[x] \in Pos
    BY <1>2, NextPosStep DEF Store, CtaInv, TypeOK, PC, Stage
  <2>2. PICK base : base = OutCell(launch, FeatAt(x, k[x]), MBase(x))
    OBVIOUS
  <2>3. mem' = [a \in DOMAIN mem |-> IF a - base \in Lane THEN v[x][k[x]][a - base] ELSE mem[a]]
    BY <1>2, <2>2 DEF Store
  <2>4. DOMAIN mem = DOMAIN Content /\ DOMAIN Content \subseteq Int
    BY LaunchAssumption DEF CtaInv, ShapeInv
  <2>5. ASSUME NEW a \in DOMAIN Content \ Target(launch) PROVE a - base \notin Lane
    <3>1. SUFFICES ASSUME a - base \in Lane PROVE FALSE
      OBVIOUS
    <3>2. PICK j \in Lane : j = a - base
      BY <3>1
    <3>3. base \in Int /\ base + j = OutCell(launch, cyc_feat[CycleOf(x)][k[x]], MBase(x) + j)
      BY <2>1, <2>2, <3>2, LaneElement
    <3>4. a = base + j
      <4>1. a \in Int /\ j \in Int
        BY <2>4, <3>2, <3>3
      <4> QED
        BY <3>2, <3>3, <4>1
    <3>5. CycleOf(x) \in Cycle /\ MBase(x) + j \in 0 .. launch.Mcols - 1
      BY <2>1, <3>2, LaneElement DEF Column, Columns
    <3>6. a \in Target(launch)
      BY <2>1, <3>3, <3>4, <3>5 DEF Target, Cycle, Columns
    <3> QED
      BY <3>6
  <2> QED
    BY <1>0, <2>3, <2>4, <2>5 DEF OutsideInv
<1> QED
  BY <1>1, <1>2, OnlyStores

\* A store leaves the lane of its position rotated and the rest of the slab alone.
LEMMA StoreSlab ==
  ASSUME CtaInv, RegisterInv, SlabInv, NEW x \in Thread, Store(x)
  PROVE  SlabInv'
<1>0. launch' = launch /\ before' = before /\ launch \in Launches
  BY DEF Store, job, launch, CtaInv, TypeOK
<1>1. /\ pc[x] = "store" /\ pc[x] \in Stage /\ k[x] \in Pos
      /\ \A y \in Thread \ {x} : pc'[y] = pc[y] /\ k'[y] = k[y]
      /\ \/ pc'[x] = "store" /\ k'[x] = k[x] + 1
         \/ pc'[x] = "exit" /\ k'[x] = 0 /\ k[x] = LMAX - 1
  BY NextPosStep DEF Store, CtaInv, TypeOK, PC, Stage
<1>2. PICK base, b, f, d, n :
        /\ base = OutCell(launch, FeatAt(x, n), b) /\ b = MBase(x) /\ n = k[x]
        /\ d = CycleOf(x) /\ f = cyc_feat[d][n]
  OBVIOUS
<1>3. mem' = [a \in DOMAIN mem |-> IF a - base \in Lane THEN v[x][n][a - base] ELSE mem[a]]
  BY <1>2 DEF Store
<1>4. DOMAIN mem = DOMAIN Content
  BY DEF CtaInv, ShapeInv
<1>5. 0 \in Lane /\ n \in Pos
  BY <1>0, <1>1, <1>2, Sizes DEF Lane
<1>6. b \in Nat /\ f \in Feat /\ d \in Cycle /\ base = OutCell(launch, f, b) /\ base \in Int
  BY <1>1, <1>2, <1>5, LaneElement
<1>7. SUFFICES ASSUME NEW c \in Cycle, NEW p \in Pos, NEW m \in Column,
                      NEW y, y = Owner(c, m)
               PROVE  mem'[OutCell(launch, cyc_feat[c][p], m)] =
                        IF Stored(y, p)' THEN Rotated(launch, before, c, p, m)
                        ELSE before[OutCell(launch, cyc_feat[c][p], m)]
  <2>1. /\ Cycle' = Cycle /\ Column' = Column
        /\ \A g, m : OutCell(launch, g, m)' = OutCell(launch, g, m)
        /\ \A c, m : Owner(c, m)' = Owner(c, m)
        /\ \A c, p, m : Rotated(launch, before, c, p, m)' = Rotated(launch, before, c, p, m)
    BY <1>0, FrozenOps
  <2>2. \A c, p, m, y : y = Owner(c, m) => Written(c, p, m)' = Stored(y, p)'
    BY <2>1 DEF Written, Stored
  <2> QED
    BY <1>0, <2>1, <2>2 DEF SlabInv
<1>8. /\ y \in Thread /\ y = Owner(c, m) /\ CycleOf(y) = c
      /\ m - MBase(y) \in Lane /\ MBase(y) < launch.Mcols
  BY <1>0, <1>7, OwnerHasLane
<1>9. PICK g \in Feat, a \in DOMAIN Content : g = cyc_feat[c][p] /\ a = OutCell(launch, g, m)
  <2>1. cyc_feat[c][p] \in Feat
    BY <1>0, CycleType, TableAssumption
  <2> QED
    BY <1>0, <2>1, CellType
<1>10. mem[a] = IF Stored(y, p) THEN Rotated(launch, before, c, p, m) ELSE before[a]
  BY <1>8, <1>9 DEF SlabInv, Written
<1>11. CASE a - base \in Lane
  <2>1. PICK j \in Lane : j = a - base
    BY <1>11
  <2>2. b + j \in Column /\ Owner(d, b + j) = x /\ j \in Int
    BY <1>0, <1>1, <1>2, <1>5, <2>1, LaneElement, Sizes DEF Lane
  <2>3. g = f /\ m = b + j
    BY <1>0, <1>6, <1>9, <2>1, <2>2, OutUnique
  <2>4. c = d /\ p = n
    <3>1. cyc_feat[c][p] = cyc_feat[d][n]
      BY <1>2, <1>9, <2>3
    <3> QED
      BY <1>0, <1>5, <1>6, <3>1, CyclesApart
  <2>5. y = x
    BY <1>8, <2>2, <2>3, <2>4
  <2>6. mem'[a] = v[x][n][j]
    BY <1>3, <1>4, <1>11, <2>1
  <2>7. v[x][n][j] = Rotated(launch, before, d, n, b + j)
    BY <1>1, <1>2, <1>5, <2>1 DEF RegisterInv
  <2>8. Stored(x, n)'
    BY <1>1, <1>2, <1>5, PosType DEF Stored
  <2> QED
    BY <1>9, <2>3, <2>4, <2>5, <2>6, <2>7, <2>8
<1>12. CASE a - base \notin Lane
  <2>1. mem'[a] = mem[a]
    BY <1>3, <1>4, <1>12
  <2>2. CASE y # x
    BY <1>1, <1>8, <1>9, <1>10, <2>1, <2>2 DEF Stored
  <2>3. CASE y = x
    <3>1. PICK j \in Lane : j = m - b
      BY <1>2, <1>8, <2>3
    <3>2. c = d /\ b + j = m /\ j \in Int
      BY <1>0, <1>2, <1>6, <1>8, <2>3, <3>1, Sizes DEF Lane, Column, Columns
    <3>3. p # n
      <4>1. SUFFICES ASSUME p = n PROVE FALSE
        OBVIOUS
      <4>2. a = OutCell(launch, f, b + j)
        BY <1>2, <1>9, <3>2, <4>1
      <4>3. base + j = a
        BY <1>0, <1>6, <3>2, <4>2, OutOffset
      <4>4. a - base = j
        BY <1>6, <3>2, <4>3
      <4> QED
        BY <1>12, <4>4
    <3>4. Stored(x, p)' <=> Stored(x, p)
      <4>1. p \in Nat /\ n \in Nat /\ p < LMAX /\ n = k[x] /\ LMAX \in Nat
        BY <1>2, <1>5, PosType, TableAssumption
      <4>2. CASE pc'[x] = "store" /\ k'[x] = k[x] + 1
        BY <1>1, <3>3, <4>1, <4>2 DEF Stored
      <4>3. CASE pc'[x] = "exit" /\ k[x] = LMAX - 1
        BY <1>1, <3>3, <4>1, <4>3 DEF Stored
      <4> QED
        BY <1>1, <4>2, <4>3
    <3> QED
      BY <1>9, <1>10, <2>1, <2>3, <3>4
  <2> QED
    BY <2>2, <2>3
<1> QED
  BY <1>11, <1>12

\* The slab does not change while memory and the progress of the threads with
\* a lane stay the same.
LEMMA SlabKept ==
  ASSUME CtaInv, SlabInv, launch' = launch, before' = before, mem' = mem,
         \A y \in Thread, p \in Pos : MBase(y) < launch.Mcols => (Stored(y, p)' <=> Stored(y, p))
  PROVE  SlabInv'
<1>0. launch \in Launches
  BY DEF CtaInv, TypeOK
<1>1. /\ Cycle' = Cycle /\ Column' = Column
      /\ \A g, m : OutCell(launch, g, m)' = OutCell(launch, g, m)
      /\ \A c, m : Owner(c, m)' = Owner(c, m)
      /\ \A c, p, m : Rotated(launch, before, c, p, m)' = Rotated(launch, before, c, p, m)
  BY FrozenOps
<1>2. ASSUME NEW c \in Cycle, NEW p \in Pos, NEW m \in Column
      PROVE  Written(c, p, m)' <=> Written(c, p, m)
  <2>1. PICK y \in Thread : y = Owner(c, m) /\ MBase(y) < launch.Mcols
    BY <1>0, OwnerHasLane
  <2>2. Written(c, p, m)' = Stored(y, p)' /\ Written(c, p, m) = Stored(y, p)
    BY <1>1, <2>1 DEF Written, Stored
  <2> QED
    BY <2>1, <2>2
<1> QED
  BY <1>1, <1>2 DEF SlabInv

LEMMA SlabStep ==
  ASSUME CtaInv, RegisterInv, SlabInv, KernelStep
  PROVE  SlabInv'
<1>0. /\ launch' = launch /\ before' = before /\ launch \in Launches /\ ShapeInv /\ TypeOK
      /\ pc \in [Thread -> PC] /\ 0 \in Pos /\ k \in [Thread -> Pos]
  BY Frozen, TableAssumption DEF CtaInv, TypeOK, PC, Stage, Pos
<1> DEFINE Same == \A y \in Thread, p \in Pos :
                     MBase(y) < launch.Mcols => (Stored(y, p)' <=> Stored(y, p))
<1>1. ASSUME NEW x \in Thread, Fill(x) PROVE Same /\ mem' = mem
  BY <1>0, <1>1 DEF Fill, Goto, Stored
<1>2. ASSUME NEW x \in Thread, Return(x) PROVE Same /\ mem' = mem
  <2>1. /\ MBase(x) >= launch.Mcols /\ mem' = mem /\ k' = k
        /\ \A y \in Thread \ {x} : pc'[y] = pc[y]
    BY <1>0, <1>2 DEF Return, Goto
  <2>2. ~(MBase(x) < launch.Mcols)
    <3>1. launch \in Launches
      BY <1>0
    <3>2. x[1][1] \in Nat /\ x[2] \in Nat /\ THREADS \in Nat /\ launch.COLS \in Nat /\ launch.Mcols \in Nat
      BY <3>1, ThreadType, Sizes DEF Tid
    <3>3. MBase(x) \in Int
      BY <3>2 DEF MBase
    <3> QED
      BY <2>1, <3>2, <3>3
  <2> QED
    BY <2>1, <2>2 DEF Stored
<1>3. ASSUME NEW x \in Thread, TakeLane(x) PROVE Same /\ mem' = mem
  BY <1>0, <1>3 DEF TakeLane, Goto, Stored
<1>4. ASSUME NEW x \in Thread, Load(x) PROVE Same /\ mem' = mem
  <2>1. NextPos(x, "load", "rotate") /\ mem' = mem
    BY <1>4 DEF Load
  <2>2. /\ pc[x] = "load" /\ pc'[x] \in {"load", "rotate"}
        /\ \A y \in Thread \ {x} : pc'[y] = pc[y] /\ k'[y] = k[y]
    BY <1>0, <2>1, NextPosStep DEF PC, Stage
  <2> QED
    BY <2>1, <2>2 DEF Stored
<1>5. ASSUME NEW x \in Thread, Rotate(x) PROVE Same /\ mem' = mem
  <2>1. /\ pc[x] = "rotate" /\ pc'[x] = "store" /\ k' = k /\ mem' = mem
        /\ \A y \in Thread \ {x} : pc'[y] = pc[y]
    BY <1>0, <1>5 DEF Rotate, Goto
  <2>2. \A p \in Pos : ~(p < k[x])
    BY <1>0, <2>1, PosType DEF ShapeInv
  <2> QED
    BY <2>1, <2>2 DEF Stored
<1>6. ASSUME NEW b \in Cta, Barrier(b) PROVE Same /\ mem' = mem
  BY <1>6, BarrierEffect DEF Stored
<1>7. ASSUME UNCHANGED vars PROVE Same /\ mem' = mem
  BY <1>7 DEF vars, Stored
<1>8. Same /\ mem' = mem => SlabInv'
  BY <1>0, SlabKept
<1> HIDE DEF Same
<1> QED
  BY <1>1, <1>2, <1>3, <1>4, <1>5, <1>6, <1>7, <1>8, StoreSlab DEF KernelStep, ThreadStep

\* An element that a loading thread reads is still the original.
LEMMA LoadedOriginal ==
  ASSUME CtaInv, SlabInv, OutsideInv, NEW x \in Thread, pc[x] = "load", NEW j \in Lane
  PROVE  mem[InCell(launch, FeatAt(x, k[x]), MBase(x)) + j]
           = before[InCell(launch, cyc_feat[CycleOf(x)][k[x]], MBase(x) + j)]
<1>0. launch \in Launches /\ pc[x] \in Stage /\ k[x] \in Pos
  BY DEF CtaInv, TypeOK, Stage
<1>1. PICK c \in Cycle, m \in Column, f \in Feat :
        /\ c = CycleOf(x) /\ m = MBase(x) + j /\ f = cyc_feat[c][k[x]]
        /\ Owner(c, m) = x
        /\ InCell(launch, FeatAt(x, k[x]), MBase(x)) + j = InCell(launch, f, m)
  BY <1>0, LaneElement
<1>2. PICK a \in DOMAIN Content : a = InCell(launch, f, m)
  BY <1>0, CellType
<1>3. mem[a] = before[a]
  <2>1. CASE a \notin Target(launch)
    BY <2>1 DEF OutsideInv
  <2>2. CASE a = OutCell(launch, f, m)
    <3>1. ~Written(c, k[x], m)
      BY <1>1 DEF Written, Stored
    <3> QED
      BY <1>0, <1>1, <2>2, <3>1 DEF SlabInv
  <2> QED
    BY <1>0, <1>2, <2>1, <2>2, InputApart
<1> QED
  BY <1>1, <1>2, <1>3

\* What RegisterInv says of the lane of one thread.
Registers(y) ==
  \A q \in Pos, j \in Lane :
    /\ (pc[y] = "load" /\ q < k[y]) \/ pc[y] = "rotate" =>
         v[y][q][j] = before[InCell(launch, cyc_feat[CycleOf(y)][q], MBase(y) + j)]
    /\ pc[y] = "store" => v[y][q][j] = Rotated(launch, before, CycleOf(y), q, MBase(y) + j)

LEMMA RegisterStep ==
  ASSUME CtaInv, RegisterInv, SlabInv, OutsideInv, ~launch.free_read, KernelStep
  PROVE  RegisterInv'
<1>0. /\ launch' = launch /\ before' = before /\ launch \in Launches /\ ShapeInv /\ TypeOK
      /\ pc \in [Thread -> PC] /\ k \in [Thread -> Pos] /\ v = [x \in Thread |-> v[x]]
  BY Frozen DEF CtaInv, TypeOK, ShapeInv, PC, Stage
<1>a. /\ before' = before
      /\ Thread' = Thread /\ Lane' = Lane /\ \A x : MBase(x)' = MBase(x)
      /\ \A f, m : InCell(launch, f, m)' = InCell(launch, f, m)
      /\ \A c, p, m : Rotated(launch, before, c, p, m)' = Rotated(launch, before, c, p, m)
  BY <1>0, FrozenOps
<1>b. (\A y \in Thread : Registers(y)') => RegisterInv'
  BY <1>a DEF RegisterInv, Registers
<1>c. \A y \in Thread : Registers(y)
  BY DEF RegisterInv, Registers
<1>d. ASSUME NEW y \in Thread,
             \/ pc'[y] \notin Stage
             \/ pc'[y] = pc[y] /\ k'[y] = k[y] /\ v'[y] = v[y]
      PROVE  Registers(y)'
  BY <1>a, <1>c, <1>d DEF Registers, Stage
<1>1. ASSUME NEW x \in Thread, Fill(x) \/ Return(x) PROVE \A y \in Thread : Registers(y)'
  <2>1. /\ pc'[x] \notin Stage /\ k' = k /\ v' = v
        /\ \A y \in Thread \ {x} : pc'[y] = pc[y]
    BY <1>0, <1>1 DEF Fill, Return, Goto, Stage
  <2> QED
    BY <1>d, <2>1
<1>2. ASSUME NEW x \in Thread, TakeLane(x) PROVE \A y \in Thread : Registers(y)'
  <2>1. /\ pc[x] = "body" /\ pc'[x] = "load" /\ k' = k
        /\ \A y \in Thread \ {x} : pc'[y] = pc[y] /\ v'[y] = v[y]
    BY <1>0, <1>2 DEF TakeLane, Goto
  <2>2. \A q \in Pos : ~(q < k'[x])
    BY <1>0, <2>1, PosType DEF ShapeInv
  <2>3. Registers(x)'
    BY <2>1, <2>2 DEF Registers
  <2> QED
    BY <1>d, <2>1, <2>3
<1>3. ASSUME NEW x \in Thread, Load(x) PROVE \A y \in Thread : Registers(y)'
  <2> DEFINE lane == [j \in Lane |-> mem[InCell(launch, FeatAt(x, k[x]), MBase(x)) + j]]
  <2>1. /\ pc[x] = "load" /\ k[x] \in Pos
        /\ \A y \in Thread \ {x} : pc'[y] = pc[y] /\ k'[y] = k[y]
        /\ \/ pc'[x] = "load" /\ k'[x] = k[x] + 1
           \/ pc'[x] = "rotate" /\ k'[x] = 0 /\ k[x] = LMAX - 1
    <3>1. NextPos(x, "load", "rotate")
      BY <1>3 DEF Load
    <3> QED
      BY <1>0, <3>1, NextPosStep DEF PC, Stage
  <2>2. v' = [v EXCEPT ![x][k[x]] = lane]
    BY <1>3 DEF Load
  <2>3. \A j \in Lane : lane[j] = before[InCell(launch, cyc_feat[CycleOf(x)][k[x]], MBase(x) + j)]
    BY <2>1, LoadedOriginal
  <2> HIDE DEF lane
  <2>4. v[x] = [p \in Pos |-> v[x][p]]
    BY <1>0, <2>1 DEF ShapeInv, Stage
  <2>5. /\ \A y \in Thread \ {x} : v'[y] = v[y]
        /\ v'[x][k[x]] = lane
        /\ \A q \in Pos \ {k[x]} : v'[x][q] = v[x][q]
    BY <1>0, <2>1, <2>2, <2>4
  <2>6. ASSUME NEW q \in Pos, NEW j \in Lane,
               (pc'[x] = "load" /\ q < k'[x]) \/ pc'[x] = "rotate"
        PROVE  v'[x][q][j] = before[InCell(launch, cyc_feat[CycleOf(x)][q], MBase(x) + j)]
    <3>1. CASE q = k[x]
      BY <2>3, <2>5, <3>1
    <3>2. CASE q # k[x]
      <4>1. q \in Nat /\ k[x] \in Nat /\ q < LMAX /\ LMAX \in Nat
        BY <2>1, PosType, TableAssumption
      <4>2. q < k[x]
        BY <2>1, <2>6, <3>2, <4>1
      <4>3. v[x][q][j] = before[InCell(launch, cyc_feat[CycleOf(x)][q], MBase(x) + j)]
        BY <1>c, <2>1, <4>2 DEF Registers
      <4> QED
        BY <2>5, <3>2, <4>3
    <3> QED
      BY <3>1, <3>2
  <2>7. Registers(x)'
    BY <1>a, <2>1, <2>6 DEF Registers
  <2> QED
    BY <1>d, <2>1, <2>5, <2>7
<1>4. ASSUME NEW x \in Thread, Rotate(x) PROVE \A y \in Thread : Registers(y)'
  <2> DEFINE regs == [q \in Pos |-> [j \in Lane |->
                        Rot([p \in Pos |-> v[x][p][j]], CsOf(x), q)]]
  <2>1. /\ pc[x] = "rotate" /\ pc'[x] = "store" /\ k' = k
        /\ \A y \in Thread \ {x} : pc'[y] = pc[y]
        /\ v' = [v EXCEPT ![x] = regs]
    BY <1>0, <1>4 DEF Rotate, Goto
  <2>2. ASSUME NEW q \in Pos, NEW j \in Lane
        PROVE  regs[q][j] = Rotated(launch, before, CycleOf(x), q, MBase(x) + j)
    <3>1. \A p \in Pos : v[x][p][j] = before[InCell(launch, cyc_feat[CycleOf(x)][p], MBase(x) + j)]
      BY <1>c, <2>1 DEF Registers
    <3>2. [p \in Pos |-> v[x][p][j]]
          = [p \in Pos |-> before[InCell(launch, cyc_feat[CycleOf(x)][p], MBase(x) + j)]]
      BY <3>1
    <3>3. CsOf(x) = cyc_cs[CycleOf(x)]
      BY <2>1, TablesLemma DEF Stage
    <3>4. regs[q][j] = Rot([p \in Pos |-> v[x][p][j]], CsOf(x), q)
      OBVIOUS
    <3> HIDE DEF regs
    <3> QED
      BY <3>2, <3>3, <3>4 DEF Rotated
  <2> HIDE DEF regs
  <2>3. v'[x] = regs /\ \A y \in Thread \ {x} : v'[y] = v[y]
    BY <1>0, <2>1
  <2>4. Registers(x)'
    BY <1>a, <2>1, <2>2, <2>3 DEF Registers
  <2> QED
    BY <1>d, <2>1, <2>3, <2>4
<1>5. ASSUME NEW x \in Thread, Store(x) PROVE \A y \in Thread : Registers(y)'
  <2>1. /\ v' = v /\ pc[x] = "store" /\ pc'[x] \in {"store", "exit"}
        /\ \A y \in Thread \ {x} : pc'[y] = pc[y] /\ k'[y] = k[y]
    <3>1. NextPos(x, "store", "exit") /\ v' = v
      BY <1>5 DEF Store
    <3> QED
      BY <1>0, <3>1, NextPosStep DEF PC, Stage
  <2>2. Registers(x)'
    BY <1>a, <1>c, <2>1 DEF Registers
  <2> QED
    BY <1>d, <2>1, <2>2
<1>6. ASSUME NEW b \in Cta, Barrier(b) PROVE \A y \in Thread : Registers(y)'
  BY <1>d, <1>6, BarrierEffect DEF Stage
<1>7. ASSUME UNCHANGED vars PROVE \A y \in Thread : Registers(y)'
  BY <1>d, <1>7 DEF vars
<1> QED
  BY <1>b, <1>1, <1>2, <1>3, <1>4, <1>5, <1>6, <1>7 DEF KernelStep, ThreadStep

-----------------------------------------------------------------------------
LEMMA FreshKernelInv == Fresh => KernelInv
<1> SUFFICES ASSUME Fresh PROVE KernelInv
  OBVIOUS
<1>1. CtaInv
  BY CtaInvFresh
<1>2. OutsideInv
  BY DEF Fresh, OutsideInv
<1>3. \A x \in Thread : pc[x] \in {"fill", "body"}
  BY DEF Fresh, Entry, Thread
<1>4. RegisterInv
  BY <1>3 DEF RegisterInv
<1>5. ASSUME NEW c \in Cycle, NEW m \in Column, NEW p \in Pos PROVE ~Written(c, p, m)
  <2>1. PICK x \in Thread : x = Owner(c, m)
    BY <1>1, OwnerHasLane DEF CtaInv, TypeOK
  <2> QED
    BY <1>3, <2>1 DEF Written, Stored
<1>6. SlabInv
  BY <1>5 DEF Fresh, SlabInv
<1> QED
  BY <1>1, <1>2, <1>4, <1>6 DEF KernelInv

LEMMA FreshKernelInvNext == Fresh' => KernelInv'
  BY FreshKernelInv, PTL

LEMMA KernelInvStep == KernelInv /\ KernelStep => KernelInv'
<1> SUFFICES ASSUME KernelInv, KernelStep PROVE KernelInv'
  OBVIOUS
<1>1. CtaInv' /\ OutsideInv' /\ launch' = launch
  BY CtaInvStep, OutsideStep, Frozen DEF KernelInv
<1>2. ASSUME ~launch.free_read PROVE RegisterInv' /\ SlabInv'
  BY <1>2, RegisterStep, SlabStep DEF KernelInv
<1> QED
  BY <1>1, <1>2 DEF KernelInv

\* When all threads have returned the invariant is the result.
LEMMA KernelResult == KernelInv /\ AllExited => IsRotated(launch, before, mem)
<1> SUFFICES ASSUME KernelInv, AllExited
             PROVE  /\ ~launch.free_read =>
                         \A c \in Cycle, p \in Pos, m \in Column :
                           mem[OutCell(launch, cyc_feat[c][p], m)] = Rotated(launch, before, c, p, m)
                    /\ OutsideInv
  BY DEF IsRotated, Cycle, Column, OutsideInv
<1>1. OutsideInv
  BY DEF KernelInv
<1>2. ASSUME ~launch.free_read, NEW c \in Cycle, NEW p \in Pos, NEW m \in Column
      PROVE  mem[OutCell(launch, cyc_feat[c][p], m)] = Rotated(launch, before, c, p, m)
  <2>1. Owner(c, m) \in Thread
    BY OwnerHasLane DEF KernelInv, CtaInv
  <2>2. Written(c, p, m)
    BY <2>1 DEF AllExited, Written, Stored
  <2> QED
    BY <1>2, <2>2 DEF KernelInv, SlabInv
<1> QED
  BY <1>1, <1>2

LEMMA IInvInit == Init => IInv
<1> SUFFICES ASSUME Init PROVE IInv
  OBVIOUS
<1>1. call \in Calls /\ Len(call) \in {1, 2} /\ turn = 1
  BY LaunchAssumption DEF Init
<1>2. Fresh
  <2>1. turn \in 1 .. Len(call)
    BY <1>1
  <2> QED
    BY <1>1, <2>1, LaunchAssumption DEF Init, Fresh
<1>3. JobInv
  BY DEF Init, JobInv
<1> QED
  BY <1>2, <1>3, FreshKernelInv DEF IInv

\* The second kernel finds memory as the first has left it.
LEMMA SecondLaunch == IInv /\ NextLaunch => IInv'
<1> SUFFICES ASSUME IInv, NextLaunch PROVE IInv'
  OBVIOUS
<1>1. call \in Calls /\ turn \in 1 .. Len(call) /\ Len(call) \in {1, 2} /\ turn < Len(call)
  BY LaunchAssumption DEF IInv, KernelInv, CtaInv, TypeOK, NextLaunch
<1>2. turn = 1 /\ turn' = 2 /\ call' = call /\ before' = mem /\ mem' = mem
  BY <1>1 DEF NextLaunch
<1>3. launch = call[1] /\ launch' = call[2]
  BY <1>2 DEF launch
<1>4. IsRotated(call[1], Content, mem)
  <2>1. before = Content
    BY <1>2 DEF IInv, JobInv
  <2> QED
    BY <1>3, <2>1, KernelResult DEF IInv, NextLaunch
<1>5. JobInv'
  BY <1>2, <1>4 DEF JobInv, IsRotated
<1>6. Fresh'
  <2>1. mem = [a \in DOMAIN Content |-> mem[a]]
    BY DEF IInv, KernelInv, CtaInv, ShapeInv
  <2>2. call' \in Calls /\ turn' \in 1 .. Len(call')
    BY <1>1, <1>2
  <2>3. /\ sfeat' = NoTable(launch', Pos)
        /\ scs' = NoTable(launch', Pair)
        /\ pc' = Entry(launch')
        /\ k' = AllThreads(launch', 0)
        /\ v' = AllThreads(launch', <<>>)
    BY <1>2, <1>3 DEF NextLaunch
  <2> QED
    BY <1>2, <2>1, <2>2, <2>3 DEF Fresh, Pos, Pair
<1> QED
  BY <1>5, <1>6, FreshKernelInvNext DEF IInv

LEMMA IInvStep == IInv /\ [Next]_vars => IInv'
<1> SUFFICES ASSUME IInv, [Next]_vars PROVE IInv'
  OBVIOUS
<1>1. ASSUME KernelStep PROVE JobInv'
  BY <1>1, Frozen DEF IInv, JobInv, IsRotated
<1> QED
  BY <1>1, NextKernel, SecondLaunch, KernelInvStep DEF IInv

LEMMA Invariance == Spec => []IInv
  BY IInvInit, IInvStep, PTL DEF Spec

\* Counters stay inside the tables, and tables hold features: of every launch
\* of every kernel.
THEOREM TypeCorrect == Spec => []TypeOK
<1>1. IInv => TypeOK
  BY DEF IInv, KernelInv, CtaInv
<1> QED
  BY <1>1, Invariance, PTL

\* No thread works with a table that a peer, with or without a lane, has not
\* filled yet: one __syncthreads() before the early return is enough.
THEOREM TablesCorrect == Spec => []TablesFilled
<1>1. IInv => TablesFilled
  BY TablesLemma DEF IInv, KernelInv, TablesFilled, Working, Stage
<1> QED
  BY <1>1, Invariance, PTL

\* The lanes of any two threads of the grid are disjoint.
LEMMA LanesLemma == IInv => LanesOwned
<1> SUFFICES ASSUME IInv PROVE LanesOwned
  OBVIOUS
<1>0. CtaInv /\ launch \in Launches
  BY DEF IInv, KernelInv, CtaInv
<1>1. Working = {x \in Thread : pc[x] \in Stage}
  BY DEF Working, Stage
<1>2. ASSUME NEW x \in Working PROVE MBase(x) + launch.COLS <= launch.Mcols
  <2>1. x \in Thread /\ MBase(x) < launch.Mcols
    BY <1>0, <1>1 DEF CtaInv, ShapeInv
  <2> QED
    BY <1>0, <2>1, LaneInRow
<1>3. ASSUME NEW x \in Working, NEW y \in Working, NEW a, a \in OutCells(x), a \in OutCells(y)
      PROVE  x = y
  <2>0. x \in Thread /\ y \in Thread /\ pc[x] \in Stage /\ pc[y] \in Stage
    BY <1>1
  <2>1. PICK p \in Pos, i \in Lane : a = OutCell(launch, cyc_feat[CycleOf(x)][p], MBase(x)) + i
    BY <1>3 DEF OutCells
  <2>2. PICK q \in Pos, j \in Lane : a = OutCell(launch, cyc_feat[CycleOf(y)][q], MBase(y)) + j
    BY <1>3 DEF OutCells
  <2>3. PICK c \in Cycle, f \in Feat, m \in Column :
          /\ c = CycleOf(x) /\ f = cyc_feat[c][p] /\ m = MBase(x) + i
          /\ Owner(c, m) = x /\ a = OutCell(launch, f, m)
    BY <1>0, <2>0, <2>1, LaneElement
  <2>4. PICK d \in Cycle, g \in Feat, n \in Column :
          /\ d = CycleOf(y) /\ g = cyc_feat[d][q] /\ n = MBase(y) + j
          /\ Owner(d, n) = y /\ a = OutCell(launch, g, n)
    BY <1>0, <2>0, <2>2, LaneElement
  <2>5. f = g /\ m = n
    <3>1. n \in Int /\ n + 0 = n /\ OutCell(launch, g, n) \in Int
      BY <1>0, OutOffset DEF Column, Columns
    <3>2. OutCell(launch, f, m) - OutCell(launch, g, n) = 0
      BY <2>3, <2>4, <3>1
    <3>3. f = g /\ m = n + 0
      <4>1. n + 0 \in Column /\ 0 \in Int
        BY <3>1
      <4> QED
        BY <1>0, <3>1, <3>2, <4>1, OutUnique
    <3> QED
      BY <3>1, <3>3
  <2>6. c = d
    <3>1. cyc_feat[c][p] = cyc_feat[d][q]
      BY <2>3, <2>4, <2>5
    <3> QED
      BY <1>0, <3>1, CyclesApart
  <2> QED
    BY <2>3, <2>4, <2>5, <2>6
<1> QED
  BY <1>2, <1>3 DEF LanesOwned

\* Threads of all CTAs write disjoint lanes, inside the rows of the slab.
THEOREM LanesCorrect == Spec => []LanesOwned
  BY LanesLemma, Invariance, PTL

\* A complete kernel has rotated every column of every cycle once, whatever the
\* grid left idle, and has written nothing beside the slab; a second layer is
\* applied to the complete first one.
THEOREM Correctness == Spec => []ResultRotated
<1>1. IInv => ResultRotated
  BY KernelResult DEF IInv, JobInv, ResultRotated
<1> QED
  BY <1>1, Invariance, PTL
=============================================================================
