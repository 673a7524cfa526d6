------------------------- MODULE RotPersist_proofs -------------------------
(***************************************************************************)
(* The invariants of RotPersist, and its refinement of GivensPass, proved  *)
(* for every grid, block and matrix size and every table of disjoint       *)
(* cycles.                                                                 *)
(***************************************************************************)
EXTENDS RotPersist, DivisionLemmas

-----------------------------------------------------------------------------
\* The address of an element of the matrix is inside it.
LEMMA CellType ==
  ASSUME NEW f \in Feat, NEW m \in Col
  PROVE  Cell(f, m) \in Cells
<1>1. f \in Int /\ 0 <= f /\ f <= NFEAT - 1 /\ NFEAT \in Nat /\ M \in Nat /\ m \in 0 .. M - 1
  BY SizeAssumption DEF Feat, Col
<1>2. (f + 1) * M <= NFEAT * M
  BY <1>1, MulMono
<1>3. 0 * M <= f * M
  BY <1>1, MulMono
<1> QED
  BY <1>1, <1>2, <1>3 DEF Cell, Cells

\* An address at distance j from column b of row g is column b + j of row g,
\* as long as b + j stays in the row: rows do not overlap.
LEMMA CellUnique ==
  ASSUME NEW f \in Feat, NEW m \in Col, NEW g \in Feat, NEW b \in Int, NEW j \in Int,
         b + j \in Col, Cell(f, m) - Cell(g, b) = j
  PROVE  f = g /\ m = b + j
<1>1. /\ M \in Nat \ {0}
      /\ f \in Int /\ g \in Int
      /\ m \in 0 .. M - 1 /\ b + j \in 0 .. M - 1
  BY SizeAssumption DEF Feat, Col
<1>2. f * M \in Int /\ g * M \in Int
  BY <1>1
<1>3. f * M + m = g * M + (b + j)
  BY <1>1, <1>2 DEF Cell
<1> QED
  BY <1>1, <1>3, TwoDigits

\* Different elements of the matrix have different addresses.
LEMMA CellInjective ==
  ASSUME NEW f \in Feat, NEW m \in Col, NEW g \in Feat, NEW n \in Col,
         Cell(f, m) = Cell(g, n)
  PROVE  f = g /\ m = n
<1>1. n \in Int /\ n + 0 \in Col /\ Cell(f, m) - Cell(g, n) = 0
  BY CellType DEF Col, Cells
<1> QED
  BY <1>1, CellUnique

\* The same as addition: the element at b + j, reached from the row's element b.
LEMMA CellOffset ==
  ASSUME NEW g \in Feat, NEW b \in Int, NEW j \in Int
  PROVE  Cell(g, b) + j = Cell(g, b + j) /\ Cell(g, b) \in Int
<1>1. g * M \in Int
  BY SizeAssumption DEF Feat
<1> QED
  BY <1>1 DEF Cell

-----------------------------------------------------------------------------
\* The tile of the grid-stride loop, and the thread index, that column m of
\* cycle c belongs to; and the thread that gets that tile.
TileAt(c, m) == c * tiles_per_cyc + m \div cols_per_tile
LaneAt(m)    == (m % cols_per_tile) \div COLS
Owner(c, m)  == <<TileAt(c, m) % gridDim, LaneAt(m)>>

\* Position p of cycle c has been stored in column m.
Written(c, p, m) ==
  LET x == Owner(c, m)
      u == TileAt(c, m)
  IN  t[x] > u \/ (t[x] = u /\ pc[x] = "store" /\ p < k[x])

Reloading == {"fill", "sync2"}
Working   == {"load", "rotate", "store"}

\* What the branches taken so far say of t, cur_c and k.
ControlInv ==
  \A x \in Thread :
    /\ t[x] % gridDim = x[1]
    /\ pc[x] = "exit" => t[x] >= total
    /\ pc[x] \in {"sync1"} \cup Reloading => t[x] < total /\ CycleOf(t[x]) # cur_c[x]
    /\ pc[x] \in {"body"} \cup Working => t[x] < total /\ CycleOf(t[x]) = cur_c[x]
    /\ pc[x] \in Working => MBase(t[x], x[2]) < M
    /\ pc[x] = "rotate" => k[x] = 0

\* Between two tiles cur_c is the cycle of the previous tile.
PreviousInv ==
  \A x \in Thread :
    pc[x] \notin {"body"} \cup Working =>
      \/ t[x] = x[1] /\ cur_c[x] = -1
      \/ t[x] - gridDim \in Nat /\ CycleOf(t[x] - gridDim) = cur_c[x]

\* The threads of a CTA agree on cur_c, and reload the tables together.
UniformInv ==
  \A x, y \in Thread :
    x[1] = y[1] =>
      /\ cur_c[x] = cur_c[y]
      /\ pc[x] \in Reloading => pc[y] \in Reloading /\ t[y] = t[x]

\* The tables are those of cur_c while nobody reloads them; a thread that has
\* done its part of the reload has put its words in place.
TableInv ==
  \A x \in Thread :
    /\ pc[x] \notin Reloading /\ cur_c[x] # -1 =>
         sfeat[x[1]] = cyc_feat[cur_c[x]] /\ scs[x[1]] = cyc_cs[cur_c[x]]
    /\ pc[x] = "sync2" =>
         /\ x[2] \in Pos => sfeat[x[1]][x[2]] = cyc_feat[CycleOf(t[x])][x[2]]
         /\ x[2] \in Pair => scs[x[1]][x[2]] = cyc_cs[CycleOf(t[x])][x[2]]

\* The registers hold the original lane until the rotation, the rotated one after.
RegisterInv ==
  \A x \in Thread, q \in Pos, j \in Lane :
    LET m == MBase(t[x], x[2]) + j
    IN  /\ (pc[x] = "load" /\ q < k[x]) \/ pc[x] = "rotate" =>
             v[x][q][j] = Orig[Cell(cyc_feat[cur_c[x]][q], m)]
        /\ pc[x] = "store" => v[x][q][j] = Rotated(cur_c[x], q, m)

\* Every element is original or rotated, as the progress of its owner says.
DataInv ==
  /\ \A c \in Cycle, p \in Pos, m \in Col :
       data[Cell(cyc_feat[c][p], m)] =
         IF Written(c, p, m) THEN Rotated(c, p, m) ELSE Orig[Cell(cyc_feat[c][p], m)]
  /\ \A f \in Feat, m \in Col :
       (\A c \in Cycle, p \in Pos : cyc_feat[c][p] # f)
         => data[Cell(f, m)] = Orig[Cell(f, m)]

CtaInv == TypeOK /\ ControlInv /\ PreviousInv /\ UniformInv /\ TableInv
IInv   == CtaInv /\ RegisterInv /\ DataInv

-----------------------------------------------------------------------------
\* The launch parameters are numbers of the right kind; a row of data is a
\* whole number of lanes.
LEMMA Sizes ==
  /\ gridDim \in Nat \ {0} /\ THREADS \in Nat \ {0} /\ COLS \in Nat \ {0}
  /\ M \in Nat \ {0} /\ n_cyc \in Nat /\ LMAX \in Nat \ {0} /\ NPAIR \in Nat
  /\ cols_per_tile \in Nat \ {0}
  /\ tiles_per_cyc \in Nat \ {0}
  /\ total \in Nat
<1>1. /\ gridDim \in Nat \ {0} /\ THREADS \in Nat \ {0} /\ COLS \in Nat \ {0}
      /\ M \in Nat \ {0} /\ n_cyc \in Nat /\ LMAX \in Nat \ {0} /\ NPAIR \in Nat
  BY LaunchAssumption, SizeAssumption DEF COLS
<1>2. cols_per_tile \in Nat \ {0}
  <2>1. 1 * COLS <= THREADS * COLS
    BY <1>1, MulMono
  <2> QED
    BY <1>1, <2>1 DEF cols_per_tile
<1>3. tiles_per_cyc \in Nat \ {0}
  <2>1. cols_per_tile <= M + cols_per_tile - 1 /\ M + cols_per_tile - 1 \in Nat
    BY <1>1, <1>2
  <2>2. cols_per_tile \div cols_per_tile <= tiles_per_cyc
    BY <1>2, <2>1, DivMono DEF tiles_per_cyc
  <2>3. cols_per_tile \div cols_per_tile = 1
    BY <1>2, DivModUnique
  <2>4. tiles_per_cyc \in Nat
    BY <1>2, <2>1, DivMod DEF tiles_per_cyc
  <2> QED
    BY <2>2, <2>3, <2>4
<1> QED
  BY <1>1, <1>2, <1>3 DEF total

\* The cycle of a tile is a cycle, and later tiles have later cycles.
LEMMA CycleOfType ==
  ASSUME NEW u \in Nat
  PROVE  /\ CycleOf(u) \in Nat
         /\ TileOf(u) \in 0 .. tiles_per_cyc - 1
         /\ u < total => CycleOf(u) \in Cycle
<1>1. PICK c \in Nat, r \in 0 .. tiles_per_cyc - 1 :
        u = c * tiles_per_cyc + r /\ c = CycleOf(u)
  BY Sizes, DivMod DEF CycleOf
<1>2. r = TileOf(u)
  BY <1>1, Sizes DEF TileOf
<1>3. ASSUME u < total PROVE c < n_cyc
  <2>1. SUFFICES ASSUME n_cyc <= c PROVE FALSE
    BY Sizes
  <2>2. n_cyc * tiles_per_cyc <= c * tiles_per_cyc
    BY <2>1, Sizes, MulMono
  <2> QED
    BY <1>1, <1>3, <2>2, Sizes DEF total
<1> QED
  BY <1>1, <1>2, <1>3, Sizes DEF Cycle

LEMMA CycleOfMono ==
  ASSUME NEW u \in Nat, NEW w \in Nat, u <= w
  PROVE  CycleOf(u) <= CycleOf(w)
  BY Sizes, DivMono DEF CycleOf

\* A lane that starts inside the row ends inside it.
LEMMA LaneInRow ==
  ASSUME NEW u \in Nat, NEW i \in Tid, MBase(u, i) < M
  PROVE  /\ MBase(u, i) \in Nat
         /\ MBase(u, i) + COLS <= M
         /\ \A j \in Lane : MBase(u, i) + j \in Col
<1>1. PICK lanes \in 1 .. M : M = lanes * COLS
  BY LaunchAssumption
<1>2. PICK n \in Nat : n = TileOf(u) * THREADS + i
  BY CycleOfType, Sizes DEF Tid
<1>3. MBase(u, i) = n * COLS
  BY <1>2 DEF MBase
<1>4. n < lanes
  <2>1. SUFFICES ASSUME lanes <= n PROVE FALSE
    BY <1>1, <1>2
  <2>2. lanes * COLS <= n * COLS
    BY <1>1, <1>2, <2>1, Sizes, MulMono
  <2> QED
    BY <1>1, <1>3, <2>2, Sizes
<1>5. (n + 1) * COLS <= lanes * COLS
  BY <1>1, <1>4, Sizes, MulMono
<1>6. 0 * COLS <= n * COLS
  BY Sizes, MulMono
<1> QED
  BY <1>1, <1>3, <1>5, <1>6, Sizes DEF Lane, Col

\* A column of a lane belongs to the tile and the thread of that lane.
LEMMA TileOfLane ==
  ASSUME NEW u \in Nat, NEW i \in Tid, MBase(u, i) < M, NEW j \in Lane
  PROVE  /\ TileAt(CycleOf(u), MBase(u, i) + j) = u
         /\ LaneAt(MBase(u, i) + j) = i
<1>1. /\ COLS \in Nat \ {0} /\ THREADS \in Nat \ {0} /\ cols_per_tile \in Nat \ {0}
      /\ j \in 0 .. COLS - 1 /\ i \in 0 .. THREADS - 1 /\ TileOf(u) \in Nat
      /\ CycleOf(u) \in Nat /\ tiles_per_cyc \in Nat
  BY Sizes, CycleOfType DEF Lane, Tid
<1>2. PICK r \in Int : r = i * COLS + j
  BY <1>1
<1>3. r \in 0 .. cols_per_tile - 1
  <2>1. (i + 1) * COLS <= THREADS * COLS
    BY <1>1, MulMono
  <2>2. 0 * COLS <= i * COLS
    BY <1>1, MulMono
  <2> QED
    BY <1>1, <1>2, <2>1, <2>2 DEF cols_per_tile
<1>4. MBase(u, i) + j = TileOf(u) * cols_per_tile + r
  BY <1>1, <1>2 DEF MBase, cols_per_tile
<1>5. /\ (MBase(u, i) + j) \div cols_per_tile = TileOf(u)
      /\ (MBase(u, i) + j) % cols_per_tile = r
  <2>1. PICK a \in Int : a = MBase(u, i) + j
    BY <1>1, <1>3, <1>4
  <2>2. TileOf(u) \in Int /\ a = TileOf(u) * cols_per_tile + r
    BY <1>1, <1>4, <2>1
  <2>3. a \div cols_per_tile = TileOf(u) /\ a % cols_per_tile = r
    <3>1. cols_per_tile \in Nat \ {0}
      BY <1>1
    <3> QED
      BY <1>3, <2>2, <3>1, DivModUnique
  <2> QED
    BY <2>1, <2>3
<1>6. r \div COLS = i
  <2>1. i \in Int
    BY <1>1
  <2> QED
    BY <1>1, <1>2, <2>1, DivModUnique
<1>7. CycleOf(u) * tiles_per_cyc + TileOf(u) = u
  BY <1>1 DEF TileOf
<1> QED
  BY <1>5, <1>6, <1>7 DEF TileAt, LaneAt

\* Every column of every cycle belongs to a lane of a tile in the loop's range.
LEMMA LaneOfColumn ==
  ASSUME NEW c \in Cycle, NEW m \in Col
  PROVE  LET u == TileAt(c, m)
             i == LaneAt(m)
         IN  /\ u \in Nat /\ u < total /\ i \in Tid
             /\ Owner(c, m) \in Thread
             /\ Owner(c, m)[1] = u % gridDim /\ Owner(c, m)[2] = i
             /\ CycleOf(u) = c
             /\ MBase(u, i) < M
             /\ m - MBase(u, i) \in Lane
<1> DEFINE b == m \div cols_per_tile
           r == m % cols_per_tile
           u == TileAt(c, m)
           i == LaneAt(m)
<1>1. /\ c \in 0 .. n_cyc - 1 /\ m \in 0 .. M - 1 /\ tiles_per_cyc \in Nat \ {0}
      /\ COLS \in Nat \ {0} /\ THREADS \in Nat \ {0} /\ cols_per_tile \in Nat \ {0}
      /\ n_cyc \in Nat /\ M \in Nat /\ gridDim \in Nat \ {0}
  BY Sizes DEF Cycle, Col
<1>2. b \in Nat /\ r \in 0 .. cols_per_tile - 1 /\ m = b * cols_per_tile + r
  <2>1. m \in Nat
    BY <1>1
  <2> QED
    BY <1>1, <2>1, DivMod
<1>3. b < tiles_per_cyc
  <2>1. PICK s \in 0 .. cols_per_tile - 1 :
          M + cols_per_tile - 1 = tiles_per_cyc * cols_per_tile + s
    <3>1. M + cols_per_tile - 1 \in Nat
      BY <1>1
    <3> QED
      BY <1>1, <3>1, DivMod DEF tiles_per_cyc
  <2>2. SUFFICES ASSUME tiles_per_cyc <= b PROVE FALSE
    BY <1>1, <1>2
  <2>3. tiles_per_cyc * cols_per_tile <= b * cols_per_tile
    BY <1>1, <1>2, <2>2, MulMono
  <2> HIDE DEF b, r
  <2>4. tiles_per_cyc * cols_per_tile \in Int /\ b * cols_per_tile \in Int
    BY <1>1, <1>2
  <2> QED
    BY <1>1, <1>2, <2>1, <2>3, <2>4
<1>4. PICK j \in 0 .. COLS - 1 : r = i * COLS + j /\ i \in Nat
  <2>1. r \in Nat
    BY <1>1, <1>2
  <2> HIDE DEF r
  <2> QED
    BY <1>1, <2>1, DivMod DEF LaneAt, r
<1>5. i < THREADS
  <2>1. SUFFICES ASSUME THREADS <= i PROVE FALSE
    BY <1>1, <1>4
  <2>2. THREADS * COLS <= i * COLS
    BY <1>1, <1>4, <2>1, MulMono
  <2> HIDE DEF i, r
  <2> QED
    BY <1>1, <1>2, <1>4, <2>2 DEF cols_per_tile
<1> HIDE DEF b, r
<1>6. u = c * tiles_per_cyc + b
  BY DEF TileAt, b
<1>7. u \in Nat /\ u < total
  <2>1. (c + 1) * tiles_per_cyc <= n_cyc * tiles_per_cyc
    BY <1>1, MulMono
  <2>2. c * tiles_per_cyc \in Nat
    BY <1>1
  <2> QED
    BY <1>1, <1>2, <1>3, <1>6, <2>1, <2>2 DEF total
<1>8. CycleOf(u) = c /\ TileOf(u) = b
  <2>1. CycleOf(u) = c
    <3>1. b \in 0 .. tiles_per_cyc - 1 /\ c \in Int /\ u \in Int
      BY <1>1, <1>2, <1>3, <1>7
    <3> HIDE DEF u
    <3> QED
      BY <1>1, <1>6, <3>1, DivModUnique DEF CycleOf
  <2> QED
    BY <1>1, <1>2, <1>6, <2>1 DEF TileOf
<1>9. m = MBase(u, i) + j
  <2>1. (b * THREADS + i) * COLS = b * cols_per_tile + i * COLS
    BY <1>1, <1>2, <1>4 DEF cols_per_tile
  <2> QED
    BY <1>1, <1>2, <1>4, <1>8, <2>1 DEF MBase
<1>10. MBase(u, i) \in Int
  BY <1>1, <1>2, <1>4, <1>8 DEF MBase
<1>11. u % gridDim \in Cta
  BY <1>1, <1>7, DivMod DEF Cta
<1> HIDE DEF u, i
<1>12. i \in Tid /\ MBase(u, i) < M /\ m - MBase(u, i) \in Lane
  BY <1>1, <1>4, <1>5, <1>9, <1>10 DEF Tid, Lane
<1> QED
  BY <1>7, <1>8, <1>11, <1>12 DEF Owner, Thread, u, i

-----------------------------------------------------------------------------
\* A thread is a CTA and an index in it.
LEMMA ThreadType ==
  ASSUME NEW x \in Thread
  PROVE  /\ x[1] \in Cta /\ x[2] \in Tid /\ x = <<x[1], x[2]>>
         /\ x[1] \in Nat /\ x[1] < gridDim /\ x[2] \in Nat
  BY Sizes DEF Thread, Cta, Tid

LEMMA PosType ==
  /\ Pos = 0 .. LMAX - 1 /\ 0 \in Pos /\ Pos \subseteq Tid /\ Pair \subseteq Tid
  /\ \A q \in Pos : q \in Nat /\ (q + 1 < LMAX => q + 1 \in Pos)
  BY Sizes, LaunchAssumption DEF Pos, Pair, Tid

LEMMA TypeOKInit == Init => TypeOK
<1> SUFFICES ASSUME Init PROVE TypeOK
  OBVIOUS
<1>1. IsTable(data, Cells)
  BY TableAssumption DEF Init
<1>2. sfeat \in [Cta -> [Pos -> Feat]]
  BY LaunchAssumption DEF Init
<1>3. IsTable(scs, Cta) /\ \A b \in Cta : IsTable(scs[b], Pair)
  BY DEF Init, IsTable
<1>4. /\ pc \in [Thread -> PC] /\ t \in [Thread -> Nat]
      /\ cur_c \in [Thread -> Cycle \cup {-1}] /\ k \in [Thread -> Pos]
  BY ThreadType, PosType DEF Init, PC
<1>5. IsTable(v, Thread)
      /\ \A x \in Thread : IsTable(v[x], Pos) /\ \A q \in Pos : IsTable(v[x][q], Lane)
  BY DEF Init, IsTable
<1> QED
  BY <1>1, <1>2, <1>3, <1>4, <1>5 DEF TypeOK

\* A step of a loop over the positions stays in the loop until the last one.
LEMMA NextPosStep ==
  ASSUME TypeOK, NEW x \in Thread, NEW loop \in PC, NEW next \in PC,
         NextPos(x, loop, next)
  PROVE  /\ pc[x] = loop
         /\ pc' \in [Thread -> PC] /\ k' \in [Thread -> Pos]
         /\ \A y \in Thread \ {x} : pc'[y] = pc[y] /\ k'[y] = k[y]
         /\ \/ k[x] + 1 < LMAX /\ pc'[x] = loop /\ k'[x] = k[x] + 1
            \/ k[x] = LMAX - 1 /\ pc'[x] = next /\ k'[x] = 0
<1>1. CASE k[x] + 1 < LMAX
  <2>1. k[x] + 1 \in Pos
    BY <1>1, PosType DEF TypeOK
  <2>2. pc[x] = loop /\ pc' = [pc EXCEPT ![x] = loop] /\ k' = [k EXCEPT ![x] = k[x] + 1]
    BY <1>1 DEF NextPos, Goto
  <2> QED
    BY <1>1, <2>1, <2>2 DEF TypeOK
<1>2. CASE ~(k[x] + 1 < LMAX)
  <2>1. k[x] = LMAX - 1
    BY <1>2, PosType, Sizes DEF TypeOK
  <2>2. pc[x] = loop /\ pc' = [pc EXCEPT ![x] = next] /\ k' = [k EXCEPT ![x] = 0]
    BY <1>2 DEF NextPos, Goto
  <2> QED
    BY <2>1, <2>2, PosType DEF TypeOK
<1> QED
  BY <1>1, <1>2

\* A store either goes on with the next position or ends the tile.
LEMMA StoreStep ==
  ASSUME TypeOK, NEW x \in Thread, Store(x)
  PROVE  /\ pc[x] = "store" /\ UNCHANGED <<sfeat, scs, cur_c, v>>
         /\ pc' \in [Thread -> PC] /\ k' \in [Thread -> Pos] /\ t' \in [Thread -> Nat]
         /\ \A y \in Thread \ {x} : pc'[y] = pc[y] /\ k'[y] = k[y] /\ t'[y] = t[y]
         /\ \/ /\ k[x] + 1 < LMAX
               /\ pc'[x] = "store" /\ k'[x] = k[x] + 1 /\ t'[x] = t[x]
            \/ /\ k[x] = LMAX - 1
               /\ pc'[x] = "head" /\ k'[x] = 0 /\ t'[x] = t[x] + gridDim
<1>1. NextPos(x, "store", "head") /\ UNCHANGED <<sfeat, scs, cur_c, v>>
  BY DEF Store
<1>2. /\ pc[x] = "store"
      /\ pc' \in [Thread -> PC] /\ k' \in [Thread -> Pos]
      /\ \A y \in Thread \ {x} : pc'[y] = pc[y] /\ k'[y] = k[y]
      /\ \/ k[x] + 1 < LMAX /\ pc'[x] = "store" /\ k'[x] = k[x] + 1
         \/ k[x] = LMAX - 1 /\ pc'[x] = "head" /\ k'[x] = 0
  BY <1>1, NextPosStep DEF PC
<1>3. t' = IF k[x] + 1 < LMAX THEN t ELSE [t EXCEPT ![x] = t[x] + gridDim]
  BY DEF Store
<1>4. t \in [Thread -> Nat] /\ gridDim \in Nat /\ LMAX \in Nat
  BY Sizes DEF TypeOK
<1>5. t' \in [Thread -> Nat] /\ \A y \in Thread \ {x} : t'[y] = t[y]
  BY <1>3, <1>4
<1>6. CASE k[x] + 1 < LMAX /\ pc'[x] = "store" /\ k'[x] = k[x] + 1
  BY <1>1, <1>2, <1>3, <1>5, <1>6
<1>7. CASE k[x] = LMAX - 1 /\ pc'[x] = "head" /\ k'[x] = 0
  BY <1>1, <1>2, <1>3, <1>4, <1>5, <1>7
<1> QED
  BY <1>2, <1>6, <1>7

LEMMA TypeOKStep == TypeOK /\ ControlInv /\ [Next]_vars => TypeOK'
<1> SUFFICES ASSUME TypeOK, ControlInv, [Next]_vars PROVE TypeOK'
  OBVIOUS
<1> USE DEF TypeOK
<1>1. ASSUME NEW x \in Thread, Exit(x) PROVE TypeOK'
  BY <1>1 DEF Exit, Goto, PC
<1>2. ASSUME NEW x \in Thread, NewCycle(x) PROVE TypeOK'
  BY <1>2 DEF NewCycle, Goto, PC
<1>3. ASSUME NEW x \in Thread, SameCycle(x) PROVE TypeOK'
  BY <1>3 DEF SameCycle, Goto, PC
<1>4. ASSUME NEW x \in Thread, Fill(x) PROVE TypeOK'
  <2> DEFINE b == x[1]
             i == x[2]
             c == CycleOf(t[x])
  <2>1. b \in Cta /\ c \in Cycle
    BY <1>4, ThreadType, CycleOfType DEF Fill, Goto, ControlInv, Reloading
  <2> HIDE DEF c
  <2>2. sfeat' \in [Cta -> [Pos -> Feat]]
    <3>1. CASE i \in Pos
      <4>1. cyc_feat[c][i] \in Feat
        BY <2>1, <3>1, TableAssumption
      <4>2. sfeat' = [sfeat EXCEPT ![b][i] = cyc_feat[c][i]]
        BY <1>4, <3>1 DEF Fill, c
      <4> QED
        BY <2>1, <3>1, <4>1, <4>2
    <3>2. CASE i \notin Pos
      BY <1>4, <3>2 DEF Fill
    <3> QED
      BY <3>1, <3>2
  <2>3. IsTable(scs', Cta) /\ \A d \in Cta : IsTable(scs'[d], Pair)
    <3>1. CASE i \in Pair
      <4> DEFINE row == [scs[b] EXCEPT ![i] = cyc_cs[c][i]]
      <4>1. IsTable(row, Pair)
        BY <2>1, <3>1 DEF IsTable
      <4>2. scs' = [scs EXCEPT ![b] = row]
        BY <1>4, <3>1 DEF Fill, c
      <4> HIDE DEF row
      <4> QED
        BY <2>1, <4>1, <4>2 DEF IsTable
    <3>2. CASE i \notin Pair
      BY <1>4, <3>2 DEF Fill
    <3> QED
      BY <3>1, <3>2
  <2> QED
    BY <1>4, <2>2, <2>3 DEF Fill, Goto, PC
<1>5. ASSUME NEW x \in Thread, SkipLane(x) PROVE TypeOK'
  BY <1>5, Sizes DEF SkipLane, Goto, PC
<1>6. ASSUME NEW x \in Thread, TakeLane(x) PROVE TypeOK'
  BY <1>6, PosType DEF TakeLane, Goto, PC
<1>7. ASSUME NEW x \in Thread, Load(x) PROVE TypeOK'
  <2>1. /\ IsTable(v', Thread)
        /\ \A y \in Thread : IsTable(v'[y], Pos) /\ \A q \in Pos : IsTable(v'[y][q], Lane)
    <3> DEFINE lane == [j \in Lane |-> data[LaneBase(x) + j]]
               regs == [v[x] EXCEPT ![k[x]] = lane]
    <3>1. IsTable(lane, Lane)
      BY DEF IsTable
    <3> HIDE DEF lane
    <3>2. IsTable(regs, Pos) /\ \A q \in Pos : IsTable(regs[q], Lane)
      BY <3>1 DEF IsTable
    <3>3. v' = [v EXCEPT ![x] = regs]
      BY <1>7 DEF Load, lane
    <3> HIDE DEF regs
    <3> QED
      BY <3>2, <3>3 DEF IsTable
  <2>2. pc' \in [Thread -> PC] /\ k' \in [Thread -> Pos]
    BY <1>7, NextPosStep DEF Load, PC
  <2> QED
    BY <1>7, <2>1, <2>2 DEF Load
<1>8. ASSUME NEW x \in Thread, Rotate(x) PROVE TypeOK'
  <2>1. /\ IsTable(v', Thread)
        /\ \A y \in Thread : IsTable(v'[y], Pos) /\ \A q \in Pos : IsTable(v'[y][q], Lane)
    <3> DEFINE regs == [q \in Pos |-> [j \in Lane |->
                          Rot([p \in Pos |-> v[x][p][j]], scs[x[1]], q)]]
    <3>1. IsTable(regs, Pos) /\ \A q \in Pos : IsTable(regs[q], Lane)
      BY DEF IsTable
    <3>2. v' = [v EXCEPT ![x] = regs]
      BY <1>8 DEF Rotate
    <3> HIDE DEF regs
    <3> QED
      BY <3>1, <3>2 DEF IsTable
  <2> QED
    BY <1>8, <2>1 DEF Rotate, Goto, PC
<1>9. ASSUME NEW x \in Thread, Store(x) PROVE TypeOK'
  <2>1. IsTable(data', Cells)
    BY <1>9 DEF Store, IsTable
  <2> QED
    BY <1>9, <2>1, StoreStep
<1>10. ASSUME NEW b \in Cta, Barrier(b) PROVE TypeOK'
  <2>1. pc' \in [Thread -> PC]
    BY <1>10 DEF Barrier, PC
  <2>2. cur_c' \in [Thread -> Cycle \cup {-1}]
    <3>1. \A x \in Thread : pc[x] = "sync2" => CycleOf(t[x]) \in Cycle
      BY CycleOfType DEF ControlInv, Reloading
    <3> QED
      BY <1>10, <3>1 DEF Barrier
  <2> QED
    BY <1>10, <2>1, <2>2 DEF Barrier
<1>11. CASE UNCHANGED vars
  BY <1>11 DEF vars
<1> QED
  BY <1>1, <1>2, <1>3, <1>4, <1>5, <1>6, <1>7, <1>8, <1>9, <1>10, <1>11
     DEF Next, ThreadStep, Done

LEMMA ControlInit == Init => ControlInv
<1>1. ASSUME NEW x \in Thread PROVE x[1] % gridDim = x[1]
  <2>1. x[1] = 0 * gridDim + x[1] /\ x[1] \in 0 .. gridDim - 1 /\ x[1] \in Int
    BY ThreadType, Sizes
  <2> QED
    BY <2>1, Sizes, DivModUnique
<1> QED
  BY <1>1 DEF Init, ControlInv, Reloading, Working

LEMMA ControlStep == CtaInv /\ [Next]_vars => ControlInv'
<1> SUFFICES ASSUME CtaInv, [Next]_vars PROVE ControlInv'
  OBVIOUS
<1>0. TypeOK /\ ControlInv /\ UniformInv
  BY DEF CtaInv
<1> USE DEF TypeOK, ControlInv, Reloading, Working
<1>1. ASSUME NEW x \in Thread, Exit(x) PROVE ControlInv'
  BY <1>0, <1>1 DEF Exit, Goto
<1>2. ASSUME NEW x \in Thread, NewCycle(x) PROVE ControlInv'
  BY <1>0, <1>2 DEF NewCycle, Goto
<1>3. ASSUME NEW x \in Thread, SameCycle(x) PROVE ControlInv'
  BY <1>0, <1>3 DEF SameCycle, Goto
<1>4. ASSUME NEW x \in Thread, Fill(x) PROVE ControlInv'
  BY <1>0, <1>4 DEF Fill, Goto
<1>5. ASSUME NEW x \in Thread, SkipLane(x) PROVE ControlInv'
  BY <1>0, <1>5, Sizes, ModStep DEF SkipLane, Goto
<1>6. ASSUME NEW x \in Thread, TakeLane(x) PROVE ControlInv'
  BY <1>0, <1>6, PosType DEF TakeLane, Goto
<1>7. ASSUME NEW x \in Thread, Load(x) PROVE ControlInv'
  BY <1>0, <1>7, NextPosStep DEF Load, PC
<1>8. ASSUME NEW x \in Thread, Rotate(x) PROVE ControlInv'
  BY <1>0, <1>8 DEF Rotate, Goto
<1>9. ASSUME NEW x \in Thread, Store(x) PROVE ControlInv'
  <2>1. (t[x] + gridDim) % gridDim = t[x] % gridDim
    BY <1>0, Sizes, ModStep
  <2> QED
    BY <1>0, <1>9, <2>1, StoreStep
<1>10. ASSUME NEW b \in Cta, Barrier(b) PROVE ControlInv'
  BY <1>0, <1>10, CycleOfType DEF Barrier
<1>11. CASE UNCHANGED vars
  BY <1>0, <1>11 DEF vars
<1> QED
  BY <1>1, <1>2, <1>3, <1>4, <1>5, <1>6, <1>7, <1>8, <1>9, <1>10, <1>11
     DEF Next, ThreadStep, Done

LEMMA PreviousInit == Init => PreviousInv
  BY DEF Init, PreviousInv

LEMMA PreviousStep == CtaInv /\ [Next]_vars => PreviousInv'
<1> SUFFICES ASSUME CtaInv, [Next]_vars PROVE PreviousInv'
  OBVIOUS
<1>0. TypeOK /\ ControlInv /\ PreviousInv
  BY DEF CtaInv
<1> USE DEF TypeOK, PreviousInv, Working
<1>1. ASSUME NEW x \in Thread, Exit(x) PROVE PreviousInv'
  BY <1>0, <1>1 DEF Exit, Goto
<1>2. ASSUME NEW x \in Thread, NewCycle(x) PROVE PreviousInv'
  BY <1>0, <1>2 DEF NewCycle, Goto
<1>3. ASSUME NEW x \in Thread, SameCycle(x) PROVE PreviousInv'
  BY <1>0, <1>3 DEF SameCycle, Goto
<1>4. ASSUME NEW x \in Thread, Fill(x) PROVE PreviousInv'
  BY <1>0, <1>4 DEF Fill, Goto
<1>5. ASSUME NEW x \in Thread, SkipLane(x) PROVE PreviousInv'
  BY <1>0, <1>5, Sizes DEF SkipLane, Goto, ControlInv
<1>6. ASSUME NEW x \in Thread, TakeLane(x) PROVE PreviousInv'
  BY <1>0, <1>6 DEF TakeLane, Goto
<1>7. ASSUME NEW x \in Thread, Load(x) PROVE PreviousInv'
  BY <1>0, <1>7, NextPosStep DEF Load, PC
<1>8. ASSUME NEW x \in Thread, Rotate(x) PROVE PreviousInv'
  BY <1>0, <1>8 DEF Rotate, Goto
<1>9. ASSUME NEW x \in Thread, Store(x) PROVE PreviousInv'
  BY <1>0, <1>9, StoreStep, Sizes DEF ControlInv
<1>10. ASSUME NEW b \in Cta, Barrier(b) PROVE PreviousInv'
  BY <1>0, <1>10 DEF Barrier
<1>11. CASE UNCHANGED vars
  BY <1>0, <1>11 DEF vars
<1> QED
  BY <1>1, <1>2, <1>3, <1>4, <1>5, <1>6, <1>7, <1>8, <1>9, <1>10, <1>11
     DEF Next, ThreadStep, Done

\* No peer between two tiles is ahead of a thread that waits at the first
\* barrier: the waiting thread is at the first tile of a cycle, and a peer
\* further on would have cached that cycle.
LEMMA NobodyAhead ==
  ASSUME CtaInv, NEW x \in Thread, NEW y \in Thread, x[1] = y[1],
         pc[x] = "sync1", pc[y] \notin {"body"} \cup Working
  PROVE  ~(t[x] < t[y])
<1> DEFINE c == cur_c[x]
<1>1. SUFFICES ASSUME t[x] < t[y] PROVE FALSE
  OBVIOUS
<1>2. /\ t[x] \in Nat /\ t[y] \in Nat /\ gridDim \in Nat \ {0}
      /\ t[x] % gridDim = t[y] % gridDim
      /\ cur_c[y] = c /\ CycleOf(t[x]) # c
  BY Sizes DEF CtaInv, TypeOK, ControlInv, UniformInv
<1>3. t[x] + gridDim <= t[y]
  BY <1>1, <1>2, SameMod
<1>4. t[y] - gridDim \in Nat /\ CycleOf(t[y] - gridDim) = c
  BY <1>2, <1>3, ThreadType DEF CtaInv, PreviousInv
<1>5. CycleOf(t[x]) <= c /\ c \in Nat /\ CycleOf(t[x]) \in Nat
  BY <1>2, <1>3, <1>4, CycleOfMono, CycleOfType
<1>6. t[x] - gridDim \in Nat /\ CycleOf(t[x] - gridDim) = c
  BY <1>5 DEF CtaInv, PreviousInv, Working
<1>7. c <= CycleOf(t[x])
  BY <1>2, <1>6, CycleOfMono
<1> QED
  BY <1>2, <1>5, <1>7

LEMMA BarrierUniformLemma == CtaInv => BarrierUniform
<1>1. SUFFICES ASSUME CtaInv, NEW x \in Thread, NEW y \in Thread, x[1] = y[1],
                      pc[x] \in {"sync1", "sync2"}
               PROVE  /\ pc[y] # "exit"
                      /\ pc[y] \in {"sync1", "sync2"} => pc[y] = pc[x] /\ t[y] = t[x]
  BY DEF BarrierUniform
<1>2. CASE pc[x] = "sync2"
  <2>1. UniformInv
    BY <1>1 DEF CtaInv
  <2> QED
    BY <1>1, <1>2, <2>1 DEF UniformInv, Reloading
<1>3. CASE pc[x] = "sync1"
  <2>1. /\ t[x] \in Nat /\ t[y] \in Nat /\ total \in Nat /\ t[x] < total
        /\ pc[y] = "exit" => t[y] >= total
    <3>1. TypeOK /\ ControlInv
      BY <1>1 DEF CtaInv
    <3> QED
      BY <1>3, <3>1, Sizes DEF TypeOK, ControlInv
  <2>2. pc[y] # "exit"
    BY <1>1, <1>3, <2>1, NobodyAhead DEF Working
  <2>3. pc[y] # "sync2"
    BY <1>1, <1>3 DEF CtaInv, UniformInv, Reloading
  <2>4. pc[y] = "sync1" => t[y] = t[x]
    BY <1>1, <1>3, <2>1, NobodyAhead DEF Working
  <2> QED
    BY <1>3, <2>2, <2>3, <2>4
<1> QED
  BY <1>1, <1>2, <1>3

\* When a barrier opens, the whole CTA is at one of its two call sites.
LEMMA BarrierSites ==
  ASSUME CtaInv, NEW b \in Cta, Barrier(b)
  PROVE  /\ UNCHANGED <<data, sfeat, scs, t, k, v>>
         /\ \A y \in Thread : y[1] # b => pc'[y] = pc[y] /\ cur_c'[y] = cur_c[y]
         /\ \E site \in {"sync1", "sync2"}, u \in Nat :
              \A y \in Thread : y[1] = b =>
                /\ pc[y] = site /\ t[y] = u
                /\ pc'[y] = IF site = "sync1" THEN "fill" ELSE "body"
                /\ cur_c'[y] = IF site = "sync1" THEN cur_c[y] ELSE CycleOf(u)
<1> DEFINE peers == {b} \X Tid
<1>1. \A y \in Thread : y \in peers <=> y[1] = b
  BY DEF Thread
<1>2. PICK x \in Thread : x[1] = b /\ pc[x] \in {"sync1", "sync2"}
  BY DEF Barrier, Thread
<1>3. \A y \in Thread : y[1] = b => pc[y] \in {"sync1", "sync2"} \/ pc[y] = "exit"
  BY <1>1 DEF Barrier
<1>4. \A y \in Thread : y[1] = b => pc[y] = pc[x] /\ t[y] = t[x]
  BY <1>2, <1>3, BarrierUniformLemma DEF BarrierUniform
<1>5. t[x] \in Nat
  BY DEF CtaInv, TypeOK
<1> QED
  BY <1>1, <1>2, <1>4, <1>5 DEF Barrier

LEMMA UniformInit == Init => UniformInv
  BY DEF Init, UniformInv, Reloading

LEMMA UniformStep == CtaInv /\ [Next]_vars => UniformInv'
<1> SUFFICES ASSUME CtaInv, [Next]_vars PROVE UniformInv'
  OBVIOUS
<1>0. TypeOK /\ ControlInv /\ UniformInv
  BY DEF CtaInv
<1> USE DEF TypeOK, UniformInv, Reloading
<1>1. ASSUME NEW x \in Thread, Exit(x) PROVE UniformInv'
  BY <1>0, <1>1 DEF Exit, Goto
<1>2. ASSUME NEW x \in Thread, NewCycle(x) PROVE UniformInv'
  BY <1>0, <1>2 DEF NewCycle, Goto
<1>3. ASSUME NEW x \in Thread, SameCycle(x) PROVE UniformInv'
  BY <1>0, <1>3 DEF SameCycle, Goto
<1>4. ASSUME NEW x \in Thread, Fill(x) PROVE UniformInv'
  BY <1>0, <1>4 DEF Fill, Goto
<1>5. ASSUME NEW x \in Thread, SkipLane(x) PROVE UniformInv'
  BY <1>0, <1>5 DEF SkipLane, Goto
<1>6. ASSUME NEW x \in Thread, TakeLane(x) PROVE UniformInv'
  BY <1>0, <1>6 DEF TakeLane, Goto
<1>7. ASSUME NEW x \in Thread, Load(x) PROVE UniformInv'
  BY <1>0, <1>7, NextPosStep DEF Load, PC
<1>8. ASSUME NEW x \in Thread, Rotate(x) PROVE UniformInv'
  BY <1>0, <1>8 DEF Rotate, Goto
<1>9. ASSUME NEW x \in Thread, Store(x) PROVE UniformInv'
  BY <1>0, <1>9, StoreStep
<1>10. ASSUME NEW b \in Cta, Barrier(b) PROVE UniformInv'
  BY <1>0, <1>10, BarrierSites
<1>11. CASE UNCHANGED vars
  BY <1>0, <1>11 DEF vars
<1> QED
  BY <1>1, <1>2, <1>3, <1>4, <1>5, <1>6, <1>7, <1>8, <1>9, <1>10, <1>11
     DEF Next, ThreadStep, Done

LEMMA TableInit == Init => TableInv
  BY DEF Init, TableInv

LEMMA TableStep == CtaInv /\ [Next]_vars => TableInv'
<1> SUFFICES ASSUME CtaInv, [Next]_vars PROVE TableInv'
  OBVIOUS
<1>0. TypeOK /\ ControlInv /\ UniformInv /\ TableInv
  BY DEF CtaInv
<1> USE DEF TypeOK, TableInv, Reloading
<1>1. ASSUME NEW x \in Thread, Exit(x) PROVE TableInv'
  BY <1>0, <1>1 DEF Exit, Goto
<1>2. ASSUME NEW x \in Thread, NewCycle(x) PROVE TableInv'
  BY <1>0, <1>2 DEF NewCycle, Goto
<1>3. ASSUME NEW x \in Thread, SameCycle(x) PROVE TableInv'
  BY <1>0, <1>3 DEF SameCycle, Goto
<1>4. ASSUME NEW x \in Thread, Fill(x) PROVE TableInv'
  <2> DEFINE b == x[1]
             i == x[2]
             c == CycleOf(t[x])
  <2>1. /\ pc[x] = "fill" /\ pc' = [pc EXCEPT ![x] = "sync2"]
        /\ UNCHANGED <<t, cur_c>>
    BY <1>4 DEF Fill, Goto
  <2>2. /\ i \in Pos => sfeat'[b][i] = cyc_feat[c][i]
        /\ \A d \in Cta, p \in Pos : d # b \/ p # i => sfeat'[d][p] = sfeat[d][p]
        /\ \A d \in Cta : d # b => sfeat'[d] = sfeat[d]
    BY <1>0, <1>4, ThreadType DEF Fill
  <2>3. /\ i \in Pair => scs'[b][i] = cyc_cs[c][i]
        /\ \A d \in Cta, p \in Pair : d # b \/ p # i => scs'[d][p] = scs[d][p]
        /\ \A d \in Cta : d # b => scs'[d] = scs[d]
    BY <1>0, <1>4, ThreadType DEF Fill, IsTable
  <2> HIDE DEF c
  <2>4. SUFFICES ASSUME NEW y \in Thread
                 PROVE /\ pc'[y] \notin Reloading /\ cur_c[y] # -1 =>
                            /\ sfeat'[y[1]] = cyc_feat[cur_c[y]]
                            /\ scs'[y[1]] = cyc_cs[cur_c[y]]
                       /\ pc'[y] = "sync2" =>
                            /\ y[2] \in Pos => sfeat'[y[1]][y[2]] = cyc_feat[CycleOf(t[y])][y[2]]
                            /\ y[2] \in Pair => scs'[y[1]][y[2]] = cyc_cs[CycleOf(t[y])][y[2]]
    BY <2>1
  <2>5. CASE y = x
    BY <1>0, <2>1, <2>2, <2>3, <2>5 DEF c
  <2>6. CASE y # x /\ y[1] = b
    <3>1. y[2] # i
      BY <2>6, ThreadType
    <3>2. pc[y] \in Reloading /\ pc'[y] = pc[y]
      BY <1>0, <2>1, <2>6 DEF UniformInv
    <3> QED
      BY <1>0, <2>2, <2>3, <2>6, <3>1, <3>2, ThreadType
  <2>7. CASE y[1] # b
    BY <1>0, <2>1, <2>2, <2>3, <2>7, ThreadType
  <2> QED
    BY <2>5, <2>6, <2>7
<1>5. ASSUME NEW x \in Thread, SkipLane(x) PROVE TableInv'
  BY <1>0, <1>5 DEF SkipLane, Goto
<1>6. ASSUME NEW x \in Thread, TakeLane(x) PROVE TableInv'
  BY <1>0, <1>6 DEF TakeLane, Goto
<1>7. ASSUME NEW x \in Thread, Load(x) PROVE TableInv'
  BY <1>0, <1>7, NextPosStep DEF Load, PC
<1>8. ASSUME NEW x \in Thread, Rotate(x) PROVE TableInv'
  BY <1>0, <1>8 DEF Rotate, Goto
<1>9. ASSUME NEW x \in Thread, Store(x) PROVE TableInv'
  BY <1>0, <1>9, StoreStep
<1>10. ASSUME NEW b \in Cta, Barrier(b) PROVE TableInv'
  <2>1. /\ UNCHANGED <<sfeat, scs, t>>
        /\ \A y \in Thread : y[1] # b => pc'[y] = pc[y] /\ cur_c'[y] = cur_c[y]
    BY <1>10, BarrierSites
  <2>2. PICK site \in {"sync1", "sync2"}, u \in Nat :
          \A y \in Thread : y[1] = b =>
            /\ pc[y] = site /\ t[y] = u
            /\ pc'[y] = IF site = "sync1" THEN "fill" ELSE "body"
            /\ cur_c'[y] = IF site = "sync1" THEN cur_c[y] ELSE CycleOf(u)
    BY <1>10, BarrierSites
  <2>3. CASE site = "sync1"
    BY <1>0, <2>1, <2>2, <2>3
  <2>4. CASE site = "sync2"
    <3>1. \A i \in Tid : <<b, i>> \in Thread /\ <<b, i>>[1] = b /\ <<b, i>>[2] = i
      BY DEF Thread
    <3>2. \A i \in Tid : pc[<<b, i>>] = "sync2" /\ t[<<b, i>>] = u
      BY <2>2, <2>4, <3>1
    <3>3. \A i \in Tid : /\ i \in Pos => sfeat[b][i] = cyc_feat[CycleOf(u)][i]
                         /\ i \in Pair => scs[b][i] = cyc_cs[CycleOf(u)][i]
      <4>1. SUFFICES ASSUME NEW i \in Tid
                     PROVE /\ i \in Pos => sfeat[b][i] = cyc_feat[CycleOf(u)][i]
                           /\ i \in Pair => scs[b][i] = cyc_cs[CycleOf(u)][i]
        OBVIOUS
      <4>2. PICK x \in Thread : x[1] = b /\ x[2] = i /\ pc[x] = "sync2" /\ t[x] = u
        BY <3>1, <3>2
      <4> QED
        BY <1>0, <4>2
    <3>4. CycleOf(u) \in Cycle
      <4>1. 0 \in Tid
        BY PosType
      <4>2. PICK x \in Thread : pc[x] = "sync2" /\ t[x] = u
        BY <3>1, <3>2, <4>1
      <4>3. u < total
        BY <1>0, <4>2 DEF ControlInv
      <4> QED
        BY <4>3, CycleOfType
    <3>5. sfeat[b] = cyc_feat[CycleOf(u)]
      <4>1. sfeat[b] \in [Pos -> Feat] /\ cyc_feat[CycleOf(u)] \in [Pos -> Feat]
        BY <1>0, <3>4, TableAssumption
      <4> QED
        <5>1. \A p \in Pos : sfeat[b][p] = cyc_feat[CycleOf(u)][p]
          BY <3>3, PosType
        <5> QED
          BY <4>1, <5>1
    <3>6. scs[b] = cyc_cs[CycleOf(u)]
      <4>1. IsTable(scs[b], Pair) /\ IsTable(cyc_cs[CycleOf(u)], Pair)
        BY <1>0, <3>4, TableAssumption
      <4> QED
        BY <3>3, <4>1, PosType DEF IsTable
    <3> QED
      BY <1>0, <2>1, <2>2, <2>4, <3>5, <3>6
  <2> QED
    BY <2>3, <2>4
<1>11. CASE UNCHANGED vars
  BY <1>0, <1>11 DEF vars
<1> QED
  BY <1>1, <1>2, <1>3, <1>4, <1>5, <1>6, <1>7, <1>8, <1>9, <1>10, <1>11
     DEF Next, ThreadStep, Done

LEMMA CtaInvInit == Init => CtaInv
  BY TypeOKInit, ControlInit, PreviousInit, UniformInit, TableInit DEF CtaInv

LEMMA CtaInvStep == CtaInv /\ [Next]_vars => CtaInv'
  BY TypeOKStep, ControlStep, PreviousStep, UniformStep, TableStep DEF CtaInv

\* What the reload of the tables rests on, whatever the grid and the matrix.
THEOREM CtaInvariant == Spec => []CtaInv
  BY CtaInvInit, CtaInvStep, PTL DEF Spec

\* Every variable keeps the shape the kernel declares.
THEOREM TypeCorrect == Spec => []TypeOK
<1>1. CtaInv => TypeOK
  BY DEF CtaInv
<1> QED
  BY <1>1, CtaInvariant, PTL

\* The __syncthreads() of rot_persist are never divergent.
THEOREM BarrierSafety == Spec => []BarrierUniform
  BY BarrierUniformLemma, CtaInvariant, PTL

\* No thread ever works with another cycle's tables.
LEMMA TablesCurrentLemma == CtaInv => TablesCurrent
<1>1. SUFFICES ASSUME CtaInv, NEW x \in Thread, pc[x] \in Working
               PROVE /\ sfeat[x[1]] = cyc_feat[CycleOf(t[x])]
                     /\ scs[x[1]] = cyc_cs[CycleOf(t[x])]
  BY DEF TablesCurrent, Working
<1>2. CycleOf(t[x]) = cur_c[x] /\ cur_c[x] # -1
  BY <1>1, CycleOfType DEF CtaInv, ControlInv, TypeOK
<1> QED
  BY <1>1, <1>2 DEF CtaInv, TableInv, Working, Reloading

THEOREM TableSafety == Spec => []TablesCurrent
  BY TablesCurrentLemma, CtaInvariant, PTL

-----------------------------------------------------------------------------
\* The element that thread x reaches at offset j of position q is column
\* MBase + j of the feature, and x is its owner.
LEMMA LaneElement ==
  ASSUME CtaInv, NEW x \in Thread, pc[x] \in Working, NEW q \in Pos, NEW j \in Lane
  PROVE  LET m == MBase(t[x], x[2]) + j
             c == cur_c[x]
         IN  /\ c \in Cycle /\ m \in Col /\ m - j = MBase(t[x], x[2])
             /\ cyc_feat[c][q] \in Feat /\ sfeat[x[1]][q] = cyc_feat[c][q]
             /\ Cell(cyc_feat[c][q], MBase(t[x], x[2])) + j = Cell(cyc_feat[c][q], m)
             /\ Cell(cyc_feat[c][q], m) \in Cells
             /\ TileAt(c, m) = t[x] /\ Owner(c, m) = x
<1> DEFINE m == MBase(t[x], x[2]) + j
           c == cur_c[x]
<1>1. /\ t[x] \in Nat /\ x[1] = t[x] % gridDim /\ MBase(t[x], x[2]) < M
      /\ t[x] < total /\ CycleOf(t[x]) = c
  BY DEF CtaInv, TypeOK, ControlInv, Working
<1>2. c \in Cycle
  BY <1>1, CycleOfType
<1>3. m \in Col /\ MBase(t[x], x[2]) \in Int /\ j \in Int
  BY <1>1, ThreadType, LaneInRow, Sizes DEF Lane
<1>4. cyc_feat[c][q] \in Feat
  BY <1>2, TableAssumption
<1>5. sfeat[x[1]][q] = cyc_feat[c][q]
  BY <1>1, TablesCurrentLemma DEF TablesCurrent, Working
<1>6. TileAt(c, m) = t[x] /\ LaneAt(m) = x[2]
  BY <1>1, ThreadType, TileOfLane
<1>7. Owner(c, m) = x
  BY <1>1, <1>6, ThreadType DEF Owner
<1> HIDE DEF c
<1>8. /\ Cell(cyc_feat[c][q], MBase(t[x], x[2])) + j = Cell(cyc_feat[c][q], m)
      /\ Cell(cyc_feat[c][q], m) \in Cells
  BY <1>3, <1>4, CellOffset, CellType
<1> QED
  BY <1>2, <1>3, <1>4, <1>5, <1>6, <1>7, <1>8 DEF c

\* Distinct threads at work hold disjoint lanes.
LEMMA LanesDisjointLemma == CtaInv => LanesDisjoint
<1> SUFFICES ASSUME CtaInv PROVE LanesDisjoint
  OBVIOUS
<1>1. ASSUME NEW x \in Thread, pc[x] \in Working
      PROVE MBase(t[x], x[2]) + COLS <= M /\ CycleOf(t[x]) = cur_c[x]
  <2>1. t[x] \in Nat /\ MBase(t[x], x[2]) < M /\ CycleOf(t[x]) = cur_c[x]
    BY <1>1 DEF CtaInv, TypeOK, ControlInv, Working
  <2> QED
    BY <2>1, ThreadType, LaneInRow
<1>2. ASSUME NEW x \in Thread, pc[x] \in Working, NEW y \in Thread, pc[y] \in Working,
             NEW a \in LaneCells(x), a \in LaneCells(y)
      PROVE x = y
  <2>1. PICK q \in Pos, j \in Lane :
          a = Cell(cyc_feat[cur_c[x]][q], MBase(t[x], x[2])) + j
    BY <1>1, <1>2 DEF LaneCells
  <2>2. PICK p \in Pos, i \in Lane :
          a = Cell(cyc_feat[cur_c[y]][p], MBase(t[y], y[2])) + i
    BY <1>1, <1>2 DEF LaneCells
  <2> DEFINE m == MBase(t[x], x[2]) + j
             n == MBase(t[y], y[2]) + i
             c == cur_c[x]
             d == cur_c[y]
  <2>3. /\ c \in Cycle /\ m \in Col /\ cyc_feat[c][q] \in Feat
        /\ a = Cell(cyc_feat[c][q], m) /\ Owner(c, m) = x
    BY <1>2, <2>1, LaneElement
  <2>4. /\ d \in Cycle /\ n \in Col /\ cyc_feat[d][p] \in Feat
        /\ a = Cell(cyc_feat[d][p], n) /\ Owner(d, n) = y
    BY <1>2, <2>2, LaneElement
  <2> HIDE DEF m, n, c, d
  <2>5. cyc_feat[c][q] = cyc_feat[d][p] /\ m = n
    BY <2>3, <2>4, CellInjective
  <2>6. c = d
    BY <2>3, <2>4, <2>5, TableAssumption
  <2> QED
    BY <2>3, <2>4, <2>5, <2>6
<1>3. \A x, y \in Thread : pc[x] \in Working /\ pc[y] \in Working /\ x # y
         => LaneCells(x) \cap LaneCells(y) = {}
  BY <1>2
<1> HIDE DEF CtaInv
<1> QED
  BY <1>1, <1>3 DEF LanesDisjoint, Working

\* No two threads ever hold a common element, and no lane leaves its row.
THEOREM RaceFreedom == Spec => []LanesDisjoint
  BY LanesDisjointLemma, CtaInvariant, PTL

-----------------------------------------------------------------------------
\* data does not change and no thread stores or moves to another tile: the
\* same elements are rotated as before.
LEMMA DataKept ==
  ASSUME TypeOK, DataInv, UNCHANGED <<data, t>>,
         \A x \in Thread :
           \/ pc[x] = "store" /\ pc'[x] = "store" /\ k'[x] = k[x]
           \/ pc[x] # "store" /\ (pc'[x] # "store" \/ k'[x] = 0)
  PROVE  DataInv'
<1>1. ASSUME NEW c \in Cycle, NEW p \in Pos, NEW m \in Col
      PROVE  Written(c, p, m)' <=> Written(c, p, m)
  <2>1. Owner(c, m) \in Thread /\ p \in Nat
    BY LaneOfColumn, PosType
  <2> QED
    BY <2>1 DEF Written
<1> QED
  BY <1>1 DEF DataInv

\* The same when thread x goes on to its next tile after one in which every
\* element of its lane, if it has one, is rotated.
LEMMA NextTile ==
  ASSUME CtaInv, NEW x \in Thread, NEW c \in Cycle, NEW p \in Pos, NEW m \in Col,
         pc[x] \in {"body", "store"},
         t'[x] = t[x] + gridDim, pc'[x] = "head",
         Owner(c, m) = x
  PROVE  Written(c, p, m)' <=> TileAt(c, m) <= t[x]
<1> DEFINE u == TileAt(c, m)
<1>1. u \in Nat /\ u % gridDim = x[1]
  BY LaneOfColumn
<1>2. t[x] \in Nat /\ t[x] % gridDim = x[1] /\ gridDim \in Nat \ {0}
  BY Sizes DEF CtaInv, TypeOK, ControlInv
<1>3. Written(c, p, m)' <=> t'[x] > u
  BY DEF Written
<1> HIDE DEF u
<1>4. t[x] < u => t[x] + gridDim <= u
  BY <1>1, <1>2, SameMod
<1> QED
  BY <1>1, <1>2, <1>3, <1>4 DEF u

LEMMA DataInit == Init => DataInv
<1> SUFFICES ASSUME Init PROVE DataInv
  OBVIOUS
<1>1. ASSUME NEW c \in Cycle, NEW p \in Pos, NEW m \in Col PROVE ~Written(c, p, m)
  <2>1. /\ Owner(c, m) \in Thread /\ Owner(c, m)[1] = TileAt(c, m) % gridDim
        /\ TileAt(c, m) \in Nat
    BY LaneOfColumn
  <2>2. TileAt(c, m) % gridDim <= TileAt(c, m) /\ TileAt(c, m) % gridDim \in Nat
    BY <2>1, Sizes, ModAtMost
  <2>3. t[Owner(c, m)] = TileAt(c, m) % gridDim /\ pc[Owner(c, m)] = "head"
    BY <2>1 DEF Init
  <2> QED
    BY <2>1, <2>2, <2>3 DEF Written
<1> QED
  BY <1>1 DEF Init, DataInv

\* An element of data that a store of x does not reach is left alone.
LEMMA StoreElsewhere ==
  ASSUME CtaInv, NEW x \in Thread, Store(x), NEW f \in Feat, NEW m \in Col,
         \/ f # cyc_feat[cur_c[x]][k[x]]
         \/ m - MBase(t[x], x[2]) \notin Lane
  PROVE  data'[Cell(f, m)] = data[Cell(f, m)]
<1> DEFINE b == MBase(t[x], x[2])
           g == cyc_feat[cur_c[x]][k[x]]
<1>1. pc[x] \in Working /\ k[x] \in Pos
  BY DEF CtaInv, TypeOK, Store, NextPos, Goto, Working
<1>2. cur_c[x] \in Cycle /\ g \in Feat /\ b \in Int /\ LaneBase(x) = Cell(g, b)
      /\ \A j \in Lane : b + j \in Col
  <2>1. 0 \in Lane
    BY Sizes DEF Lane
  <2>2. t[x] \in Nat /\ MBase(t[x], x[2]) < M
    BY <1>1 DEF CtaInv, TypeOK, ControlInv
  <2> QED
    BY <1>1, <2>1, <2>2, ThreadType, LaneInRow, LaneElement DEF LaneBase
<1>3. Cell(f, m) - LaneBase(x) \notin Lane
  <2>1. SUFFICES ASSUME NEW j \in Lane, Cell(f, m) - Cell(g, b) = j PROVE FALSE
    BY <1>2
  <2>2. j \in Int /\ m \in Int
    BY DEF Lane, Col
  <2> HIDE DEF b, g
  <2>3. f = g /\ m = b + j
    BY <1>2, <2>1, <2>2, CellUnique
  <2>4. m - b = j
    BY <1>2, <2>2, <2>3
  <2> QED
    BY <2>3, <2>4 DEF b, g
<1>4. Cell(f, m) \in Cells
  BY CellType
<1> QED
  BY <1>3, <1>4 DEF Store

\* A store puts the registers of its position in its lane.
LEMMA StoreHere ==
  ASSUME CtaInv, NEW x \in Thread, Store(x), NEW j \in Lane
  PROVE  data'[Cell(cyc_feat[cur_c[x]][k[x]], MBase(t[x], x[2]) + j)] = v[x][k[x]][j]
<1> DEFINE b == MBase(t[x], x[2])
           g == cyc_feat[cur_c[x]][k[x]]
<1>1. pc[x] \in Working /\ k[x] \in Pos
  BY DEF CtaInv, TypeOK, Store, NextPos, Goto, Working
<1>2. /\ Cell(g, b) + j = Cell(g, b + j) /\ Cell(g, b + j) \in Cells
      /\ LaneBase(x) = Cell(g, b) /\ g \in Feat
  BY <1>1, LaneElement DEF LaneBase
<1>3. b \in Int /\ j \in Int
  <2>1. t[x] \in Nat /\ MBase(t[x], x[2]) < M
    BY <1>1 DEF CtaInv, TypeOK, ControlInv
  <2> QED
    BY <2>1, ThreadType, LaneInRow DEF Lane
<1> HIDE DEF b, g
<1>4. Cell(g, b) \in Int
  BY <1>2, <1>3, CellOffset
<1>5. Cell(g, b + j) - LaneBase(x) = j
  BY <1>2, <1>3, <1>4
<1> QED
  BY <1>2, <1>5 DEF Store, b, g

LEMMA DataStep == IInv /\ [Next]_vars => DataInv'
<1> SUFFICES ASSUME IInv, [Next]_vars PROVE DataInv'
  OBVIOUS
<1>0. /\ CtaInv /\ TypeOK /\ DataInv /\ RegisterInv
      /\ \A x \in Thread : pc[x] = "rotate" => k[x] = 0
  BY DEF IInv, CtaInv, ControlInv
<1>1. ASSUME NEW x \in Thread, Exit(x) \/ NewCycle(x) \/ SameCycle(x) \/ Fill(x) \/ TakeLane(x)
      PROVE DataInv'
  <2>1. UNCHANGED <<data, t>>
    BY <1>1 DEF Exit, NewCycle, SameCycle, Fill, TakeLane
  <2>2. /\ pc[x] \in {"head", "fill", "body"} /\ pc'[x] # "store"
        /\ \A y \in Thread \ {x} : pc'[y] = pc[y] /\ k'[y] = k[y]
    BY <1>0, <1>1 DEF TypeOK, Exit, NewCycle, SameCycle, Fill, TakeLane, Goto
  <2> QED
    BY <1>0, <2>1, <2>2, DataKept
<1>2. ASSUME NEW x \in Thread, SkipLane(x) PROVE DataInv'
  <2>1. /\ pc[x] = "body" /\ pc'[x] = "head" /\ t'[x] = t[x] + gridDim
        /\ UNCHANGED data
        /\ \A y \in Thread \ {x} : pc'[y] = pc[y] /\ t'[y] = t[y] /\ k'[y] = k[y]
        /\ MBase(t[x], x[2]) >= M
    BY <1>0, <1>2 DEF TypeOK, SkipLane, Goto
  <2>2. ASSUME NEW c \in Cycle, NEW p \in Pos, NEW m \in Col
        PROVE  Written(c, p, m)' <=> Written(c, p, m)
    <3>1. CASE Owner(c, m) # x
      BY <2>1, <3>1, LaneOfColumn DEF Written
    <3>2. CASE Owner(c, m) = x
      <4>1. TileAt(c, m) \in Nat /\ MBase(TileAt(c, m), x[2]) < M /\ MBase(t[x], x[2]) >= M
        BY <2>1, <3>2, LaneOfColumn
      <4>2. t[x] \in Nat /\ TileAt(c, m) # t[x]
        BY <1>0, <4>1, LaneInRow, ThreadType, Sizes DEF TypeOK
      <4>3. Written(c, p, m)' <=> TileAt(c, m) <= t[x]
        BY <1>0, <2>1, <3>2, NextTile
      <4>4. Written(c, p, m) <=> t[x] > TileAt(c, m)
        BY <3>2, <4>2 DEF Written
      <4> QED
        BY <4>1, <4>2, <4>3, <4>4
    <3> QED
      BY <3>1, <3>2
  <2> QED
    BY <1>0, <2>1, <2>2 DEF DataInv
<1>3. ASSUME NEW x \in Thread, Load(x) PROVE DataInv'
  <2>1. /\ pc[x] = "load" /\ UNCHANGED <<data, t>>
        /\ pc'[x] # "store"
        /\ \A y \in Thread \ {x} : pc'[y] = pc[y] /\ k'[y] = k[y]
    BY <1>0, <1>3, NextPosStep DEF Load, PC
  <2> QED
    BY <1>0, <2>1, DataKept
<1>4. ASSUME NEW x \in Thread, Rotate(x) PROVE DataInv'
  <2>1. /\ pc[x] = "rotate" /\ UNCHANGED <<data, t, k>> /\ k[x] = 0
        /\ \A y \in Thread \ {x} : pc'[y] = pc[y]
    BY <1>0, <1>4 DEF TypeOK, Rotate, Goto
  <2> QED
    BY <1>0, <2>1, DataKept
<1>5. ASSUME NEW x \in Thread, Store(x) PROVE DataInv'
  <2>1. /\ pc[x] = "store" /\ pc[x] \in Working /\ k[x] \in Pos /\ t[x] \in Nat
        /\ \A y \in Thread \ {x} : pc'[y] = pc[y] /\ t'[y] = t[y] /\ k'[y] = k[y]
    BY <1>0, <1>5, StoreStep DEF TypeOK, Working
  <2>2. ASSUME NEW c \in Cycle, NEW p \in Pos, NEW m \in Col,
               c = cur_c[x], p = k[x], m - MBase(t[x], x[2]) \in Lane
        PROVE  /\ data'[Cell(cyc_feat[c][p], m)] = Rotated(c, p, m)
               /\ Written(c, p, m)'
    <3>1. PICK j \in Lane : j = m - MBase(t[x], x[2])
      BY <2>2
    <3>2. /\ MBase(t[x], x[2]) + j = m
          /\ Owner(c, m) = x /\ TileAt(c, m) = t[x]
      <4>1. MBase(t[x], x[2]) \in Int /\ m \in Int
        BY <1>0, <2>1, ThreadType, LaneInRow DEF CtaInv, ControlInv, Col
      <4>2. MBase(t[x], x[2]) + j = m
        BY <3>1, <4>1
      <4> QED
        BY <1>0, <2>1, <2>2, <4>2, LaneElement
    <3>3. v[x][p][j] = Rotated(c, p, m)
      BY <1>0, <2>1, <2>2, <3>2 DEF RegisterInv
    <3>4. data'[Cell(cyc_feat[c][p], m)] = v[x][p][j]
      BY <1>0, <1>5, <2>2, <3>2, StoreHere
    <3>5. Written(c, p, m)'
      <4>1. p \in Nat /\ gridDim \in Nat \ {0}
        BY PosType, Sizes
      <4> QED
        BY <1>0, <1>5, <2>1, <2>2, <3>2, <4>1, StoreStep DEF Written
    <3> QED
      BY <3>3, <3>4, <3>5
  <2>3. ASSUME NEW c \in Cycle, NEW p \in Pos, NEW m \in Col,
               ~(c = cur_c[x] /\ p = k[x] /\ m - MBase(t[x], x[2]) \in Lane)
        PROVE  /\ data'[Cell(cyc_feat[c][p], m)] = data[Cell(cyc_feat[c][p], m)]
               /\ Written(c, p, m)' <=> Written(c, p, m)
    <3>1. data'[Cell(cyc_feat[c][p], m)] = data[Cell(cyc_feat[c][p], m)]
      <4>1. /\ cyc_feat[c][p] \in Feat /\ cur_c[x] \in Cycle
            /\ cyc_feat[c][p] = cyc_feat[cur_c[x]][k[x]] => c = cur_c[x] /\ p = k[x]
        <5>1. cur_c[x] \in Cycle
          <6>1. 0 \in Lane
            BY Sizes DEF Lane
          <6> QED
            BY <1>0, <2>1, <6>1, LaneElement
        <5> QED
          BY <2>1, <5>1, TableAssumption
      <4> QED
        BY <1>0, <1>5, <2>3, <4>1, StoreElsewhere
    <3>2. CASE Owner(c, m) # x
      BY <2>1, <3>1, <3>2, LaneOfColumn DEF Written
    <3>3. CASE Owner(c, m) = x /\ TileAt(c, m) # t[x]
      <4>1. TileAt(c, m) \in Nat
        BY LaneOfColumn
      <4>2. Written(c, p, m) <=> TileAt(c, m) < t[x]
        BY <2>1, <3>3, <4>1 DEF Written
      <4>3. CASE t'[x] = t[x]
        <5>1. pc[x] = "store" /\ t[x] \in Nat
          BY <2>1
        <5>2. Written(c, p, m)' <=> TileAt(c, m) < t[x]
          BY <3>3, <4>1, <4>3, <5>1 DEF Written
        <5> QED
          BY <3>1, <4>2, <5>2
      <4>4. CASE t'[x] = t[x] + gridDim /\ pc'[x] = "head"
        <5>1. Written(c, p, m)' <=> TileAt(c, m) <= t[x]
          BY <1>0, <2>1, <3>3, <4>4, NextTile
        <5> QED
          BY <2>1, <3>1, <3>3, <4>1, <4>2, <5>1
      <4> QED
        BY <1>0, <1>5, <3>1, <4>3, <4>4, StoreStep
    <3>4. CASE Owner(c, m) = x /\ TileAt(c, m) = t[x]
      <4>1. c = cur_c[x] /\ m - MBase(t[x], x[2]) \in Lane /\ p # k[x]
        <5>1. /\ CycleOf(TileAt(c, m)) = c /\ Owner(c, m)[2] = LaneAt(m)
              /\ m - MBase(TileAt(c, m), LaneAt(m)) \in Lane
          BY LaneOfColumn
        <5>2. CycleOf(t[x]) = cur_c[x]
          BY <1>0, <2>1 DEF CtaInv, ControlInv
        <5> QED
          BY <2>3, <3>4, <5>1, <5>2
      <4>2. Written(c, p, m) <=> p < k[x]
        BY <2>1, <3>4 DEF Written
      <4>3. p \in Nat /\ p <= LMAX - 1 /\ k[x] \in Nat /\ gridDim \in Nat \ {0}
        BY <2>1, PosType, Sizes
      <4>4. CASE k[x] + 1 < LMAX /\ pc'[x] = "store" /\ k'[x] = k[x] + 1 /\ t'[x] = t[x]
        <5>1. Written(c, p, m)' <=> p < k[x] + 1
          BY <2>1, <3>4, <4>4 DEF Written
        <5> QED
          BY <3>1, <4>1, <4>2, <4>3, <5>1
      <4>5. CASE k[x] = LMAX - 1 /\ pc'[x] = "head" /\ t'[x] = t[x] + gridDim
        <5>1. Written(c, p, m)'
          BY <2>1, <3>4, <4>3, <4>5 DEF Written
        <5>2. p < k[x]
          BY <4>1, <4>3, <4>5, Sizes
        <5> QED
          BY <3>1, <4>2, <5>1, <5>2
      <4> QED
        BY <1>0, <1>5, <3>1, <4>4, <4>5, StoreStep
    <3> QED
      BY <3>1, <3>2, <3>3, <3>4
  <2>4. ASSUME NEW f \in Feat, NEW m \in Col, \A c \in Cycle, p \in Pos : cyc_feat[c][p] # f
        PROVE  data'[Cell(f, m)] = data[Cell(f, m)]
    <3>1. cur_c[x] \in Cycle
      <4>1. 0 \in Lane
        BY Sizes DEF Lane
      <4> QED
        BY <1>0, <2>1, <4>1, LaneElement
    <3> QED
      BY <1>0, <1>5, <2>1, <2>4, <3>1, StoreElsewhere
  <2> QED
    BY <1>0, <2>2, <2>3, <2>4 DEF DataInv
<1>6. ASSUME NEW b \in Cta, Barrier(b) PROVE DataInv'
  <2>1. UNCHANGED <<data, t>> /\ k' = k
    BY <1>6 DEF Barrier
  <2>2. \A y \in Thread :
          \/ pc[y] = "store" /\ pc'[y] = "store" /\ k'[y] = k[y]
          \/ pc[y] # "store" /\ (pc'[y] # "store" \/ k'[y] = 0)
    <3>1. PICK site \in {"sync1", "sync2"} :
            /\ \A y \in Thread : y[1] # b => pc'[y] = pc[y]
            /\ \A y \in Thread : y[1] = b =>
                 pc[y] = site /\ pc'[y] = IF site = "sync1" THEN "fill" ELSE "body"
      BY <1>0, <1>6, BarrierSites
    <3> QED
      BY <2>1, <3>1
  <2> QED
    BY <1>0, <2>1, <2>2, DataKept
<1>7. CASE UNCHANGED vars
  <2>1. UNCHANGED <<data, t>> /\ pc' = pc /\ k' = k
    BY <1>7 DEF vars
  <2>2. \A x \in Thread :
          \/ pc[x] = "store" /\ pc'[x] = "store" /\ k'[x] = k[x]
          \/ pc[x] # "store" /\ (pc'[x] # "store" \/ k'[x] = 0)
    BY <2>1
  <2> QED
    BY <1>0, <2>1, <2>2, DataKept
<1> QED
  BY <1>1, <1>2, <1>3, <1>4, <1>5, <1>6, <1>7 DEF Next, ThreadStep, Done

LEMMA RegisterInit == Init => RegisterInv
  BY DEF Init, RegisterInv

\* The registers of thread y keep their meaning in a step that does not touch
\* them and leaves y where it is, or takes it out of the three loops.
LEMMA RegistersKept ==
  ASSUME RegisterInv, NEW y \in Thread, v'[y] = v[y],
         \/ pc'[y] \notin Working
         \/ pc'[y] = pc[y] /\ t'[y] = t[y] /\ cur_c'[y] = cur_c[y] /\ k'[y] = k[y],
         NEW q \in Pos, NEW j \in Lane
  PROVE  LET m == MBase(t'[y], y[2]) + j
         IN  /\ (pc'[y] = "load" /\ q < k'[y]) \/ pc'[y] = "rotate" =>
                  v'[y][q][j] = Orig[Cell(cyc_feat[cur_c'[y]][q], m)]
             /\ pc'[y] = "store" => v'[y][q][j] = Rotated(cur_c'[y], q, m)
  BY DEF RegisterInv, Working

LEMMA RegisterStep == IInv /\ [Next]_vars => RegisterInv'
<1> SUFFICES ASSUME IInv, [Next]_vars PROVE RegisterInv'
  OBVIOUS
<1>0. CtaInv /\ TypeOK /\ DataInv /\ RegisterInv
  BY DEF IInv, CtaInv
<1>1. ASSUME NEW x \in Thread, Exit(x) \/ NewCycle(x) \/ SameCycle(x) \/ Fill(x) \/ SkipLane(x)
      PROVE RegisterInv'
  <2>1. /\ v' = v /\ pc'[x] \notin Working
        /\ \A y \in Thread \ {x} : /\ pc'[y] = pc[y] /\ t'[y] = t[y]
                                  /\ cur_c'[y] = cur_c[y] /\ k'[y] = k[y]
    BY <1>0, <1>1 DEF TypeOK, Exit, NewCycle, SameCycle, Fill, SkipLane, Goto, Working
  <2> QED
    BY <1>0, <2>1, RegistersKept DEF RegisterInv
<1>2. ASSUME NEW x \in Thread, TakeLane(x) PROVE RegisterInv'
  <2>1. /\ v' = v /\ pc'[x] = "load" /\ k'[x] = 0 /\ t' = t /\ cur_c' = cur_c
        /\ \A y \in Thread \ {x} : pc'[y] = pc[y] /\ k'[y] = k[y]
    BY <1>0, <1>2 DEF TypeOK, TakeLane, Goto
  <2> QED
    BY <1>0, <2>1, PosType DEF RegisterInv
<1>3. ASSUME NEW x \in Thread, Load(x) PROVE RegisterInv'
  <2>1. /\ pc[x] = "load" /\ pc[x] \in Working /\ k[x] \in Pos
        /\ t' = t /\ cur_c' = cur_c
        /\ \A y \in Thread \ {x} : pc'[y] = pc[y] /\ k'[y] = k[y]
        /\ \/ k[x] + 1 < LMAX /\ pc'[x] = "load" /\ k'[x] = k[x] + 1
           \/ k[x] = LMAX - 1 /\ pc'[x] = "rotate" /\ k'[x] = 0
    BY <1>0, <1>3, NextPosStep DEF Load, PC, TypeOK, Working
  <2> DEFINE lane == [j \in Lane |-> data[LaneBase(x) + j]]
  <2>2. v' = [v EXCEPT ![x][k[x]] = lane]
    BY <1>3 DEF Load
  <2> HIDE DEF lane
  <2>3. /\ \A y \in Thread \ {x} : v'[y] = v[y]
        /\ v'[x][k[x]] = lane
        /\ \A q \in Pos \ {k[x]} : v'[x][q] = v[x][q]
    BY <1>0, <2>1, <2>2 DEF TypeOK, IsTable
  <2>4. ASSUME NEW j \in Lane
        PROVE  lane[j] = Orig[Cell(cyc_feat[cur_c[x]][k[x]], MBase(t[x], x[2]) + j)]
    <3> DEFINE m == MBase(t[x], x[2]) + j
               c == cur_c[x]
    <3>1. /\ c \in Cycle /\ m \in Col /\ TileAt(c, m) = t[x] /\ Owner(c, m) = x
          /\ LaneBase(x) + j = Cell(cyc_feat[c][k[x]], m)
      BY <1>0, <2>1, LaneElement DEF LaneBase
    <3>2. t[x] \in Nat
      BY <1>0 DEF TypeOK
    <3> HIDE DEF m, c
    <3>3. ~Written(c, k[x], m)
      BY <2>1, <3>1, <3>2 DEF Written
    <3>4. data[LaneBase(x) + j] = Orig[Cell(cyc_feat[c][k[x]], m)]
      BY <1>0, <2>1, <3>1, <3>3 DEF DataInv
    <3> QED
      BY <3>4 DEF lane, m, c
  <2>5. ASSUME NEW q \in Pos, NEW j \in Lane,
               (pc'[x] = "load" /\ q < k'[x]) \/ pc'[x] = "rotate"
        PROVE  v'[x][q][j] = Orig[Cell(cyc_feat[cur_c[x]][q], MBase(t[x], x[2]) + j)]
    <3>1. CASE q = k[x]
      BY <2>3, <2>4, <3>1
    <3>2. CASE q # k[x]
      <4>1. q < k[x]
        BY <2>1, <2>5, <3>2, PosType, Sizes
      <4>2. v[x][q][j] = Orig[Cell(cyc_feat[cur_c[x]][q], MBase(t[x], x[2]) + j)]
        BY <1>0, <2>1, <4>1 DEF RegisterInv
      <4> QED
        BY <2>3, <3>2, <4>2
    <3> QED
      BY <3>1, <3>2
  <2>6. SUFFICES ASSUME NEW y \in Thread, NEW q \in Pos, NEW j \in Lane
                 PROVE  LET m == MBase(t'[y], y[2]) + j
                        IN  /\ (pc'[y] = "load" /\ q < k'[y]) \/ pc'[y] = "rotate" =>
                                 v'[y][q][j] = Orig[Cell(cyc_feat[cur_c'[y]][q], m)]
                            /\ pc'[y] = "store" => v'[y][q][j] = Rotated(cur_c'[y], q, m)
    BY DEF RegisterInv
  <2>7. CASE y = x
    BY <2>1, <2>5, <2>7
  <2>8. CASE y # x
    BY <1>0, <2>1, <2>3, <2>8, RegistersKept
  <2> QED
    BY <2>7, <2>8
<1>4. ASSUME NEW x \in Thread, Rotate(x) PROVE RegisterInv'
  <2> DEFINE regs == [q \in Pos |-> [j \in Lane |->
                        Rot([p \in Pos |-> v[x][p][j]], scs[x[1]], q)]]
  <2>1. /\ pc[x] = "rotate" /\ pc[x] \in Working /\ pc'[x] = "store"
        /\ t' = t /\ cur_c' = cur_c /\ k' = k
        /\ \A y \in Thread \ {x} : pc'[y] = pc[y]
        /\ v' = [v EXCEPT ![x] = regs]
    BY <1>0, <1>4 DEF Rotate, Goto, TypeOK, Working
  <2>2. ASSUME NEW q \in Pos, NEW j \in Lane
        PROVE  regs[q][j] = Rotated(cur_c[x], q, MBase(t[x], x[2]) + j)
    <3>1. \A p \in Pos : v[x][p][j]
                          = Orig[Cell(cyc_feat[cur_c[x]][p], MBase(t[x], x[2]) + j)]
      BY <1>0, <2>1 DEF RegisterInv
    <3>2. [p \in Pos |-> v[x][p][j]]
          = [p \in Pos |-> Orig[Cell(cyc_feat[cur_c[x]][p], MBase(t[x], x[2]) + j)]]
      BY <3>1
    <3>3. scs[x[1]] = cyc_cs[cur_c[x]]
      BY <1>0, <2>1, TablesCurrentLemma DEF TablesCurrent, CtaInv, ControlInv, Working
    <3>4. regs[q][j] = Rot([p \in Pos |-> v[x][p][j]], scs[x[1]], q)
      OBVIOUS
    <3> HIDE DEF regs
    <3> QED
      BY <3>2, <3>3, <3>4 DEF Rotated
  <2> HIDE DEF regs
  <2>3. v'[x] = regs /\ \A y \in Thread \ {x} : v'[y] = v[y]
    BY <1>0, <2>1 DEF TypeOK, IsTable
  <2>4. SUFFICES ASSUME NEW y \in Thread, NEW q \in Pos, NEW j \in Lane
                 PROVE  LET m == MBase(t'[y], y[2]) + j
                        IN  /\ (pc'[y] = "load" /\ q < k'[y]) \/ pc'[y] = "rotate" =>
                                 v'[y][q][j] = Orig[Cell(cyc_feat[cur_c'[y]][q], m)]
                            /\ pc'[y] = "store" => v'[y][q][j] = Rotated(cur_c'[y], q, m)
    BY DEF RegisterInv
  <2>5. CASE y = x
    BY <2>1, <2>2, <2>3, <2>5
  <2>6. CASE y # x
    BY <1>0, <2>1, <2>3, <2>6, RegistersKept
  <2> QED
    BY <2>5, <2>6
<1>5. ASSUME NEW x \in Thread, Store(x) PROVE RegisterInv'
  <2>1. /\ v' = v /\ cur_c' = cur_c /\ pc[x] = "store"
        /\ \A y \in Thread \ {x} : pc'[y] = pc[y] /\ t'[y] = t[y] /\ k'[y] = k[y]
        /\ pc'[x] = "head" \/ (pc'[x] = "store" /\ t'[x] = t[x])
    BY <1>0, <1>5, StoreStep
  <2> QED
    BY <1>0, <2>1 DEF RegisterInv
<1>6. ASSUME NEW b \in Cta, Barrier(b) PROVE RegisterInv'
  <2>1. /\ v' = v /\ k' = k /\ t' = t
        /\ \A y \in Thread : y[1] # b => pc'[y] = pc[y] /\ cur_c'[y] = cur_c[y]
        /\ \A y \in Thread : y[1] = b => pc'[y] \notin Working
    BY <1>0, <1>6, BarrierSites DEF Working
  <2> QED
    BY <1>0, <2>1, RegistersKept DEF RegisterInv
<1>7. CASE UNCHANGED vars
  <2>1. v' = v /\ k' = k /\ t' = t /\ pc' = pc /\ cur_c' = cur_c
    BY <1>7 DEF vars
  <2> QED
    BY <1>0, <2>1 DEF RegisterInv
<1> QED
  BY <1>1, <1>2, <1>3, <1>4, <1>5, <1>6, <1>7 DEF Next, ThreadStep, Done

LEMMA IInvInit == Init => IInv
  BY CtaInvInit, RegisterInit, DataInit DEF IInv

LEMMA IInvStep == IInv /\ [Next]_vars => IInv'
  BY CtaInvStep, RegisterStep, DataStep DEF IInv

THEOREM Invariance == Spec => []IInv
  BY IInvInit, IInvStep, PTL DEF Spec

\* When every thread has left its loop, all elements have been rotated.
LEMMA ResultLemma == IInv => ResultRotated
<1> SUFFICES ASSUME IInv, AllExited PROVE IsRotated(data)
  BY DEF ResultRotated
<1>1. ASSUME NEW c \in Cycle, NEW p \in Pos, NEW m \in Col
      PROVE  data[Cell(cyc_feat[c][p], m)] = Rotated(c, p, m)
  <2>1. /\ Owner(c, m) \in Thread /\ TileAt(c, m) \in Nat /\ TileAt(c, m) < total
    BY LaneOfColumn
  <2>2. t[Owner(c, m)] \in Nat /\ t[Owner(c, m)] >= total /\ total \in Nat
    BY <2>1, Sizes DEF AllExited, IInv, CtaInv, TypeOK, ControlInv
  <2>3. Written(c, p, m)
    BY <2>1, <2>2 DEF Written
  <2> QED
    BY <2>3 DEF IInv, DataInv
<1> QED
  BY <1>1 DEF IsRotated, IInv, DataInv

\* The finished kernel has applied the whole pass, exactly once.
THEOREM Correctness == Spec => []ResultRotated
  BY ResultLemma, Invariance, PTL

\* A store of the kernel is a step of the abstract pass.
LEMMA StoreRotates ==
  ASSUME IInv, NEW x \in Thread, Store(x)
  PROVE  LET lo == MBase(t[x], x[2])
         IN  /\ cur_c[x] \in Cycle /\ k[x] \in Pos
             /\ lo \in Col /\ lo + COLS - 1 \in lo .. M - 1
             /\ Pass!RotateCells(cur_c[x], k[x], lo, lo + COLS - 1)
<1> DEFINE c == cur_c[x]
           p == k[x]
           lo == MBase(t[x], x[2])
           hi == lo + COLS - 1
           f == cyc_feat[c][p]
           row == Cell(f, 0)
<1>0. CtaInv /\ TypeOK /\ RegisterInv /\ DataInv
  BY DEF IInv, CtaInv
<1>1. pc[x] = "store" /\ pc[x] \in Working /\ p \in Pos /\ t[x] \in Nat
  BY <1>0, StoreStep DEF Working, TypeOK
<1>2. 0 \in Lane /\ COLS \in Nat \ {0} /\ M \in Nat
  BY Sizes DEF Lane
<1>3. c \in Cycle /\ f \in Feat /\ LaneBase(x) = Cell(f, lo)
  BY <1>0, <1>1, <1>2, LaneElement DEF LaneBase
<1>4. lo \in Nat /\ lo + COLS <= M
  BY <1>0, <1>1, ThreadType, LaneInRow DEF CtaInv, ControlInv
<1> HIDE DEF c, p, lo, f
<1>5. row \in Int /\ \A m \in Int : Cell(f, m) = row + m
  <2>1. f * M \in Int
    BY <1>2, <1>3 DEF Feat
  <2> QED
    BY <2>1 DEF Cell
<1>6. LaneBase(x) = row + lo
  BY <1>3, <1>4, <1>5
<1> HIDE DEF row
<1>7. ASSUME NEW m \in lo .. hi
      PROVE  /\ data[row + m] = Orig[row + m]
             /\ v[x][p][m - lo] = Rotated(c, p, m)
  <2>1. m - lo \in Lane /\ lo + (m - lo) = m /\ m \in Int
    BY <1>2, <1>4 DEF Lane
  <2>2. m \in Col /\ TileAt(c, m) = t[x] /\ Owner(c, m) = x
    BY <1>0, <1>1, <2>1, LaneElement DEF c, lo
  <2>3. p < p => FALSE
    BY <1>1, PosType
  <2>4. ~Written(c, p, m)
    BY <1>1, <2>2, <2>3 DEF Written, p
  <2>5. data[Cell(f, m)] = Orig[Cell(f, m)]
    BY <1>0, <1>1, <1>3, <2>2, <2>4 DEF DataInv, f
  <2>6. v[x][p][m - lo] = Rotated(c, p, m)
    BY <1>0, <1>1, <2>1 DEF RegisterInv, c, lo
  <2> QED
    BY <1>5, <2>1, <2>5, <2>6
<1>8. ASSUME NEW a \in Cells
      PROVE  data'[a] = IF a - row \in lo .. hi THEN Rotated(c, p, a - row) ELSE data[a]
  <2>1. a \in Int
    BY DEF Cells
  <2>2. a - LaneBase(x) \in Lane <=> a - row \in lo .. hi
    BY <1>2, <1>4, <1>5, <1>6, <2>1 DEF Lane
  <2>3. a - LaneBase(x) = (a - row) - lo
    BY <1>4, <1>5, <1>6, <2>1
  <2>4. data'[a] = IF a - LaneBase(x) \in Lane THEN v[x][p][a - LaneBase(x)] ELSE data[a]
    BY DEF Store, p
  <2> QED
    BY <1>7, <2>2, <2>3, <2>4
<1>9. IsTable(data', Cells)
  BY DEF Store, IsTable
<1>10. Pass!RotateCells(c, p, lo, hi)
  <2>1. ASSUME NEW m \in lo .. hi PROVE data'[row + m] = Rotated(c, p, m)
    <3>1. m \in Col /\ m \in Int /\ row \in Int
      BY <1>2, <1>4, <1>5 DEF Col
    <3>2. row + m \in Cells /\ (row + m) - row = m
      BY <1>3, <1>5, <3>1, CellType
    <3> QED
      BY <1>8, <3>2
  <2>2. \A a \in Cells : a - row \notin lo .. hi => data'[a] = data[a]
    BY <1>8
  <2> QED
    BY <1>7, <1>9, <2>1, <2>2
    DEF Pass!RotateCells, Pass!Cell, Cell, Pass!Rotated, Rotated, Pass!Cells, Cells,
        Pass!Pos, Pos, Pass!IsTable, IsTable, row, f
<1>11. lo \in Col /\ hi \in lo .. M - 1
  BY <1>2, <1>4 DEF Col
<1> QED
  BY <1>1, <1>3, <1>10, <1>11 DEF c, p, lo

LEMMA PassStep == IInv /\ [Next]_vars => [Pass!Next]_data
<1> SUFFICES ASSUME IInv, [Next]_vars PROVE [Pass!Next]_data
  OBVIOUS
<1>1. ASSUME NEW x \in Thread, Store(x) PROVE Pass!Next
  BY <1>1, StoreRotates DEF Pass!Next, Pass!Cycle, Cycle, Pass!Pos, Pos, Pass!Col, Col
<1>2. ASSUME NEW x \in Thread,
             \/ Exit(x) \/ NewCycle(x) \/ SameCycle(x) \/ Fill(x)
             \/ SkipLane(x) \/ TakeLane(x) \/ Load(x) \/ Rotate(x)
      PROVE UNCHANGED data
  BY <1>2 DEF Exit, NewCycle, SameCycle, Fill, SkipLane, TakeLane, Load, Rotate
<1>3. ASSUME NEW b \in Cta, Barrier(b) PROVE UNCHANGED data
  BY <1>3 DEF Barrier
<1>4. CASE UNCHANGED vars
  BY <1>4 DEF vars
<1> QED
  BY <1>1, <1>2, <1>3, <1>4 DEF Next, ThreadStep, Done

\* rot_persist implements the abstract pass: whatever the interleaving, global
\* memory goes only through states a sequential pass by lanes may go through.
THEOREM Refinement == Spec => PassSpec
<1>1. Init => Pass!Init
  BY DEF Init, Pass!Init
<1> QED
  BY <1>1, PassStep, Invariance, PTL DEF Spec, PassSpec, Pass!Spec
=============================================================================
