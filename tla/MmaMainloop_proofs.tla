------------------------- MODULE MmaMainloop_proofs -------------------------
(***************************************************************************)
(* The main loop keeps its promise for any number of stages, groups, warps *)
(* and tiles: its invariants, and its refinement of BlockProduct.          *)
(***************************************************************************)
EXTENDS MmaMainloop, DivisionLemmas, SequenceTheorems, TLAPS

\* Tiles of the block, and those whose barrier has been passed.
D == depth[blk]
T == IF Pipelined THEN D - left ELSE D - (kStages - 1) - left

\* The slot j places after the one that is read.
At(j) == IF rd + j < kStages THEN rd + j ELSE rd + j - kStages

\* Until the last turn of a tile is made, a warp is at that tile.
Tile(w) == IF pc[w] = "turn" /\ kg[w] = KG - 1 THEN T - 1 ELSE T

Starting == \A w \in Warp : pc[w] \in {"prologue", "wait"}
Looping  == \A w \in Warp : pc[w] \in {"first", "turn", "store", "sync", "drain", "end"}
Exited   == \A w \in Warp : pc[w] = "exit"

\* What memory and registers may hold: tiles of a block, or nothing.
Val      == {v \in {Zero, Unset} \cup (Block \X Nat) : OfABlock(v)}
GroupSet == [slot : Slot, val : Val, pieces : SUBSET Piece]
FragSet  == {Unset} \cup ([Warp \X Piece -> Val] \X Piece)

TypeInv ==
  /\ loop \in Loops /\ blk \in Block /\ left \in Int
  /\ wr \in Slot /\ rd \in Slot
  /\ smem \in [Slot -> [Warp \X Piece -> Val]]
  /\ pc \in [Warp -> {"prologue", "wait", "first", "turn", "store", "sync", "drain", "end", "exit"}]
  /\ kg \in [Warp -> Piece] /\ next \in [Warp -> Nat] /\ masked \in [Warp -> BOOLEAN]
  /\ tb \in [Warp -> Val]
  /\ flying \in [Warp -> Seq(GroupSet)]
  /\ frag \in [Warp -> [{0, 1} -> FragSet]]
  /\ acc \in [Warp -> Seq(FragSet)]

\* The warps are in one phase together; the slot that is read holds the tile
\* that they are at, all shares of it.
PhaseInv ==
  \/ Starting /\ left = D /\ wr = 0 /\ rd = 0
  \/ /\ Looping /\ T \in 0 .. D /\ wr = At(kStages - 1)
     /\ T < D => smem[rd] = Whole(blk, T)
  \/ Exited

\* Where a warp is, what its global iterators are at, and its masks.
ControlInv(w) ==
  /\ pc[w] = "prologue" => kg[w] = 0 /\ next[w] = 0 /\ ~masked[w]
  /\ pc[w] \in {"wait", "first"} =>
       /\ kg[w] = 0 /\ next[w] = kStages - 1
       /\ masked[w] <=> ~Pipelined /\ D <= kStages - 2
  /\ pc[w] = "first" => T = 0
  /\ pc[w] = "turn" => IF kg[w] = KG - 1 THEN T > 0 ELSE T < D
  /\ pc[w] \in {"store", "sync"} => T < D /\ kg[w] = KG - 1
  /\ pc[w] = "store" => Pipelined
  /\ pc[w] = "drain" => ~Pipelined
  /\ pc[w] \in {"drain", "end"} => T = D /\ kg[w] = 0
  /\ pc[w] \in {"turn", "store", "sync"} =>
       /\ next[w] = IF ~Pipelined THEN T + kStages - 1
                    ELSE IF kg[w] = 0 \/ (pc[w] = "turn" /\ kg[w] = KG - 1) THEN T + 1 ELSE T + 2
       /\ masked[w] <=> next[w] >= D

\* The first n fragments of the product of block b.
Fragments(b, n) == [i \in 1 .. n |-> Fragment(b, i - 1)]

\* A warp has multiplied all fragments before the one that it is at, which is
\* in its registers.
AccInv(w) ==
  /\ pc[w] \in {"prologue", "wait", "first"} => acc[w] = <<>>
  /\ pc[w] \in {"turn", "store", "sync"} =>
       /\ acc[w] = Fragments(blk, Tile(w) * KG + kg[w])
       /\ frag[w][kg[w] % 2] = <<Whole(blk, Tile(w)), kg[w]>>
  /\ pc[w] \in {"drain", "end", "exit"} => acc[w] = Product(blk)

\* The share of w of tile t is in slot s.
Landed(w, s, t) == \A p \in Piece : smem[s][<<w, p>>] = <<blk, t>>

\* Two stages: the next tile is on its way through the registers.
PipelinedInv(w) ==
  /\ flying[w] = <<Empty>>
  /\ pc[w] = "wait" => Landed(w, 0, 0)
  /\ (pc[w] = "turn" /\ kg[w] \in 1 .. KG - 2) \/ pc[w] = "store" =>
       tb[w] = IF T + 1 < D THEN <<blk, T + 1>> ELSE Zero
  /\ pc[w] = "sync" /\ T + 1 < D => Landed(w, wr, T + 1)

\* Group j of w brings tile t to slot s, or has done so.
Bringing(w, j, s, t) ==
  \/ flying[w][j] = Empty /\ (t < D => Landed(w, s, t))
  \/ flying[w][j] = Group(s, IF t < D THEN <<blk, t>> ELSE Zero, Piece)

\* More stages: the j-th group in the air brings the j-th tile from here to the
\* j-th slot from here, and the last one is not yet committed.
MultistageInv(w) ==
  /\ pc[w] \in {"prologue", "end", "exit"} => flying[w] = <<Empty>>
  /\ pc[w] = "wait" =>
       /\ Len(flying[w]) = kStages /\ flying[w][kStages] = Empty
       /\ \A j \in 1 .. kStages - 1 : Bringing(w, j, j - 1, j - 1)
  /\ pc[w] \in {"first", "turn", "drain"} =>
       /\ Len(flying[w]) = kStages - 1
       /\ \A j \in 1 .. kStages - 2 : Bringing(w, j, At(j), T + j)
       /\ flying[w][kStages - 1] =
            IF pc[w] = "turn" /\ kg[w] \in 1 .. KG - 2 /\ T + kStages - 1 < D
            THEN Group(wr, <<blk, T + kStages - 1>>, 0 .. kg[w] - 1) ELSE Empty
  /\ pc[w] = "sync" =>
       /\ Len(flying[w]) = kStages /\ flying[w][kStages] = Empty
       /\ \A j \in 1 .. kStages - 1 : Bringing(w, j, At(j), T + j)

WarpInv(w) ==
  /\ ControlInv(w) /\ AccInv(w)
  /\ IF Pipelined THEN PipelinedInv(w) ELSE MultistageInv(w)

IInv == TypeInv /\ PhaseInv /\ \A w \in Warp : WarpInv(w)

-----------------------------------------------------------------------------
\* The numbers of a state are numbers of the right kind.
LEMMA Sizes ==
  ASSUME TypeInv
  PROVE  /\ kStages \in Nat /\ kStages >= 2 /\ (Pipelined <=> kStages = 2)
         /\ KG \in Nat /\ KG >= 2 /\ KG % 2 = 0
         /\ D \in Nat /\ D > 0 /\ T \in Int
         /\ wr \in 0 .. kStages - 1 /\ rd \in 0 .. kStages - 1
<1>1. kStages \in Nat /\ kStages >= 2 /\ KG \in Nat \ {0} /\ KG % 2 = 0
  BY LoopAssumption DEF TypeInv, kStages, KG
<1>2. KG >= 2
  <2>1. 1 % 2 = 1
    OBVIOUS
  <2> QED
    BY <1>1, <2>1
<1>3. D \in Nat /\ D > 0
  BY LoopAssumption DEF TypeInv, D
<1> QED
  BY <1>1, <1>2, <1>3 DEF TypeInv, T, Slot, Pipelined

\* The places after the one that is read are different slots.
LEMMA Ring ==
  ASSUME TypeInv
  PROVE  /\ At(0) = rd
         /\ \A j \in 0 .. kStages - 1 : At(j) \in Slot
         /\ \A i, j \in 0 .. kStages - 1 : At(i) = At(j) => i = j
  BY Sizes DEF At, Slot

\* A step of another warp does not concern w.
LEMMA Frame ==
  ASSUME TypeInv, NEW w \in Warp, WarpInv(w),
         UNCHANGED <<loop, blk, left, wr, rd>>,
         pc'[w] = pc[w], kg'[w] = kg[w], next'[w] = next[w], masked'[w] = masked[w],
         tb'[w] = tb[w], flying'[w] = flying[w], frag'[w] = frag[w], acc'[w] = acc[w],
         \A s \in Slot, p \in Piece : smem'[s][<<w, p>>] = smem[s][<<w, p>>]
  PROVE  WarpInv(w)'
<1>1. /\ kStages' = kStages /\ KG' = KG /\ Piece' = Piece /\ D' = D /\ T' = T
      /\ Tile(w)' = Tile(w) /\ (Pipelined' <=> Pipelined)
      /\ \A j \in 0 .. kStages - 1 : At(j)' = At(j)
  BY DEF kStages, KG, Piece, D, T, Tile, Pipelined, At
<1>2. ControlInv(w)'
  BY <1>1 DEF WarpInv, ControlInv
<1>3. AccInv(w)'
  <2>1. \A n : Fragments(blk, n)' = Fragments(blk, n)
    BY <1>1 DEF Fragments, Fragment, Whole
  <2>2. Product(blk)' = Product(blk) /\ Whole(blk, Tile(w))' = Whole(blk, Tile(w))
    BY <1>1 DEF Product, Fragment, Whole
  <2> QED
    BY <1>1, <2>1, <2>2 DEF WarpInv, AccInv
<1>4. \A s \in Slot : \A t : Landed(w, s, t)' <=> Landed(w, s, t)
  BY <1>1 DEF Landed
<1>5. CASE Pipelined
  <2>1. PipelinedInv(w)'
    BY <1>1, <1>4, <1>5, Sizes DEF WarpInv, PipelinedInv, Slot, Empty, Group
  <2> QED
    BY <1>1, <1>2, <1>3, <1>5, <2>1 DEF WarpInv
<1>6. CASE ~Pipelined
  <2>1. \A j, s, t : s \in Slot => (Bringing(w, j, s, t)' <=> Bringing(w, j, s, t))
    BY <1>1, <1>4 DEF Bringing, Empty, Group
  <2>2. MultistageInv(w)
    BY <1>6 DEF WarpInv
  <2>3. \A j \in 1 .. kStages - 1 :
          /\ Bringing(w, j, j - 1, j - 1)' <=> Bringing(w, j, j - 1, j - 1)
          /\ Bringing(w, j, At(j), T + j)' <=> Bringing(w, j, At(j), T + j)
    <3> SUFFICES ASSUME NEW j \in 1 .. kStages - 1
                 PROVE  /\ Bringing(w, j, j - 1, j - 1)' <=> Bringing(w, j, j - 1, j - 1)
                        /\ Bringing(w, j, At(j), T + j)' <=> Bringing(w, j, At(j), T + j)
      OBVIOUS
    <3>1. j - 1 \in Slot /\ At(j) \in Slot /\ At(j)' = At(j) /\ T' = T
      BY <1>1, Sizes, Ring DEF Slot
    <3> QED
      BY <2>1, <3>1
  <2>4. MultistageInv(w)'
    BY <1>1, <2>2, <2>3, Sizes DEF MultistageInv, Empty, Group
  <2> QED
    BY <1>1, <1>2, <1>3, <1>6, <2>4 DEF WarpInv
<1> QED
  BY <1>5, <1>6

\* Fragment p of tile t, and the fragments up to the next one.
LEMMA FragmentAt ==
  ASSUME KG \in Nat \ {0}, NEW t \in Int, NEW p \in Piece, NEW b
  PROVE  Fragment(b, t * KG + p) = <<Whole(b, t), p>>
<1>1. t * KG + p \in Int
  BY DEF Piece
<1>2. (t * KG + p) \div KG = t /\ (t * KG + p) % KG = p
  BY <1>1, DivModUnique DEF Piece
<1> QED
  BY <1>2 DEF Fragment

LEMMA AppendFragment ==
  ASSUME NEW n \in Nat, NEW b
  PROVE  Append(Fragments(b, n), Fragment(b, n)) = Fragments(b, n + 1)
<1> DEFINE R == {Fragment(b, i - 1) : i \in 1 .. n + 1}
<1>1. Fragments(b, n) \in Seq(R) /\ Len(Fragments(b, n)) = n
  <2>1. \A i \in 1 .. n : Fragment(b, i - 1) \in R
    OBVIOUS
  <2> HIDE DEF R
  <2> QED
    BY <2>1 DEF Fragments
<1>2. Fragment(b, n) \in R
  <2>1. n + 1 \in 1 .. n + 1 /\ (n + 1) - 1 = n
    OBVIOUS
  <2> QED
    BY <2>1
<1> HIDE DEF R
<1> DEFINE f == Append(Fragments(b, n), Fragment(b, n))
<1>3. /\ f \in Seq(R) /\ Len(f) = n + 1 /\ f[n + 1] = Fragment(b, n)
      /\ \A i \in 1 .. n : f[i] = Fragments(b, n)[i]
  BY <1>1, <1>2, AppendProperties
<1>4. \A i \in 1 .. n + 1 : f[i] = Fragment(b, i - 1)
  <2>1. \A i \in 1 .. n : Fragments(b, n)[i] = Fragment(b, i - 1)
    BY DEF Fragments
  <2> QED
    BY <1>3, <2>1
<1> HIDE DEF f
<1>5. f = [i \in 1 .. n + 1 |-> f[i]]
  BY <1>3, LenProperties
<1> QED
  BY <1>4, <1>5 DEF Fragments, f

\* The values that slots and copies may have.
LEMMA Values ==
  /\ Zero \in Val /\ Unset \in Val
  /\ \A b \in Block, t \in Nat : t < depth[b] => <<b, t>> \in Val
  /\ Empty \in GroupSet \/ ~TypeInv
<1>1. \A b \in Block, t \in Nat : t < depth[b] => <<b, t>> \in Val
  <2> SUFFICES ASSUME NEW b \in Block, NEW t \in Nat, t < depth[b]
               PROVE  <<b, t>> \in Val
    OBVIOUS
  <2>1. t \in 0 .. depth[b] - 1
    BY LoopAssumption
  <2> QED
    BY <2>1 DEF Val, OfABlock
<1>2. Zero \in Val /\ Unset \in Val
  BY DEF Val, OfABlock
<1>3. TypeInv => Empty \in GroupSet
  BY <1>2, Sizes DEF Empty, Group, GroupSet, Slot
<1> QED
  BY <1>1, <1>2, <1>3

\* Writing the pieces of a share changes them, and nothing else.
LEMMA PutAt ==
  ASSUME TypeInv, NEW w \in Warp, NEW slot \in Slot, NEW val \in Val, NEW pieces \in SUBSET Piece
  PROVE  /\ Group(slot, val, pieces) \in GroupSet
         /\ Put(w, Group(slot, val, pieces)) \in [Slot -> [Warp \X Piece -> Val]]
         /\ \A s \in Slot, v \in Warp, p \in Piece :
              Put(w, Group(slot, val, pieces))[s][<<v, p>>] =
                IF s = slot /\ v = w /\ p \in pieces THEN val ELSE smem[s][<<v, p>>]
<1> DEFINE new == [x \in Warp \X Piece |->
                     IF x[1] = w /\ x[2] \in pieces THEN val ELSE smem[slot][x]]
<1>1. Group(slot, val, pieces) \in GroupSet
  BY DEF GroupSet, Group
<1>2. smem \in [Slot -> [Warp \X Piece -> Val]]
  BY DEF TypeInv
<1>3. Put(w, Group(slot, val, pieces)) = [smem EXCEPT ![slot] = new]
  BY DEF Put, Group
<1>4. new \in [Warp \X Piece -> Val]
  BY <1>2
<1>5. \A v \in Warp, p \in Piece :
        new[<<v, p>>] = IF v = w /\ p \in pieces THEN val ELSE smem[slot][<<v, p>>]
  OBVIOUS
<1> HIDE DEF new
<1> QED
  BY <1>1, <1>2, <1>3, <1>4, <1>5

-----------------------------------------------------------------------------
LoopPc == {"first", "turn", "store", "sync", "drain", "end"}

\* A step of a warp within a phase keeps the invariant if it keeps the types and
\* what is said of this warp, and leaves alone the slot that is read.
LEMMA OneWarp ==
  ASSUME IInv, NEW w \in Warp,
         UNCHANGED <<loop, blk, left, wr, rd>>,
         \A v \in Warp \ {w} :
           /\ pc'[v] = pc[v] /\ kg'[v] = kg[v] /\ next'[v] = next[v] /\ masked'[v] = masked[v]
           /\ tb'[v] = tb[v] /\ flying'[v] = flying[v] /\ frag'[v] = frag[v] /\ acc'[v] = acc[v]
           /\ \A s \in Slot, p \in Piece : smem'[s][<<v, p>>] = smem[s][<<v, p>>],
         \/ pc[w] \in {"prologue", "wait"} /\ pc'[w] \in {"prologue", "wait"}
         \/ pc[w] \in LoopPc /\ pc'[w] \in LoopPc /\ smem'[rd] = smem[rd],
         TypeInv', WarpInv(w)'
  PROVE  IInv'
<1>1. \A v \in Warp : WarpInv(v)'
  <2> SUFFICES ASSUME NEW v \in Warp, v # w PROVE WarpInv(v)'
    OBVIOUS
  <2>1. WarpInv(v) /\ TypeInv
    BY DEF IInv
  <2>2. /\ pc'[v] = pc[v] /\ kg'[v] = kg[v] /\ next'[v] = next[v] /\ masked'[v] = masked[v]
        /\ tb'[v] = tb[v] /\ flying'[v] = flying[v] /\ frag'[v] = frag[v] /\ acc'[v] = acc[v]
        /\ \A s \in Slot, p \in Piece : smem'[s][<<v, p>>] = smem[s][<<v, p>>]
    OBVIOUS
  <2> QED
    BY <2>1, <2>2, Frame
<1>2. /\ D' = D /\ T' = T /\ kStages' = kStages /\ Whole(blk, T)' = Whole(blk, T)
      /\ At(kStages - 1)' = At(kStages - 1)
  BY DEF D, T, Pipelined, kStages, Whole, At, Piece, KG
<1>3. PhaseInv'
  <2>1. CASE pc[w] \in {"prologue", "wait"} /\ pc'[w] \in {"prologue", "wait"}
    <3>1. Starting /\ left = D /\ wr = 0 /\ rd = 0
      BY <2>1 DEF IInv, PhaseInv, Looping, Exited
    <3>2. Starting'
      BY <2>1, <3>1 DEF Starting
    <3> QED
      BY <1>2, <3>1, <3>2 DEF PhaseInv
  <2>2. CASE pc[w] \in LoopPc /\ pc'[w] \in LoopPc /\ smem'[rd] = smem[rd]
    <3>1. /\ Looping /\ T \in 0 .. D /\ wr = At(kStages - 1)
          /\ T < D => smem[rd] = Whole(blk, T)
      BY <2>2 DEF IInv, PhaseInv, Starting, Exited, LoopPc
    <3>2. Looping'
      BY <2>2, <3>1 DEF Looping, LoopPc
    <3> QED
      BY <1>2, <2>2, <3>1, <3>2 DEF PhaseInv
  <2> QED
    BY <2>1, <2>2
<1> QED
  BY <1>1, <1>3 DEF IInv

\* The parts of the state that are kept once per CTA.
LEMMA SameCta ==
  ASSUME UNCHANGED <<loop, blk, left, wr, rd>>
  PROVE  /\ kStages' = kStages /\ KG' = KG /\ Slot' = Slot /\ Piece' = Piece
         /\ D' = D /\ T' = T /\ (Pipelined' <=> Pipelined)
         /\ Val' = Val /\ GroupSet' = GroupSet /\ FragSet' = FragSet
         /\ Empty' = Empty
         /\ \A j : At(j)' = At(j)
         /\ \A b, t : Whole(b, t)' = Whole(b, t)
         /\ \A b, n : Fragment(b, n)' = Fragment(b, n) /\ Fragments(b, n)' = Fragments(b, n)
         /\ \A b : Product(b)' = Product(b)
<1>1. kStages' = kStages /\ KG' = KG /\ Slot' = Slot /\ Piece' = Piece
  BY DEF kStages, KG, Slot, Piece
<1>2. D' = D /\ T' = T /\ (Pipelined' <=> Pipelined) /\ \A j : At(j)' = At(j)
  BY <1>1 DEF D, T, Pipelined, At
<1>3. Val' = Val /\ GroupSet' = GroupSet /\ FragSet' = FragSet /\ Empty' = Empty
  BY <1>1 DEF Val, GroupSet, FragSet, OfABlock, Empty, Group
<1>4. \A b, t : Whole(b, t)' = Whole(b, t)
  BY <1>1 DEF Whole
<1>5. \A b, n : Fragment(b, n)' = Fragment(b, n) /\ Fragments(b, n)' = Fragments(b, n)
  BY <1>1, <1>4 DEF Fragment, Fragments
<1>6. \A b : Product(b)' = Product(b)
  BY <1>1, <1>5 DEF Product
<1> QED
  BY <1>1, <1>2, <1>3, <1>4, <1>5, <1>6

\* A mask that a warp sets.
LEMMA MaskSet ==
  ASSUME NEW w \in Warp, NEW b \in BOOLEAN, masked \in [Warp -> BOOLEAN]
  PROVE  /\ [masked EXCEPT ![w] = b] \in [Warp -> BOOLEAN]
         /\ [masked EXCEPT ![w] = b][w] <=> b
         /\ \A v \in Warp \ {w} : [masked EXCEPT ![w] = b][v] = masked[v]
  OBVIOUS

LEMMA StepPrologueStore ==
  ASSUME IInv, NEW w \in Warp, PrologueStore(w)
  PROVE  IInv'
<1>0. /\ pc[w] = "prologue" /\ pc' = [pc EXCEPT ![w] = "wait"]
      /\ Pipelined /\ smem' = Put(w, Group(wr, Fetched(w), Piece))
      /\ next' = [next EXCEPT ![w] = @ + 1]
      /\ UNCHANGED <<loop, blk, left, wr, rd>> /\ UNCHANGED <<kg, masked, tb, flying, frag, acc>>
  BY DEF PrologueStore, Goto
<1>1. TypeInv /\ WarpInv(w) /\ ControlInv(w) /\ PipelinedInv(w) /\ AccInv(w)
  BY <1>0 DEF IInv, WarpInv
<1>2. wr = 0 /\ rd = 0
  BY <1>0 DEF IInv, PhaseInv, Looping, Exited
<1>3. Fetched(w) = <<blk, 0>> /\ <<blk, 0>> \in Val /\ 0 \in Slot /\ Piece \in SUBSET Piece
  BY <1>0, <1>1, <1>2, Values, Sizes DEF ControlInv, Fetched, TypeInv, D
<1>4. smem' = Put(w, Group(0, <<blk, 0>>, Piece))
  BY <1>0, <1>2, <1>3
<1>5. TypeInv'
  <2>1. smem' \in [Slot -> [Warp \X Piece -> Val]]
    BY <1>1, <1>3, <1>4, PutAt
  <2>2. pc' \in [Warp -> {"prologue", "wait", "first", "turn", "store", "sync", "drain", "end", "exit"}]
        /\ next' \in [Warp -> Nat]
    BY <1>0, <1>1 DEF TypeInv
  <2> QED
    BY <1>0, <1>1, <2>1, <2>2, SameCta DEF TypeInv
<1>6. \A s \in Slot, v \in Warp, p \in Piece :
        smem'[s][<<v, p>>] = IF s = 0 /\ v = w THEN <<blk, 0>> ELSE smem[s][<<v, p>>]
  <2> SUFFICES ASSUME NEW s \in Slot, NEW v \in Warp, NEW p \in Piece
               PROVE  smem'[s][<<v, p>>] = IF s = 0 /\ v = w THEN <<blk, 0>> ELSE smem[s][<<v, p>>]
    OBVIOUS
  <2> QED
    BY <1>1, <1>3, <1>4, PutAt
<1>7. WarpInv(w)'
  <2>1. pc'[w] = "wait" /\ next'[w] = 1 /\ kg'[w] = 0 /\ ~masked'[w]
        /\ acc'[w] = <<>> /\ flying'[w] = <<Empty>>
    BY <1>0, <1>1 DEF TypeInv, ControlInv, AccInv, PipelinedInv
  <2>2. Landed(w, 0, 0)'
    BY <1>0, <1>1, <1>3, <1>6, SameCta DEF Landed, Slot
  <2> QED
    BY <1>0, <1>1, <2>1, <2>2, SameCta, Sizes DEF WarpInv, ControlInv, AccInv, PipelinedInv
<1>8. \A v \in Warp \ {w} :
           /\ pc'[v] = pc[v] /\ kg'[v] = kg[v] /\ next'[v] = next[v] /\ masked'[v] = masked[v]
           /\ tb'[v] = tb[v] /\ flying'[v] = flying[v] /\ frag'[v] = frag[v] /\ acc'[v] = acc[v]
           /\ \A s \in Slot, p \in Piece : smem'[s][<<v, p>>] = smem[s][<<v, p>>]
  BY <1>0, <1>1, <1>6 DEF TypeInv
<1>9. pc[w] \in {"prologue", "wait"} /\ pc'[w] \in {"prologue", "wait"}
  BY <1>0, <1>1 DEF TypeInv
<1> QED
  BY <1>0, <1>5, <1>7, <1>8, <1>9, OneWarp

LEMMA StepPrologueCopy ==
  ASSUME IInv, NEW w \in Warp, PrologueCopy(w)
  PROVE  IInv'
<1> DEFINE tile(s) == IF s < D THEN <<blk, s>> ELSE Zero
           groups  == [j \in 1 .. kStages |->
                         IF j < kStages THEN Group(j - 1, tile(j - 1), Piece) ELSE Empty]
<1>0. /\ pc[w] = "prologue" /\ pc' = [pc EXCEPT ![w] = "wait"]
      /\ ~Pipelined
      /\ next' = [next EXCEPT ![w] = kStages - 1]
      /\ masked' = [masked EXCEPT ![w] = left <= kStages - 2]
      /\ UNCHANGED <<loop, blk, left, wr, rd>> /\ UNCHANGED <<smem, kg, tb, frag, acc>>
  BY DEF PrologueCopy, Goto
<1>1. TypeInv /\ WarpInv(w) /\ ControlInv(w) /\ MultistageInv(w) /\ AccInv(w)
  BY <1>0 DEF IInv, WarpInv
<1>2. wr = 0 /\ rd = 0 /\ left = D
  BY <1>0 DEF IInv, PhaseInv, Looping, Exited
<1>m. /\ masked' \in [Warp -> BOOLEAN] /\ (masked'[w] <=> D <= kStages - 2)
      /\ \A v \in Warp \ {w} : masked'[v] = masked[v]
  <2> DEFINE b == left <= kStages - 2
  <2>1. b \in BOOLEAN
    OBVIOUS
  <2>2. (b <=> D <= kStages - 2) /\ masked' = [masked EXCEPT ![w] = b]
    BY <1>0, <1>2
  <2>3. masked \in [Warp -> BOOLEAN]
    BY <1>1 DEF TypeInv
  <2> HIDE DEF b
  <2> QED
    BY <2>1, <2>2, <2>3, MaskSet
<1>3. flying' = [flying EXCEPT ![w] = groups]
  BY <1>2 DEF PrologueCopy, PrologueTile
<1>4. \A j \in 1 .. kStages - 1 : Group(j - 1, tile(j - 1), Piece) \in GroupSet
  <2> SUFFICES ASSUME NEW j \in 1 .. kStages - 1
               PROVE  Group(j - 1, tile(j - 1), Piece) \in GroupSet
    OBVIOUS
  <2>1. j - 1 \in Slot /\ j - 1 \in Nat
    BY <1>1, Sizes DEF Slot
  <2>2. tile(j - 1) \in Val
    BY <1>1, <2>1, Values DEF D, TypeInv
  <2> HIDE DEF tile
  <2> QED
    BY <2>1, <2>2 DEF Group, GroupSet
<1> HIDE DEF tile
<1>5. groups \in Seq(GroupSet) /\ Len(groups) = kStages
  <2>1. Empty \in GroupSet /\ kStages \in Nat
    BY <1>1, Values, Sizes
  <2>2. \A j \in 1 .. kStages : groups[j] \in GroupSet
    BY <1>4, <2>1
  <2> QED
    BY <2>1, <2>2
<1>6. /\ groups[kStages] = Empty
      /\ \A j \in 1 .. kStages - 1 : groups[j] = Group(j - 1, tile(j - 1), Piece)
  BY <1>1, Sizes
<1> HIDE DEF groups
<1>7. TypeInv'
  <2>1. flying' \in [Warp -> Seq(GroupSet)]
    BY <1>1, <1>3, <1>5 DEF TypeInv
  <2>2. pc' \in [Warp -> {"prologue", "wait", "first", "turn", "store", "sync", "drain", "end", "exit"}]
    BY <1>0, <1>1 DEF TypeInv
  <2>3. next' \in [Warp -> Nat]
    <3>1. kStages - 1 \in Nat
      BY <1>1, Sizes
    <3> QED
      BY <1>0, <1>1, <3>1 DEF TypeInv
  <2> QED
    BY <1>0, <1>1, <1>m, <2>1, <2>2, <2>3, SameCta DEF TypeInv
<1>8. WarpInv(w)'
  <2>1. pc'[w] = "wait" /\ next'[w] = kStages - 1 /\ kg'[w] = 0 /\ (masked'[w] <=> D <= kStages - 2)
        /\ acc'[w] = <<>> /\ flying'[w] = groups
    BY <1>0, <1>1, <1>2, <1>3, <1>m DEF TypeInv, ControlInv, AccInv
  <2>2. \A j \in 1 .. kStages - 1 : Bringing(w, j, j - 1, j - 1)'
    <3> SUFFICES ASSUME NEW j \in 1 .. kStages - 1
                 PROVE  Bringing(w, j, j - 1, j - 1)'
      OBVIOUS
    <3>1. flying'[w][j] = Group(j - 1, tile(j - 1), Piece)
      BY <1>6, <2>1
    <3> QED
      BY <1>0, <3>1, SameCta DEF Bringing, Group, tile
  <2>3. MultistageInv(w)'
    BY <1>0, <1>5, <1>6, <2>1, <2>2, SameCta DEF MultistageInv
  <2> QED
    BY <1>0, <1>1, <2>1, <2>3, SameCta, Sizes DEF WarpInv, ControlInv, AccInv
<1>9. \A v \in Warp \ {w} :
           /\ pc'[v] = pc[v] /\ kg'[v] = kg[v] /\ next'[v] = next[v] /\ masked'[v] = masked[v]
           /\ tb'[v] = tb[v] /\ flying'[v] = flying[v] /\ frag'[v] = frag[v] /\ acc'[v] = acc[v]
           /\ \A s \in Slot, p \in Piece : smem'[s][<<v, p>>] = smem[s][<<v, p>>]
  BY <1>0, <1>1, <1>3, <1>m DEF TypeInv
<1>10. pc[w] \in {"prologue", "wait"} /\ pc'[w] \in {"prologue", "wait"}
  BY <1>0, <1>1 DEF TypeInv
<1> QED
  BY <1>0, <1>7, <1>8, <1>9, <1>10, OneWarp

LEMMA StepFirst ==
  ASSUME IInv, NEW w \in Warp, First(w)
  PROVE  IInv'
<1>0. /\ pc[w] = "first" /\ pc' = [pc EXCEPT ![w] = "turn"]
      /\ frag' = [frag EXCEPT ![w][0] = <<smem[rd], 0>>]
      /\ masked' = [masked EXCEPT ![w] = @ \/ IF Pipelined THEN left <= 1 ELSE left = 0]
      /\ UNCHANGED <<loop, blk, left, wr, rd>> /\ UNCHANGED <<smem, kg, next, tb, flying, acc>>
  BY DEF First, Goto
<1>1. TypeInv /\ WarpInv(w) /\ ControlInv(w) /\ AccInv(w)
  BY DEF IInv, WarpInv
<1>2. T = 0 /\ smem[rd] = Whole(blk, 0) /\ kg[w] = 0 /\ next[w] = kStages - 1
      /\ (masked[w] <=> ~Pipelined /\ D <= kStages - 2) /\ acc[w] = <<>>
  BY <1>0, <1>1, Sizes DEF IInv, PhaseInv, Starting, Exited, ControlInv, AccInv
<1>3. <<smem[rd], 0>> \in FragSet
  <2>1. smem[rd] \in [Warp \X Piece -> Val]
    BY <1>1 DEF TypeInv
  <2>2. 0 \in Piece
    BY <1>1, Sizes DEF Piece
  <2> QED
    BY <2>1, <2>2 DEF FragSet
<1>m. /\ masked' \in [Warp -> BOOLEAN] /\ (masked'[w] <=> kStages - 1 >= D)
      /\ \A v \in Warp \ {w} : masked'[v] = masked[v]
  <2> DEFINE b == masked[w] \/ IF Pipelined THEN left <= 1 ELSE left = 0
  <2>1. b \in BOOLEAN
    OBVIOUS
  <2>2. b <=> kStages - 1 >= D
    <3>1. left \in Int
      BY <1>1 DEF TypeInv
    <3> QED
      BY <1>1, <1>2, <3>1, Sizes DEF T
  <2>3. masked \in [Warp -> BOOLEAN] /\ masked' = [masked EXCEPT ![w] = b]
    BY <1>0, <1>1 DEF TypeInv
  <2> HIDE DEF b
  <2> QED
    BY <2>1, <2>2, <2>3, MaskSet
<1>4. TypeInv'
  <2>1. frag' \in [Warp -> [{0, 1} -> FragSet]]
    BY <1>0, <1>1, <1>3 DEF TypeInv
  <2>2. pc' \in [Warp -> {"prologue", "wait", "first", "turn", "store", "sync", "drain", "end", "exit"}]
    BY <1>0, <1>1 DEF TypeInv
  <2> QED
    BY <1>0, <1>1, <1>m, <2>1, <2>2, SameCta DEF TypeInv
<1>5. WarpInv(w)'
  <2>1. /\ pc'[w] = "turn" /\ kg'[w] = 0 /\ next'[w] = kStages - 1 /\ acc'[w] = <<>>
        /\ frag'[w][0] = <<Whole(blk, 0), 0>> /\ flying'[w] = flying[w]
    BY <1>0, <1>1, <1>2 DEF TypeInv
  <2>2. T' = 0 /\ Tile(w)' = 0
    BY <1>0, <1>1, <1>2, <2>1, SameCta, Sizes DEF Tile
  <2>4. ControlInv(w)'
    BY <1>0, <1>1, <1>m, <2>1, <2>2, SameCta, Sizes DEF ControlInv
  <2>5. AccInv(w)'
    <3>1. Fragments(blk, 0 * KG + 0) = <<>>
      BY <1>1, Sizes DEF Fragments
    <3>2. 0 % 2 = 0
      OBVIOUS
    <3> QED
      BY <1>0, <2>1, <2>2, <3>1, <3>2, SameCta DEF AccInv
  <2>6. Pipelined => PipelinedInv(w)'
    BY <1>0, <1>1, <2>1, SameCta, Sizes DEF WarpInv, PipelinedInv
  <2>7. ~Pipelined => MultistageInv(w)'
    <3>1. \A j \in 1 .. kStages - 2 : Bringing(w, j, At(j), T + j) => Bringing(w, j, At(j), T + j)'
      BY <1>0, <2>1, SameCta DEF Bringing, Landed, Group
    <3> QED
      BY <1>0, <1>1, <2>1, <3>1, SameCta, Sizes DEF WarpInv, MultistageInv
  <2> QED
    BY <1>0, <2>4, <2>5, <2>6, <2>7, SameCta DEF WarpInv
<1>6. \A v \in Warp \ {w} :
           /\ pc'[v] = pc[v] /\ kg'[v] = kg[v] /\ next'[v] = next[v] /\ masked'[v] = masked[v]
           /\ tb'[v] = tb[v] /\ flying'[v] = flying[v] /\ frag'[v] = frag[v] /\ acc'[v] = acc[v]
           /\ \A s \in Slot, p \in Piece : smem'[s][<<v, p>>] = smem[s][<<v, p>>]
  BY <1>0, <1>1, <1>m DEF TypeInv
<1>7. pc[w] \in LoopPc /\ pc'[w] \in LoopPc /\ smem'[rd] = smem[rd]
  BY <1>0, <1>1 DEF TypeInv, LoopPc
<1> QED
  BY <1>0, <1>4, <1>5, <1>6, <1>7, OneWarp

\* The copies of a group arrive: its share of a tile is in its slot, and the
\* other slots are as they were.
LEMMA Arrive ==
  ASSUME TypeInv, NEW w \in Warp, NEW j \in 1 .. Len(flying[w]) - 1, NEW s \in Slot, NEW t \in Nat,
         flying[w][j] = Group(s, IF t < D THEN <<blk, t>> ELSE Zero, Piece),
         smem' = Put(w, flying[w][j]), flying' = [flying EXCEPT ![w][j] = Empty],
         UNCHANGED <<loop, blk, left, wr, rd>>
  PROVE  /\ smem' \in [Slot -> [Warp \X Piece -> Val]]
         /\ flying' \in [Warp -> Seq(GroupSet)]
         /\ Len(flying'[w]) = Len(flying[w]) /\ flying'[w][j] = Empty
         /\ \A i \in 1 .. Len(flying[w]) : i # j => flying'[w][i] = flying[w][i]
         /\ \A v \in Warp \ {w} : flying'[v] = flying[v]
         /\ \A r \in Slot \ {s} : smem'[r] = smem[r]
         /\ \A v \in Warp \ {w}, r \in Slot, p \in Piece : smem'[r][<<v, p>>] = smem[r][<<v, p>>]
         /\ Bringing(w, j, s, t)'
<1> DEFINE val == IF t < D THEN <<blk, t>> ELSE Zero
<1>1. val \in Val /\ Piece \in SUBSET Piece
  BY Values DEF D, TypeInv
<1>2. smem' = Put(w, Group(s, val, Piece))
  OBVIOUS
<1>3. t < D => val = <<blk, t>>
  OBVIOUS
<1> HIDE DEF val
<1>4. smem' \in [Slot -> [Warp \X Piece -> Val]]
  <2>1. Put(w, Group(s, val, Piece)) \in [Slot -> [Warp \X Piece -> Val]]
    BY <1>1, PutAt
  <2> QED
    BY <1>2, <2>1
<1>5. \A r \in Slot, v \in Warp, p \in Piece :
        smem'[r][<<v, p>>] = IF r = s /\ v = w THEN val ELSE smem[r][<<v, p>>]
  <2> SUFFICES ASSUME NEW r \in Slot, NEW v \in Warp, NEW p \in Piece
               PROVE  smem'[r][<<v, p>>] = IF r = s /\ v = w THEN val ELSE smem[r][<<v, p>>]
    OBVIOUS
  <2> QED
    BY <1>1, <1>2, PutAt
<1>6. \A r \in Slot \ {s} : smem'[r] = smem[r]
  BY <1>2 DEF Put, Group, TypeInv
<1>7. /\ flying' \in [Warp -> Seq(GroupSet)]
      /\ Len(flying'[w]) = Len(flying[w]) /\ flying'[w][j] = Empty
      /\ \A i \in 1 .. Len(flying[w]) : i # j => flying'[w][i] = flying[w][i]
      /\ \A v \in Warp \ {w} : flying'[v] = flying[v]
  <2>1. flying \in [Warp -> Seq(GroupSet)] /\ Empty \in GroupSet
    BY Values DEF TypeInv
  <2>2. flying[w] \in Seq(GroupSet) /\ j \in 1 .. Len(flying[w])
    BY <2>1
  <2> DEFINE new == [flying[w] EXCEPT ![j] = Empty]
  <2>3. new \in Seq(GroupSet) /\ Len(new) = Len(flying[w]) /\ new[j] = Empty
        /\ \A i \in 1 .. Len(flying[w]) : i # j => new[i] = flying[w][i]
    BY <2>1, <2>2, ExceptSeq
  <2>4. flying' = [flying EXCEPT ![w] = new]
    OBVIOUS
  <2> HIDE DEF new
  <2> QED
    BY <2>1, <2>3, <2>4
<1>8. Bringing(w, j, s, t)'
  BY <1>3, <1>5, <1>7, SameCta DEF Bringing, Landed
<1>9. \A v \in Warp \ {w}, r \in Slot, p \in Piece : smem'[r][<<v, p>>] = smem[r][<<v, p>>]
  BY <1>5
<1> QED
  BY <1>4, <1>6, <1>7, <1>8, <1>9

\* Other groups of the warp, for other slots, are where they were.
LEMMA StillBringing ==
  ASSUME NEW w \in Warp, NEW i, NEW r \in Slot, NEW t, flying'[w][i] = flying[w][i], smem'[r] = smem[r],
         UNCHANGED <<loop, blk, left, wr, rd>>, Bringing(w, i, r, t)
  PROVE  Bringing(w, i, r, t)'
  BY SameCta DEF Bringing, Landed, Group

\* The first n groups of w bring tiles to different slots.
Routed(w, n, slot, tile) ==
  /\ n \in Nat /\ n = Len(flying[w]) - 1
  /\ slot \in [1 .. n -> Slot] /\ tile \in [1 .. n -> Nat]
  /\ \A i, k \in 1 .. n : slot[i] = slot[k] => i = k
  /\ \A i \in 1 .. n : Bringing(w, i, slot[i], tile[i])

\* Group j of w arrives.
Arrives(w, j) ==
  /\ flying[w][j] # Empty
  /\ smem' = Put(w, flying[w][j]) /\ flying' = [flying EXCEPT ![w][j] = Empty]
  /\ UNCHANGED <<loop, blk, left, wr, rd>>

\* What that leaves as it was.
Arrived(w, n, slot) ==
  /\ smem' \in [Slot -> [Warp \X Piece -> Val]]
  /\ flying' \in [Warp -> Seq(GroupSet)]
  /\ Len(flying'[w]) = n + 1 /\ flying'[w][n + 1] = flying[w][n + 1]
  /\ \A v \in Warp \ {w} : flying'[v] = flying[v]
  /\ \A r \in Slot : (\A i \in 1 .. n : slot[i] # r) => smem'[r] = smem[r]
  /\ \A v \in Warp \ {w}, r \in Slot, p \in Piece : smem'[r][<<v, p>>] = smem[r][<<v, p>>]

\* The groups of a warp keep on bringing what they bring, when one of them
\* arrives.
LEMMA AllArrive ==
  ASSUME TypeInv, NEW w \in Warp, NEW n, NEW slot, NEW tile, Routed(w, n, slot, tile),
         NEW j \in 1 .. n, Arrives(w, j)
  PROVE  Arrived(w, n, slot) /\ \A i \in 1 .. n : Bringing(w, i, slot[i], tile[i])'
<1>0. /\ n \in Nat /\ n = Len(flying[w]) - 1
      /\ slot \in [1 .. n -> Slot] /\ tile \in [1 .. n -> Nat]
      /\ \A i, k \in 1 .. n : slot[i] = slot[k] => i = k
      /\ \A i \in 1 .. n : Bringing(w, i, slot[i], tile[i])
      /\ flying[w][j] # Empty
      /\ smem' = Put(w, flying[w][j]) /\ flying' = [flying EXCEPT ![w][j] = Empty]
      /\ UNCHANGED <<loop, blk, left, wr, rd>>
  BY DEF Routed, Arrives
<1>1. flying[w][j] = Group(slot[j], IF tile[j] < D THEN <<blk, tile[j]>> ELSE Zero, Piece)
  BY <1>0 DEF Bringing
<1>2. Len(flying[w]) = n + 1 /\ j \in 1 .. Len(flying[w]) - 1
  <2>1. Len(flying[w]) \in Nat
    BY LenProperties DEF TypeInv
  <2> QED
    BY <1>0, <2>1
<1>a. PICK s \in Slot, t \in Nat : s = slot[j] /\ t = tile[j]
  BY <1>0
<1>3. /\ smem' \in [Slot -> [Warp \X Piece -> Val]]
      /\ flying' \in [Warp -> Seq(GroupSet)]
      /\ Len(flying'[w]) = Len(flying[w])
      /\ \A i \in 1 .. Len(flying[w]) : i # j => flying'[w][i] = flying[w][i]
      /\ \A v \in Warp \ {w} : flying'[v] = flying[v]
      /\ \A r \in Slot \ {slot[j]} : smem'[r] = smem[r]
      /\ \A v \in Warp \ {w}, r \in Slot, p \in Piece : smem'[r][<<v, p>>] = smem[r][<<v, p>>]
      /\ Bringing(w, j, slot[j], tile[j])'
  <2>1. flying[w][j] = Group(s, IF t < D THEN <<blk, t>> ELSE Zero, Piece)
    BY <1>1, <1>a
  <2>2. /\ smem' \in [Slot -> [Warp \X Piece -> Val]]
        /\ flying' \in [Warp -> Seq(GroupSet)]
        /\ Len(flying'[w]) = Len(flying[w]) /\ flying'[w][j] = Empty
        /\ \A i \in 1 .. Len(flying[w]) : i # j => flying'[w][i] = flying[w][i]
        /\ \A v \in Warp \ {w} : flying'[v] = flying[v]
        /\ \A r \in Slot \ {s} : smem'[r] = smem[r]
        /\ \A v \in Warp \ {w}, r \in Slot, p \in Piece : smem'[r][<<v, p>>] = smem[r][<<v, p>>]
        /\ Bringing(w, j, s, t)'
    BY <1>0, <1>2, <2>1, Arrive
  <2> QED
    BY <1>a, <2>2
<1>4. \A i \in 1 .. n : Bringing(w, i, slot[i], tile[i])'
  <2> SUFFICES ASSUME NEW i \in 1 .. n, i # j
               PROVE  Bringing(w, i, slot[i], tile[i])'
    BY <1>3
  <2>1. slot[i] \in Slot /\ slot[i] # slot[j] /\ i \in 1 .. Len(flying[w])
    BY <1>0, <1>2
  <2>2. flying'[w][i] = flying[w][i] /\ smem'[slot[i]] = smem[slot[i]]
    BY <1>3, <2>1
  <2>3. Bringing(w, i, slot[i], tile[i])
    BY <1>0
  <2> QED
    BY <1>0, <2>1, <2>2, <2>3, StillBringing
<1>5. flying'[w][n + 1] = flying[w][n + 1]
  BY <1>0, <1>2, <1>3
<1> QED
  BY <1>0, <1>2, <1>3, <1>4, <1>5 DEF Arrived

LEMMA StepLand ==
  ASSUME IInv, NEW w \in Warp, Land(w)
  PROVE  IInv'
<1>0. PICK j \in 1 .. Len(flying[w]) - 1 :
        /\ flying[w][j] # Empty
        /\ smem' = Put(w, flying[w][j]) /\ flying' = [flying EXCEPT ![w][j] = Empty]
        /\ UNCHANGED <<loop, blk, left, wr, rd>> /\ UNCHANGED <<pc, kg, next, masked, tb, frag, acc>>
  BY DEF Land
<1>1. TypeInv /\ WarpInv(w) /\ ControlInv(w) /\ AccInv(w)
  BY DEF IInv, WarpInv
<1>2. ~Pipelined /\ MultistageInv(w) /\ pc[w] \notin {"prologue", "end", "exit"}
  <2>1. ASSUME flying[w] = <<Empty>> PROVE FALSE
    <3>1. Len(flying[w]) = 1
      BY <2>1
    <3> QED
      BY <3>1
  <2> QED
    BY <1>1, <2>1 DEF WarpInv, PipelinedInv, MultistageInv
<1>3. PICK n \in Nat : n = Len(flying[w]) - 1 /\ j \in 1 .. n
  <2>1. Len(flying[w]) \in Nat
    BY <1>1, LenProperties DEF TypeInv
  <2> QED
    BY <2>1
<1>a. Arrives(w, j)
  BY <1>0 DEF Arrives
<1>4. ASSUME NEW slot, Arrived(w, n, slot), MultistageInv(w)',
             \/ pc[w] = "wait"
             \/ pc[w] \in LoopPc /\ smem'[rd] = smem[rd]
      PROVE  IInv'
  <2>1. TypeInv'
    BY <1>0, <1>1, <1>4, SameCta DEF TypeInv, Arrived
  <2>2. ControlInv(w)' /\ AccInv(w)'
    <3>1. Tile(w)' = Tile(w)
      BY <1>0, SameCta DEF Tile
    <3> QED
      BY <1>0, <1>1, <3>1, SameCta DEF ControlInv, AccInv
  <2>3. WarpInv(w)'
    BY <1>0, <1>2, <1>4, <2>2, SameCta DEF WarpInv
  <2>4. \A v \in Warp \ {w} :
           /\ pc'[v] = pc[v] /\ kg'[v] = kg[v] /\ next'[v] = next[v] /\ masked'[v] = masked[v]
           /\ tb'[v] = tb[v] /\ flying'[v] = flying[v] /\ frag'[v] = frag[v] /\ acc'[v] = acc[v]
           /\ \A s \in Slot, p \in Piece : smem'[s][<<v, p>>] = smem[s][<<v, p>>]
    BY <1>0, <1>4 DEF Arrived
  <2>5. \/ pc[w] \in {"prologue", "wait"} /\ pc'[w] \in {"prologue", "wait"}
        \/ pc[w] \in LoopPc /\ pc'[w] \in LoopPc /\ smem'[rd] = smem[rd]
    BY <1>0, <1>4
  <2> QED
    BY <1>0, <2>1, <2>3, <2>4, <2>5, OneWarp
<1>5. CASE pc[w] = "wait"
  <2>1. n = kStages - 1 /\ flying[w][n + 1] = Empty
        /\ \A i \in 1 .. n : Bringing(w, i, i - 1, i - 1)
    BY <1>1, <1>2, <1>3, <1>5, Sizes DEF MultistageInv
  <2>2. PICK slot : slot = [i \in 1 .. n |-> i - 1]
    OBVIOUS
  <2>3. /\ \A i \in 1 .. n : slot[i] = i - 1
        /\ slot \in [1 .. n -> Slot] /\ slot \in [1 .. n -> Nat]
        /\ \A i, k \in 1 .. n : slot[i] = slot[k] => i = k
    <3>1. n \in Nat /\ n = kStages - 1 /\ kStages \in Nat
      BY <1>1, <2>1, Sizes
    <3>2. \A i \in 1 .. n : i - 1 \in Slot /\ i - 1 \in Nat /\ i \in Int
      BY <3>1 DEF Slot
    <3>3. \A i \in 1 .. n : slot[i] = i - 1
      BY <2>2
    <3>4. slot \in [1 .. n -> Slot] /\ slot \in [1 .. n -> Nat]
      BY <2>2, <3>2
    <3>5. \A i, k \in 1 .. n : i - 1 = k - 1 => i = k
      BY <3>2
    <3> QED
      BY <3>3, <3>4, <3>5
  <2>4. Routed(w, n, slot, slot)
    BY <1>3, <2>1, <2>3 DEF Routed
  <2>5. Arrived(w, n, slot) /\ \A i \in 1 .. n : Bringing(w, i, slot[i], slot[i])'
    BY <1>1, <1>3, <1>a, <2>4, AllArrive
  <2>6. \A i \in 1 .. n : Bringing(w, i, i - 1, i - 1)'
    BY <2>3, <2>5
  <2>7. MultistageInv(w)'
    BY <1>0, <1>1, <1>5, <2>1, <2>5, <2>6, SameCta, Sizes DEF MultistageInv, Arrived
  <2> QED
    BY <1>4, <1>5, <2>5, <2>7
<1>6. CASE pc[w] \in {"first", "turn", "drain", "sync"}
  <2>1. /\ n \in {kStages - 2, kStages - 1}
        /\ pc[w] \in {"first", "turn", "drain"} => n = kStages - 2
        /\ pc[w] = "sync" => n = kStages - 1 /\ flying[w][n + 1] = Empty
        /\ \A i \in 1 .. n : Bringing(w, i, At(i), T + i)
    <3>1. Len(flying[w]) = n + 1
      <4>1. Len(flying[w]) \in Nat
        BY <1>1, LenProperties DEF TypeInv
      <4> QED
        BY <1>3, <4>1
    <3>2. CASE pc[w] \in {"first", "turn", "drain"}
      BY <1>1, <1>2, <3>1, <3>2, Sizes DEF MultistageInv
    <3>3. CASE pc[w] = "sync"
      BY <1>1, <1>2, <3>1, <3>3, Sizes DEF MultistageInv
    <3> QED
      BY <1>6, <3>2, <3>3
  <2>a. PICK slot, tile : slot = [i \in 1 .. n |-> At(i)] /\ tile = [i \in 1 .. n |-> T + i]
    OBVIOUS
  <2>2. T \in Nat
    BY <1>1, <1>6, Sizes DEF IInv, PhaseInv, Starting, Exited
  <2>3. /\ slot \in [1 .. n -> Slot] /\ tile \in [1 .. n -> Nat]
        /\ \A i, k \in 1 .. n : slot[i] = slot[k] => i = k
        /\ \A i \in 1 .. n : slot[i] # rd
    <3>1. \A i \in 1 .. n : i \in 0 .. kStages - 1 /\ i # 0 /\ 0 \in 0 .. kStages - 1
      BY <1>1, <2>1, Sizes
    <3>2. \A i \in 1 .. n : slot[i] = At(i)
      BY <2>a
    <3>3. \A i \in 1 .. n : At(i) # rd
      BY <1>1, <3>1, Ring
    <3>4. \A i \in 1 .. n : At(i) \in Slot
      BY <1>1, <3>1, Ring
    <3>5. tile \in [1 .. n -> Nat]
      BY <2>2, <2>a
    <3>6. \A i, k \in 1 .. n : slot[i] = slot[k] => i = k
      BY <1>1, <3>1, <3>2, Ring
    <3> QED
      BY <2>a, <3>2, <3>3, <3>4, <3>5, <3>6
  <2>4. \A i \in 1 .. n : slot[i] = At(i) /\ tile[i] = T + i
    BY <2>a
  <2>5. Routed(w, n, slot, tile)
    BY <1>3, <2>1, <2>3, <2>4 DEF Routed
  <2>6. Arrived(w, n, slot) /\ \A i \in 1 .. n : Bringing(w, i, slot[i], tile[i])'
    BY <1>1, <1>3, <1>a, <2>5, AllArrive
  <2>7. \A i \in 1 .. n : Bringing(w, i, At(i), T + i)'
    BY <1>0, <2>4, <2>6, SameCta
  <2>8. MultistageInv(w)'
    <3>1. /\ Len(flying'[w]) = n + 1 /\ flying'[w][n + 1] = flying[w][n + 1]
          /\ pc'[w] = pc[w] /\ kg'[w] = kg[w] /\ wr' = wr /\ blk' = blk
      BY <1>0, <2>6 DEF Arrived
    <3>2. CASE pc[w] \in {"first", "turn", "drain"}
      <4>1. n = kStages - 2 /\ n + 1 = kStages - 1
        BY <1>1, <2>1, <3>2, Sizes
      <4> QED
        BY <1>0, <1>2, <2>7, <3>1, <3>2, <4>1, SameCta DEF MultistageInv, Group
    <3>3. CASE pc[w] = "sync"
      <4>1. n = kStages - 1 /\ n + 1 = kStages
        BY <1>1, <2>1, <3>3, Sizes
      <4> QED
        BY <1>0, <1>2, <2>1, <2>7, <3>1, <3>3, <4>1, SameCta DEF MultistageInv
    <3> QED
      BY <1>6, <3>2, <3>3
  <2>9. smem'[rd] = smem[rd]
    BY <1>1, <2>3, <2>6 DEF TypeInv, Arrived
  <2> QED
    BY <1>4, <1>6, <2>6, <2>8, <2>9 DEF LoopPc
<1>7. pc[w] # "store"
  BY <1>1, <1>2 DEF ControlInv
<1> QED
  BY <1>1, <1>2, <1>5, <1>6, <1>7 DEF TypeInv

\* A turn leaves the warp at the next fragment, having multiplied the one that
\* it was at.
LEMMA Turn ==
  ASSUME IInv, NEW w \in Warp, LoadAndMultiply(w),
         UNCHANGED <<loop, blk, left, wr, rd>>, smem' = smem
  PROVE  /\ pc[w] = "turn" /\ kg[w] \in 0 .. KG - 1
         /\ \/ kg[w] < KG - 2 /\ pc'[w] = "turn" /\ kg'[w] = kg[w] + 1
            \/ kg[w] = KG - 2 /\ pc'[w] = (IF Pipelined THEN "store" ELSE "sync") /\ kg'[w] = KG - 1
            \/ kg[w] = KG - 1 /\ kg'[w] = 0 /\ T < D /\ pc'[w] = "turn"
            \/ kg[w] = KG - 1 /\ kg'[w] = 0 /\ T = D /\ pc'[w] = IF Pipelined THEN "end" ELSE "drain"
         /\ pc' \in [Warp -> {"prologue", "wait", "first", "turn", "store", "sync", "drain", "end", "exit"}]
         /\ kg' \in [Warp -> Piece] /\ frag' \in [Warp -> [{0, 1} -> FragSet]]
         /\ acc' \in [Warp -> Seq(FragSet)]
         /\ \A v \in Warp \ {w} : /\ pc'[v] = pc[v] /\ kg'[v] = kg[v]
                                  /\ frag'[v] = frag[v] /\ acc'[v] = acc[v]
         /\ AccInv(w)'
<1> DEFINE g == kg[w]
<1>0. /\ pc[w] = "turn" /\ pc' = [pc EXCEPT ![w] = AfterTurn(g)]
      /\ frag' = [frag EXCEPT ![w][(g + 1) % 2] = <<smem[rd], (g + 1) % KG>>]
      /\ acc' = [acc EXCEPT ![w] = Append(@, frag[w][g % 2])]
      /\ kg' = [kg EXCEPT ![w] = (g + 1) % KG]
  BY DEF LoadAndMultiply, Goto
<1>1. TypeInv /\ WarpInv(w) /\ ControlInv(w) /\ AccInv(w)
  BY DEF IInv, WarpInv
<1>2. /\ g \in 0 .. KG - 1 /\ KG \in Nat \ {0} /\ KG >= 2 /\ KG % 2 = 0
      /\ (g + 1) % 2 \in {0, 1} /\ g % 2 \in {0, 1}
      /\ D \in Nat /\ kStages \in Nat /\ left \in Int /\ T \in Int
  <2>1. g \in 0 .. KG - 1 /\ left \in Int
    BY <1>1 DEF TypeInv, Piece
  <2> QED
    BY <1>1, <2>1, Sizes
<1> HIDE DEF g
<1>3. /\ T \in 0 .. D
      /\ T < D => smem[rd] = Whole(blk, T)
      /\ g = KG - 1 => T > 0
      /\ g # KG - 1 => T < D
  BY <1>0, <1>1, <1>2 DEF IInv, PhaseInv, Starting, Exited, ControlInv, g
<1>4. More <=> T < D
  BY <1>1, <1>2, Sizes DEF More, T
<1>5. /\ g < KG - 1 => (g + 1) % KG = g + 1
      /\ g = KG - 1 => (g + 1) % KG = 0 /\ (g + 1) % 2 = 0
      /\ (g + 1) % KG \in Piece
  <2>1. CASE g < KG - 1
    <3>1. g + 1 \in 0 .. KG - 1 /\ g + 1 = 0 * KG + (g + 1)
      BY <1>2, <2>1
    <3>2. (g + 1) % KG = g + 1
      BY <1>2, <3>1, DivModUnique
    <3> QED
      BY <1>2, <2>1, <3>1, <3>2 DEF Piece
  <2>2. CASE g = KG - 1
    <3>1. g + 1 = KG /\ KG = 1 * KG + 0 /\ 0 \in 0 .. KG - 1
      BY <1>2, <2>2
    <3>2. KG % KG = 0
      BY <1>2, <3>1, DivModUnique
    <3> QED
      BY <1>2, <2>2, <3>1, <3>2 DEF Piece
  <2> QED
    BY <1>2, <2>1, <2>2
<1>6. \/ g < KG - 2 /\ pc'[w] = "turn" /\ kg'[w] = g + 1
      \/ g = KG - 2 /\ pc'[w] = (IF Pipelined THEN "store" ELSE "sync") /\ kg'[w] = KG - 1
      \/ g = KG - 1 /\ kg'[w] = 0 /\ T < D /\ pc'[w] = "turn"
      \/ g = KG - 1 /\ kg'[w] = 0 /\ T = D /\ pc'[w] = IF Pipelined THEN "end" ELSE "drain"
  <2>1. pc'[w] = AfterTurn(g) /\ kg'[w] = (g + 1) % KG
    BY <1>0, <1>1 DEF TypeInv
  <2>2. CASE g < KG - 2
    BY <1>2, <1>5, <2>1, <2>2 DEF AfterTurn
  <2>3. CASE g = KG - 2
    BY <1>2, <1>5, <2>1, <2>3 DEF AfterTurn
  <2>4. CASE g = KG - 1
    BY <1>2, <1>3, <1>4, <1>5, <2>1, <2>4 DEF AfterTurn
  <2> QED
    BY <1>2, <2>2, <2>3, <2>4
<1>7. <<smem[rd], (g + 1) % KG>> \in FragSet /\ frag[w][g % 2] \in FragSet
  <2>1. smem[rd] \in [Warp \X Piece -> Val] /\ frag[w] \in [{0, 1} -> FragSet]
    BY <1>1 DEF TypeInv
  <2> QED
    BY <1>2, <1>5, <2>1 DEF FragSet
<1>8. pc' \in [Warp -> {"prologue", "wait", "first", "turn", "store", "sync", "drain", "end", "exit"}]
  BY <1>0, <1>1 DEF TypeInv, AfterTurn
<1>9. kg' \in [Warp -> Piece]
  BY <1>0, <1>1, <1>5 DEF TypeInv
<1>10. frag' \in [Warp -> [{0, 1} -> FragSet]]
  BY <1>0, <1>1, <1>2, <1>7 DEF TypeInv
<1>11. /\ acc' \in [Warp -> Seq(FragSet)] /\ acc'[w] = Append(acc[w], frag[w][g % 2])
  <2>1. acc \in [Warp -> Seq(FragSet)]
    BY <1>1 DEF TypeInv
  <2>2. Append(acc[w], frag[w][g % 2]) \in Seq(FragSet)
    BY <1>7, <2>1
  <2> QED
    BY <1>0, <2>1, <2>2
<1>12. \A v \in Warp \ {w} : /\ pc'[v] = pc[v] /\ kg'[v] = kg[v]
                             /\ frag'[v] = frag[v] /\ acc'[v] = acc[v]
  BY <1>0, <1>1 DEF TypeInv
<1>13. frag'[w][(g + 1) % 2] = <<smem[rd], (g + 1) % KG>>
  BY <1>0, <1>1, <1>2 DEF TypeInv
<1>14. \A t \in Nat : t * KG + g \in Nat
                   /\ acc[w] = Fragments(blk, t * KG + g) /\ frag[w][g % 2] = <<Whole(blk, t), g>>
                   => acc'[w] = Fragments(blk, t * KG + g + 1)
  <2> SUFFICES ASSUME NEW t \in Nat, t * KG + g \in Nat,
                      acc[w] = Fragments(blk, t * KG + g), frag[w][g % 2] = <<Whole(blk, t), g>>
               PROVE  acc'[w] = Fragments(blk, t * KG + g + 1)
    OBVIOUS
  <2>1. g \in Piece
    BY <1>2 DEF Piece
  <2>2. Fragment(blk, t * KG + g) = frag[w][g % 2]
    BY <1>2, <2>1, FragmentAt
  <2>3. Append(Fragments(blk, t * KG + g), Fragment(blk, t * KG + g)) = Fragments(blk, t * KG + g + 1)
    BY AppendFragment
  <2> QED
    BY <1>11, <2>2, <2>3
<1>15. /\ acc[w] = Fragments(blk, Tile(w) * KG + g)
       /\ frag[w][g % 2] = <<Whole(blk, Tile(w)), g>>
  BY <1>0, <1>1 DEF AccInv, g
<1>16. T' = T /\ KG' = KG /\ D' = D
  BY SameCta
<1>17. AccInv(w)'
  <2>1. CASE g < KG - 1
    <3>1. Tile(w) = T /\ Tile(w)' = T
      BY <1>0, <1>2, <1>6, <1>16, <2>1 DEF Tile, g
    <3>2. T \in Nat /\ T * KG + g \in Nat
      BY <1>2, <1>3
    <3>3. acc'[w] = Fragments(blk, T * KG + g + 1)
      BY <1>14, <1>15, <3>1, <3>2
    <3>4. kg'[w] = g + 1 /\ T * KG + g + 1 = T * KG + (g + 1)
      BY <1>2, <1>6, <2>1, <3>2
    <3>5. frag'[w][(g + 1) % 2] = <<Whole(blk, T), g + 1>>
      BY <1>3, <1>5, <1>13, <2>1, <1>2
    <3>6. pc'[w] \in {"turn", "store", "sync"}
      BY <1>2, <1>6, <2>1
    <3> QED
      BY <1>16, <3>1, <3>3, <3>4, <3>5, <3>6, SameCta DEF AccInv
  <2>2. CASE g = KG - 1
    <3>1. Tile(w) = T - 1
      BY <1>0, <2>2 DEF Tile, g
    <3>2. T - 1 \in Nat /\ (T - 1) * KG + g \in Nat /\ (T - 1) * KG + g + 1 = T * KG
      BY <1>2, <1>3, <2>2
    <3>3. acc'[w] = Fragments(blk, T * KG)
      BY <1>14, <1>15, <3>1, <3>2
    <3>4. kg'[w] = 0
      BY <1>2, <1>6, <2>2
    <3>5. CASE T < D /\ pc'[w] = "turn"
      <4>1. Tile(w)' = T
        BY <1>2, <1>16, <3>4, <3>5 DEF Tile
      <4>2. 0 % 2 = 0 /\ T * KG + 0 = T * KG
        BY <1>2
      <4>3. frag'[w][0] = <<Whole(blk, T), 0>>
        BY <1>3, <1>5, <1>13, <2>2, <3>5
      <4> QED
        BY <1>16, <3>3, <3>4, <3>5, <4>1, <4>2, <4>3, SameCta DEF AccInv
    <3>6. CASE T = D /\ pc'[w] = IF Pipelined THEN "end" ELSE "drain"
      <4>1. Fragments(blk, T * KG) = Product(blk)
        BY <3>6 DEF Fragments, Product, D
      <4> QED
        BY <3>3, <3>6, <4>1, SameCta DEF AccInv
    <3> QED
      BY <1>2, <1>6, <2>2, <3>5, <3>6
  <2> QED
    BY <1>2, <2>1, <2>2
<1> QED
  BY <1>0, <1>2, <1>6, <1>8, <1>9, <1>10, <1>11, <1>12, <1>17 DEF g

LEMMA StepTurnPipelined ==
  ASSUME IInv, NEW w \in Warp, TurnPipelined(w)
  PROVE  IInv'
<1>0. /\ Pipelined /\ LoadAndMultiply(w)
      /\ IF kg[w] = 0
         THEN /\ tb' = [tb EXCEPT ![w] = Fetched(w)]
              /\ next' = [next EXCEPT ![w] = @ + 1]
              /\ masked' = [masked EXCEPT ![w] = @ \/ left <= 2]
         ELSE UNCHANGED <<tb, next, masked>>
      /\ UNCHANGED <<loop, blk, left, wr, rd>> /\ smem' = smem /\ flying' = flying
  BY DEF TurnPipelined
<1>1. TypeInv /\ ControlInv(w) /\ PipelinedInv(w)
  BY <1>0 DEF IInv, WarpInv
<1>2. /\ pc[w] = "turn" /\ kg[w] \in 0 .. KG - 1
      /\ \/ kg[w] < KG - 2 /\ pc'[w] = "turn" /\ kg'[w] = kg[w] + 1
         \/ kg[w] = KG - 2 /\ pc'[w] = "store" /\ kg'[w] = KG - 1
         \/ kg[w] = KG - 1 /\ kg'[w] = 0 /\ T < D /\ pc'[w] = "turn"
         \/ kg[w] = KG - 1 /\ kg'[w] = 0 /\ T = D /\ pc'[w] = "end"
      /\ pc' \in [Warp -> {"prologue", "wait", "first", "turn", "store", "sync", "drain", "end", "exit"}]
      /\ kg' \in [Warp -> Piece] /\ frag' \in [Warp -> [{0, 1} -> FragSet]]
      /\ acc' \in [Warp -> Seq(FragSet)]
      /\ \A v \in Warp \ {w} : /\ pc'[v] = pc[v] /\ kg'[v] = kg[v]
                               /\ frag'[v] = frag[v] /\ acc'[v] = acc[v]
      /\ AccInv(w)'
  BY <1>0, Turn
<1>3. KG \in Nat /\ KG >= 2 /\ kStages = 2 /\ D \in Nat /\ T = D - left /\ left \in Int /\ T \in Nat
  <2>1. KG \in Nat /\ KG >= 2 /\ kStages = 2 /\ D \in Nat
    BY <1>0, <1>1, Sizes
  <2>2. T = D - left /\ left \in Int
    BY <1>0, <1>1 DEF T, TypeInv
  <2>3. T \in 0 .. D
    BY <1>2 DEF IInv, PhaseInv, Starting, Exited
  <2> QED
    BY <2>1, <2>2, <2>3
<1>4. /\ kg[w] = KG - 1 => T > 0
      /\ kg[w] # KG - 1 => T < D
      /\ next[w] = IF kg[w] = 0 \/ kg[w] = KG - 1 THEN T + 1 ELSE T + 2
      /\ masked[w] <=> next[w] >= D
  BY <1>0, <1>1, <1>2 DEF ControlInv
<1>5. CASE kg[w] = 0
  <2>1. Fetched(w) = IF T + 1 < D THEN <<blk, T + 1>> ELSE Zero
    BY <1>3, <1>4, <1>5 DEF Fetched
  <2>2. Fetched(w) \in Val
    BY <1>1, <1>3, <2>1, Values DEF D, TypeInv
  <2>3. tb' = [tb EXCEPT ![w] = Fetched(w)] /\ next' = [next EXCEPT ![w] = @ + 1]
    BY <1>0, <1>5
  <2> DEFINE b == masked[w] \/ left <= 2
  <2>4. b \in BOOLEAN /\ masked' = [masked EXCEPT ![w] = b] /\ masked \in [Warp -> BOOLEAN]
    BY <1>0, <1>1, <1>5 DEF TypeInv
  <2>5. b <=> T + 2 >= D
    BY <1>3, <1>4, <1>5
  <2> HIDE DEF b
  <2>6. /\ masked' \in [Warp -> BOOLEAN] /\ (masked'[w] <=> T + 2 >= D)
        /\ \A v \in Warp \ {w} : masked'[v] = masked[v]
    BY <2>4, <2>5, MaskSet
  <2>7. /\ tb' \in [Warp -> Val] /\ next' \in [Warp -> Nat]
        /\ tb'[w] = Fetched(w) /\ next'[w] = T + 2
        /\ \A v \in Warp \ {w} : tb'[v] = tb[v] /\ next'[v] = next[v]
    BY <1>1, <1>3, <1>4, <1>5, <2>2, <2>3 DEF TypeInv
  <2>8. TypeInv'
    BY <1>0, <1>1, <1>2, <2>6, <2>7, SameCta DEF TypeInv
  <2>9. /\ kg'[w] \in 1 .. KG - 1 /\ T < D
        /\ (pc'[w] = "turn" /\ kg'[w] # KG - 1) \/ (pc'[w] = "store" /\ kg'[w] = KG - 1)
    <3>1. \/ kg[w] < KG - 2 /\ pc'[w] = "turn" /\ kg'[w] = kg[w] + 1
          \/ kg[w] = KG - 2 /\ pc'[w] = "store" /\ kg'[w] = KG - 1
      BY <1>2, <1>3, <1>5
    <3> QED
      BY <1>3, <1>4, <1>5, <3>1
  <2>10. ControlInv(w)'
    BY <1>0, <1>3, <2>6, <2>7, <2>9, SameCta DEF ControlInv
  <2>11. PipelinedInv(w)'
    BY <1>0, <1>1, <1>3, <2>1, <2>7, <2>9, SameCta DEF PipelinedInv
  <2>12. \A v \in Warp \ {w} :
           /\ pc'[v] = pc[v] /\ kg'[v] = kg[v] /\ next'[v] = next[v] /\ masked'[v] = masked[v]
           /\ tb'[v] = tb[v] /\ flying'[v] = flying[v] /\ frag'[v] = frag[v] /\ acc'[v] = acc[v]
           /\ \A s \in Slot, p \in Piece : smem'[s][<<v, p>>] = smem[s][<<v, p>>]
    BY <1>0, <1>2, <2>6, <2>7
  <2>13. pc[w] \in LoopPc /\ pc'[w] \in LoopPc /\ smem'[rd] = smem[rd]
    BY <1>0, <1>2, <2>9 DEF LoopPc
  <2>14. WarpInv(w)'
    BY <1>0, <1>2, <2>10, <2>11, SameCta DEF WarpInv
  <2> QED
    BY <1>0, <2>8, <2>12, <2>13, <2>14, OneWarp
<1>6. CASE kg[w] # 0
  <2>1. tb' = tb /\ next' = next /\ masked' = masked
    BY <1>0, <1>6
  <2>2. TypeInv'
    BY <1>0, <1>1, <1>2, <2>1, SameCta DEF TypeInv
  <2>3. ControlInv(w)'
    <3>1. CASE kg[w] < KG - 2
      BY <1>0, <1>2, <1>3, <1>4, <1>6, <2>1, <3>1, SameCta DEF ControlInv
    <3>2. CASE kg[w] = KG - 2
      BY <1>0, <1>2, <1>3, <1>4, <1>6, <2>1, <3>2, SameCta DEF ControlInv
    <3>3. CASE kg[w] = KG - 1
      BY <1>0, <1>2, <1>3, <1>4, <1>6, <2>1, <3>3, SameCta DEF ControlInv
    <3> QED
      BY <1>2, <1>3, <3>1, <3>2, <3>3
  <2>4. PipelinedInv(w)'
    <3>1. (pc'[w] = "turn" /\ kg'[w] \in 1 .. KG - 2) \/ pc'[w] = "store" => kg[w] \in 1 .. KG - 2
      BY <1>2, <1>3, <1>6
    <3>2. pc'[w] \notin {"wait", "sync"}
      BY <1>2
    <3> QED
      BY <1>0, <1>1, <1>2, <2>1, <3>1, <3>2, SameCta DEF PipelinedInv
  <2>5. \A v \in Warp \ {w} :
           /\ pc'[v] = pc[v] /\ kg'[v] = kg[v] /\ next'[v] = next[v] /\ masked'[v] = masked[v]
           /\ tb'[v] = tb[v] /\ flying'[v] = flying[v] /\ frag'[v] = frag[v] /\ acc'[v] = acc[v]
           /\ \A s \in Slot, p \in Piece : smem'[s][<<v, p>>] = smem[s][<<v, p>>]
    BY <1>0, <1>2, <2>1
  <2>6. pc[w] \in LoopPc /\ pc'[w] \in LoopPc /\ smem'[rd] = smem[rd]
    BY <1>0, <1>2 DEF LoopPc
  <2>7. WarpInv(w)'
    BY <1>0, <1>2, <2>3, <2>4, SameCta DEF WarpInv
  <2> QED
    BY <1>0, <2>2, <2>5, <2>6, <2>7, OneWarp
<1> QED
  BY <1>5, <1>6

LEMMA StepStore ==
  ASSUME IInv, NEW w \in Warp, Store(w)
  PROVE  IInv'
<1>0. /\ pc[w] = "store" /\ pc' = [pc EXCEPT ![w] = "sync"]
      /\ smem' = Put(w, Group(wr, tb[w], Piece))
      /\ UNCHANGED <<loop, blk, left, wr, rd>> /\ UNCHANGED <<kg, next, masked, tb, flying, frag, acc>>
  BY DEF Store, Goto
<1>1. TypeInv /\ WarpInv(w) /\ ControlInv(w) /\ AccInv(w) /\ Pipelined /\ PipelinedInv(w)
  BY <1>0 DEF IInv, WarpInv, ControlInv
<1>2. wr = At(1) /\ wr # rd /\ wr \in Slot
  <2>1. wr = At(kStages - 1) /\ kStages = 2
    BY <1>0, <1>1, Sizes DEF IInv, PhaseInv, Starting, Exited
  <2> QED
    BY <1>1, <2>1, Ring
<1>3. tb[w] \in Val /\ Piece \in SUBSET Piece
  BY <1>1 DEF TypeInv
<1>4. /\ smem' \in [Slot -> [Warp \X Piece -> Val]]
      /\ \A s \in Slot, v \in Warp, p \in Piece :
           smem'[s][<<v, p>>] = IF s = wr /\ v = w THEN tb[w] ELSE smem[s][<<v, p>>]
  <2>1. Put(w, Group(wr, tb[w], Piece)) \in [Slot -> [Warp \X Piece -> Val]]
    BY <1>1, <1>2, <1>3, PutAt
  <2> SUFFICES ASSUME NEW s \in Slot, NEW v \in Warp, NEW p \in Piece
               PROVE  smem'[s][<<v, p>>] = IF s = wr /\ v = w THEN tb[w] ELSE smem[s][<<v, p>>]
    BY <1>0, <2>1
  <2>2. Put(w, Group(wr, tb[w], Piece))[s][<<v, p>>] =
          IF s = wr /\ v = w /\ p \in Piece THEN tb[w] ELSE smem[s][<<v, p>>]
    BY <1>1, <1>2, <1>3, PutAt
  <2> QED
    BY <1>0, <2>2
<1>5. smem'[rd] = smem[rd]
  BY <1>0, <1>1, <1>2 DEF Put, Group, TypeInv
<1>6. TypeInv'
  <2>1. pc' \in [Warp -> {"prologue", "wait", "first", "turn", "store", "sync", "drain", "end", "exit"}]
    BY <1>0, <1>1 DEF TypeInv
  <2> QED
    BY <1>0, <1>1, <1>4, <2>1, SameCta DEF TypeInv
<1>7. pc'[w] = "sync"
  BY <1>0, <1>1 DEF TypeInv
<1>8. Tile(w)' = Tile(w)
  BY <1>0, <1>7, SameCta DEF Tile
<1>9. ControlInv(w)'
  BY <1>0, <1>1, <1>7, SameCta DEF ControlInv
<1>10. AccInv(w)'
  BY <1>0, <1>1, <1>7, <1>8, SameCta DEF AccInv
<1>11. PipelinedInv(w)'
  <2>1. T + 1 < D => Landed(w, wr, T + 1)'
    <3>1. T + 1 < D => tb[w] = <<blk, T + 1>>
      BY <1>0, <1>1 DEF PipelinedInv
    <3> QED
      BY <1>0, <1>2, <1>4, <3>1, SameCta DEF Landed
  <2>2. T + 1 < D => Landed(w, wr, T + 1)' /\ wr' = wr /\ T' = T /\ D' = D
    BY <1>0, <2>1, SameCta
  <2> QED
    BY <1>0, <1>1, <1>7, <2>2, SameCta DEF PipelinedInv
<1>12. WarpInv(w)'
  BY <1>0, <1>1, <1>9, <1>10, <1>11, SameCta DEF WarpInv
<1>13. \A v \in Warp \ {w} :
           /\ pc'[v] = pc[v] /\ kg'[v] = kg[v] /\ next'[v] = next[v] /\ masked'[v] = masked[v]
           /\ tb'[v] = tb[v] /\ flying'[v] = flying[v] /\ frag'[v] = frag[v] /\ acc'[v] = acc[v]
           /\ \A s \in Slot, p \in Piece : smem'[s][<<v, p>>] = smem[s][<<v, p>>]
  BY <1>0, <1>1, <1>4 DEF TypeInv
<1>14. pc[w] \in LoopPc /\ pc'[w] \in LoopPc
  BY <1>0, <1>7 DEF LoopPc
<1> QED
  BY <1>0, <1>5, <1>6, <1>12, <1>13, <1>14, OneWarp

\* What a warp has issued of its share when it has made turn g of a tile.
LEMMA Issuing ==
  ASSUME IInv, NEW w \in Warp, ~Pipelined, pc[w] = "turn"
  PROVE  LET g    == kg[w]
             n    == kStages - 1
             tile == T + kStages - 1
             last == flying[w][n]
             now  == IF masked[w] \/ Issued(g) = {} THEN last
                     ELSE Group(wr, Fetched(w), last.pieces \cup Issued(g))
         IN  /\ Len(flying[w]) = n /\ tile \in Nat /\ now \in GroupSet
             /\ g < KG - 2 =>
                  now = IF tile < D THEN Group(wr, <<blk, tile>>, 0 .. g) ELSE Empty
             /\ g = KG - 2 =>
                  now = IF tile < D THEN Group(wr, <<blk, tile>>, Piece) ELSE Empty
             /\ g = KG - 1 => now = Empty
<1> DEFINE g    == kg[w]
           n    == kStages - 1
           tile == T + kStages - 1
           last == flying[w][n]
           now  == IF masked[w] \/ Issued(g) = {} THEN last
                   ELSE Group(wr, Fetched(w), last.pieces \cup Issued(g))
<1>1. TypeInv /\ ControlInv(w) /\ MultistageInv(w)
  BY DEF IInv, WarpInv
<1>2. g \in 0 .. KG - 1 /\ KG \in Nat /\ KG >= 2 /\ D \in Nat /\ kStages \in Nat /\ kStages >= 2
  BY <1>1, Sizes DEF TypeInv, Piece
<1>3. T \in 0 .. D
  BY DEF IInv, PhaseInv, Starting, Exited
<1>4. tile \in Nat /\ next[w] = tile /\ (masked[w] <=> tile >= D)
  BY <1>1, <1>2, <1>3 DEF ControlInv
<1>5. /\ Len(flying[w]) = n
      /\ last = IF g \in 1 .. KG - 2 /\ tile < D THEN Group(wr, <<blk, tile>>, 0 .. g - 1) ELSE Empty
  BY <1>1 DEF MultistageInv
<1>6. tile < D => <<blk, tile>> \in Val /\ Fetched(w) = <<blk, tile>>
  BY <1>1, <1>2, <1>4, Values DEF Fetched, TypeInv, D
<1> HIDE DEF g, n, tile, last
<1>7. Empty \in GroupSet /\ Empty.pieces = {} /\ wr \in Slot
  BY <1>1, Values DEF Empty, Group, TypeInv
<1>8. /\ now \in GroupSet
      /\ g < KG - 2 => now = IF tile < D THEN Group(wr, <<blk, tile>>, 0 .. g) ELSE Empty
      /\ g = KG - 2 => now = IF tile < D THEN Group(wr, <<blk, tile>>, Piece) ELSE Empty
      /\ g = KG - 1 => now = Empty
  <2>1. CASE tile >= D
    <3>1. now = last /\ last = Empty
      BY <1>2, <1>4, <1>5, <2>1
    <3> HIDE DEF now
    <3> QED
      BY <1>2, <1>4, <1>7, <2>1, <3>1
  <2>2. CASE tile < D
    <3>1. \A S \in SUBSET Piece : Group(wr, <<blk, tile>>, S) \in GroupSet
      BY <1>6, <1>7, <2>2 DEF Group, GroupSet
    <3>2. last.pieces = IF g \in 1 .. KG - 2 THEN 0 .. g - 1 ELSE {}
      BY <1>5, <1>7, <2>2 DEF Group
    <3>3. ~masked[w] /\ Fetched(w) = <<blk, tile>>
      BY <1>2, <1>4, <1>6, <2>2
    <3>4. CASE g < KG - 2
      <4>1. g \in Issued(g) /\ last.pieces \cup Issued(g) = 0 .. g
        BY <1>2, <3>2, <3>4 DEF Issued, Piece
      <4>2. now = Group(wr, <<blk, tile>>, 0 .. g)
        BY <3>3, <4>1
      <4>3. 0 .. g \in SUBSET Piece
        BY <1>2 DEF Piece
      <4> HIDE DEF now
      <4> QED
        BY <1>2, <2>2, <3>1, <3>4, <4>2, <4>3
    <3>5. CASE g = KG - 2
      <4>1. g \in Issued(g) /\ last.pieces \cup Issued(g) = Piece
        BY <1>2, <3>2, <3>5 DEF Issued, Piece
      <4>2. now = Group(wr, <<blk, tile>>, Piece)
        BY <3>3, <4>1
      <4> HIDE DEF now
      <4> QED
        BY <1>2, <2>2, <3>1, <3>5, <4>2
    <3>6. CASE g = KG - 1
      <4>1. Issued(g) = {} /\ last = Empty
        BY <1>2, <1>5, <3>6 DEF Issued
      <4>2. now = Empty
        BY <4>1
      <4> HIDE DEF now
      <4> QED
        BY <1>2, <1>7, <3>6, <4>2
    <3> QED
      BY <1>2, <3>4, <3>5, <3>6
  <2> QED
    BY <1>2, <1>4, <2>1, <2>2
<1> QED
  BY <1>4, <1>5, <1>8 DEF g, n, tile, last

LEMMA StepTurnMultistage ==
  ASSUME IInv, NEW w \in Warp, TurnMultistage(w)
  PROVE  IInv'
<1> DEFINE g    == kg[w]
           tile == T + kStages - 1
           n    == kStages - 1
           last == flying[w][n]
           now  == IF masked[w] \/ Issued(g) = {} THEN last
                   ELSE Group(wr, Fetched(w), last.pieces \cup Issued(g))
           group == [flying[w] EXCEPT ![n] = now]
<1>0. /\ ~Pipelined /\ LoadAndMultiply(w)
      /\ UNCHANGED <<loop, blk, left, wr, rd>>
      /\ smem' = smem /\ next' = next /\ masked' = masked /\ tb' = tb
  BY DEF TurnMultistage
<1>1. TypeInv /\ ControlInv(w) /\ MultistageInv(w)
  BY <1>0 DEF IInv, WarpInv
<1>2. /\ pc[w] = "turn" /\ g \in 0 .. KG - 1
      /\ \/ g < KG - 2 /\ pc'[w] = "turn" /\ kg'[w] = g + 1
         \/ g = KG - 2 /\ pc'[w] = "sync" /\ kg'[w] = KG - 1
         \/ g = KG - 1 /\ kg'[w] = 0 /\ T < D /\ pc'[w] = "turn"
         \/ g = KG - 1 /\ kg'[w] = 0 /\ T = D /\ pc'[w] = "drain"
      /\ pc' \in [Warp -> {"prologue", "wait", "first", "turn", "store", "sync", "drain", "end", "exit"}]
      /\ kg' \in [Warp -> Piece] /\ frag' \in [Warp -> [{0, 1} -> FragSet]]
      /\ acc' \in [Warp -> Seq(FragSet)]
      /\ \A v \in Warp \ {w} : /\ pc'[v] = pc[v] /\ kg'[v] = kg[v]
                               /\ frag'[v] = frag[v] /\ acc'[v] = acc[v]
      /\ AccInv(w)'
  BY <1>0, Turn
<1>3. /\ Len(flying[w]) = n /\ tile \in Nat /\ now \in GroupSet
      /\ g < KG - 2 => now = IF tile < D THEN Group(wr, <<blk, tile>>, 0 .. g) ELSE Empty
      /\ g = KG - 2 => now = IF tile < D THEN Group(wr, <<blk, tile>>, Piece) ELSE Empty
      /\ g = KG - 1 => now = Empty
  BY <1>0, <1>2, Issuing
<1>4. flying' = [flying EXCEPT ![w] = IF g = KG - 2 THEN Append(group, Empty) ELSE group]
  BY <1>3 DEF TurnMultistage
<1> HIDE DEF now
<1>5. /\ KG \in Nat /\ KG >= 2 /\ kStages \in Nat /\ kStages >= 3 /\ n \in Nat
      /\ wr = At(n) /\ D \in Nat /\ T \in Nat
  <2>1. /\ KG \in Nat /\ KG >= 2 /\ kStages \in Nat /\ kStages >= 3 /\ D \in Nat
    BY <1>0, <1>1, Sizes
  <2>2. wr = At(kStages - 1) /\ T \in 0 .. D
    BY <1>2 DEF IInv, PhaseInv, Starting, Exited
  <2> QED
    BY <2>1, <2>2
<1>6. /\ group \in Seq(GroupSet) /\ Len(group) = n /\ group[n] = now
      /\ \A i \in 1 .. n : i # n => group[i] = flying[w][i]
  <2>1. flying[w] \in Seq(GroupSet) /\ n \in 1 .. Len(flying[w])
    BY <1>1, <1>3, <1>5 DEF TypeInv
  <2> QED
    BY <1>3, <2>1, ExceptSeq
<1>7. Empty \in GroupSet
  BY <1>1, Values
<1> HIDE DEF group, n
<1>8. /\ Append(group, Empty) \in Seq(GroupSet) /\ Len(Append(group, Empty)) = n + 1
      /\ Append(group, Empty)[n + 1] = Empty
      /\ \A i \in 1 .. n : Append(group, Empty)[i] = group[i]
  BY <1>5, <1>6, <1>7, AppendProperties
<1>9. /\ flying' \in [Warp -> Seq(GroupSet)]
      /\ flying'[w] = IF g = KG - 2 THEN Append(group, Empty) ELSE group
      /\ \A v \in Warp \ {w} : flying'[v] = flying[v]
  <2>1. flying \in [Warp -> Seq(GroupSet)]
    BY <1>1 DEF TypeInv
  <2> QED
    BY <1>4, <1>6, <1>8, <2>1
<1>10. TypeInv'
  BY <1>0, <1>1, <1>2, <1>9, SameCta DEF TypeInv
<1>11. ControlInv(w)'
  <2>1. /\ g = KG - 1 => T > 0
        /\ g # KG - 1 => T < D
        /\ next[w] = T + kStages - 1
        /\ masked[w] <=> next[w] >= D
    BY <1>0, <1>1, <1>2 DEF ControlInv
  <2>2. CASE g < KG - 2
    BY <1>0, <1>2, <1>5, <2>1, <2>2, SameCta DEF ControlInv
  <2>3. CASE g = KG - 2
    BY <1>0, <1>2, <1>5, <2>1, <2>3, SameCta DEF ControlInv
  <2>4. CASE g = KG - 1
    BY <1>0, <1>2, <1>5, <2>1, <2>4, SameCta DEF ControlInv
  <2> QED
    BY <1>2, <1>5, <2>2, <2>3, <2>4
<1>12. \A j \in 1 .. kStages - 2 : Bringing(w, j, At(j), T + j)'
  <2> SUFFICES ASSUME NEW j \in 1 .. kStages - 2
               PROVE  Bringing(w, j, At(j), T + j)'
    OBVIOUS
  <2>1. j \in 1 .. n /\ j # n /\ j \in 0 .. kStages - 1
    BY <1>5 DEF n
  <2>2. flying'[w][j] = flying[w][j]
    BY <1>6, <1>8, <1>9, <2>1
  <2>3. Bringing(w, j, At(j), T + j)
    BY <1>1, <1>2 DEF MultistageInv
  <2>4. At(j) \in Slot /\ smem'[At(j)] = smem[At(j)] /\ At(j)' = At(j) /\ T' = T
    BY <1>0, <1>1, <2>1, Ring, SameCta
  <2>5. PICK s, t : s \in Slot /\ s = At(j) /\ t = T + j
    BY <2>4
  <2>6. Bringing(w, j, s, t)'
    BY <1>0, <2>2, <2>3, <2>5, StillBringing
  <2> QED
    BY <2>4, <2>5, <2>6
<1>13. MultistageInv(w)'
  <2>1. CASE g < KG - 2
    <3>1. flying'[w] = group /\ Len(group) = kStages - 1 /\ pc'[w] = "turn" /\ kg'[w] = g + 1
          /\ g + 1 \in 1 .. KG - 2 /\ (g + 1) - 1 = g
      BY <1>2, <1>5, <1>6, <1>9, <2>1 DEF n
    <3>2. flying'[w][kStages - 1] =
            IF tile < D THEN Group(wr, <<blk, tile>>, 0 .. g) ELSE Empty
      BY <1>3, <1>6, <2>1, <3>1 DEF n
    <3> QED
      BY <1>0, <1>12, <3>1, <3>2, SameCta DEF MultistageInv, Group
  <2>2. CASE g = KG - 2
    <3>1. flying'[w] = Append(group, Empty) /\ pc'[w] = "sync" /\ n + 1 = kStages /\ n = kStages - 1
      BY <1>2, <1>5, <1>9, <2>2 DEF n
    <3>2. Len(flying'[w]) = kStages /\ flying'[w][kStages] = Empty
      BY <1>8, <3>1
    <3>3. flying'[w][n] = IF tile < D THEN Group(wr, <<blk, tile>>, Piece) ELSE Empty
      <4>1. n \in 1 .. n
        BY <1>5, <3>1
      <4>2. flying'[w][n] = now
        BY <1>6, <1>8, <3>1, <4>1
      <4>3. now = IF tile < D THEN Group(wr, <<blk, tile>>, Piece) ELSE Empty
        BY <1>3, <2>2, Zenon
      <4> QED
        BY <4>2, <4>3, Zenon
    <3>4. \A j \in 1 .. kStages - 1 : Bringing(w, j, At(j), T + j)'
      <4> SUFFICES ASSUME NEW j \in 1 .. kStages - 1
                   PROVE  Bringing(w, j, At(j), T + j)'
        OBVIOUS
      <4>1. CASE j = n
        <5>1. flying'[w][j] = IF T + j < D THEN Group(At(j), <<blk, T + j>>, Piece) ELSE Empty
          BY <1>5, <3>1, <3>3, <4>1
        <5> QED
          BY <1>0, <5>1, SameCta DEF Bringing, Group
      <4>2. CASE j # n
        <5>1. j \in 1 .. kStages - 2
          BY <1>5, <3>1, <4>2
        <5> QED
          BY <1>12, <5>1
      <4> QED
        BY <4>1, <4>2
    <3> QED
      BY <1>0, <3>1, <3>2, <3>4, SameCta DEF MultistageInv
  <2>3. CASE g = KG - 1
    <3>1. flying'[w] = group /\ Len(group) = kStages - 1 /\ pc'[w] \in {"turn", "drain"} /\ kg'[w] = 0
      BY <1>2, <1>5, <1>6, <1>9, <2>3 DEF n
    <3>2. flying'[w][kStages - 1] = Empty /\ 0 \notin 1 .. KG - 2
      BY <1>3, <1>6, <2>3, <3>1 DEF n
    <3> QED
      BY <1>0, <1>12, <3>1, <3>2, SameCta DEF MultistageInv
  <2> QED
    BY <1>2, <1>5, <2>1, <2>2, <2>3
<1>14. WarpInv(w)'
  BY <1>0, <1>2, <1>11, <1>13, SameCta DEF WarpInv
<1>15. \A v \in Warp \ {w} :
           /\ pc'[v] = pc[v] /\ kg'[v] = kg[v] /\ next'[v] = next[v] /\ masked'[v] = masked[v]
           /\ tb'[v] = tb[v] /\ flying'[v] = flying[v] /\ frag'[v] = frag[v] /\ acc'[v] = acc[v]
           /\ \A s \in Slot, p \in Piece : smem'[s][<<v, p>>] = smem[s][<<v, p>>]
  BY <1>0, <1>2, <1>9
<1>16. pc[w] \in LoopPc /\ pc'[w] \in LoopPc /\ smem'[rd] = smem[rd]
  BY <1>0, <1>2 DEF LoopPc
<1> QED
  BY <1>0, <1>10, <1>14, <1>15, <1>16, OneWarp

-----------------------------------------------------------------------------
\* What is defined by the instance alone.
LEMMA SameLoop ==
  ASSUME loop' = loop
  PROVE  /\ kStages' = kStages /\ KG' = KG /\ Slot' = Slot /\ Piece' = Piece
         /\ (Pipelined' <=> Pipelined)
         /\ Val' = Val /\ GroupSet' = GroupSet /\ FragSet' = FragSet
         /\ Empty' = Empty
         /\ \A b, t : Whole(b, t)' = Whole(b, t)
         /\ \A b, n : Fragment(b, n)' = Fragment(b, n) /\ Fragments(b, n)' = Fragments(b, n)
         /\ \A b : Product(b)' = Product(b)
<1>1. kStages' = kStages /\ KG' = KG /\ Slot' = Slot /\ Piece' = Piece /\ (Pipelined' <=> Pipelined)
  BY DEF kStages, KG, Slot, Piece, Pipelined
<1>2. Val' = Val /\ GroupSet' = GroupSet /\ FragSet' = FragSet /\ Empty' = Empty
  BY <1>1 DEF Val, GroupSet, FragSet, OfABlock, Empty, Group
<1>3. \A b, t : Whole(b, t)' = Whole(b, t)
  BY <1>1 DEF Whole
<1>4. \A b, n : Fragment(b, n)' = Fragment(b, n) /\ Fragments(b, n)' = Fragments(b, n)
  BY <1>1, <1>3 DEF Fragment, Fragments
<1>5. \A b : Product(b)' = Product(b)
  BY <1>1, <1>4 DEF Product
<1> QED
  BY <1>1, <1>2, <1>3, <1>4, <1>5

\* The shares of all warps are the whole tile.
LEMMA AllLanded ==
  ASSUME TypeInv, NEW s \in Slot, NEW t, \A w \in Warp : Landed(w, s, t)
  PROVE  smem[s] = Whole(blk, t)
<1>1. smem[s] \in [Warp \X Piece -> Val]
  BY DEF TypeInv
<1>2. \A x \in Warp \X Piece : smem[s][x] = <<blk, t>>
  BY DEF Landed
<1> QED
  BY <1>1, <1>2 DEF Whole

\* A group that has landed has brought its tile.
LEMMA Brought ==
  ASSUME TypeInv, NEW w \in Warp, NEW j, NEW s, NEW t,
         Bringing(w, j, s, t), flying[w][j] = Empty, t < D
  PROVE  Landed(w, s, t)
<1>1. 0 \in Piece
  BY Sizes DEF Piece
<1>2. flying[w][j] # Group(s, IF t < D THEN <<blk, t>> ELSE Zero, Piece)
  BY <1>1 DEF Empty, Group
<1> QED
  BY <1>2 DEF Bringing

\* cp_async_wait leaves all groups of a full storage but the first.
LEMMA AfterWait ==
  ASSUME TypeInv, ~Pipelined, NEW w \in Warp, Len(flying[w]) = kStages
  PROVE  /\ Remaining(w, MayFly) \in Seq(GroupSet)
         /\ Len(Remaining(w, MayFly)) = kStages - 1
         /\ \A j \in 1 .. kStages - 1 : Remaining(w, MayFly)[j] = flying[w][j + 1]
         /\ Waited(w, MayFly) => flying[w][1] = Empty
<1>1. kStages \in Nat /\ kStages >= 3 /\ MayFly = kStages - 2
  BY Sizes DEF MayFly
<1>2. Remaining(w, MayFly) = [j \in 1 .. kStages - 1 |-> flying[w][1 + j]]
  BY <1>1 DEF Remaining
<1>3. \A j \in 1 .. kStages - 1 : flying[w][1 + j] \in GroupSet /\ 1 + j = j + 1
  <2>1. flying[w] \in Seq(GroupSet)
    BY DEF TypeInv
  <2> QED
    BY <1>1, <2>1, ElementOfSeq
<1>4. Waited(w, MayFly) => flying[w][1] = Empty
  <2>1. 1 \in 1 .. kStages - 1 - MayFly
    BY <1>1
  <2> QED
    BY <2>1 DEF Waited
<1>5. kStages - 1 \in Nat
  BY <1>1
<1> QED
  BY <1>2, <1>3, <1>4, <1>5

LEMMA StepPrologueBarrier ==
  ASSUME IInv, PrologueBarrier
  PROVE  IInv'
<1>0. /\ \A w \in Warp : pc[w] = "wait"
      /\ ~Pipelined => \A w \in Warp : Waited(w, MayFly)
      /\ pc' = [w \in Warp |-> "first"]
      /\ flying' = IF Pipelined THEN flying ELSE [w \in Warp |-> Remaining(w, MayFly)]
      /\ left' = IF Pipelined THEN left ELSE left - (kStages - 1)
      /\ wr' = kStages - 1
      /\ loop' = loop /\ blk' = blk /\ rd' = rd /\ smem' = smem /\ kg' = kg /\ next' = next
      /\ masked' = masked /\ tb' = tb /\ frag' = frag /\ acc' = acc
  BY DEF PrologueBarrier, GmemWait
<1>1. TypeInv /\ \A w \in Warp : WarpInv(w)
  BY DEF IInv
<1>2. Starting /\ left = D /\ wr = 0 /\ rd = 0
  BY <1>0, LoopAssumption DEF IInv, PhaseInv, Looping, Exited
<1>3. /\ kStages \in Nat /\ kStages >= 2 /\ (Pipelined <=> kStages = 2) /\ KG \in Nat /\ KG >= 2
      /\ D \in Nat /\ D > 0
  BY <1>1, Sizes
<1>4. /\ kStages' = kStages /\ KG' = KG /\ Piece' = Piece /\ D' = D /\ (Pipelined' <=> Pipelined)
      /\ T' = 0 /\ Empty' = Empty
  <2>1. D' = D /\ (Pipelined' <=> Pipelined) /\ kStages' = kStages
    BY <1>0, SameLoop DEF D
  <2> QED
    BY <1>0, <1>2, <1>3, <2>1, SameLoop DEF T
<1>5. \A j \in 0 .. kStages - 1 : At(j)' = j
  BY <1>0, <1>2, <1>3, <1>4 DEF At
<1>6. \A w \in Warp : /\ kg[w] = 0 /\ next[w] = kStages - 1 /\ acc[w] = <<>>
                      /\ masked[w] <=> ~Pipelined /\ D <= kStages - 2
  BY <1>0, <1>1 DEF WarpInv, ControlInv, AccInv
<1>7. ASSUME ~Pipelined, NEW w \in Warp
      PROVE  /\ Remaining(w, MayFly) \in Seq(GroupSet)
             /\ Len(Remaining(w, MayFly)) = kStages - 1
             /\ \A j \in 1 .. kStages - 1 : Remaining(w, MayFly)[j] = flying[w][j + 1]
             /\ flying[w][1] = Empty /\ flying[w][kStages] = Empty
             /\ \A j \in 1 .. kStages - 1 : Bringing(w, j, j - 1, j - 1)
  <2>1. MultistageInv(w) /\ Waited(w, MayFly) /\ pc[w] = "wait"
    BY <1>0, <1>1, <1>7 DEF WarpInv
  <2>2. Len(flying[w]) = kStages /\ flying[w][kStages] = Empty
        /\ \A j \in 1 .. kStages - 1 : Bringing(w, j, j - 1, j - 1)
    BY <2>1 DEF MultistageInv
  <2> QED
    BY <1>1, <1>7, <2>1, <2>2, AfterWait
<1>8. TypeInv'
  <2>1. flying' \in [Warp -> Seq(GroupSet)]
    <3>1. CASE Pipelined
      BY <1>0, <1>1, <3>1 DEF TypeInv
    <3>2. CASE ~Pipelined
      BY <1>0, <1>7, <3>2
    <3> QED
      BY <3>1, <3>2
  <2>2. wr' \in Slot /\ left' \in Int
    BY <1>0, <1>1, <1>3 DEF Slot, TypeInv
  <2>3. pc' \in [Warp -> {"prologue", "wait", "first", "turn", "store", "sync", "drain", "end", "exit"}]
    BY <1>0
  <2> QED
    BY <1>0, <1>1, <2>1, <2>2, <2>3, SameLoop DEF TypeInv
<1>9. smem[0] = Whole(blk, 0)
  <2>1. 0 \in Slot
    BY <1>3 DEF Slot
  <2>2. \A w \in Warp : Landed(w, 0, 0)
    <3> SUFFICES ASSUME NEW w \in Warp PROVE Landed(w, 0, 0)
      OBVIOUS
    <3>1. CASE Pipelined
      BY <1>0, <1>1, <3>1 DEF WarpInv, PipelinedInv
    <3>2. CASE ~Pipelined
      <4>1. 1 \in 1 .. kStages - 1 /\ 1 - 1 = 0
        BY <1>3
      <4>2. Bringing(w, 1, 0, 0) /\ flying[w][1] = Empty
        BY <1>7, <3>2, <4>1
      <4> QED
        BY <1>1, <1>3, <4>2, Brought
    <3> QED
      BY <3>1, <3>2
  <2> QED
    BY <1>1, <2>1, <2>2, AllLanded
<1>10. PhaseInv'
  <2>1. Looping'
    BY <1>0 DEF Looping
  <2>2. wr' = At(kStages - 1)'
    <3>1. kStages - 1 \in 0 .. kStages - 1
      BY <1>3
    <3> QED
      BY <1>0, <1>4, <1>5, <3>1
  <2>3. smem'[rd'] = Whole(blk, T)'
    BY <1>0, <1>2, <1>4, <1>9, SameLoop
  <2> QED
    BY <1>3, <1>4, <2>1, <2>2, <2>3 DEF PhaseInv
<1>11. \A w \in Warp : WarpInv(w)'
  <2> SUFFICES ASSUME NEW w \in Warp PROVE WarpInv(w)'
    OBVIOUS
  <2>1. pc'[w] = "first" /\ kg'[w] = kg[w] /\ next'[w] = next[w] /\ (masked'[w] <=> masked[w]) /\ acc'[w] = acc[w]
    BY <1>0
  <2>2. ControlInv(w)'
    BY <1>3, <1>4, <1>6, <2>1 DEF ControlInv
  <2>3. AccInv(w)'
    BY <1>6, <2>1 DEF AccInv
  <2>4. CASE Pipelined
    <3>1. flying'[w] = <<Empty>>
      BY <1>0, <1>1, <2>4 DEF WarpInv, PipelinedInv
    <3>2. PipelinedInv(w)'
      BY <1>4, <2>1, <3>1 DEF PipelinedInv
    <3> QED
      BY <1>4, <2>2, <2>3, <2>4, <3>2 DEF WarpInv
  <2>5. CASE ~Pipelined
    <3>1. flying'[w] = Remaining(w, MayFly)
      BY <1>0, <2>5
    <3>2. Len(flying'[w]) = kStages - 1 /\ flying'[w][kStages - 1] = Empty
      <4>1. kStages - 1 \in 1 .. kStages - 1 /\ (kStages - 1) + 1 = kStages
        BY <1>3
      <4> QED
        BY <1>7, <2>5, <3>1, <4>1
    <3>3. \A j \in 1 .. kStages - 2 : Bringing(w, j, At(j), T + j)'
      <4> SUFFICES ASSUME NEW j \in 1 .. kStages - 2
                   PROVE  Bringing(w, j, At(j), T + j)'
        BY <1>4
      <4>1. j + 1 \in 1 .. kStages - 1 /\ j \in 1 .. kStages - 1 /\ (j + 1) - 1 = j /\ j \in 0 .. kStages - 1
        BY <1>3
      <4>2. Bringing(w, j + 1, j, j) /\ flying'[w][j] = flying[w][j + 1]
        BY <1>7, <2>5, <3>1, <4>1
      <4>3. At(j)' = j /\ T' + j = j
        BY <1>4, <1>5, <4>1
      <4>4. Landed(w, j, j)' <=> Landed(w, j, j)
        BY <1>0, <1>4 DEF Landed
      <4> QED
        BY <1>0, <1>4, <4>2, <4>3, <4>4 DEF Bringing, Group, Landed
    <3>4. MultistageInv(w)'
      BY <1>4, <2>1, <3>2, <3>3 DEF MultistageInv
    <3> QED
      BY <1>4, <2>2, <2>3, <2>5, <3>4 DEF WarpInv
  <2> QED
    BY <2>4, <2>5
<1> QED
  BY <1>8, <1>10, <1>11 DEF IInv

LEMMA StepDrain ==
  ASSUME IInv, Drain
  PROVE  IInv'
<1>0. /\ \A w \in Warp : pc[w] = "drain"
      /\ pc' = [w \in Warp |-> "end"] /\ flying' = [w \in Warp |-> <<Empty>>]
      /\ UNCHANGED <<loop, blk, left, wr, rd>>
      /\ smem' = smem /\ kg' = kg /\ next' = next
      /\ masked' = masked /\ tb' = tb /\ frag' = frag /\ acc' = acc
  BY DEF Drain
<1>1. TypeInv /\ \A w \in Warp : WarpInv(w)
  BY DEF IInv
<1>2. TypeInv'
  <2>1. Empty \in GroupSet
    BY <1>1, Values
  <2>2. flying' \in [Warp -> Seq(GroupSet)]
    BY <1>0, <2>1
  <2>3. pc' \in [Warp -> {"prologue", "wait", "first", "turn", "store", "sync", "drain", "end", "exit"}]
    BY <1>0
  <2> QED
    BY <1>0, <1>1, <2>2, <2>3, SameCta DEF TypeInv
<1>3. PhaseInv'
  <2>1. /\ T \in 0 .. D /\ wr = At(kStages - 1)
        /\ T < D => smem[rd] = Whole(blk, T)
    BY <1>0, LoopAssumption DEF IInv, PhaseInv, Starting, Exited
  <2>2. Looping'
    BY <1>0 DEF Looping
  <2> QED
    <3>1. T' \in 0 .. D' /\ wr' = At(kStages - 1)'
      BY <1>0, <2>1, SameCta
    <3>2. T' < D' => smem'[rd'] = Whole(blk, T)'
      BY <1>0, <2>1, SameCta
    <3> QED
      BY <2>2, <3>1, <3>2 DEF PhaseInv
<1>4. \A w \in Warp : WarpInv(w)'
  <2> SUFFICES ASSUME NEW w \in Warp PROVE WarpInv(w)'
    OBVIOUS
  <2>1. pc'[w] = "end" /\ kg'[w] = kg[w] /\ flying'[w] = <<Empty>> /\ acc'[w] = acc[w]
    BY <1>0
  <2>2. T = D /\ kg[w] = 0 /\ ~Pipelined /\ acc[w] = Product(blk)
    BY <1>0, <1>1 DEF WarpInv, ControlInv, AccInv
  <2>3. ControlInv(w)' /\ AccInv(w)' /\ MultistageInv(w)'
    BY <1>0, <2>1, <2>2, SameCta DEF ControlInv, AccInv, MultistageInv
  <2> QED
    BY <1>0, <2>2, <2>3, SameCta DEF WarpInv
<1> QED
  BY <1>2, <1>3, <1>4 DEF IInv

LEMMA StepTileBarrier ==
  ASSUME IInv, TileBarrier
  PROVE  IInv'
<1>0. /\ \A w \in Warp : pc[w] = "sync"
      /\ ~Pipelined => \A w \in Warp : Waited(w, MayFly)
      /\ pc' = [w \in Warp |-> "turn"]
      /\ flying' = IF Pipelined THEN flying ELSE [w \in Warp |-> Remaining(w, MayFly)]
      /\ wr' = Advanced(wr) /\ rd' = Advanced(rd) /\ left' = left - 1
      /\ loop' = loop /\ blk' = blk /\ smem' = smem /\ kg' = kg
      /\ tb' = tb /\ frag' = frag /\ acc' = acc
      /\ IF Pipelined THEN next' = next /\ masked' = masked
         ELSE /\ next' = [w \in Warp |-> next[w] + 1]
              /\ masked' = [w \in Warp |-> masked[w] \/ left - 1 = 0]
  BY DEF TileBarrier, GmemWait
<1>1. TypeInv /\ \A w \in Warp : WarpInv(w)
  BY DEF IInv
<1>2. T \in 0 .. D /\ wr = At(kStages - 1) /\ T < D
  <2>1. PICK w \in Warp : TRUE
    BY LoopAssumption
  <2>2. T < D
    BY <1>0, <1>1, <2>1 DEF WarpInv, ControlInv
  <2> QED
    BY <1>0, <2>1, <2>2 DEF IInv, PhaseInv, Starting, Exited
<1>3. /\ kStages \in Nat /\ kStages >= 2 /\ (Pipelined <=> kStages = 2) /\ KG \in Nat /\ KG >= 2
      /\ D \in Nat /\ rd \in 0 .. kStages - 1 /\ left \in Int
      /\ T = IF Pipelined THEN D - left ELSE D - (kStages - 1) - left
  BY <1>1, Sizes DEF TypeInv, T
<1>4. /\ kStages' = kStages /\ KG' = KG /\ Piece' = Piece /\ D' = D /\ (Pipelined' <=> Pipelined)
      /\ T' = T + 1 /\ Empty' = Empty
  <2>1. D' = D /\ (Pipelined' <=> Pipelined) /\ kStages' = kStages
    BY <1>0, SameLoop DEF D
  <2>2. T' = T + 1
    BY <1>0, <1>3, <2>1 DEF T
  <2> QED
    BY <1>0, <2>1, <2>2, SameLoop
<1>5. /\ \A j \in 0 .. kStages - 2 : At(j)' = At(j + 1)
      /\ At(kStages - 1)' = rd /\ rd' = At(1) /\ wr' = rd
      /\ rd' \in Slot /\ wr' \in Slot
  BY <1>0, <1>2, <1>3, <1>4 DEF At, Advanced, Slot
<1>6. \A w \in Warp : /\ kg[w] = KG - 1 /\ kg[w] # 0
                      /\ next[w] = IF Pipelined THEN T + 2 ELSE T + kStages - 1
                      /\ masked[w] <=> next[w] >= D
                      /\ acc[w] = Fragments(blk, T * KG + kg[w])
                      /\ frag[w][kg[w] % 2] = <<Whole(blk, T), kg[w]>>
  <2> SUFFICES ASSUME NEW w \in Warp
               PROVE  /\ kg[w] = KG - 1 /\ kg[w] # 0
                      /\ next[w] = IF Pipelined THEN T + 2 ELSE T + kStages - 1
                      /\ masked[w] <=> next[w] >= D
                      /\ acc[w] = Fragments(blk, T * KG + kg[w])
                      /\ frag[w][kg[w] % 2] = <<Whole(blk, T), kg[w]>>
    OBVIOUS
  <2>1. pc[w] = "sync" /\ ControlInv(w) /\ AccInv(w) /\ Tile(w) = T
    BY <1>0, <1>1 DEF WarpInv, Tile
  <2> QED
    BY <1>3, <2>1 DEF ControlInv, AccInv
<1>7. ASSUME ~Pipelined, NEW w \in Warp
      PROVE  /\ Remaining(w, MayFly) \in Seq(GroupSet)
             /\ Len(Remaining(w, MayFly)) = kStages - 1
             /\ \A j \in 1 .. kStages - 1 : Remaining(w, MayFly)[j] = flying[w][j + 1]
             /\ flying[w][1] = Empty /\ flying[w][kStages] = Empty
             /\ \A j \in 1 .. kStages - 1 : Bringing(w, j, At(j), T + j)
  <2>1. MultistageInv(w) /\ Waited(w, MayFly) /\ pc[w] = "sync"
    BY <1>0, <1>1, <1>7 DEF WarpInv
  <2>2. Len(flying[w]) = kStages /\ flying[w][kStages] = Empty
        /\ \A j \in 1 .. kStages - 1 : Bringing(w, j, At(j), T + j)
    BY <2>1 DEF MultistageInv
  <2> QED
    BY <1>1, <1>7, <2>1, <2>2, AfterWait
<1>8. \A w \in Warp : /\ next'[w] \in Nat /\ next'[w] = T + (IF Pipelined THEN 2 ELSE kStages)
                      /\ masked'[w] \in BOOLEAN /\ (masked'[w] <=> next'[w] >= D)
  <2> SUFFICES ASSUME NEW w \in Warp
               PROVE  /\ next'[w] \in Nat /\ next'[w] = T + (IF Pipelined THEN 2 ELSE kStages)
                      /\ masked'[w] \in BOOLEAN /\ (masked'[w] <=> next'[w] >= D)
    OBVIOUS
  <2>1. CASE Pipelined
    <3>1. next'[w] = next[w] /\ masked'[w] = masked[w] /\ masked[w] \in BOOLEAN
      BY <1>0, <1>1, <2>1 DEF TypeInv
    <3> QED
      BY <1>2, <1>3, <1>6, <2>1, <3>1
  <2>2. CASE ~Pipelined
    <3>1. next'[w] = next[w] + 1
      BY <1>0, <2>2
    <3> DEFINE b == masked[w] \/ left - 1 = 0
    <3>2. b \in BOOLEAN
      OBVIOUS
    <3>3. masked'[w] = b
      BY <1>0, <2>2
    <3>4. b <=> T + kStages >= D
      BY <1>2, <1>3, <1>6, <2>2
    <3> HIDE DEF b
    <3>5. next'[w] = T + kStages /\ T + kStages \in Nat
      BY <1>2, <1>3, <1>6, <2>2, <3>1
    <3> QED
      BY <2>2, <3>2, <3>3, <3>4, <3>5
  <2> QED
    BY <2>1, <2>2
<1>9. TypeInv'
  <2>1. flying' \in [Warp -> Seq(GroupSet)]
    <3>1. CASE Pipelined
      BY <1>0, <1>1, <3>1 DEF TypeInv
    <3>2. CASE ~Pipelined
      BY <1>0, <1>7, <3>2
    <3> QED
      BY <3>1, <3>2
  <2>2. left' \in Int
    BY <1>0, <1>3
  <2>3. pc' \in [Warp -> {"prologue", "wait", "first", "turn", "store", "sync", "drain", "end", "exit"}]
    BY <1>0
  <2>4. next' \in [Warp -> Nat]
    <3>1. CASE Pipelined
      BY <1>0, <1>1, <3>1 DEF TypeInv
    <3>2. CASE ~Pipelined
      BY <1>0, <1>1, <3>2 DEF TypeInv
    <3> QED
      BY <3>1, <3>2
  <2>5. masked' \in [Warp -> BOOLEAN]
    <3>1. CASE Pipelined
      BY <1>0, <1>1, <3>1 DEF TypeInv
    <3>2. CASE ~Pipelined
      <4>1. masked' = [w \in Warp |-> masked'[w]]
        BY <1>0, <3>2
      <4> QED
        BY <1>8, <4>1
    <3> QED
      BY <3>1, <3>2
  <2> QED
    BY <1>0, <1>1, <1>5, <2>1, <2>2, <2>3, <2>4, <2>5, SameLoop DEF TypeInv
<1>10. \A w \in Warp : T + 1 < D => Landed(w, At(1), T + 1)
  <2> SUFFICES ASSUME NEW w \in Warp, T + 1 < D PROVE Landed(w, At(1), T + 1)
    OBVIOUS
  <2>1. CASE Pipelined
    <3>1. wr = At(1)
      BY <1>2, <1>3, <2>1
    <3> QED
      BY <1>0, <1>1, <2>1, <3>1 DEF WarpInv, PipelinedInv
  <2>2. CASE ~Pipelined
    <3>1. 1 \in 1 .. kStages - 1
      BY <1>3
    <3>2. Bringing(w, 1, At(1), T + 1) /\ flying[w][1] = Empty
      BY <1>7, <2>2, <3>1
    <3> QED
      BY <1>1, <3>2, Brought
  <2> QED
    BY <2>1, <2>2
<1>11. PhaseInv'
  <2>1. Looping'
    BY <1>0 DEF Looping
  <2>2. T' \in 0 .. D'
    BY <1>2, <1>3, <1>4
  <2>3. wr' = At(kStages - 1)'
    <3>1. At(kStages - 1)' = rd
      BY <1>5
    <3> QED
      BY <1>5, <3>1
  <2>4. T' < D' => smem'[rd'] = Whole(blk, T)'
    <3> SUFFICES ASSUME T + 1 < D PROVE smem[At(1)] = Whole(blk, T + 1)
      BY <1>0, <1>4, <1>5, SameLoop
    <3>1. At(1) \in Slot
      BY <1>0, <1>5, SameLoop
    <3>2. PICK t : t = T + 1
      OBVIOUS
    <3>3. PICK s \in Slot : s = At(1)
      BY <3>1
    <3> QED
      BY <1>1, <1>10, <3>2, <3>3, AllLanded
  <2> QED
    BY <2>1, <2>2, <2>3, <2>4 DEF PhaseInv
<1>12. \A w \in Warp : WarpInv(w)'
  <2> SUFFICES ASSUME NEW w \in Warp PROVE WarpInv(w)'
    OBVIOUS
  <2>1. pc'[w] = "turn" /\ kg'[w] = KG - 1 /\ acc'[w] = acc[w] /\ frag'[w] = frag[w] /\ kg[w] = KG - 1
        /\ KG - 1 # 0
    BY <1>0, <1>3, <1>6
  <2>2. ControlInv(w)'
    <3>1. T' > 0 /\ next'[w] = IF Pipelined THEN T' + 1 ELSE T' + kStages - 1
      BY <1>2, <1>3, <1>4, <1>8
    <3> QED
      BY <1>4, <1>8, <2>1, <3>1 DEF ControlInv
  <2>3. AccInv(w)'
    <3>1. Tile(w)' = T
      BY <1>2, <1>3, <1>4, <2>1 DEF Tile
    <3>2. acc'[w] = Fragments(blk, T * KG + (KG - 1))
          /\ frag'[w][(KG - 1) % 2] = <<Whole(blk, T), KG - 1>>
      BY <1>6, <2>1
    <3>3. /\ Tile(w)' * KG' + kg'[w] = T * KG + (KG - 1)
          /\ Fragments(blk, Tile(w) * KG + kg[w])' = Fragments(blk, T * KG + (KG - 1))
          /\ Whole(blk, Tile(w))' = Whole(blk, T)
      BY <1>0, <1>4, <2>1, <3>1, SameLoop
    <3> QED
      BY <2>1, <3>2, <3>3 DEF AccInv
  <2>4. CASE Pipelined
    <3>1. flying'[w] = <<Empty>>
      BY <1>0, <1>1, <2>4 DEF WarpInv, PipelinedInv
    <3>2. KG - 1 \notin 1 .. KG - 2
      BY <1>3
    <3>3. PipelinedInv(w)'
      BY <1>4, <2>1, <3>1, <3>2 DEF PipelinedInv
    <3> QED
      BY <1>4, <2>2, <2>3, <2>4, <3>3 DEF WarpInv
  <2>5. CASE ~Pipelined
    <3>1. flying'[w] = Remaining(w, MayFly)
      BY <1>0, <2>5
    <3>2. Len(flying'[w]) = kStages - 1 /\ flying'[w][kStages - 1] = Empty
      <4>1. kStages - 1 \in 1 .. kStages - 1 /\ (kStages - 1) + 1 = kStages
        BY <1>3
      <4> QED
        BY <1>7, <2>5, <3>1, <4>1
    <3>3. \A j \in 1 .. kStages - 2 : Bringing(w, j, At(j), T + j)'
      <4> SUFFICES ASSUME NEW j \in 1 .. kStages - 2
                   PROVE  Bringing(w, j, At(j), T + j)'
        BY <1>4
      <4>1. j + 1 \in 1 .. kStages - 1 /\ j \in 1 .. kStages - 1 /\ j \in 0 .. kStages - 2
        BY <1>3
      <4>2. Bringing(w, j + 1, At(j + 1), T + (j + 1)) /\ flying'[w][j] = flying[w][j + 1]
        BY <1>7, <2>5, <3>1, <4>1
      <4>3. PICK s, t : s = At(j + 1) /\ t = T + (j + 1)
        OBVIOUS
      <4>4. At(j)' = s /\ T' + j = t
        BY <1>2, <1>4, <1>5, <4>1, <4>3
      <4>5. Landed(w, s, t)' <=> Landed(w, s, t)
        BY <1>0, <1>4 DEF Landed
      <4>6. Bringing(w, j + 1, s, t)
        BY <4>2, <4>3
      <4>7. Bringing(w, j, s, t)'
        BY <1>0, <1>4, <4>2, <4>5, <4>6 DEF Bringing, Group
      <4> QED
        BY <4>4, <4>7
    <3>4. KG - 1 \notin 1 .. KG - 2
      BY <1>3
    <3>5. MultistageInv(w)'
      BY <1>4, <2>1, <3>2, <3>3, <3>4 DEF MultistageInv
    <3> QED
      BY <1>4, <2>2, <2>3, <2>5, <3>5 DEF WarpInv
  <2> QED
    BY <2>4, <2>5
<1> QED
  BY <1>9, <1>11, <1>12 DEF IInv

LEMMA StepBlockBarrier ==
  ASSUME IInv, BlockBarrier
  PROVE  IInv'
<1>0. /\ \A w \in Warp : pc[w] = "end"
      /\ loop' = loop /\ smem' = smem /\ tb' = tb /\ flying' = flying /\ frag' = frag
      /\ \/ /\ pc' = [w \in Warp |-> "exit"]
            /\ UNCHANGED <<blk, left, wr, rd>>
            /\ kg' = kg /\ next' = next /\ masked' = masked /\ acc' = acc
         \/ /\ blk + 1 # nb
            /\ pc' = [w \in Warp |-> "prologue"]
            /\ blk' = blk + 1 /\ left' = depth[blk + 1]
            /\ wr' = 0 /\ rd' = 0
            /\ kg' = [w \in Warp |-> 0]
            /\ next' = [w \in Warp |-> 0]
            /\ masked' = [w \in Warp |-> FALSE]
            /\ acc' = [w \in Warp |-> <<>>]
  BY DEF BlockBarrier, Following
<1>1. TypeInv /\ \A w \in Warp : WarpInv(w)
  BY DEF IInv
<1>2. \A w \in Warp : flying[w] = <<Empty>> /\ acc[w] = Product(blk)
  BY <1>0, <1>1 DEF WarpInv, PipelinedInv, MultistageInv, AccInv
<1>3. CASE /\ pc' = [w \in Warp |-> "exit"]
           /\ UNCHANGED <<blk, left, wr, rd>>
           /\ kg' = kg /\ next' = next /\ masked' = masked /\ acc' = acc
  <2>1. TypeInv'
    <3>1. pc' \in [Warp -> {"prologue", "wait", "first", "turn", "store", "sync", "drain", "end", "exit"}]
      BY <1>3
    <3> QED
      BY <1>0, <1>1, <1>3, <3>1, SameCta DEF TypeInv
  <2>2. PhaseInv'
    BY <1>3 DEF PhaseInv, Exited
  <2>3. \A w \in Warp : WarpInv(w)'
    <3> SUFFICES ASSUME NEW w \in Warp PROVE WarpInv(w)'
      OBVIOUS
    <3>1. pc'[w] = "exit" /\ flying'[w] = <<Empty>> /\ acc'[w] = Product(blk) /\ Product(blk)' = Product(blk)
          /\ Empty' = Empty
      BY <1>0, <1>2, <1>3, SameCta
    <3>2. ControlInv(w)' /\ AccInv(w)' /\ MultistageInv(w)' /\ PipelinedInv(w)'
      BY <3>1 DEF ControlInv, AccInv, MultistageInv, PipelinedInv
    <3> QED
      BY <3>2 DEF WarpInv
  <2> QED
    BY <2>1, <2>2, <2>3 DEF IInv
<1>4. CASE /\ blk + 1 # nb
           /\ pc' = [w \in Warp |-> "prologue"]
           /\ blk' = blk + 1 /\ left' = depth[blk + 1]
           /\ wr' = 0 /\ rd' = 0
           /\ kg' = [w \in Warp |-> 0]
           /\ next' = [w \in Warp |-> 0]
           /\ masked' = [w \in Warp |-> FALSE]
           /\ acc' = [w \in Warp |-> <<>>]
  <2>1. TypeInv'
    <3>1. blk + 1 \in Block /\ depth[blk + 1] \in Int
      BY <1>1, <1>4, LoopAssumption DEF TypeInv, Block
    <3>2. 0 \in Slot /\ 0 \in Piece
      BY <1>1, Sizes DEF Slot, Piece
    <3>3. pc' \in [Warp -> {"prologue", "wait", "first", "turn", "store", "sync", "drain", "end", "exit"}]
      BY <1>4
    <3>4. kg' \in [Warp -> Piece] /\ next' \in [Warp -> Nat]
      BY <1>4, <3>2
    <3>5. masked' \in [Warp -> BOOLEAN]
      BY <1>4
    <3>6. acc' \in [Warp -> Seq(FragSet)]
      <4>1. <<>> \in Seq(FragSet)
        OBVIOUS
      <4> QED
        BY <1>4, <4>1
    <3> QED
      BY <1>0, <1>1, <1>4, <3>1, <3>2, <3>3, <3>4, <3>5, <3>6, SameLoop DEF TypeInv
  <2>2. PhaseInv'
    BY <1>4 DEF PhaseInv, Starting, D
  <2>3. \A w \in Warp : WarpInv(w)'
    <3> SUFFICES ASSUME NEW w \in Warp PROVE WarpInv(w)'
      OBVIOUS
    <3>1. pc'[w] = "prologue" /\ flying'[w] = <<Empty>> /\ acc'[w] = <<>> /\ Empty' = Empty
          /\ kg'[w] = 0 /\ next'[w] = 0 /\ ~masked'[w]
      BY <1>0, <1>2, <1>4, SameLoop
    <3>2. ControlInv(w)' /\ AccInv(w)' /\ MultistageInv(w)' /\ PipelinedInv(w)'
      BY <3>1 DEF ControlInv, AccInv, MultistageInv, PipelinedInv
    <3> QED
      BY <3>2 DEF WarpInv
  <2> QED
    BY <2>1, <2>2, <2>3 DEF IInv
<1> QED
  BY <1>0, <1>3, <1>4

LEMMA StepStutter ==
  ASSUME IInv, UNCHANGED vars
  PROVE  IInv'
<1>0. /\ UNCHANGED <<loop, blk, left, wr, rd>>
      /\ smem' = smem /\ pc' = pc /\ kg' = kg /\ next' = next /\ masked' = masked
      /\ tb' = tb /\ flying' = flying /\ frag' = frag /\ acc' = acc
  BY DEF vars
<1>1. TypeInv'
  BY <1>0, SameCta DEF IInv, TypeInv
<1>2. PhaseInv'
  <2>1. (Starting' <=> Starting) /\ (Looping' <=> Looping) /\ (Exited' <=> Exited)
    BY <1>0 DEF Starting, Looping, Exited
  <2>2. /\ D' = D /\ T' = T /\ At(kStages - 1)' = At(kStages - 1) /\ Whole(blk, T)' = Whole(blk, T)
    BY <1>0, SameCta
  <2> QED
    BY <1>0, <2>1, <2>2 DEF IInv, PhaseInv
<1>3. \A w \in Warp : WarpInv(w)'
  <2> SUFFICES ASSUME NEW w \in Warp PROVE WarpInv(w)'
    OBVIOUS
  <2>1. TypeInv /\ WarpInv(w)
    BY DEF IInv
  <2> QED
    BY <1>0, <2>1, Frame
<1> QED
  BY <1>1, <1>2, <1>3 DEF IInv

LEMMA InitIInv ==
  ASSUME Init
  PROVE  IInv
<1>0. /\ loop \in Loops
      /\ blk = 0 /\ left = depth[0]
      /\ wr = 0 /\ rd = 0
      /\ smem = [s \in Slot |-> [x \in Warp \X Piece |-> Unset]]
      /\ pc = [w \in Warp |-> "prologue"]
      /\ kg = [w \in Warp |-> 0]
      /\ next = [w \in Warp |-> 0]
      /\ masked = [w \in Warp |-> FALSE]
      /\ tb = [w \in Warp |-> Unset]
      /\ flying = [w \in Warp |-> <<Empty>>]
      /\ frag = [w \in Warp |-> [i \in {0, 1} |-> Unset]]
      /\ acc = [w \in Warp |-> <<>>]
  BY DEF Init
<1>1. /\ 0 \in Block /\ depth[0] \in Int /\ kStages \in Nat /\ kStages >= 2
      /\ KG \in Nat \ {0}
  BY <1>0, LoopAssumption DEF Block, kStages, KG
<1>2. Unset \in Val /\ Empty \in GroupSet /\ 0 \in Slot /\ 0 \in Piece
  <2>1. Unset \in Val /\ 0 \in Slot /\ 0 \in Piece
    BY <1>1, Values DEF Slot, Piece
  <2> QED
    BY <2>1 DEF Empty, Group, GroupSet
<1>3. TypeInv
  <2>1. smem \in [Slot -> [Warp \X Piece -> Val]] /\ tb \in [Warp -> Val]
    BY <1>0, <1>2
  <2>2. flying \in [Warp -> Seq(GroupSet)]
    BY <1>0, <1>2
  <2>3. frag \in [Warp -> [{0, 1} -> FragSet]]
    <3>1. Unset \in FragSet
      BY DEF FragSet
    <3> QED
      BY <1>0, <3>1
  <2>4. acc \in [Warp -> Seq(FragSet)]
    <3>1. <<>> \in Seq(FragSet)
      OBVIOUS
    <3> QED
      BY <1>0, <3>1
  <2>5. masked \in [Warp -> BOOLEAN]
    BY <1>0
  <2>6. pc \in [Warp -> {"prologue", "wait", "first", "turn", "store", "sync", "drain", "end", "exit"}]
    BY <1>0
  <2>7. kg \in [Warp -> Piece] /\ next \in [Warp -> Nat]
    BY <1>0, <1>2
  <2> QED
    BY <1>0, <1>1, <1>2, <2>1, <2>2, <2>3, <2>4, <2>5, <2>6, <2>7 DEF TypeInv
<1>4. PhaseInv
  BY <1>0 DEF PhaseInv, Starting, D
<1>5. \A w \in Warp : WarpInv(w)
  BY <1>0 DEF WarpInv, ControlInv, AccInv, MultistageInv, PipelinedInv
<1> QED
  BY <1>3, <1>4, <1>5 DEF IInv

\* Every step keeps the invariant.
LEMMA NextIInv ==
  ASSUME IInv, [Next]_vars
  PROVE  IInv'
<1>1. CASE \E w \in Warp : WarpStep(w)
  <2> SUFFICES ASSUME NEW w \in Warp, WarpStep(w) PROVE IInv'
    BY <1>1
  <2> QED
    BY StepPrologueStore, StepPrologueCopy, StepFirst, StepTurnPipelined, StepTurnMultistage,
       StepStore DEF WarpStep
<1>2. CASE \E w \in Warp : Land(w)
  BY <1>2, StepLand
<1>3. CASE Barrier
  BY <1>3, StepPrologueBarrier, StepTileBarrier, StepDrain, StepBlockBarrier DEF Barrier
<1>4. CASE UNCHANGED vars
  BY <1>4, StepStutter
<1> QED
  BY <1>1, <1>2, <1>3, <1>4 DEF Next, Done

\* IInv is an invariant.
LEMMA Invariance == Spec => []IInv
<1>1. Init => IInv
  BY InitIInv
<1>2. IInv /\ [Next]_vars => IInv'
  BY NextIInv
<1> QED
  BY <1>1, <1>2, PTL DEF Spec

-----------------------------------------------------------------------------
\* The registers of the main loop hold what they may.
THEOREM TypeCorrect == Spec => []TypeOK
<1>1. IInv => TypeOK
  <2> SUFFICES ASSUME IInv PROVE TypeOK
    OBVIOUS
  <2>1. TypeInv
    BY DEF IInv
  <2>2. \A w \in Warp : \A j \in 1 .. Len(flying[w]) :
          flying[w][j].slot \in Slot /\ flying[w][j].pieces \subseteq Piece
    <3> SUFFICES ASSUME NEW w \in Warp, NEW j \in 1 .. Len(flying[w])
                 PROVE  flying[w][j].slot \in Slot /\ flying[w][j].pieces \subseteq Piece
      OBVIOUS
    <3>1. flying[w][j] \in GroupSet
      BY <2>1, ElementOfSeq DEF TypeInv
    <3> QED
      BY <3>1 DEF GroupSet
  <2> QED
    BY <2>1, <2>2 DEF TypeInv, TypeOK
<1> QED
  BY <1>1, Invariance, PTL

\* Nothing beyond a block is in shared memory, in flight or in registers:
\* cp_async_zfill and the cleared masks keep every load within its block.
THEOREM NeverOverreads == Spec => []NoOverread
<1>1. IInv => NoOverread
  <2> SUFFICES ASSUME IInv, NEW w \in Warp
               PROVE  /\ OfABlock(tb[w])
                      /\ \A s \in Slot, p \in Piece : OfABlock(smem[s][<<w, p>>])
                      /\ \A j \in 1 .. Len(flying[w]) : OfABlock(flying[w][j].val)
    BY DEF NoOverread
  <2>1. TypeInv
    BY DEF IInv
  <2>2. tb[w] \in Val /\ \A s \in Slot, p \in Piece : smem[s][<<w, p>>] \in Val
    BY <2>1 DEF TypeInv
  <2>3. \A j \in 1 .. Len(flying[w]) : flying[w][j].val \in Val
    <3> SUFFICES ASSUME NEW j \in 1 .. Len(flying[w]) PROVE flying[w][j].val \in Val
      OBVIOUS
    <3>1. flying[w][j] \in GroupSet
      BY <2>1, ElementOfSeq DEF TypeInv
    <3> QED
      BY <3>1 DEF GroupSet
  <2> QED
    BY <2>2, <2>3 DEF Val
<1> QED
  BY <1>1, Invariance, PTL

\* Group j of a warp in the loop is for the j-th slot from the one that is read;
\* before the loop, for the j-th slot.
LEMMA GroupSlots ==
  ASSUME IInv, NEW w \in Warp, NEW j \in Flying(w)
  PROVE  /\ j \in 1 .. kStages - 1
         /\ IF pc[w] = "wait" THEN flying[w][j].slot = j - 1
            ELSE Looping /\ flying[w][j].slot = At(j)
<1>1. TypeInv /\ WarpInv(w) /\ kStages \in Nat /\ kStages >= 2 /\ (Pipelined <=> kStages = 2)
  BY Sizes DEF IInv
<1>2. j \in 1 .. Len(flying[w]) /\ flying[w][j] # Empty
  BY DEF Flying
<1>3. flying[w] # <<Empty>>
  <2> SUFFICES ASSUME flying[w] = <<Empty>> PROVE FALSE
    OBVIOUS
  <2>1. Len(flying[w]) = 1 /\ flying[w][1] = Empty
    OBVIOUS
  <2> QED
    BY <1>2, <2>1
<1>4. ~Pipelined /\ MultistageInv(w) /\ pc[w] \in {"wait", "first", "turn", "drain", "sync"}
  <2>1. ~Pipelined /\ MultistageInv(w)
    BY <1>1, <1>3 DEF WarpInv, PipelinedInv
  <2>2. pc[w] # "store"
    BY <1>1, <2>1 DEF WarpInv, ControlInv
  <2> QED
    BY <1>1, <1>3, <2>1, <2>2 DEF MultistageInv, TypeInv
<1>5. CASE pc[w] = "wait"
  <2>1. j \in 1 .. kStages - 1 /\ Bringing(w, j, j - 1, j - 1)
    BY <1>1, <1>2, <1>4, <1>5 DEF MultistageInv
  <2> QED
    BY <1>2, <1>5, <2>1 DEF Bringing, Group
<1>6. CASE pc[w] # "wait"
  <2>1. Looping /\ wr = At(kStages - 1)
    BY <1>4, <1>6 DEF IInv, PhaseInv, Starting, Exited
  <2>2. CASE j < kStages - 1 \/ pc[w] = "sync"
    <3>1. j \in 1 .. kStages - 1 /\ Bringing(w, j, At(j), T + j)
      <4>1. CASE pc[w] = "sync"
        BY <1>1, <1>2, <1>4, <4>1 DEF MultistageInv
      <4>2. CASE pc[w] # "sync"
        <5>1. j \in 1 .. kStages - 2 /\ pc[w] \in {"first", "turn", "drain"}
          BY <1>1, <1>2, <1>4, <1>6, <2>2, <4>2
        <5> QED
          BY <1>1, <1>4, <5>1 DEF MultistageInv
      <4> QED
        BY <4>1, <4>2
    <3> QED
      BY <1>2, <1>6, <2>1, <3>1 DEF Bringing, Group
  <2>3. CASE j >= kStages - 1 /\ pc[w] # "sync"
    <3>1. j = kStages - 1 /\ pc[w] \in {"first", "turn", "drain"}
      BY <1>1, <1>2, <1>4, <1>6, <2>3 DEF MultistageInv
    <3>2. flying[w][j] = Group(wr, <<blk, T + kStages - 1>>, 0 .. kg[w] - 1)
      BY <1>2, <1>4, <3>1 DEF MultistageInv
    <3>3. flying[w][j].slot = wr
      BY <3>2 DEF Group
    <3> QED
      BY <1>1, <1>6, <2>1, <3>1, <3>3
  <2> QED
    BY <1>1, <1>2, <2>2, <2>3
<1> QED
  BY <1>5, <1>6

\* No slot is filled while it is read, whatever the order in which warps run
\* and copies land: one barrier for each tile is enough.
THEOREM NoSlotRaces == Spec => []SlotsRaceFree
<1>1. IInv => SlotsRaceFree
  <2> SUFFICES ASSUME IInv PROVE SlotsRaceFree
    OBVIOUS
  <2>1. TypeInv /\ kStages \in Nat /\ kStages >= 2
    BY Sizes DEF IInv
  <2>2. ASSUME NEW v \in Warp, NEW w \in Warp, NEW s \in Writes(v), s \in Reads(w)
        PROVE  FALSE
    <3>1. pc[w] \in {"first", "turn"} /\ s = rd
      BY <2>2 DEF Reads
    <3>2. Looping /\ wr = At(kStages - 1)
      BY <3>1 DEF IInv, PhaseInv, Starting, Exited
    <3>3. \A j \in 1 .. kStages - 1 : At(j) # rd
      <4> SUFFICES ASSUME NEW j \in 1 .. kStages - 1 PROVE At(j) # rd
        OBVIOUS
      <4>1. j \in 0 .. kStages - 1 /\ 0 \in 0 .. kStages - 1 /\ j # 0
        BY <2>1
      <4> QED
        BY <2>1, <4>1, Ring
    <3>4. CASE \E j \in Flying(v) : s = flying[v][j].slot
      <4>1. PICK j \in Flying(v) : s = flying[v][j].slot
        BY <3>4
      <4>2. pc[v] # "wait"
        BY <3>2 DEF Looping
      <4>3. j \in 1 .. kStages - 1 /\ s = At(j)
        BY <4>1, <4>2, GroupSlots
      <4> QED
        BY <3>1, <3>3, <4>3
    <3>5. CASE s = wr
      <4>1. kStages - 1 \in 1 .. kStages - 1
        BY <2>1
      <4> QED
        BY <3>1, <3>2, <3>3, <3>5, <4>1
    <3> QED
      BY <2>2, <3>4, <3>5 DEF Writes
  <2>3. ASSUME NEW w \in Warp, NEW i \in Flying(w), NEW j \in Flying(w),
               flying[w][i].slot = flying[w][j].slot
        PROVE  i = j
    <3>1. i \in 0 .. kStages - 1 /\ j \in 0 .. kStages - 1
      BY <2>1, GroupSlots
    <3>2. CASE pc[w] = "wait"
      BY <2>3, <3>1, <3>2, GroupSlots
    <3>3. CASE pc[w] # "wait"
      <4>1. At(i) = At(j)
        BY <2>3, <3>3, GroupSlots
      <4> QED
        BY <2>1, <3>1, <4>1, Ring
    <3> QED
      BY <3>2, <3>3
  <2> QED
    BY <2>2, <2>3 DEF SlotsRaceFree
<1> QED
  BY <1>1, Invariance, PTL

\* A warp that is through with the block holds its product.
Through == {"drain", "end", "exit"}
PromiseKept == \A w \in Warp : Promised(w) = IF pc[w] \in Through THEN blk ELSE Unset
LEMMA Keeping == IInv => PromiseKept
<1>1. IInv => \A w \in Warp : pc[w] \in Through => acc[w] = Product(blk)
  BY DEF IInv, WarpInv, AccInv, Through
<1> QED
  BY <1>1 DEF Promised, PromiseKept, Through

\* The main loop keeps the promise that the kernel relies on: block after block,
\* every warp multiplies each fragment of the block once, in order.
THEOREM Refinement == Spec => PromiseSpec
<1> DEFINE prod == [w \in Warp |-> Promised(w)]
<1>1. Init => Promise!Init
  <2> SUFFICES ASSUME Init PROVE Promise!Init
    OBVIOUS
  <2>1. \A w \in Warp : Promised(w) = Unset
    BY DEF Init, Promised
  <2> QED
    BY <2>1 DEF Init, Promise!Init
<1>2. IInv /\ PromiseKept /\ PromiseKept' /\ [Next]_vars => [Promise!Next]_(Promise!vars)
  <2> SUFFICES ASSUME IInv, PromiseKept, PromiseKept', [Next]_vars PROVE [Promise!Next]_(Promise!vars)
    OBVIOUS
  <2>1. \A w \in Warp : /\ prod[w] = IF pc[w] \in Through THEN blk ELSE Unset
                        /\ prod'[w] = IF pc'[w] \in Through THEN blk' ELSE Unset
    BY DEF PromiseKept, Through
  <2>2. prod = [w \in Warp |-> prod[w]] /\ prod' = [w \in Warp |-> prod'[w]]
    OBVIOUS
  <2> HIDE DEF prod
  <2>3. ASSUME blk' = blk, \A w \in Warp : pc'[w] \in Through <=> pc[w] \in Through
        PROVE  UNCHANGED Promise!vars
    <3>1. prod' = prod
      BY <2>1, <2>2, <2>3
    <3> QED
      BY <2>3, <3>1 DEF Promise!vars, prod
  <2>4. ASSUME NEW w \in Warp, blk' = blk, \A v \in Warp \ {w} : pc'[v] = pc[v],
               pc[w] \notin Through, pc'[w] \in Through
        PROVE  Promise!Next
    <3>1. prod[w] = Unset /\ prod' = [prod EXCEPT ![w] = blk]
      BY <2>1, <2>2, <2>4
    <3>2. Promise!Multiply(w)
      BY <2>4, <3>1 DEF Promise!Multiply, prod
    <3> QED
      BY <3>2 DEF Promise!Next
  <2>5. TypeInv
    BY DEF IInv
  <2>6. ASSUME NEW w \in Warp, WarpStep(w)
        PROVE  [Promise!Next]_(Promise!vars)
    <3>1. CASE PrologueStore(w) \/ PrologueCopy(w) \/ First(w) \/ Store(w)
      <4>1. /\ blk' = blk /\ \A v \in Warp : pc'[v] \in Through <=> pc[v] \in Through
        BY <2>5, <3>1 DEF PrologueStore, PrologueCopy, First, Store, Goto, Through, TypeInv
      <4> QED
        BY <2>3, <4>1
    <3>2. CASE TurnPipelined(w) \/ TurnMultistage(w)
      <4>1. LoadAndMultiply(w) /\ UNCHANGED <<loop, blk, left, wr, rd>> /\ smem' = smem
        BY <3>2 DEF TurnPipelined, TurnMultistage
      <4>2. pc[w] = "turn" /\ \A v \in Warp \ {w} : pc'[v] = pc[v]
        BY <4>1, Turn
      <4>3. pc[w] \notin Through
        BY <4>2 DEF Through
      <4>4. CASE pc'[w] \in Through
        BY <2>4, <4>1, <4>2, <4>3, <4>4
      <4>5. CASE pc'[w] \notin Through
        BY <2>3, <4>1, <4>2, <4>3, <4>5
      <4> QED
        BY <4>4, <4>5
    <3> QED
      BY <2>6, <3>1, <3>2 DEF WarpStep
  <2>7. ASSUME NEW w \in Warp, Land(w)
        PROVE  UNCHANGED Promise!vars
    BY <2>3, <2>7 DEF Land
  <2>8. CASE PrologueBarrier \/ TileBarrier \/ Drain
    <3>1. blk' = blk /\ \A w \in Warp : pc'[w] \in Through <=> pc[w] \in Through
      BY <2>8 DEF PrologueBarrier, TileBarrier, GmemWait, Drain, Through
    <3> QED
      BY <2>3, <3>1
  <2>9. CASE BlockBarrier
    <3>1. \A w \in Warp : pc[w] = "end"
      BY <2>9 DEF BlockBarrier
    <3>2. CASE Following = nb
      <4>1. blk' = blk /\ \A w \in Warp : pc'[w] = "exit"
        BY <2>9, <3>2 DEF BlockBarrier
      <4> QED
        BY <2>3, <3>1, <4>1 DEF Through
    <3>3. CASE Following # nb
      <4>1. blk' = blk + 1 /\ \A w \in Warp : pc'[w] = "prologue"
        BY <2>9, <3>3 DEF BlockBarrier, Following
      <4>2. blk + 1 < nb
        BY <2>5, <3>3, LoopAssumption DEF TypeInv, Block, Following
      <4>3. \A w \in Warp : prod[w] = blk /\ prod'[w] = Unset
        BY <2>1, <3>1, <4>1 DEF Through
      <4>4. Promise!NextBlock
        BY <2>2, <4>1, <4>2, <4>3 DEF Promise!NextBlock, prod
      <4> QED
        BY <4>4 DEF Promise!Next
    <3> QED
      BY <3>2, <3>3
  <2>10. CASE UNCHANGED vars
    BY <2>3, <2>10 DEF vars
  <2> QED
    BY <2>6, <2>7, <2>8, <2>9, <2>10 DEF Next, Barrier, Done
<1> QED
  BY <1>1, <1>2, Invariance, Keeping, PTL DEF Spec, PromiseSpec, Promise!Spec
=============================================================================
