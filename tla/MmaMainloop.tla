---------------------------- MODULE MmaMainloop -----------------------------
(***************************************************************************)
(* The main loop of a CUTLASS GEMM, as the kernels of this repository run  *)
(* it: the warps of a CTA multiply a block tile by tile, each tile staged  *)
(* in one of kStages slots of shared memory to which every warp brings its *)
(* share.  While one slot is read the others are filled.  With two stages  *)
(* it is MmaPipelined: a warp holds its share of the next tile in          *)
(* registers and stores it.  With more it is MmaMultistage: the share is   *)
(* copied asynchronously (cp.async), in groups that land in any order and  *)
(* that a warp waits for by number.  fused_stage_gemm_rot runs the loop    *)
(* for one block after another in the same storage.                        *)
(*                                                                         *)
(* Values are named by their block and tile.  A step of a warp accesses    *)
(* the slots once.  Registers that change between the same two barriers,   *)
(* and alike in all warps (blk, left, wr, rd), are kept once per CTA.      *)
(***************************************************************************)
EXTENDS Integers, Sequences

CONSTANTS
  Warp,
  nb,           \* blocks
  depth,        \* [block -> tiles of its inner dimension: gemm_k_iterations]
  Loops,        \* instances: kStages, kWarpGemmIterations
  Zero,         \* what a masked load yields
  Unset

Block == 0 .. nb - 1

ASSUME LoopAssumption ==
  /\ Warp # {} /\ nb \in Nat \ {0} /\ depth \in [Block -> Nat \ {0}]
  /\ \A g \in Loops :
       /\ g.kStages \in Nat /\ g.kStages >= 2
       /\ g.kWarpGemmIterations \in Nat \ {0} /\ g.kWarpGemmIterations % 2 = 0
  /\ Zero \notin Block \X Nat /\ Unset \notin Block \X Nat

VARIABLES
  loop,         \* the instance
  blk,
  left,         \* gemm_k_iterations
  wr, rd,       \* slots that are filled and read
  smem,         \* [slot -> [warp, piece of its share -> value]]
  pc,
  kg,           \* per warp: warp_mma_k
  next, masked, \* per warp: its global iterators, and whether they are off
  tb,           \* per warp: share on its way to shared memory (two stages)
  flying,       \* per warp: groups of copies, the last one not yet committed
  frag,         \* per warp: the fragments in its registers
  acc           \* per warp: the fragments multiplied so far

vars == <<loop, blk, left, wr, rd, smem, pc, kg, next, masked, tb, flying, frag, acc>>

kStages == loop.kStages
KG      == loop.kWarpGemmIterations
Slot    == 0 .. kStages - 1
Piece   == 0 .. KG - 1

Pipelined == kStages = 2

\* A group of copies: pieces of a warp's share, on their way to a slot.
Group(slot, val, pieces) == [slot |-> slot, val |-> val, pieces |-> pieces]
Empty == Group(0, Unset, {})

Init ==
  /\ loop \in Loops
  /\ blk = 0 /\ left = depth[0]
  /\ wr = 0 /\ rd = 0
  /\ smem = [s \in Slot |-> [x \in Warp \X Piece |-> Unset]]
  /\ pc = [w \in Warp |-> "prologue"]
  /\ kg = [w \in Warp |-> 0]
  /\ next = [w \in Warp |-> 0]
  /\ masked = [w \in Warp |-> FALSE]
  /\ tb = [w \in Warp |-> Unset]
  /\ flying = [w \in Warp |-> <<Empty>>]
  /\ frag = [w \in Warp |-> [i \in {0, 1} |-> Unset]]
  /\ acc = [w \in Warp |-> <<>>]

Goto(w, from, to) == pc[w] = from /\ pc' = [pc EXCEPT ![w] = to]

\* What shared memory is after the pieces of w's share have been written.
Put(w, g) ==
  [smem EXCEPT ![g.slot] =
     [x \in Warp \X Piece |-> IF x[1] = w /\ x[2] \in g.pieces THEN g.val ELSE @[x]]]

\* What the global iterators of w yield.
Fetched(w) == IF masked[w] THEN Zero ELSE <<blk, next[w]>>

-----------------------------------------------------------------------------
\* The prologue of MmaPipelined stages tile 0.
PrologueStore(w) ==
  /\ Pipelined /\ Goto(w, "prologue", "wait")
  /\ smem' = Put(w, Group(wr, Fetched(w), Piece))
  /\ next' = [next EXCEPT ![w] = @ + 1]
  /\ UNCHANGED <<loop, blk, left, wr, rd, kg, masked, tb, flying, frag, acc>>

\* Slip: the masks are not cleared.
UnmaskedTile(s) == <<blk, s>>

\* What stage s of the prologue copies.
PrologueTile(s) == IF s < left THEN <<blk, s>> ELSE Zero

\* That of MmaMultistage issues all tiles but one of a full storage, a group
\* each; what is beyond the block's last tile is filled with zeros.
PrologueCopy(w) ==
  /\ ~Pipelined /\ Goto(w, "prologue", "wait")
  /\ flying' = [flying EXCEPT ![w] =
                  [j \in 1 .. kStages |->
                     IF j < kStages THEN Group(j - 1, PrologueTile(j - 1), Piece) ELSE Empty]]
  /\ next' = [next EXCEPT ![w] = kStages - 1]
  /\ masked' = [masked EXCEPT ![w] = left <= kStages - 2]
  /\ UNCHANGED <<loop, blk, left, wr, rd, smem, kg, tb, frag, acc>>

\* The copies of a group that has been committed arrive.
Land(w) ==
  \E j \in 1 .. Len(flying[w]) - 1 :
    /\ flying[w][j] # Empty
    /\ smem' = Put(w, flying[w][j])
    /\ flying' = [flying EXCEPT ![w][j] = Empty]
    /\ UNCHANGED <<loop, blk, left, wr, rd, pc, kg, next, masked, tb, frag, acc>>

\* cp_async_wait<n>: of the groups committed, only the last n may still fly.
Waited(w, n) == \A j \in 1 .. Len(flying[w]) - 1 - n : flying[w][j] = Empty

\* The others are forgotten.
Remaining(w, n) ==
  LET done == IF Len(flying[w]) > n THEN Len(flying[w]) - 1 - n ELSE 0
  IN  [j \in 1 .. Len(flying[w]) - done |-> flying[w][done + j]]

\* Slip: one group more may still fly.
OneMoreFlies == kStages - 1

\* How many groups may still fly when a tile is read.
MayFly == kStages - 2

\* gmem_wait(): wait for the oldest stage, then for one another.
GmemWait(from, to) ==
  /\ \A w \in Warp : pc[w] = from
  /\ ~Pipelined => \A w \in Warp : Waited(w, MayFly)
  /\ pc' = [w \in Warp |-> to]
  /\ flying' = IF Pipelined THEN flying ELSE [w \in Warp |-> Remaining(w, MayFly)]

PrologueBarrier ==
  /\ GmemWait("wait", "first")
  /\ left' = IF Pipelined THEN left ELSE left - (kStages - 1)
  /\ wr' = kStages - 1
  /\ UNCHANGED <<loop, blk, rd, smem, kg, next, masked, tb, frag, acc>>

-----------------------------------------------------------------------------
\* The first fragment of the first tile.
First(w) ==
  /\ Goto(w, "first", "turn")
  /\ frag' = [frag EXCEPT ![w][0] = <<smem[rd], 0>>]
  /\ masked' = [masked EXCEPT ![w] = @ \/ IF Pipelined THEN left <= 1 ELSE left = 0]
  /\ UNCHANGED <<loop, blk, left, wr, rd, smem, kg, next, tb, flying, acc>>

\* Are there tiles to multiply?
More == IF Pipelined THEN left > 0 ELSE left > 1 - kStages

\* Where turn g of the unrolled loop over a tile leads.
AfterTurn(g) ==
  IF g = KG - 2 THEN IF Pipelined THEN "store" ELSE "sync"
  ELSE IF g = KG - 1 /\ ~More THEN IF Pipelined THEN "end" ELSE "drain"
  ELSE "turn"

\* A turn: load the next fragment, and multiply the one loaded before.
LoadAndMultiply(w) ==
  LET g == kg[w]
  IN  /\ Goto(w, "turn", AfterTurn(g))
      /\ frag' = [frag EXCEPT ![w][(g + 1) % 2] = <<smem[rd], (g + 1) % KG>>]
      /\ acc' = [acc EXCEPT ![w] = Append(@, frag[w][g % 2])]
      /\ kg' = [kg EXCEPT ![w] = (g + 1) % KG]

\* With two stages, the first turn also fetches the next tile.
TurnPipelined(w) ==
  /\ Pipelined /\ LoadAndMultiply(w)
  /\ IF kg[w] = 0
     THEN /\ tb' = [tb EXCEPT ![w] = Fetched(w)]
          /\ next' = [next EXCEPT ![w] = @ + 1]
          /\ masked' = [masked EXCEPT ![w] = @ \/ left <= 2]
     ELSE UNCHANGED <<tb, next, masked>>
  /\ UNCHANGED <<loop, blk, left, wr, rd, smem, flying>>

\* Slip: nobody issues the piece of the last turn.
IssuedShort(g) == {p \in Piece : g < KG - 1 /\ p = g}

\* With more, every turn but the last issues a piece of a later tile, the last
\* but one also the last piece.
Issued(g) == {p \in Piece : g < KG - 1 /\ (p = g \/ (g = KG - 2 /\ p = KG - 1))}

\* Then the group is committed.
TurnMultistage(w) ==
  LET g      == kg[w]
      n      == Len(flying[w])
      group  == [flying[w] EXCEPT ![n] =
                   IF masked[w] \/ Issued(g) = {} THEN @
                   ELSE Group(wr, Fetched(w), @.pieces \cup Issued(g))]
  IN  /\ ~Pipelined /\ LoadAndMultiply(w)
      /\ flying' = [flying EXCEPT ![w] = IF g = KG - 2 THEN Append(group, Empty) ELSE group]
      /\ UNCHANGED <<loop, blk, left, wr, rd, smem, next, masked, tb>>

\* The share fetched in turn 0 is stored in the slot that nobody reads.
Store(w) ==
  /\ Goto(w, "store", "sync")
  /\ smem' = Put(w, Group(wr, tb[w], Piece))
  /\ UNCHANGED <<loop, blk, left, wr, rd, kg, next, masked, tb, flying, frag, acc>>

\* Slip: the index does not wrap around.
NotWrapped(s) == s + 1

\* advance_smem_read_stage, advance_smem_write_stage
Advanced(s) == IF s + 1 = kStages THEN 0 ELSE s + 1

\* The barrier of an iteration, and what the warps do next to their registers.
TileBarrier ==
  /\ GmemWait("sync", "turn")
  /\ wr' = Advanced(wr) /\ rd' = Advanced(rd)
  /\ left' = left - 1
  /\ IF Pipelined THEN UNCHANGED <<next, masked>>
     ELSE /\ next' = [w \in Warp |-> next[w] + 1]
          /\ masked' = [w \in Warp |-> masked[w] \/ left - 1 = 0]
  /\ UNCHANGED <<loop, blk, smem, kg, tb, frag, acc>>

\* The end of MmaMultistage: everything has landed, all warps have come.
Drain ==
  /\ \A w \in Warp : pc[w] = "drain" /\ \A j \in 1 .. Len(flying[w]) : flying[w][j] = Empty
  /\ pc' = [w \in Warp |-> "end"]
  /\ flying' = [w \in Warp |-> <<Empty>>]
  /\ UNCHANGED <<loop, blk, left, wr, rd, smem, kg, next, masked, tb, frag, acc>>

\* Slip: the kernel does not move on.
SameBlock == blk

Following == blk + 1

\* The kernel has stored the accumulators and meets before the next block,
\* for which it makes a new Mma in the same storage.
BlockBarrier ==
  /\ \A w \in Warp : pc[w] = "end"
  /\ IF Following = nb
     THEN /\ pc' = [w \in Warp |-> "exit"]
          /\ UNCHANGED <<blk, left, wr, rd, kg, next, masked, acc>>
     ELSE /\ pc' = [w \in Warp |-> "prologue"]
          /\ blk' = Following /\ left' = depth[Following]
          /\ wr' = 0 /\ rd' = 0
          /\ kg' = [w \in Warp |-> 0]
          /\ next' = [w \in Warp |-> 0]
          /\ masked' = [w \in Warp |-> FALSE]
          /\ acc' = [w \in Warp |-> <<>>]
  /\ UNCHANGED <<loop, smem, tb, flying, frag>>

WarpStep(w) ==
  \/ PrologueStore(w) \/ PrologueCopy(w) \/ First(w)
  \/ TurnPipelined(w) \/ TurnMultistage(w) \/ Store(w)

Barrier == PrologueBarrier \/ TileBarrier \/ Drain \/ BlockBarrier

Finished == \A w \in Warp : pc[w] = "exit"
Done     == Finished /\ UNCHANGED vars

Next == (\E w \in Warp : WarpStep(w) \/ Land(w)) \/ Barrier \/ Done

\* Warps run on, copies arrive, and a barrier to which all have come opens.
Fairness == WF_vars(Barrier) /\ \A w \in Warp : WF_vars(WarpStep(w)) /\ WF_vars(Land(w))

Spec     == Init /\ [][Next]_vars
FairSpec == Spec /\ Fairness

-----------------------------------------------------------------------------
\* Tile t of a block, the shares of all warps, and the n-th fragment of the
\* product with that block.
Whole(b, t)    == [x \in Warp \X Piece |-> <<b, t>>]
Fragment(b, n) == <<Whole(b, n \div KG), n % KG>>
Product(b)     == [i \in 1 .. depth[b] * KG |-> Fragment(b, i - 1)]

\* The registers hold slots, groups, tiles and turns that exist.
TypeOK ==
  /\ loop \in Loops /\ blk \in Block /\ left \in Int
  /\ wr \in Slot /\ rd \in Slot
  /\ pc \in [Warp -> {"prologue", "wait", "first", "turn", "store", "sync", "drain", "end", "exit"}]
  /\ kg \in [Warp -> Piece] /\ next \in [Warp -> Nat] /\ masked \in [Warp -> BOOLEAN]
  /\ \A w \in Warp : \A j \in 1 .. Len(flying[w]) :
       flying[w][j].slot \in Slot /\ flying[w][j].pieces \subseteq Piece

\* Slots that a warp is writing, or will with its next step, and the slot that
\* its next step reads.
Flying(w) == {j \in 1 .. Len(flying[w]) : flying[w][j] # Empty}
Writes(w) ==
  {flying[w][j].slot : j \in Flying(w)}
    \cup IF pc[w] = "store" \/ (pc[w] = "prologue" /\ Pipelined) THEN {wr} ELSE {}
Reads(w) == IF pc[w] \in {"first", "turn"} THEN {rd} ELSE {}

\* No slot is read while anything may still be written to it: no warp is so far
\* ahead that it refills a slot that another one reads, no copy is late, none is
\* left over for the next block.  Nor do two groups of a warp, which arrive in
\* any order, go to one slot.
SlotsRaceFree ==
  /\ \A v, w \in Warp : Writes(v) \cap Reads(w) = {}
  /\ \A w \in Warp : \A i, j \in Flying(w) :
       flying[w][i].slot = flying[w][j].slot => i = j

\* Nothing beyond the last tile of a block is fetched: what the slots, the
\* copies and the registers hold is a tile of a block, or zero.
OfABlock(v) == v \in {Zero, Unset} \/ \E b \in Block : \E t \in 0 .. depth[b] - 1 : v = <<b, t>>
NoOverread ==
  \A w \in Warp :
    /\ OfABlock(tb[w])
    /\ \A s \in Slot, p \in Piece : OfABlock(smem[s][<<w, p>>])
    /\ \A j \in 1 .. Len(flying[w]) : OfABlock(flying[w][j].val)

\* The loop keeps the promise: every warp ends a block with all fragments of
\* its product, each once and in order, and no warp starts the next one before.
Promised(w) ==
  IF pc[w] \notin {"drain", "end", "exit"} THEN Unset
  ELSE IF acc[w] = Product(blk) THEN blk ELSE Zero
Promise == INSTANCE BlockProduct WITH prod <- [w \in Warp |-> Promised(w)]
PromiseSpec == Promise!Spec

\* Every block is multiplied: no wait is for copies that do not come, and the
\* warps agree on the number of barriers.
Termination == <>Finished
=============================================================================
