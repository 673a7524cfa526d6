----------------------------- MODULE FusedStage -----------------------------
(***************************************************************************)
(* fused_stage_gemm_rot: one kernel for a whole stage of the layer.  A CTA *)
(* computes TBM rows of the block-diagonal product, block after block,     *)
(* into a buffer osh in shared memory that holds whole rows; it rotates    *)
(* the rows there, a thread per row, and writes them to Y.  The threads of *)
(* a CTA change parts between the phases (a row is produced by a warp,     *)
(* rotated by a thread of perhaps another warp, and written by all), and   *)
(* meet at __syncthreads() in between.                                     *)
(*                                                                         *)
(* The multiplication of a block is CUTLASS's.  What it promises, that a   *)
(* warp gets the whole product of its rows with a block although all warps *)
(* stage operands in one storage, is BlockProduct; that its loop keeps the *)
(* promise, in the same sequence of blocks and barriers, is shown in       *)
(* MmaMainloop.  Here it is one step of a warp.                            *)
(*                                                                         *)
(* A step of a warp or thread touches osh or Y once.                       *)
(***************************************************************************)
EXTENDS Integers, Sequences

CONSTANTS
  M,            \* rows of X and Y
  nb,           \* blocks
  N_OUT,        \* features per block
  WARP,         \* threads per warp
  Configs,      \* the tilings: TBM rows per CTA, WM per warp, checked launch
  Planes,       \* the planes <<I, J>> of tau, then those of rho
  Unset         \* what memory holds that was not written

FEAT == nb * N_OUT
Feat == 0 .. FEAT - 1

ASSUME FusedAssumption ==
  /\ M \in Nat /\ nb \in Nat \ {0} /\ N_OUT \in Nat \ {0} /\ WARP \in Nat \ {0}
  /\ \A g \in Configs :
       g.WM \in Nat \ {0} /\ g.TBM \in Nat \ {0} /\ g.TBM % g.WM = 0
  /\ Planes \in Seq(Feat \X Feat)
  /\ \A i \in 1 .. Len(Planes) : Planes[i][1] # Planes[i][2]

VARIABLES
  cfg,
  host,         \* the call: "call" before it, "returned" or "raised" after
  smem,         \* does the device grant the shared memory that is asked for?
  pc,
  b,            \* block that a thread's warp is at
  k,            \* planes applied to the row
  at,           \* row (rotation) or element (output) a thread is at
  osh,          \* per CTA: TBM rows of FEAT features
  Y

vars == <<cfg, host, smem, pc, b, k, at, osh, Y>>

kWarpsM == cfg.TBM \div cfg.WM
Warp    == 0 .. kWarpsM - 1
Threads == kWarpsM * WARP
Cta     == 0 .. (M + cfg.TBM - 1) \div cfg.TBM - 1
Row     == 0 .. cfg.TBM - 1
Thread  == Cta \X (0 .. Threads - 1)

WarpOf(x)  == x[2] \div WARP
Lanes(t, w) == {x \in Thread : x[1] = t /\ WarpOf(x) = w}
Peers(t)    == {x \in Thread : x[1] = t}

\* Elements of Y, and as many after its end as a full last CTA would reach.
Cells == 0 .. (M + cfg.TBM) * FEAT - 1

Init ==
  /\ cfg \in Configs
  /\ host = "call"
  /\ smem \in BOOLEAN
  /\ pc = [x \in Thread |-> "wait"]
  /\ b = [x \in Thread |-> 0]
  /\ k = [x \in Thread |-> 0]
  /\ at = [x \in Thread |-> 0]
  /\ osh = [t \in Cta |-> [r \in Row |-> [f \in Feat |-> Unset]]]
  /\ Y = [a \in Cells |-> Unset]

kernel_vars == <<b, k, at, osh, Y>>

-----------------------------------------------------------------------------
\* The launch.  Without the shared memory kernel_cfg.cu gives up, and the
\* extension raises; kernel.cu does not look, and its kernel never runs.
Launch ==
  /\ host = "call" /\ smem
  /\ host' = "returned"
  /\ pc' = [x \in Thread |-> "multiply"]
  /\ UNCHANGED <<cfg, smem, kernel_vars>>

LaunchRefused ==
  /\ host = "call" /\ ~smem
  /\ host' = IF cfg.checked THEN "raised" ELSE "returned"
  /\ UNCHANGED <<cfg, smem, pc, kernel_vars>>

\* The threads S go from one place to another together.
Move(S, from, to) ==
  /\ S # {} /\ \A x \in S : pc[x] = from
  /\ pc' = [x \in Thread |-> IF x \in S THEN to ELSE pc[x]]

Leader(t, w) == <<t, w * WARP>>

\* Slip: every warp stores to the rows of warp 0.
RowsOfFirst(w) == 0 .. cfg.WM - 1

\* The rows of a warp's accumulator.
RowsOf(w) == w * cfg.WM .. w * cfg.WM + cfg.WM - 1

\* The product of row r of X with column o of block j.
Product(r, j, o) == <<"product", r, j, o>>

\* The warp multiplies its rows with its block, and stores the accumulator to
\* the block's window of features in osh.
MultiplyBlock(t, w) ==
  LET j == b[Leader(t, w)]
  IN  /\ Move(Lanes(t, w), "multiply", "sync")
      /\ osh' = [osh EXCEPT ![t] = [r \in Row |-> [f \in Feat |->
                   IF r \in RowsOf(w) /\ f \div N_OUT = j
                   THEN Product(t * cfg.TBM + r, j, f % N_OUT) ELSE @[r][f]]]]
      /\ UNCHANGED <<cfg, host, smem, b, k, at, Y>>

\* __syncthreads() at the end of the loop over the blocks.
BlockBarrier(t) ==
  LET j == b[<<t, 0>>]
  IN  /\ Move(Peers(t), "sync", IF j + 1 < nb THEN "multiply" ELSE "rotate")
      /\ b' = [x \in Thread |-> IF x \in Peers(t) THEN j + 1 ELSE b[x]]
      /\ at' = [x \in Thread |-> IF x \in Peers(t) THEN x[2] ELSE at[x]]
      /\ UNCHANGED <<cfg, host, smem, k, osh, Y>>

-----------------------------------------------------------------------------
\* Plane i applied to a row.
Rotated(row, i) ==
  LET I == Planes[i][1]
      J == Planes[i][2]
  IN  [row EXCEPT ![I] = <<"lo", i, row[I], row[J]>>, ![J] = <<"hi", i, row[I], row[J]>>]

\* Thread x applies the next plane to its row.
RotatePlane(x) ==
  /\ pc[x] = "rotate" /\ at[x] < cfg.TBM /\ k[x] < Len(Planes)
  /\ osh' = [osh EXCEPT ![x[1]][at[x]] = Rotated(@, k[x] + 1)]
  /\ k' = [k EXCEPT ![x] = @ + 1]
  /\ UNCHANGED <<cfg, host, smem, pc, b, at, Y>>

NextRow(x) ==
  /\ pc[x] = "rotate" /\ at[x] < cfg.TBM /\ k[x] = Len(Planes)
  /\ at' = [at EXCEPT ![x] = @ + Threads]
  /\ k' = [k EXCEPT ![x] = 0]
  /\ UNCHANGED <<cfg, host, smem, pc, b, osh, Y>>

\* Slip: the barrier before the output is missing.
EndRowsNoSync(x) ==
  /\ pc[x] = "rotate" /\ at[x] >= cfg.TBM
  /\ pc' = [pc EXCEPT ![x] = "write"]
  /\ at' = [at EXCEPT ![x] = x[2]]
  /\ UNCHANGED <<cfg, host, smem, b, k, osh, Y>>

\* Slip: a thread that has no row at all returns, and misses the barrier.
EndRowsReturns(x) ==
  /\ pc[x] = "rotate" /\ at[x] >= cfg.TBM
  /\ pc' = [pc EXCEPT ![x] = IF x[2] >= cfg.TBM THEN "exit" ELSE "rotated"]
  /\ UNCHANGED <<cfg, host, smem, kernel_vars>>

EndRows(x) ==
  /\ pc[x] = "rotate" /\ at[x] >= cfg.TBM
  /\ pc' = [pc EXCEPT ![x] = "rotated"]
  /\ UNCHANGED <<cfg, host, smem, kernel_vars>>

\* __syncthreads() between rotation and output, for all threads of the CTA.
RotateBarrier(t) ==
  /\ Move(Peers(t), "rotated", "write")
  /\ at' = [x \in Thread |-> IF x \in Peers(t) THEN x[2] ELSE at[x]]
  /\ UNCHANGED <<cfg, host, smem, b, k, osh, Y>>

\* Slip: the rows beyond the end of the matrix are written too.
AnyRow(grow) == TRUE
Exists(grow) == grow < M

NextElement(i) == i + Threads

\* An element of the strip goes to Y if its row exists.
Write(x) ==
  LET r == at[x] \div FEAT
      f == at[x] % FEAT
      grow == x[1] * cfg.TBM + r
  IN  /\ pc[x] = "write" /\ at[x] < cfg.TBM * FEAT
      /\ Y' = IF Exists(grow) THEN [Y EXCEPT ![grow * FEAT + f] = osh[x[1]][r][f]] ELSE Y
      /\ at' = [at EXCEPT ![x] = NextElement(@)]
      /\ UNCHANGED <<cfg, host, smem, pc, b, k, osh>>

Exit(x) ==
  /\ pc[x] = "write" /\ at[x] >= cfg.TBM * FEAT
  /\ pc' = [pc EXCEPT ![x] = "exit"]
  /\ UNCHANGED <<cfg, host, smem, kernel_vars>>

CtaStep(t) ==
  \/ \E w \in Warp : MultiplyBlock(t, w)
  \/ \E x \in Peers(t) : RotatePlane(x) \/ NextRow(x) \/ EndRows(x) \/ Write(x) \/ Exit(x)
  \/ BlockBarrier(t) \/ RotateBarrier(t)

Finished == host # "call" /\ \A x \in Thread : pc[x] \in {"wait", "exit"}
Done     == Finished /\ UNCHANGED vars

Next == Launch \/ LaunchRefused \/ (\E t \in Cta : CtaStep(t)) \/ Done

\* The host goes on, and so does every CTA once it is launched.
Fairness ==
  /\ WF_vars(Launch \/ LaunchRefused)
  /\ \A t \in 0 .. M - 1 : WF_vars(t \in Cta /\ CtaStep(t))

Spec     == Init /\ [][Next]_vars
FairSpec == Spec /\ Fairness

-----------------------------------------------------------------------------
\* A row with all blocks, after i planes, and the row the reference computes.
After(grow) ==
  LET product == [f \in Feat |-> Product(grow, f \div N_OUT, f % N_OUT)]
      after[i \in 0 .. Len(Planes)] == IF i = 0 THEN product ELSE Rotated(after[i - 1], i)
  IN  after

Fused(grow) == After(grow)[Len(Planes)]

\* A thread never rotates a row that another thread is at or that still lacks
\* a block, and none is written before all of its CTA are rotated.
PhasesApart ==
  /\ \A x, y \in Thread :
       x[1] = y[1] /\ pc[x] = "rotate" /\ pc[y] = "rotate" /\ at[x] = at[y] /\ at[x] < cfg.TBM
         => x = y
  /\ \A x \in Thread :
       pc[x] = "rotate" /\ at[x] < cfg.TBM => \A f \in Feat : osh[x[1]][at[x]][f] # Unset
  /\ \A x \in Thread, r \in Row :
       pc[x] = "write" /\ x[1] * cfg.TBM + r < M => osh[x[1]][r] = Fused(x[1] * cfg.TBM + r)

\* Every element of Y is written once, with its final value, and nothing is
\* written beyond the last row.
WrittenOnce ==
  [][\A a \in DOMAIN Y :
       Y'[a] # Y[a] => /\ a < M * FEAT
                       /\ Y[a] = Unset
                       /\ Y'[a] = Fused(a \div FEAT)[a % FEAT]]_vars

\* The extension returns, in the end, the whole stage: each of the M rows is
\* multiplied by every block and rotated by every plane.
ReturnsStage ==
  Finished /\ host = "returned" =>
    \A a \in 0 .. M * FEAT - 1 : Y[a] = Fused(a \div FEAT)[a % FEAT]

\* The call ends and all CTAs exit: no barrier waits for a thread that left.
Termination == <>Finished
=============================================================================
