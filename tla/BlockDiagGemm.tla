--------------------------- MODULE BlockDiagGemm ---------------------------
(***************************************************************************)
(* The strided block-diagonal product: block b multiplies the K columns of *)
(* X from b * stride on (fewer for the last block, which X cuts off) with  *)
(* W[b], and is block b of the output.  The repository has it as bdmm and  *)
(* bdmm_cfg (bdmm_only), and as swz_s1, noswz_s1, rowout_s1, rowout_swz_s1 *)
(* and swz_s2 (readonce_swizzle): the same host code, that wires a batched *)
(* CUTLASS GEMM for all blocks but the last and a second one for the tail, *)
(* with different layouts, grids and error handling.                       *)
(*                                                                         *)
(* The GEMM is CUTLASS's: here it computes element (i, j) of batch b from  *)
(* the operands' addresses, tile by tile.  The device runs the kernels of  *)
(* the stream in order; it issues the CTAs of one by linear block index    *)
(* and they end in any order, or it traps on a bad address.  A product is  *)
(* the set of pairs of addresses multiplied and added up.                  *)
(***************************************************************************)
EXTENDS Integers, Sequences

CONSTANTS
  Calls,        \* the functions: see Fun
  Shapes,       \* the dimensions they are called with
  TM, TN,       \* tile of a CTA
  GridLimit,    \* 1 << 16: the device takes fewer CTAs than that along y and
                \* along z, and the custom swizzle reduces a batch count by it
  Unset         \* what torch::empty returns

VARIABLES
  call, shape,
  fault,        \* the step of CUTLASS that fails, "none" if all are fine
  error,        \* what cudaGetLastError would say: "none", "last" (an error
                \* that is forgotten once it is read) or "sticky" (a trap)
  pc, rc,
  queue,        \* kernels in the stream
  issued,       \* CTAs of the first kernel that were issued
  running,      \* those of them that have not ended, by linear index
  Y,
  stray         \* addresses outside Y that were stored to

vars == <<call, shape, fault, error, pc, rc, queue, issued, running, Y, stray>>

M      == shape.M
N      == shape.N
K      == shape.K
nb     == shape.nb
stride == shape.stride
Ktot   == shape.Ktot
access == shape.access  \* elements that one load or store moves

nmain == nb - 1
Ktail == Ktot - nmain * stride

Ceil(a, d) == (a + d - 1) \div d

-----------------------------------------------------------------------------
\* A function: the layouts of its input and output ("token": a row per token,
\* "feature": a row per feature), its grid, whether it looks if there is a
\* tail at all, and whether it returns a code.
Fun(in, out, swizzle, guarded, coded) ==
  [in |-> in, out |-> out, swizzle |-> swizzle, guarded |-> guarded, coded |-> coded]

\* Slip (swz_s1 as noswz_s1): the instance with the default swizzle.
noswz_s1      == Fun("token", "feature", FALSE, FALSE, FALSE)
bdmm          == Fun("token", "feature", TRUE, TRUE, FALSE)
bdmm_cfg      == Fun("token", "feature", TRUE, TRUE, TRUE)
swz_s1        == Fun("token", "feature", TRUE, FALSE, FALSE)
rowout_s1     == Fun("token", "token", FALSE, FALSE, FALSE)
rowout_swz_s1 == Fun("token", "token", TRUE, FALSE, FALSE)
swz_s2        == Fun("feature", "feature", TRUE, FALSE, FALSE)

\* The functions there are, and what a caller owes them: blocks whose windows
\* end within X, but for the last, which X may cut off.
ASSUME GemmAssumption ==
  /\ TM \in Nat \ {0} /\ TN \in Nat \ {0}
  /\ GridLimit \in Nat \ {0, 1}
  /\ Calls \subseteq {bdmm, bdmm_cfg, swz_s1, noswz_s1, rowout_s1, rowout_swz_s1, swz_s2}
  /\ \A s \in Shapes :
       /\ {s.M, s.N, s.K, s.nb, s.stride, s.access} \subseteq Nat \ {0}
       /\ s.Ktot \in (s.nb - 1) * s.stride .. (s.nb - 1) * s.stride + s.K
       /\ s.nb > 1 => (s.nb - 2) * s.stride + s.K <= s.Ktot

\* An operand of a batched GEMM: address of batch 0, distance of batches,
\* leading dimension, and layout.
Operand(base, step, ld, layout) == [base |-> base, step |-> step, ld |-> ld, layout |-> layout]
Addr(op, batch, i, j) ==
  op.base + batch * op.step
    + IF op.layout = "RowMajor" THEN i * op.ld + j ELSE j * op.ld + i

\* The input as an operand, moved on by `off` columns of X: with a row per
\* token (A of rowout, else B, which is then column-major), or per feature.
InputOp(off, step) ==
  IF call.in = "feature" THEN Operand(off * M, step * M, M, "RowMajor")
  ELSE Operand(off, step, Ktot, IF call.out = "token" THEN "RowMajor" ELSE "ColumnMajor")

WeightOp(block, step) ==
  Operand(block * K * N, step * K * N, N, IF call.out = "token" THEN "RowMajor" ELSE "ColumnMajor")

\* Slip: the last row of a block and the first of the next are one.
OutputOpNarrow(block, step) ==
  IF call.out = "token" THEN Operand(block * N, step * N, nb * N, "RowMajor")
  ELSE Operand(block * N * M, step * (N - 1) * M, M, "RowMajor")

OutputOp(block, step) ==
  IF call.out = "token" THEN Operand(block * N, step * N, nb * N, "RowMajor")
  ELSE Operand(block * N * M, step * N * M, M, "RowMajor")

\* The arguments: `batches` blocks from `block` on, each of depth `depth`.
Arguments(block, batches, depth, step) ==
  LET byToken == call.out = "token"
      in      == InputOp(block * stride, step * stride)
      w       == WeightOp(block, step)
  IN  [m |-> IF byToken THEN M ELSE N, n |-> IF byToken THEN N ELSE M, k |-> depth,
       batches |-> batches,
       A |-> IF byToken THEN in ELSE w, B |-> IF byToken THEN w ELSE in,
       D |-> OutputOp(block, step)]

args_main == Arguments(0, nmain, K, 1)

\* Slip: the tail is as deep as the other blocks.
args_tail_full == Arguments(nmain, 1, K, 0)
args_tail      == Arguments(nmain, 1, Ktail, 0)

-----------------------------------------------------------------------------
\* The grid of a kernel and the tile of a CTA.  The custom swizzle reduces the
\* batch count modulo 2^16, the default one takes it as it is.
Tiles(g) ==
  [m |-> Ceil(g.m, TM), n |-> Ceil(g.n, TN),
   k |-> IF call.swizzle THEN g.batches % GridLimit ELSE g.batches]

\* SwapZXBatchSwizzle puts the batch first, the default swizzle last.
\* Slip: x and z are swapped in the grid, but not when a CTA decodes its place.
GridShapeSwapped(g) ==
  LET t == Tiles(g) IN IF call.swizzle THEN <<t.n, t.k, t.m>> ELSE <<t.m, t.n, t.k>>
GridShape(g) ==
  LET t == Tiles(g) IN IF call.swizzle THEN <<t.k, t.n, t.m>> ELSE <<t.m, t.n, t.k>>

\* blockIdx of a linear block index, x first.
BlockIdx(g, id) ==
  LET d == GridShape(g) IN <<id % d[1], (id \div d[1]) % d[2], id \div (d[1] * d[2])>>

\* A launch with a grid that is too large or empty fails.
Oversized(g)  == LET d == GridShape(g) IN d[2] >= GridLimit \/ d[3] >= GridLimit
Launchable(g) == Tiles(g).k > 0 /\ ~Oversized(g)

CtaCount(g) == LET d == GridShape(g) IN d[1] * d[2] * d[3]

TileOffset(g, id) ==
  LET blockIdx == BlockIdx(g, id)
  IN  IF call.swizzle
      THEN [m |-> blockIdx[3], n |-> blockIdx[2], k |-> blockIdx[1]]
      ELSE [m |-> blockIdx[1], n |-> blockIdx[2], k |-> blockIdx[3]]

\* Loads and stores move `access` elements; does one go to an address that is
\* not a multiple of that?
Misaligned(g) ==
  \E op \in {g.A, g.B, g.D} :
    \/ op.base % access # 0 \/ op.ld % access # 0
    \/ Tiles(g).k > 1 /\ op.step % access # 0

\* The elements <<i, j>> of batch t.k that the CTA with tile t computes.
TileCells(g, t) ==
  {ij \in (t.m * TM .. t.m * TM + TM - 1) \X (t.n * TN .. t.n * TN + TN - 1) :
     ij[1] < g.m /\ ij[2] < g.n}

\* The addresses that a CTA stores to.
Stores(g, id) ==
  LET t == TileOffset(g, id) IN {Addr(g.D, t.k, ij[1], ij[2]) : ij \in TileCells(g, t)}

\* The pairs <<address in the input, address in W>> of an inner product.
InnerProduct(g, batch, i, j) ==
  {IF call.out = "token"
   THEN <<Addr(g.A, batch, i, p), Addr(g.B, batch, p, j)>>
   ELSE <<Addr(g.B, batch, p, j), Addr(g.A, batch, i, p)>> : p \in 0 .. g.k - 1}

-----------------------------------------------------------------------------
\* The rows of the result that the binding allocates (columns, in the token
\* layout): swz_s2 as many as its input has, the others what the product needs.
Rows == IF call.in = "feature" THEN Ktot ELSE nb * N

Init ==
  /\ call \in Calls
  /\ shape \in Shapes
  /\ fault \in {"none", "can_implement", "init_main", "run_main", "init_tail", "run_tail"}
  /\ error \in {"none", "last"}
  /\ pc = IF call.coded THEN "can_implement" ELSE "init_main"
  /\ rc = 0
  /\ queue = <<>>
  /\ issued = 0
  /\ running = {}
  /\ Y = [a \in 0 .. Rows * M - 1 |-> Unset]
  /\ stray = {}

device == <<queue, issued, running, Y, stray>>

Goto(from, to) == pc = from /\ pc' = to

\* With codes a step that fails returns one, and the extension raises.
\* Without, `initialize` prints a line and returns, as after a success.
Return(code) ==
  /\ rc' = IF call.coded THEN code ELSE rc
  /\ UNCHANGED device

\* can_implement() looks at the grid, and at the extents of the main GEMM
\* along its rows in memory; not at leading dimensions and batch strides.
CanImplement ==
  LET failing == \/ fault = "can_implement"
                 \/ Oversized(args_main)
                 \/ \E d \in {M, N, K} : d % access # 0
  IN  /\ Goto("can_implement", IF failing THEN "returned" ELSE "init_main")
      /\ Return(IF failing THEN 20 ELSE 0)
      /\ UNCHANGED <<call, shape, fault, error>>

InitMain ==
  /\ Goto("init_main", IF fault = "init_main" THEN "returned" ELSE "run_main")
  /\ Return(IF fault = "init_main" THEN 21 ELSE 0)
  /\ UNCHANGED <<call, shape, fault, error>>

\* Without a tail, or after it, the functions with codes look for errors.
AfterRuns == IF call.coded THEN "last_error" ELSE "returned"
HasTail == ~call.guarded \/ Ktail > 0

\* Does a launch fail, and does it seem to?  After a trap none succeeds; the
\* error that is read after a launch may be that of an earlier one.
Failing(step, g) == fault = step \/ error = "sticky" \/ ~Launchable(g)
Failed(step, g)  == call.coded /\ (Failing(step, g) \/ error # "none")
ReadError        == error' = IF error = "sticky" THEN error ELSE "none"

\* g(stm): the kernel is queued, unless the launch itself fails.
Run(g, failing) ==
  /\ queue' = IF failing THEN queue ELSE Append(queue, g)
  /\ ReadError
  /\ UNCHANGED <<call, shape, fault, issued, running, Y, stray>>

RunMain ==
  LET failed == Failed("run_main", args_main)
  IN  /\ Goto("run_main", IF failed THEN "returned"
                          ELSE IF HasTail THEN "init_tail" ELSE AfterRuns)
      /\ rc' = IF failed THEN 22 ELSE rc
      /\ Run(args_main, Failing("run_main", args_main))

InitTail ==
  /\ Goto("init_tail", IF fault = "init_tail" THEN "returned" ELSE "run_tail")
  /\ Return(IF fault = "init_tail" THEN 23 ELSE 0)
  /\ UNCHANGED <<call, shape, fault, error>>

\* Slip: the status of the second launch is dropped.
RunTailUnchecked ==
  /\ Goto("run_tail", AfterRuns)
  /\ rc' = rc
  /\ Run(args_tail, Failing("run_tail", args_tail))

RunTail ==
  /\ Goto("run_tail", IF Failed("run_tail", args_tail) THEN "returned" ELSE AfterRuns)
  /\ rc' = IF Failed("run_tail", args_tail) THEN 24 ELSE rc
  /\ Run(args_tail, Failing("run_tail", args_tail))

\* cudaGetLastError() at the end of the functions that return a code.
LastError ==
  /\ Goto("last_error", "returned")
  /\ Return(IF error # "none" THEN 25 ELSE 0)
  /\ ReadError
  /\ UNCHANGED <<call, shape, fault>>

-----------------------------------------------------------------------------
host == <<call, shape, fault, error, pc, rc>>

\* The device issues the next CTA of the kernel at the head of the stream.
Issue ==
  /\ queue # <<>> /\ issued < CtaCount(Head(queue))
  /\ running' = running \cup {issued}
  /\ issued' = issued + 1
  /\ UNCHANGED <<host, queue, Y, stray>>

\* A CTA has stored its tile, outside Y too if that is where its rows are.
Finish(id) ==
  LET g == Head(queue)
      t == TileOffset(g, id)
      written(a) == {ij \in TileCells(g, t) : Addr(g.D, t.k, ij[1], ij[2]) = a}
  IN  /\ id \in running /\ ~Misaligned(g)
      /\ running' = running \ {id}
      /\ Y' = [a \in DOMAIN Y |->
                 IF written(a) = {} THEN Y[a]
                 ELSE LET ij == CHOOSE ij \in written(a) : TRUE
                      IN  InnerProduct(g, t.k, ij[1], ij[2])]
      /\ stray' = stray \cup (Stores(g, id) \ DOMAIN Y)
      /\ UNCHANGED <<host, queue, issued>>

\* All CTAs of a kernel have ended, the next kernel may start.
Retire ==
  /\ queue # <<>> /\ issued = CtaCount(Head(queue)) /\ running = {}
  /\ queue' = Tail(queue)
  /\ issued' = 0
  /\ UNCHANGED <<host, running, Y, stray>>

\* A CTA traps on a misaligned address, or on one outside Y that is not mapped:
\* its kernel and all that follow are gone.
Trap ==
  /\ \E id \in running : Misaligned(Head(queue)) \/ ~(Stores(Head(queue), id) \subseteq DOMAIN Y)
  /\ error' = "sticky"
  /\ queue' = <<>> /\ issued' = 0 /\ running' = {}
  /\ UNCHANGED <<call, shape, fault, pc, rc, Y, stray>>

HostStep == CanImplement \/ InitMain \/ RunMain \/ InitTail \/ RunTail \/ LastError
Idle     == pc = "returned" /\ queue = <<>>
Done     == Idle /\ UNCHANGED vars

Next == HostStep \/ Issue \/ (\E id \in running : Finish(id)) \/ Trap \/ Retire \/ Done

Spec == Init /\ [][Next]_vars

-----------------------------------------------------------------------------
\* Where an element of X, W and Y is.
InputAddr(tok, col) == IF call.in = "token" THEN tok * Ktot + col ELSE col * M + tok
WeightAddr(block, p, o) == (block * K + p) * N + o
OutputAddr(tok, block, o) ==
  IF call.out = "token" THEN tok * nb * N + block * N + o ELSE (block * N + o) * M + tok

\* X[tok, b*stride : b*stride+K] @ W[b][:, o]
Reference(tok, block, o) ==
  {<<InputAddr(tok, block * stride + p), WeightAddr(block, p, o)>> :
     p \in {q \in 0 .. K - 1 : block * stride + q < Ktot}}

Token  == 0 .. M - 1
Block  == 0 .. nb - 1
Output == 0 .. N - 1

\* The blocks that a grid reaches: not the tail if the function sees that it has
\* no columns, and of the others only as many as the grid has batches.
Covered ==
  {block \in Block : IF block = nmain THEN HasTail /\ Launchable(args_tail)
                     ELSE Launchable(args_main) /\ block < Tiles(args_main).k}

Aligned == \A g \in {args_main, args_tail} : ~Misaligned(g)
Fits    == nb * N <= Rows

\* When everything has been launched, both GEMMs together have written every
\* element of every block they cover, in the layout promised, whatever order the
\* CTAs of the grid ended in, and left the other blocks as torch::empty did.
ProductComplete ==
  Idle /\ rc = 0 /\ fault = "none" /\ Aligned /\ Fits =>
    \A tok \in Token, block \in Block, o \in Output :
      Y[OutputAddr(tok, block, o)] = IF block \in Covered THEN Reference(tok, block, o) ELSE Unset

\* At any time, what has been written is right: no CTA reads a window that runs
\* into the next row of X, and each writes elements of its own block only, none
\* of them outside Y unless Y is too small for the product.
NothingWrong ==
  /\ \A a \in DOMAIN Y :
       \/ Y[a] = Unset
       \/ \E tok \in Token, block \in Block, o \in Output :
            a = OutputAddr(tok, block, o) /\ Y[a] = Reference(tok, block, o)
  /\ Fits => stray = {}

\* The product, in the rows of every block that has columns of X.
IsProduct ==
  \A tok \in Token, block \in Block, o \in Output : block * stride < Ktot =>
    Y[OutputAddr(tok, block, o)] = Reference(tok, block, o)

\* A function with codes never reports success for a Y that is not computed,
\* whichever step failed, as long as everything is aligned and the batch count
\* is not reduced.
SuccessIsComplete ==
  call.coded /\ Aligned /\ nmain < GridLimit /\ Idle /\ rc = 0 => IsProduct

\* No element is computed twice: what a CTA stores when it ends was unset.  The
\* blocks of the output do not overlap, nor do the tiles of a kernel.
WrittenOnce ==
  [][\A id \in running \ running' : queue' = queue =>
       \A a \in Stores(Head(queue), id) \cap DOMAIN Y : Y[a] = Unset]_vars

\* "adjacent blocks' overlap stays L2-resident": with the custom swizzle the
\* CTA issued before that of batch b > 0 is that of batch b - 1 and of the
\* same rows, the one that has just read the columns they share.
BatchFastest ==
  call \in {bdmm, bdmm_cfg, swz_s1, rowout_swz_s1, swz_s2} /\ queue # <<>> =>
    \A id \in running :
      LET t == TileOffset(Head(queue), id)
      IN  t.k > 0 => TileOffset(Head(queue), id - 1) = [t EXCEPT !.k = @ - 1]

\* The comment at run_cfg: "Returns 0 on success, nonzero if the tile can't run
\* the problem (bad alignment / smem over device limit / launch error)".
ZeroIsSuccess == call.coded /\ Idle /\ rc = 0 => IsProduct
=============================================================================
