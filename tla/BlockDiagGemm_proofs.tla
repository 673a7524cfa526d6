------------------------ MODULE BlockDiagGemm_proofs ------------------------
(***************************************************************************)
(* The invariants of BlockDiagGemm, proved for all functions, all shapes   *)
(* whose windows lie in X, all tiles and all orders in which CTAs end.     *)
(***************************************************************************)
EXTENDS BlockDiagGemm, DivisionLemmas, SequenceTheorems

byToken == call.out = "token"

\* The kernel and the batch that block `block` of the output is in, and the row
\* and column there of its element o for token tok.
GemmOf(block)  == IF block < nmain THEN args_main ELSE args_tail
BatchOf(block) == IF block < nmain THEN block ELSE 0
RowOf(tok, o)  == IF byToken THEN tok ELSE o
ColOf(tok, o)  == IF byToken THEN o ELSE tok

\* The CTA that computes element (i, j) of a batch.
Linear(g, t) ==
  LET d == GridShape(g)
  IN  IF call.swizzle THEN t.k + d[1] * (t.n + d[2] * t.m) ELSE t.m + d[1] * (t.n + d[2] * t.k)
CtaOf(g, batch, i, j) == Linear(g, [m |-> i \div TM, n |-> j \div TN, k |-> batch])
CellCta(tok, block, o) == CtaOf(GemmOf(block), BatchOf(block), RowOf(tok, o), ColOf(tok, o))

\* A kernel that the function launches, if no step of CUTLASS fails.
IsGemm(g) ==
  \/ g = args_main /\ Launchable(args_main)
  \/ g = args_tail /\ HasTail /\ Launchable(args_tail)

\* Where the kernel of a block is: at the head of the stream, behind another, or
\* not launched yet.
AtHead(block)  == block \in Covered /\ queue # <<>> /\ Head(queue) = GemmOf(block)
Behind(block)  == queue = <<args_main, args_tail>> /\ block = nmain
BeforeMain     == pc \in {"can_implement", "init_main", "run_main"}
BeforeTail     == pc \in {"init_tail", "run_tail"}
NotYet(block)  == BeforeMain \/ (BeforeTail /\ block = nmain)

\* The call goes well so far; then the kernel of a block has been launched when
\* the host is past it.
Well       == Aligned /\ Fits /\ rc = 0 /\ (call.coded \/ fault = "none")
Due(block) == Well /\ ~NotYet(block) /\ block \in Covered

-----------------------------------------------------------------------------
ShapeInv ==
  /\ call \in Calls /\ shape \in Shapes
  /\ fault \in {"none", "can_implement", "init_main", "run_main", "init_tail", "run_tail"}
  /\ error \in {"none", "last", "sticky"}
  /\ pc \in {"can_implement", "init_main", "run_main", "init_tail", "run_tail", "last_error", "returned"}
  /\ pc \in {"can_implement", "last_error"} => call.coded
  /\ pc # "returned" => rc = 0
  /\ pc \in {"init_tail", "run_tail"} => HasTail
  /\ Y = [a \in 0 .. Rows * M - 1 |-> Y[a]]

QueueInv ==
  /\ queue \in {<<>>, <<args_main>>, <<args_tail>>, <<args_main, args_tail>>}
  /\ queue \in {<<args_main>>, <<args_main, args_tail>>} => Launchable(args_main)
  /\ queue \in {<<args_tail>>, <<args_main, args_tail>>} => HasTail /\ Launchable(args_tail)
  /\ issued \in Nat
  /\ running \subseteq 0 .. issued - 1
  /\ queue = <<>> => issued = 0
  /\ queue # <<>> => issued <= CtaCount(Head(queue))
  /\ BeforeMain => queue = <<>>
  /\ BeforeTail => queue \in {<<>>, <<args_main>>}
  /\ error = "sticky" => queue = <<>> /\ ~(Aligned /\ Fits)

\* A function with codes goes on after a launch only if there was one.
LaunchInv ==
  call.coded /\ rc = 0 /\ ~BeforeMain =>
    /\ Launchable(args_main)
    /\ ~BeforeTail /\ HasTail => Launchable(args_tail)

\* An element y of a block is right or unset: unset until its CTA, id, has
\* ended, right from then on.
CellOk(block, y, id, ref) ==
  /\ y \in {Unset, ref}
  /\ AtHead(block) => y = IF id < issued /\ id \notin running THEN ref ELSE Unset
  /\ Behind(block) \/ NotYet(block) \/ block \notin Covered => y = Unset
  /\ Due(block) /\ ~AtHead(block) /\ ~Behind(block) => y = ref

CellInv ==
  \A tok \in Token, block \in Block, o \in Output : OutputAddr(tok, block, o) \in DOMAIN Y =>
    CellOk(block, Y[OutputAddr(tok, block, o)], CellCta(tok, block, o), Reference(tok, block, o))

\* Only elements of the output are ever stored to, in Y and outside.
IsOutput(a) == \E tok \in Token, block \in Block, o \in Output : a = OutputAddr(tok, block, o)
OthersInv ==
  /\ \A a \in DOMAIN Y : Y[a] = Unset \/ IsOutput(a)
  /\ \A a \in stray : a \notin DOMAIN Y /\ IsOutput(a)

IInv == ShapeInv /\ QueueInv /\ LaunchInv /\ CellInv /\ OthersInv

-----------------------------------------------------------------------------
\* The dimensions are positive, the windows lie in X, the last one perhaps not.
LEMMA Sizes ==
  ASSUME shape \in Shapes
  PROVE  /\ M \in Nat \ {0} /\ N \in Nat \ {0} /\ K \in Nat \ {0} /\ nb \in Nat \ {0}
         /\ stride \in Nat \ {0} /\ Ktot \in Nat /\ access \in Nat \ {0}
         /\ nmain \in Nat /\ nb = nmain + 1 /\ Ktail \in 0 .. K
         /\ TM \in Nat \ {0} /\ TN \in Nat \ {0} /\ GridLimit \in Nat \ {0, 1}
         /\ nmain * stride + Ktail = Ktot
         /\ \A block \in 0 .. nmain - 1 : block * stride + K <= Ktot
<1>1. /\ M \in Nat \ {0} /\ N \in Nat \ {0} /\ K \in Nat \ {0} /\ nb \in Nat \ {0}
      /\ stride \in Nat \ {0} /\ access \in Nat \ {0}
      /\ Ktot \in (nb - 1) * stride .. (nb - 1) * stride + K
      /\ nb > 1 => (nb - 2) * stride + K <= Ktot
      /\ TM \in Nat \ {0} /\ TN \in Nat \ {0} /\ GridLimit \in Nat \ {0, 1}
  BY GemmAssumption DEF M, N, K, nb, stride, access, Ktot
<1>2. PICK n \in Nat, s \in Nat \ {0} : n = nmain /\ nb = n + 1 /\ s = stride
  BY <1>1 DEF nmain
<1>3. PICK w \in Nat : w = n * s
  OBVIOUS
<1>4. (nb - 1) * stride = w
  BY <1>2, <1>3
<1>5. Ktot \in w .. w + K /\ Ktail = Ktot - w
  BY <1>1, <1>2, <1>3, <1>4 DEF Ktail
<1>6. Ktot \in Nat /\ Ktail \in 0 .. K /\ w + Ktail = Ktot
  BY <1>1, <1>5
<1>7. ASSUME NEW block \in 0 .. n - 1 PROVE block * s + K <= Ktot
  <2>1. nb > 1 /\ nb - 2 = n - 1 /\ n - 1 \in Int
    BY <1>2
  <2>2. block * s <= (n - 1) * s
    BY MulMono
  <2>3. (n - 1) * s + K <= Ktot
    BY <2>1, <1>1, <1>2
  <2>4. PICK p \in Int, q \in Int : p = block * s /\ q = (n - 1) * s
    OBVIOUS
  <2> QED
    BY <2>2, <2>3, <2>4, <1>1, <1>6
<1> QED
  BY <1>1, <1>2, <1>3, <1>6, <1>7

LEMMA CallType ==
  ASSUME call \in Calls
  PROVE  /\ call.in \in {"token", "feature"} /\ call.out \in {"token", "feature"}
         /\ call.out = "token" => call.in = "token"
         /\ call.coded => call.in = "token" /\ call.swizzle /\ call.guarded
         /\ call.swizzle \in BOOLEAN /\ call.coded \in BOOLEAN /\ call.guarded \in BOOLEAN
<1>1. call \in {bdmm, bdmm_cfg, swz_s1, noswz_s1, rowout_s1, rowout_swz_s1, swz_s2}
  BY GemmAssumption
<1>2. CASE call = bdmm
  BY <1>2 DEF bdmm, Fun
<1>3. CASE call = bdmm_cfg
  BY <1>3 DEF bdmm_cfg, Fun
<1>4. CASE call = swz_s1
  BY <1>4 DEF swz_s1, Fun
<1>5. CASE call = noswz_s1
  BY <1>5 DEF noswz_s1, Fun
<1>6. CASE call = rowout_s1
  BY <1>6 DEF rowout_s1, Fun
<1>7. CASE call = rowout_swz_s1
  BY <1>7 DEF rowout_swz_s1, Fun
<1>8. CASE call = swz_s2
  BY <1>8 DEF swz_s2, Fun
<1> QED
  BY <1>1, <1>2, <1>3, <1>4, <1>5, <1>6, <1>7, <1>8

\* The arguments of the two kernels.
LEMMA GemmType ==
  ASSUME call \in Calls, shape \in Shapes
  PROVE  /\ args_main.m = (IF byToken THEN M ELSE N) /\ args_main.n = (IF byToken THEN N ELSE M)
         /\ args_tail.m = args_main.m /\ args_tail.n = args_main.n
         /\ args_main.k = K /\ args_tail.k = Ktail
         /\ args_main.batches = nmain /\ args_tail.batches = 1
         /\ args_main # args_tail
<1>1. /\ args_main.m = (IF byToken THEN M ELSE N) /\ args_main.n = (IF byToken THEN N ELSE M)
      /\ args_tail.m = args_main.m /\ args_tail.n = args_main.n
      /\ args_main.k = K /\ args_tail.k = Ktail
      /\ args_main.batches = nmain /\ args_tail.batches = 1
  BY DEF args_main, args_tail, Arguments, byToken
<1>2. ASSUME args_main = args_tail PROVE FALSE
  <2>1. nmain = 1
    BY <1>1, <1>2
  <2>2. args_main.D.base = args_tail.D.base
    BY <1>2
  <2>3. PICK m \in Nat \ {0}, n \in Nat \ {0} : m = M /\ n = N
    BY Sizes
  <2>4. OutputOp(0, 1).base = OutputOp(1, 0).base
    BY <2>1, <2>2 DEF args_main, args_tail, Arguments
  <2>5. CASE byToken
    <3>1. OutputOp(0, 1).base = 0 * n /\ OutputOp(1, 0).base = 1 * n
      BY <2>3, <2>5 DEF OutputOp, Operand, byToken
    <3> QED
      BY <3>1, <2>3, <2>4
  <2>6. CASE ~byToken
    <3>1. OutputOp(0, 1).base = 0 * n * m /\ OutputOp(1, 0).base = 1 * n * m
      BY <2>3, <2>6 DEF OutputOp, Operand, byToken
    <3>2. 0 * n * m = 0 /\ 1 * n * m = n * m
      BY <2>3
    <3>3. 1 * m <= n * m /\ n * m \in Int
      BY <2>3, MulMono
    <3> QED
      BY <3>1, <3>2, <3>3, <2>3, <2>4
  <2> QED
    BY <2>5, <2>6
<1> QED
  BY <1>1, <1>2

\* Addresses: batch `batch` of a kernel that starts at block `first` and goes on
\* by `step` blocks is block first + batch * step.
LEMMA Addresses ==
  ASSUME call \in Calls, shape \in Shapes,
         NEW first \in Nat, NEW step \in Nat, NEW batch \in Nat, NEW batches, NEW depth,
         NEW block, block = first + batch * step,
         NEW tok \in Nat, NEW o \in Nat, NEW p \in Nat,
         NEW g, g = Arguments(first, batches, depth, step)
  PROVE  /\ Addr(g.D, batch, RowOf(tok, o), ColOf(tok, o)) = OutputAddr(tok, block, o)
         /\ byToken => /\ Addr(g.A, batch, tok, p) = InputAddr(tok, block * stride + p)
                       /\ Addr(g.B, batch, p, o) = WeightAddr(block, p, o)
         /\ ~byToken => /\ Addr(g.B, batch, p, tok) = InputAddr(tok, block * stride + p)
                        /\ Addr(g.A, batch, o, p) = WeightAddr(block, p, o)
<1>1. PICK m \in Nat, n \in Nat, kk \in Nat, b \in Nat, s \in Nat, kt \in Nat :
        m = M /\ n = N /\ kk = K /\ b = nb /\ s = stride /\ kt = Ktot
  BY Sizes
<1>2. block \in Nat
  <2>1. batch * step \in Nat
    OBVIOUS
  <2> QED
    BY <2>1
\* The distance of batches, in elements: X each.
<1>3. ASSUME NEW x \in Int PROVE first * x + batch * (step * x) = block * x /\ block * x \in Int
  BY <1>2, FactorOut
<1>4. CASE byToken
  <2>1. g.D = Operand(first * n, step * n, b * n, "RowMajor")
    BY <1>1, <1>4 DEF Arguments, OutputOp, byToken
  <2>2. g.A = Operand(first * s, step * s, kt, "RowMajor")
    BY <1>1, <1>4, CallType DEF Arguments, InputOp, byToken
  <2>3. g.B = Operand(first * kk * n, step * kk * n, n, "RowMajor")
    BY <1>1, <1>4 DEF Arguments, WeightOp, byToken
  <2>4. Addr(g.D, batch, tok, o) = tok * b * n + block * n + o
    <3>1. Addr(g.D, batch, tok, o) = first * n + batch * (step * n) + (tok * (b * n) + o)
      BY <2>1 DEF Addr, Operand
    <3>2. PICK u \in Int, v \in Int, w \in Int : u = first * n /\ v = batch * (step * n) /\ w = tok * (b * n)
      BY <1>1
    <3>3. tok * b * n = w /\ block * n = u + v
      BY <3>2, <1>1, <1>3
    <3> QED
      BY <3>1, <3>2, <3>3
  <2>5. Addr(g.A, batch, tok, p) = tok * kt + (block * s + p)
    <3>1. Addr(g.A, batch, tok, p) = first * s + batch * (step * s) + (tok * kt + p)
      BY <2>2 DEF Addr, Operand
    <3>2. PICK u \in Int, v \in Int, w \in Int : u = first * s /\ v = batch * (step * s) /\ w = tok * kt
      BY <1>1
    <3>3. block * s = u + v
      BY <3>2, <1>1, <1>3
    <3> QED
      BY <3>1, <3>2, <3>3
  <2>6. Addr(g.B, batch, p, o) = (block * kk + p) * n + o
    <3>1. Addr(g.B, batch, p, o) = first * kk * n + batch * (step * kk * n) + (p * n + o)
      BY <2>3 DEF Addr, Operand
    <3>2. PICK u \in Int, v \in Int, w \in Int, y \in Int :
            u = first * (kk * n) /\ v = batch * (step * (kk * n)) /\ w = p * n /\ y = block * (kk * n)
      BY <1>1, <1>2
    <3>3. y = u + v
      BY <3>2, <1>1, <1>3
    <3>4. first * kk * n = u /\ batch * (step * kk * n) = v
      BY <3>2, <1>1
    <3>5. (block * kk + p) * n = y + w
      BY <3>2, <1>1, <1>2
    <3> QED
      BY <3>1, <3>2, <3>3, <3>4, <3>5
  <2> QED
    BY <2>4, <2>5, <2>6, <1>1, <1>4, CallType
       DEF RowOf, ColOf, OutputAddr, InputAddr, WeightAddr, byToken
<1>5. CASE ~byToken
  <2>1. g.D = Operand(first * n * m, step * n * m, m, "RowMajor")
    BY <1>1, <1>5 DEF Arguments, OutputOp, byToken
  <2>2. g.B = IF call.in = "feature" THEN Operand(first * s * m, step * s * m, m, "RowMajor")
              ELSE Operand(first * s, step * s, kt, "ColumnMajor")
    BY <1>1, <1>5, CallType DEF Arguments, InputOp, byToken
  <2>3. g.A = Operand(first * kk * n, step * kk * n, n, "ColumnMajor")
    BY <1>1, <1>5 DEF Arguments, WeightOp, byToken
  <2>4. Addr(g.D, batch, o, tok) = (block * n + o) * m + tok
    <3>1. Addr(g.D, batch, o, tok) = first * n * m + batch * (step * n * m) + (o * m + tok)
      BY <2>1 DEF Addr, Operand
    <3>2. PICK u \in Int, v \in Int, w \in Int, y \in Int :
            u = first * (n * m) /\ v = batch * (step * (n * m)) /\ w = o * m /\ y = block * (n * m)
      BY <1>1, <1>2
    <3>3. y = u + v
      BY <3>2, <1>1, <1>3
    <3>4. first * n * m = u /\ batch * (step * n * m) = v
      BY <3>2, <1>1
    <3>5. (block * n + o) * m = y + w
      BY <3>2, <1>1, <1>2
    <3> QED
      BY <3>1, <3>2, <3>3, <3>4, <3>5
  <2>5. Addr(g.B, batch, p, tok) = InputAddr(tok, block * s + p)
    <3>1. CASE call.in = "feature"
      <4>1. Addr(g.B, batch, p, tok) = first * s * m + batch * (step * s * m) + (p * m + tok)
        BY <2>2, <3>1 DEF Addr, Operand
      <4>2. PICK u \in Int, v \in Int, w \in Int, y \in Int :
              u = first * (s * m) /\ v = batch * (step * (s * m)) /\ w = p * m /\ y = block * (s * m)
        BY <1>1, <1>2
      <4>3. y = u + v
        BY <4>2, <1>1, <1>3
      <4>4. first * s * m = u /\ batch * (step * s * m) = v
        BY <4>2, <1>1
      <4>5. (block * s + p) * m = y + w
        BY <4>2, <1>1, <1>2
      <4>6. InputAddr(tok, block * s + p) = (block * s + p) * m + tok
        BY <1>1, <3>1 DEF InputAddr
      <4> QED
        BY <4>1, <4>2, <4>3, <4>4, <4>5, <4>6
    <3>2. CASE call.in = "token"
      <4>1. Addr(g.B, batch, p, tok) = first * s + batch * (step * s) + (tok * kt + p)
        BY <2>2, <3>2 DEF Addr, Operand
      <4>2. PICK u \in Int, v \in Int, w \in Int : u = first * s /\ v = batch * (step * s) /\ w = tok * kt
        BY <1>1
      <4>3. block * s = u + v
        BY <4>2, <1>1, <1>3
      <4>4. InputAddr(tok, block * s + p) = tok * kt + (block * s + p)
        BY <1>1, <3>2 DEF InputAddr
      <4> QED
        BY <4>1, <4>2, <4>3, <4>4
    <3> QED
      BY <3>1, <3>2, CallType
  <2>6. Addr(g.A, batch, o, p) = (block * kk + p) * n + o
    <3>1. Addr(g.A, batch, o, p) = first * kk * n + batch * (step * kk * n) + (p * n + o)
      BY <2>3 DEF Addr, Operand
    <3>2. PICK u \in Int, v \in Int, w \in Int, y \in Int :
            u = first * (kk * n) /\ v = batch * (step * (kk * n)) /\ w = p * n /\ y = block * (kk * n)
      BY <1>1, <1>2
    <3>3. y = u + v
      BY <3>2, <1>1, <1>3
    <3>4. first * kk * n = u /\ batch * (step * kk * n) = v
      BY <3>2, <1>1
    <3>5. (block * kk + p) * n = y + w
      BY <3>2, <1>1, <1>2
    <3> QED
      BY <3>1, <3>2, <3>3, <3>4, <3>5
  <2> QED
    BY <2>4, <2>5, <2>6, <1>1, <1>5 DEF RowOf, ColOf, OutputAddr, WeightAddr, byToken
<1> QED
  BY <1>4, <1>5

\* A CTA reads what the reference reads: its window ends where X does.
LEMMA InnerIsReference ==
  ASSUME call \in Calls, shape \in Shapes,
         NEW tok \in Token, NEW block \in Block, NEW o \in Output
  PROVE  /\ InnerProduct(GemmOf(block), BatchOf(block), RowOf(tok, o), ColOf(tok, o)) =
              Reference(tok, block, o)
         /\ Addr(GemmOf(block).D, BatchOf(block), RowOf(tok, o), ColOf(tok, o)) =
              OutputAddr(tok, block, o)
<1> DEFINE g == GemmOf(block)
           batch == BatchOf(block)
<1>1. tok \in Nat /\ o \in Nat /\ block \in Nat /\ block < nb /\ nmain \in Nat /\ K \in Nat
  BY Sizes DEF Token, Output, Block
<1>2. PICK first \in Nat, step \in Nat, batches, depth \in Int :
        /\ g = Arguments(first, batches, depth, step) /\ block = first + batch * step
        /\ batch \in Nat
        /\ depth = IF block < nmain THEN K ELSE Ktail
  <2>1. CASE block < nmain
    <3>1. g = Arguments(0, nmain, K, 1) /\ batch = block /\ block = 0 + block * 1
      BY <2>1, <1>1 DEF GemmOf, BatchOf, args_main
    <3> QED
      BY <2>1, <3>1, <1>1
  <2>2. CASE ~(block < nmain)
    <3>1. g = Arguments(nmain, 1, Ktail, 0) /\ batch = 0 /\ block = nmain + 0 * 0
      BY <2>2, <1>1, Sizes DEF GemmOf, BatchOf, args_tail
    <3>2. Ktail \in Int
      BY Sizes
    <3> QED
      BY <2>2, <3>1, <3>2, <1>1
  <2> QED
    BY <2>1, <2>2
<1> HIDE DEF g, batch
<1>3. Addr(g.D, batch, RowOf(tok, o), ColOf(tok, o)) = OutputAddr(tok, block, o)
  <2>1. 0 \in Nat
    OBVIOUS
  <2> QED
    BY <2>1, <1>1, <1>2, Addresses
<1>4. \A p \in Nat :
        /\ byToken => /\ Addr(g.A, batch, tok, p) = InputAddr(tok, block * stride + p)
                      /\ Addr(g.B, batch, p, o) = WeightAddr(block, p, o)
        /\ ~byToken => /\ Addr(g.B, batch, p, tok) = InputAddr(tok, block * stride + p)
                       /\ Addr(g.A, batch, o, p) = WeightAddr(block, p, o)
  BY <1>1, <1>2, Addresses
<1>5. g.k = depth
  BY <1>2 DEF Arguments
<1>6. 0 .. g.k - 1 = {q \in 0 .. K - 1 : block * stride + q < Ktot}
  <2>1. PICK y \in Int, kt \in Nat : y = block * stride /\ kt = Ktot
    BY <1>1, Sizes
  <2>2. CASE block < nmain
    <3>1. y + K <= kt /\ depth = K
      BY <2>1, <2>2, <1>1, <1>2, Sizes
    <3> QED
      BY <3>1, <2>1, <1>1, <1>5
  <2>3. CASE ~(block < nmain)
    <3>1. block = nmain /\ depth = Ktail /\ Ktail \in 0 .. K
      BY <2>3, <1>1, <1>2, Sizes
    <3>2. y + depth = kt /\ depth \in 0 .. K
      BY <3>1, <2>1, Sizes
    <3> QED
      BY <3>2, <2>1, <1>1, <1>5
  <2> QED
    BY <2>2, <2>3
<1>7. \A p \in 0 .. g.k - 1 : p \in Nat
  BY <1>1, <1>2, <1>5
<1>8. InnerProduct(g, batch, RowOf(tok, o), ColOf(tok, o)) = Reference(tok, block, o)
  <2>1. CASE byToken
    <3>1. InnerProduct(g, batch, RowOf(tok, o), ColOf(tok, o)) =
            {<<Addr(g.A, batch, tok, p), Addr(g.B, batch, p, o)>> : p \in 0 .. g.k - 1}
      BY <2>1 DEF InnerProduct, RowOf, ColOf, byToken
    <3>2. @ = {<<InputAddr(tok, block * stride + p), WeightAddr(block, p, o)>> : p \in 0 .. g.k - 1}
      BY <2>1, <1>4, <1>7
    <3> QED
      BY <3>1, <3>2, <1>6 DEF Reference
  <2>2. CASE ~byToken
    <3>1. InnerProduct(g, batch, RowOf(tok, o), ColOf(tok, o)) =
            {<<Addr(g.B, batch, p, tok), Addr(g.A, batch, o, p)>> : p \in 0 .. g.k - 1}
      BY <2>2 DEF InnerProduct, RowOf, ColOf, byToken
    <3>2. @ = {<<InputAddr(tok, block * stride + p), WeightAddr(block, p, o)>> : p \in 0 .. g.k - 1}
      BY <2>2, <1>4, <1>7
    <3> QED
      BY <3>1, <3>2, <1>6 DEF Reference
  <2> QED
    BY <2>1, <2>2
<1> QED
  BY <1>3, <1>8 DEF g, batch

\* The blocks of the output do not overlap, and fill it.
LEMMA OutputApart ==
  ASSUME shape \in Shapes, call \in Calls,
         NEW tok \in Token, NEW block \in Block, NEW o \in Output
  PROVE  /\ OutputAddr(tok, block, o) \in 0 .. nb * N * M - 1
         /\ \A tok2 \in Token, block2 \in Block, o2 \in Output :
              OutputAddr(tok, block, o) = OutputAddr(tok2, block2, o2) =>
                tok = tok2 /\ block = block2 /\ o = o2
<1>1. PICK m \in Nat \ {0}, n \in Nat \ {0}, b \in Nat \ {0} : m = M /\ n = N /\ b = nb
  BY Sizes
<1>2. Token = 0 .. m - 1 /\ Block = 0 .. b - 1 /\ Output = 0 .. n - 1
  BY <1>1 DEF Token, Block, Output
<1>3. CASE byToken
  <2>1. ASSUME NEW t \in Token, NEW bl \in Block, NEW q \in Output
        PROVE  OutputAddr(t, bl, q) = (t * b + bl) * n + q /\ t * b + bl \in Int
    <3>1. OutputAddr(t, bl, q) = t * b * n + bl * n + q
      BY <1>1, <1>3 DEF OutputAddr, byToken
    <3>2. (t * b + bl) * n = t * b * n + bl * n /\ t * b + bl \in Int
      BY <1>2
    <3>3. PICK u \in Int, v \in Int : u = t * b * n /\ v = bl * n
      BY <1>2
    <3> QED
      BY <3>1, <3>2, <3>3
  <2>2. ASSUME NEW t \in Token, NEW bl \in Block, NEW q \in Output,
               OutputAddr(tok, block, o) = OutputAddr(t, bl, q)
        PROVE  tok = t /\ block = bl /\ o = q
    <3>1. (tok * b + block) * n + o = (t * b + bl) * n + q
      BY <2>1, <2>2
    <3>2. tok * b + block = t * b + bl /\ o = q
      <4>1. PICK x \in Int, y \in Int : x = tok * b + block /\ y = t * b + bl
        BY <2>1
      <4>2. x * n + o = y * n + q /\ o \in 0 .. n - 1 /\ q \in 0 .. n - 1
        BY <3>1, <4>1, <1>2
      <4> QED
        BY <4>1, <4>2, TwoDigits
    <3>3. tok = t /\ block = bl
      BY <3>2, <1>2, TwoDigits
    <3> QED
      BY <3>2, <3>3
  <2>3. OutputAddr(tok, block, o) \in 0 .. b * n * m - 1
    <3>1. PICK u \in Nat : u = tok * b
      BY <1>2
    <3>2. u + b <= m * b
      <4>1. (tok + 1) * b <= m * b /\ (tok + 1) * b = tok * b + b
        BY <1>2, MulMono
      <4> QED
        BY <4>1, <3>1
    <3>3. PICK w \in Nat : w = u + block
      BY <1>2, <3>1
    <3>4. PICK v \in Nat : v = w * n /\ OutputAddr(tok, block, o) = v + o
      BY <2>1, <3>1, <3>3
    <3>5. PICK y \in Nat : y = m * b
      OBVIOUS
    <3>6. (w + 1) * n <= y * n /\ (w + 1) * n = w * n + n
      <4>1. w + 1 <= y
        BY <3>2, <3>3, <3>5, <1>2
      <4> QED
        BY <4>1, MulMono
    <3>7. y * n = b * n * m
      BY <3>5
    <3>8. PICK e \in Int : e = b * n * m
      OBVIOUS
    <3> QED
      BY <3>4, <3>6, <3>7, <3>8, <1>2
  <2> QED
    BY <1>1, <2>2, <2>3
<1>4. CASE ~byToken
  <2>1. ASSUME NEW t \in Token, NEW bl \in Block, NEW q \in Output
        PROVE  OutputAddr(t, bl, q) = (bl * n + q) * m + t /\ bl * n + q \in Int
    BY <1>1, <1>2, <1>4 DEF OutputAddr, byToken
  <2>2. ASSUME NEW t \in Token, NEW bl \in Block, NEW q \in Output,
               OutputAddr(tok, block, o) = OutputAddr(t, bl, q)
        PROVE  tok = t /\ block = bl /\ o = q
    <3>1. (block * n + o) * m + tok = (bl * n + q) * m + t
      BY <2>1, <2>2
    <3>2. block * n + o = bl * n + q /\ tok = t
      <4>1. PICK x \in Int, y \in Int : x = block * n + o /\ y = bl * n + q
        BY <2>1
      <4>2. x * m + tok = y * m + t /\ tok \in 0 .. m - 1 /\ t \in 0 .. m - 1
        BY <3>1, <4>1, <1>2
      <4> QED
        BY <4>1, <4>2, TwoDigits
    <3>3. block = bl /\ o = q
      BY <3>2, <1>2, TwoDigits
    <3> QED
      BY <3>2, <3>3
  <2>3. OutputAddr(tok, block, o) \in 0 .. b * n * m - 1
    <3>1. PICK u \in Nat : u = block * n
      BY <1>2
    <3>2. u + n <= b * n
      <4>1. (block + 1) * n <= b * n /\ (block + 1) * n = block * n + n
        BY <1>2, MulMono
      <4> QED
        BY <4>1, <3>1
    <3>3. PICK w \in Nat : w = u + o
      BY <1>2, <3>1
    <3>4. PICK v \in Nat : v = w * m /\ OutputAddr(tok, block, o) = v + tok
      BY <2>1, <3>1, <3>3
    <3>5. PICK y \in Nat : y = b * n
      OBVIOUS
    <3>6. (w + 1) * m <= y * m /\ (w + 1) * m = w * m + m
      <4>1. w + 1 <= y
        BY <3>2, <3>3, <3>5, <1>2
      <4> QED
        BY <4>1, MulMono
    <3>7. y * m = b * n * m
      BY <3>5
    <3>8. PICK e \in Int : e = b * n * m
      OBVIOUS
    <3> QED
      BY <3>4, <3>6, <3>7, <3>8, <1>2
  <2> QED
    BY <1>1, <2>2, <2>3
<1> QED
  BY <1>3, <1>4

-----------------------------------------------------------------------------
LEMMA GridType ==
  ASSUME call \in Calls, shape \in Shapes, NEW g, IsGemm(g)
  PROVE  /\ g.m \in Nat \ {0} /\ g.n \in Nat \ {0}
         /\ Tiles(g).m \in Nat \ {0} /\ Tiles(g).n \in Nat \ {0} /\ Tiles(g).k \in Nat \ {0}
         /\ Tiles(g).k <= g.batches
         /\ Tiles(g).m = (g.m + TM - 1) \div TM /\ Tiles(g).n = (g.n + TN - 1) \div TN
<1>1. /\ g.m \in Nat \ {0} /\ g.n \in Nat \ {0} /\ g.batches \in Nat
      /\ TM \in Nat \ {0} /\ TN \in Nat \ {0} /\ GridLimit \in Nat \ {0}
  BY GemmType, Sizes DEF IsGemm
<1>2. ASSUME NEW a \in Nat \ {0}, NEW d \in Nat \ {0} PROVE (a + d - 1) \div d \in Nat \ {0}
  <2>1. 0 \in 0 .. a - 1 /\ a \in Nat
    OBVIOUS
  <2>2. 0 \div d \in 0 .. (a + d - 1) \div d - 1
    BY <2>1, TileUnique
  <2>3. a + d - 1 \in Nat
    OBVIOUS
  <2>4. (a + d - 1) \div d \in Nat /\ 0 \div d \in Nat
    BY <2>3, DivMod
  <2> QED
    BY <2>2, <2>4
<1>3. Tiles(g).k \in Nat \ {0} /\ Tiles(g).k <= g.batches
  <2>1. PICK b \in Nat, l \in Nat \ {0} : b = g.batches /\ l = GridLimit
    BY <1>1
  <2>2. b % l \in Nat /\ b % l <= b
    <3>1. PICK q \in Nat, r \in 0 .. l - 1 : r = b % l /\ b = q * l + r
      BY DivMod
    <3>2. q * l \in Nat
      OBVIOUS
    <3> QED
      BY <3>1, <3>2
  <2>3. Tiles(g).k \in {b, b % l}
    BY <2>1 DEF Tiles
  <2>4. Tiles(g).k > 0
    BY DEF IsGemm, Launchable
  <2> QED
    BY <2>1, <2>2, <2>3, <2>4
<1>4. Tiles(g).m = Ceil(g.m, TM) /\ Tiles(g).n = Ceil(g.n, TN)
  BY DEF Tiles
<1> QED
  BY <1>1, <1>2, <1>3, <1>4 DEF Ceil

\* A CTA's linear index and its tile determine each other.
InGrid(g, t) ==
  /\ t = [m |-> t.m, n |-> t.n, k |-> t.k]
  /\ t.m \in 0 .. Tiles(g).m - 1 /\ t.n \in 0 .. Tiles(g).n - 1 /\ t.k \in 0 .. Tiles(g).k - 1

LEMMA Places ==
  ASSUME call \in Calls, shape \in Shapes, NEW g, IsGemm(g)
  PROVE  /\ CtaCount(g) \in Nat
         /\ \A id \in 0 .. CtaCount(g) - 1 :
              InGrid(g, TileOffset(g, id)) /\ id = Linear(g, TileOffset(g, id))
         /\ \A t : InGrid(g, t) => Linear(g, t) \in 0 .. CtaCount(g) - 1 /\ TileOffset(g, Linear(g, t)) = t
<1>1. PICK tm \in Nat \ {0}, tn \in Nat \ {0}, tk \in Nat \ {0} :
        tm = Tiles(g).m /\ tn = Tiles(g).n /\ tk = Tiles(g).k
  BY GridType
<1>2. PICK d1 \in Nat \ {0}, d2 \in Nat \ {0}, d3 \in Nat \ {0} :
        /\ GridShape(g) = <<d1, d2, d3>>
        /\ call.swizzle => d1 = tk /\ d2 = tn /\ d3 = tm
        /\ ~call.swizzle => d1 = tm /\ d2 = tn /\ d3 = tk
  BY <1>1 DEF GridShape
<1>3. CtaCount(g) = d1 * d2 * d3 /\ d1 * d2 * d3 \in Nat
  <2>1. d1 * d2 \in Nat
    OBVIOUS
  <2> QED
    BY <2>1, <1>2 DEF CtaCount
<1>4. ASSUME NEW id \in 0 .. CtaCount(g) - 1
      PROVE  InGrid(g, TileOffset(g, id)) /\ id = Linear(g, TileOffset(g, id))
  <2>1. id \in Nat /\ id < d1 * d2 * d3
    BY <1>3
  <2>2. PICK x \in 0 .. d1 - 1, y \in 0 .. d2 - 1, w \in 0 .. d3 - 1 :
          /\ x = id % d1 /\ y = (id \div d1) % d2 /\ w = id \div (d1 * d2)
          /\ id = x + d1 * (y + d2 * w)
    <3>1. PICK u \in Nat, x \in 0 .. d1 - 1 : u = id \div d1 /\ x = id % d1 /\ id = u * d1 + x
      BY <2>1, DivMod
    <3>2. PICK w \in Nat, y \in 0 .. d2 - 1 : w = u \div d2 /\ y = u % d2 /\ u = w * d2 + y
      BY DivMod
    <3>3. id \div (d1 * d2) = w /\ id = x + d1 * (y + d2 * w)
      <4>1. id = u * d1 + x /\ u = w * d2 + y
        BY <3>1, <3>2
      <4> QED
        BY <2>1, <4>1, DivDiv
    <3>4. w < d3
      <4>1. PICK v \in Nat : v = d2 * d3
        OBVIOUS
      <4>2. PICK size \in Nat : size = d1 * v
        BY <4>1
      <4>3. id < size /\ x \in Nat /\ y \in Nat /\ id \in Nat /\ d3 \in Nat
        BY <2>1, <4>1, <4>2
      <4> QED
        BY <3>1, <3>2, <4>1, <4>2, <4>3, HighDigit
    <3>5. y = (id \div d1) % d2
      BY <3>1, <3>2, Zenon
    <3>6. w \in 0 .. d3 - 1
      BY <3>4
    <3> QED
      BY <3>1, <3>3, <3>5, <3>6, Zenon
  <2>3. BlockIdx(g, id) = <<x, y, w>>
    BY <2>2, <1>2 DEF BlockIdx
  <2>4. TileOffset(g, id) = IF call.swizzle THEN [m |-> w, n |-> y, k |-> x] ELSE [m |-> x, n |-> y, k |-> w]
    BY <2>3 DEF TileOffset
  <2>5. id = Linear(g, TileOffset(g, id))
    <3>1. CASE call.swizzle
      BY <3>1, <2>2, <2>4, <1>2 DEF Linear
    <3>2. CASE ~call.swizzle
      BY <3>2, <2>2, <2>4, <1>2 DEF Linear
    <3> QED
      BY <3>1, <3>2
  <2>6. InGrid(g, TileOffset(g, id))
    <3>1. CASE call.swizzle
      BY <3>1, <2>4, <1>1, <1>2 DEF InGrid
    <3>2. CASE ~call.swizzle
      BY <3>2, <2>4, <1>1, <1>2 DEF InGrid
    <3> QED
      BY <3>1, <3>2
  <2> QED
    BY <2>5, <2>6
<1>5. ASSUME NEW t, InGrid(g, t)
      PROVE  Linear(g, t) \in 0 .. CtaCount(g) - 1 /\ TileOffset(g, Linear(g, t)) = t
  <2>1. PICK x \in 0 .. d1 - 1, y \in 0 .. d2 - 1, w \in 0 .. d3 - 1 :
          /\ t = IF call.swizzle THEN [m |-> w, n |-> y, k |-> x] ELSE [m |-> x, n |-> y, k |-> w]
          /\ Linear(g, t) = x + d1 * (y + d2 * w)
    <3>1. CASE call.swizzle
      BY <3>1, <1>1, <1>2, <1>5 DEF InGrid, Linear
    <3>2. CASE ~call.swizzle
      BY <3>2, <1>1, <1>2, <1>5 DEF InGrid, Linear
    <3> QED
      BY <3>1, <3>2
  <2>2. PICK id : id = Linear(g, t)
    OBVIOUS
  <2>3. /\ id \in Nat /\ id < d1 * d2 * d3
        /\ id % d1 = x /\ (id \div d1) % d2 = y /\ id \div (d1 * d2) = w
    BY <2>1, <2>2, OfDigits
  <2>4. BlockIdx(g, id) = <<x, y, w>>
    BY <2>3, <1>2 DEF BlockIdx
  <2>5. TileOffset(g, id) = t
    BY <2>1, <2>4 DEF TileOffset
  <2> QED
    BY <2>2, <2>3, <2>5, <1>3
<1> QED
  BY <1>3, <1>4, <1>5

\* Every element of a covered block is in the tile of one CTA of its kernel.
LEMMA CellPlace ==
  ASSUME call \in Calls, shape \in Shapes,
         NEW tok \in Token, NEW block \in Covered, NEW o \in Output
  PROVE  /\ block \in Block /\ IsGemm(GemmOf(block))
         /\ CellCta(tok, block, o) \in 0 .. CtaCount(GemmOf(block)) - 1
         /\ \A id \in 0 .. CtaCount(GemmOf(block)) - 1 :
              LET t == TileOffset(GemmOf(block), id)
              IN  (t.k = BatchOf(block) /\ <<RowOf(tok, o), ColOf(tok, o)>> \in TileCells(GemmOf(block), t))
                  <=> id = CellCta(tok, block, o)
<1> DEFINE g == GemmOf(block)
           i == RowOf(tok, o)
           j == ColOf(tok, o)
<1>1. block \in Block /\ block \in Nat /\ block <= nmain /\ nmain \in Nat
  BY Sizes DEF Block, Covered
<1>2. IsGemm(g) /\ BatchOf(block) \in 0 .. Tiles(g).k - 1
  <2>1. CASE block < nmain
    BY <2>1, <1>1, GridType DEF IsGemm, GemmOf, BatchOf, Covered
  <2>2. CASE block = nmain
    <3>1. IsGemm(g) /\ BatchOf(block) = 0
      BY <2>2, <1>1 DEF IsGemm, GemmOf, BatchOf, Covered
    <3> QED
      BY <3>1, GridType
  <2> QED
    BY <2>1, <2>2, <1>1
<1>3. i \in 0 .. g.m - 1 /\ j \in 0 .. g.n - 1 /\ g.m \in Nat /\ g.n \in Nat
  BY <1>1, GemmType, Sizes DEF GemmOf, RowOf, ColOf, Token, Output
<1>4. TM \in Nat \ {0} /\ TN \in Nat \ {0}
  BY Sizes
<1>5. /\ i \div TM \in 0 .. Tiles(g).m - 1 /\ j \div TN \in 0 .. Tiles(g).n - 1
      /\ \A q \in Int : i \in q * TM .. q * TM + TM - 1 <=> q = i \div TM
      /\ \A q \in Int : j \in q * TN .. q * TN + TN - 1 <=> q = j \div TN
  <2>1. Tiles(g).m = (g.m + TM - 1) \div TM /\ Tiles(g).n = (g.n + TN - 1) \div TN
    BY <1>2, GridType
  <2>2. PICK a \in Nat, b \in Nat, x \in Nat, y \in Nat :
          a = g.m /\ b = g.n /\ x = i /\ y = j /\ x \in 0 .. a - 1 /\ y \in 0 .. b - 1
    BY <1>3
  <2>3. PICK d \in Nat \ {0}, e \in Nat \ {0} : d = TM /\ e = TN
    BY <1>4
  <2>4. /\ x \div d \in 0 .. (a + d - 1) \div d - 1
        /\ \A q \in Int : x \in q * d .. q * d + d - 1 <=> q = x \div d
    BY <2>2, TileUnique
  <2>5. /\ y \div e \in 0 .. (b + e - 1) \div e - 1
        /\ \A q \in Int : y \in q * e .. q * e + e - 1 <=> q = y \div e
    BY <2>2, TileUnique
  <2> QED
    BY <2>1, <2>2, <2>3, <2>4, <2>5
<1> DEFINE home == [m |-> i \div TM, n |-> j \div TN, k |-> BatchOf(block)]
<1>6. InGrid(g, home) /\ CellCta(tok, block, o) = Linear(g, home)
  BY <1>2, <1>5 DEF InGrid, CellCta, CtaOf
<1>7. ASSUME NEW t, InGrid(g, t)
      PROVE  (t.k = BatchOf(block) /\ <<i, j>> \in TileCells(g, t)) <=> t = home
  <2>1. t.m \in Int /\ t.n \in Int /\ t = [m |-> t.m, n |-> t.n, k |-> t.k]
    BY <1>7 DEF InGrid
  <2>2. <<i, j>> \in TileCells(g, t) <=>
          i \in t.m * TM .. t.m * TM + TM - 1 /\ j \in t.n * TN .. t.n * TN + TN - 1
    BY <1>3 DEF TileCells
  <2>3. <<i, j>> \in TileCells(g, t) <=> t.m = i \div TM /\ t.n = j \div TN
    BY <2>1, <2>2, <1>5
  <2>4. t = home <=> t.m = i \div TM /\ t.n = j \div TN /\ t.k = BatchOf(block)
    BY <2>1
  <2> QED
    BY <2>3, <2>4
<1> HIDE DEF g, i, j, home
<1>8. ASSUME NEW id \in 0 .. CtaCount(g) - 1
      PROVE  (TileOffset(g, id).k = BatchOf(block) /\ <<i, j>> \in TileCells(g, TileOffset(g, id)))
             <=> id = CellCta(tok, block, o)
  <2>1. InGrid(g, TileOffset(g, id)) /\ id = Linear(g, TileOffset(g, id))
    BY <1>2, Places
  <2>2. TileOffset(g, id) = home <=> id = Linear(g, home)
    BY <2>1, <1>2, <1>6, Places
  <2> QED
    BY <2>1, <2>2, <1>6, <1>7
<1> QED
  BY <1>1, <1>2, <1>6, <1>8, Places DEF g, i, j

\* And what a CTA writes is an element of the output.
LEMMA CellOf ==
  ASSUME call \in Calls, shape \in Shapes, NEW g, IsGemm(g),
         NEW id \in 0 .. CtaCount(g) - 1, NEW ij \in TileCells(g, TileOffset(g, id))
  PROVE  \E tok \in Token, block \in Covered, o \in Output :
           /\ g = GemmOf(block) /\ TileOffset(g, id).k = BatchOf(block)
           /\ ij = <<RowOf(tok, o), ColOf(tok, o)>>
<1> DEFINE t == TileOffset(g, id)
<1>1. InGrid(g, t)
  BY Places
<1>2. /\ TM \in Nat \ {0} /\ TN \in Nat \ {0} /\ nmain \in Nat /\ nb = nmain + 1
      /\ M \in Nat /\ N \in Nat
  BY Sizes
<1> HIDE DEF t
<1>3. PICK i \in Nat, j \in Nat : ij = <<i, j>> /\ i < g.m /\ j < g.n
  <2>1. t.m \in Nat /\ t.n \in Nat
    BY <1>1 DEF InGrid
  <2>2. PICK u \in Nat, v \in Nat : u = t.m * TM /\ v = t.n * TN
    BY <2>1, <1>2
  <2>3. ij \in (u .. u + TM - 1) \X (v .. v + TN - 1) /\ ij[1] < g.m /\ ij[2] < g.n
    BY <2>2 DEF TileCells, t
  <2> QED
    BY <2>3, <1>2
<1>4. PICK tok \in Token, o \in Output : i = RowOf(tok, o) /\ j = ColOf(tok, o)
  <2>1. CASE byToken
    <3>1. i \in Token /\ j \in Output
      BY <2>1, <1>2, <1>3, GemmType DEF IsGemm, Token, Output
    <3> QED
      BY <2>1, <3>1 DEF RowOf, ColOf
  <2>2. CASE ~byToken
    <3>1. j \in Token /\ i \in Output
      BY <2>2, <1>2, <1>3, GemmType DEF IsGemm, Token, Output
    <3> QED
      BY <2>2, <3>1 DEF RowOf, ColOf
  <2> QED
    BY <2>1, <2>2
<1>5. PICK block \in Covered : g = GemmOf(block) /\ t.k = BatchOf(block)
  <2>1. CASE g = args_main /\ Launchable(args_main)
    <3>1. t.k \in 0 .. Tiles(args_main).k - 1 /\ Tiles(args_main).k \in Nat /\ Tiles(args_main).k <= nmain
      BY <2>1, <1>1, GemmType, GridType DEF InGrid
    <3>2. t.k < nmain /\ t.k < Tiles(args_main).k /\ t.k \in Block
      BY <3>1, <1>2 DEF Block
    <3>3. t.k \in Covered
      BY <2>1, <3>2, <1>2, <3>1 DEF Covered
    <3> QED
      BY <2>1, <3>2, <3>3 DEF GemmOf, BatchOf
  <2>2. CASE g = args_tail /\ HasTail /\ Launchable(args_tail)
    <3>1. t.k = 0
      BY <2>2, <1>1, GemmType, GridType DEF InGrid
    <3>2. nmain \in Covered
      BY <2>2, <1>2 DEF Covered, Block
    <3> QED
      BY <2>2, <3>1, <3>2, <1>2 DEF GemmOf, BatchOf
  <2> QED
    BY <2>1, <2>2 DEF IsGemm
<1> QED
  BY <1>3, <1>4, <1>5 DEF t

\* The kernel that runs, and a CTA of it.
LEMMA Running ==
  ASSUME ShapeInv, QueueInv, NEW id \in running
  PROVE  queue # <<>> /\ IsGemm(Head(queue)) /\ id \in 0 .. CtaCount(Head(queue)) - 1
<1> DEFINE g == Head(queue)
<1>1. call \in Calls /\ shape \in Shapes
  BY DEF ShapeInv
<1>2. id \in 0 .. issued - 1 /\ issued \in Nat
  BY DEF QueueInv
<1>3. queue # <<>>
  BY <1>2 DEF QueueInv
<1>4. issued <= CtaCount(g)
  BY <1>3 DEF QueueInv
<1>5. IsGemm(g)
  <2>1. queue \in {<<args_main>>, <<args_tail>>, <<args_main, args_tail>>}
    BY <1>3 DEF QueueInv
  <2>2. CASE queue = <<args_tail>>
    BY <2>2 DEF QueueInv, IsGemm
  <2>3. CASE queue = <<args_main>> \/ queue = <<args_main, args_tail>>
    BY <2>3 DEF QueueInv, IsGemm
  <2> QED
    BY <2>1, <2>2, <2>3
<1>6. CtaCount(g) \in Nat
  BY <1>5, <1>1, Places
<1> QED
  BY <1>2, <1>3, <1>4, <1>5, <1>6

\* What a CTA stores are elements of the output of its own, each the one that
\* belongs there.
LEMMA StoresOwn ==
  ASSUME ShapeInv, QueueInv, NEW id \in running,
         NEW ij \in TileCells(Head(queue), TileOffset(Head(queue), id))
  PROVE  LET g == Head(queue)
             t == TileOffset(g, id)
         IN  \E tok \in Token, block \in Block, o \in Output :
               /\ Addr(g.D, t.k, ij[1], ij[2]) = OutputAddr(tok, block, o)
               /\ InnerProduct(g, t.k, ij[1], ij[2]) = Reference(tok, block, o)
               /\ AtHead(block) /\ id = CellCta(tok, block, o)
<1> DEFINE g == Head(queue)
           t == TileOffset(g, id)
<1>1. call \in Calls /\ shape \in Shapes
  BY DEF ShapeInv
<1>2. queue # <<>> /\ IsGemm(g) /\ id \in 0 .. CtaCount(g) - 1
  BY Running
<1>3. PICK tok \in Token, block \in Covered, o \in Output :
        /\ g = GemmOf(block) /\ t.k = BatchOf(block)
        /\ ij = <<RowOf(tok, o), ColOf(tok, o)>>
  BY <1>1, <1>2, CellOf
<1>4. block \in Block /\ AtHead(block)
  BY <1>2, <1>3 DEF AtHead, Covered
<1>5. id = CellCta(tok, block, o)
  BY <1>3, <1>1, <1>2, CellPlace
<1>6. ij[1] = RowOf(tok, o) /\ ij[2] = ColOf(tok, o)
  BY <1>3
<1>7. /\ Addr(g.D, t.k, ij[1], ij[2]) = OutputAddr(tok, block, o)
      /\ InnerProduct(g, t.k, ij[1], ij[2]) = Reference(tok, block, o)
  BY <1>3, <1>4, <1>6, <1>1, InnerIsReference
<1> QED
  BY <1>4, <1>5, <1>7

\* If Y has room for the product, the product is in Y.
LEMMA FitsY ==
  ASSUME ShapeInv, Fits, NEW a, IsOutput(a)
  PROVE  a \in DOMAIN Y
<1>1. call \in Calls /\ shape \in Shapes /\ DOMAIN Y = 0 .. Rows * M - 1
  BY DEF ShapeInv
<1>2. PICK m \in Nat, p \in Int, r \in Int : m = M /\ p = nb * N /\ r = Rows
  BY <1>1, Sizes DEF Rows
<1>3. p * m <= r * m
  BY <1>2, MulMono DEF Fits
<1>4. PICK u \in Int, v \in Int : u = p * m /\ v = r * m
  OBVIOUS
<1>5. a \in 0 .. u - 1
  BY <1>1, <1>2, <1>4, OutputApart DEF IsOutput
<1>6. DOMAIN Y = 0 .. v - 1
  BY <1>1, <1>2, <1>4
<1> QED
  BY <1>3, <1>4, <1>5, <1>6

\* A CTA that ends stores the reference in its own elements, and no others.
LEMMA FinishEffect ==
  ASSUME ShapeInv, QueueInv, NEW id \in running, Finish(id)
  PROVE  /\ \A tok \in Token, block \in Block, o \in Output :
              OutputAddr(tok, block, o) \in DOMAIN Y =>
                Y'[OutputAddr(tok, block, o)] =
                  IF AtHead(block) /\ id = CellCta(tok, block, o) THEN Reference(tok, block, o)
                  ELSE Y[OutputAddr(tok, block, o)]
         /\ \A a \in DOMAIN Y : Y'[a] = Y[a] \/ IsOutput(a)
         /\ \A a \in stray' : a \in stray \/ (a \notin DOMAIN Y /\ IsOutput(a))
         /\ DOMAIN Y' = DOMAIN Y /\ Y' = [a \in DOMAIN Y |-> Y'[a]]
<1> DEFINE g == Head(queue)
           t == TileOffset(g, id)
           written(a) == {ij \in TileCells(g, t) : Addr(g.D, t.k, ij[1], ij[2]) = a}
<1>1. call \in Calls /\ shape \in Shapes
  BY DEF ShapeInv
<1>2. queue # <<>> /\ IsGemm(g) /\ id \in 0 .. CtaCount(g) - 1
  BY Running
<1>3. Y' = [a \in DOMAIN Y |-> IF written(a) = {} THEN Y[a]
              ELSE LET ij == CHOOSE ij \in written(a) : TRUE IN InnerProduct(g, t.k, ij[1], ij[2])]
  BY DEF Finish
\* Whoever writes to an address is the element that is there.
<1>4. ASSUME NEW a, NEW ij \in written(a)
      PROVE  \E tok \in Token, block \in Block, o \in Output :
               /\ a = OutputAddr(tok, block, o) /\ AtHead(block) /\ id = CellCta(tok, block, o)
               /\ InnerProduct(g, t.k, ij[1], ij[2]) = Reference(tok, block, o)
  <2>1. a = Addr(g.D, t.k, ij[1], ij[2]) /\ ij \in TileCells(g, t)
    BY <1>4
  <2> QED
    BY <2>1, StoresOwn
<1>5. ASSUME NEW tok \in Token, NEW block \in Block, NEW o \in Output,
             AtHead(block), id = CellCta(tok, block, o)
      PROVE  written(OutputAddr(tok, block, o)) # {}
  <2>1. g = GemmOf(block) /\ block \in Covered
    BY <1>5 DEF AtHead
  <2>2. t.k = BatchOf(block) /\ <<RowOf(tok, o), ColOf(tok, o)>> \in TileCells(g, t)
    BY <2>1, <1>1, <1>2, <1>5, CellPlace
  <2>3. Addr(g.D, t.k, RowOf(tok, o), ColOf(tok, o)) = OutputAddr(tok, block, o)
    BY <2>1, <2>2, <1>1, InnerIsReference
  <2>4. <<RowOf(tok, o), ColOf(tok, o)>> \in written(OutputAddr(tok, block, o))
    BY <2>2, <2>3
  <2> QED
    BY <2>4
<1>6. ASSUME NEW a \in stray' PROVE a \in stray \/ (a \notin DOMAIN Y /\ IsOutput(a))
  <2>1. stray' = stray \cup (Stores(g, id) \ DOMAIN Y)
    BY DEF Finish
  <2>2. ASSUME a \in Stores(g, id) PROVE IsOutput(a)
    <3>1. PICK ij \in TileCells(g, t) : a = Addr(g.D, t.k, ij[1], ij[2])
      BY <2>2 DEF Stores
    <3> QED
      BY <3>1, StoresOwn DEF IsOutput
  <2> QED
    BY <2>1, <2>2
<1> HIDE DEF g, t, written
<1>7. ASSUME NEW tok \in Token, NEW block \in Block, NEW o \in Output,
             OutputAddr(tok, block, o) \in DOMAIN Y
      PROVE  Y'[OutputAddr(tok, block, o)] =
               IF AtHead(block) /\ id = CellCta(tok, block, o) THEN Reference(tok, block, o)
               ELSE Y[OutputAddr(tok, block, o)]
  <2> DEFINE a == OutputAddr(tok, block, o)
  <2>1. a \in DOMAIN Y
    BY <1>7
  <2>2. ASSUME NEW ij \in written(a)
        PROVE  /\ AtHead(block) /\ id = CellCta(tok, block, o)
               /\ InnerProduct(g, t.k, ij[1], ij[2]) = Reference(tok, block, o)
    BY <2>2, <1>1, <1>4, OutputApart
  <2> HIDE DEF a
  <2>3. CASE written(a) = {}
    BY <2>1, <2>3, <1>3, <1>5 DEF a
  <2>4. CASE written(a) # {}
    <3>1. PICK ij \in written(a) : Y'[a] = InnerProduct(g, t.k, ij[1], ij[2])
      BY <2>1, <2>4, <1>3
    <3> QED
      BY <3>1, <2>2 DEF a
  <2> QED
    BY <2>3, <2>4
<1>8. ASSUME NEW a \in DOMAIN Y PROVE Y'[a] = Y[a] \/ IsOutput(a)
  <2>1. CASE written(a) = {}
    BY <1>3, <1>8, <2>1
  <2>2. CASE written(a) # {}
    BY <1>4, <2>2 DEF IsOutput
  <2> QED
    BY <2>1, <2>2
<1>9. DOMAIN Y' = DOMAIN Y /\ Y' = [a \in DOMAIN Y |-> Y'[a]]
  BY <1>3
<1> QED
  BY <1>6, <1>7, <1>8, <1>9

-----------------------------------------------------------------------------
\* No step changes the call, its shape or the fault, nor what depends on them.
LEMMA Frozen ==
  ASSUME [Next]_vars
  PROVE  /\ call' = call /\ shape' = shape /\ fault' = fault
         /\ nmain' = nmain /\ args_main' = args_main /\ args_tail' = args_tail
         /\ HasTail' = HasTail /\ Aligned' = Aligned /\ Fits' = Fits /\ Covered' = Covered
         /\ Launchable(args_main)' = Launchable(args_main)
         /\ Launchable(args_tail)' = Launchable(args_tail)
         /\ Token' = Token /\ Block' = Block /\ Output' = Output
         /\ Rows' * M' = Rows * M /\ \A a : IsOutput(a)' = IsOutput(a)
         /\ \A g : CtaCount(g)' = CtaCount(g)
         /\ \A block : GemmOf(block)' = GemmOf(block)
         /\ \A tok, block, o : /\ OutputAddr(tok, block, o)' = OutputAddr(tok, block, o)
                               /\ Reference(tok, block, o)' = Reference(tok, block, o)
                               /\ CellCta(tok, block, o)' = CellCta(tok, block, o)
<1>1. call' = call /\ shape' = shape /\ fault' = fault
  BY DEF Next, HostStep, CanImplement, InitMain, RunMain, InitTail, RunTail, LastError, Run,
         Issue, Finish, Retire, Trap, Done, vars, host
<1>2. /\ M' = M /\ N' = N /\ K' = K /\ nb' = nb /\ stride' = stride /\ Ktot' = Ktot
      /\ access' = access /\ byToken' = byToken
  BY <1>1 DEF M, N, K, nb, stride, Ktot, access, byToken
<1>3. nmain' = nmain /\ Ktail' = Ktail
  BY <1>2 DEF nmain, Ktail
<1>4. /\ \A off, step : InputOp(off, step)' = InputOp(off, step)
      /\ \A block, step : WeightOp(block, step)' = WeightOp(block, step)
      /\ \A block, step : OutputOp(block, step)' = OutputOp(block, step)
  BY <1>1, <1>2 DEF InputOp, WeightOp, OutputOp
<1>5. \A block, batches, depth, step :
        Arguments(block, batches, depth, step)' = Arguments(block, batches, depth, step)
  BY <1>1, <1>2, <1>4 DEF Arguments
<1>6. args_main' = args_main /\ args_tail' = args_tail
  BY <1>2, <1>3, <1>5 DEF args_main, args_tail
<1>7. HasTail' = HasTail
  BY <1>1, <1>3 DEF HasTail
<1>0. \A g : Tiles(g)' = Tiles(g)
  BY <1>1 DEF Tiles
<1>8. Aligned' = Aligned
  <2>1. \A g : Misaligned(g)' = Misaligned(g)
    BY <1>0, <1>2 DEF Misaligned
  <2> QED
    BY <2>1, <1>6 DEF Aligned
<1>9. Token' = Token /\ Block' = Block /\ Output' = Output
  BY <1>2 DEF Token, Block, Output
<1>10. \A g : GridShape(g)' = GridShape(g)
  BY <1>0, <1>1 DEF GridShape
<1>11. \A g : CtaCount(g)' = CtaCount(g)
  BY <1>10 DEF CtaCount
<1>12. \A block : GemmOf(block)' = GemmOf(block) /\ BatchOf(block)' = BatchOf(block)
  BY <1>3, <1>6 DEF GemmOf, BatchOf
<1>13. \A tok, block, o : OutputAddr(tok, block, o)' = OutputAddr(tok, block, o)
  BY <1>1, <1>2 DEF OutputAddr
<1>14. \A tok, block, o : Reference(tok, block, o)' = Reference(tok, block, o)
  <2>1. \A tok, col : InputAddr(tok, col)' = InputAddr(tok, col)
    BY <1>1, <1>2 DEF InputAddr
  <2>2. \A block, p, o : WeightAddr(block, p, o)' = WeightAddr(block, p, o)
    BY <1>2 DEF WeightAddr
  <2> QED
    BY <1>2, <2>1, <2>2 DEF Reference
<1>15. \A tok, block, o : CellCta(tok, block, o)' = CellCta(tok, block, o)
  <2>1. \A g, t : Linear(g, t)' = Linear(g, t)
    BY <1>1, <1>10 DEF Linear
  <2>2. \A g, batch, i, j : CtaOf(g, batch, i, j)' = CtaOf(g, batch, i, j)
    BY <2>1 DEF CtaOf
  <2>3. \A tok, o : RowOf(tok, o)' = RowOf(tok, o) /\ ColOf(tok, o)' = ColOf(tok, o)
    BY <1>2 DEF RowOf, ColOf
  <2> QED
    BY <1>12, <2>2, <2>3 DEF CellCta
<1>17. Launchable(args_main)' = Launchable(args_main) /\ Launchable(args_tail)' = Launchable(args_tail)
  <2>1. /\ Launchable(args_main)' <=> Tiles(args_main)'.k > 0 /\ ~Oversized(args_main)'
        /\ Launchable(args_tail)' <=> Tiles(args_tail)'.k > 0 /\ ~Oversized(args_tail)'
    BY DEF Launchable
  <2>2. /\ Tiles(args_main)' = Tiles(args_main) /\ Tiles(args_tail)' = Tiles(args_tail)
        /\ GridShape(args_main)' = GridShape(args_main) /\ GridShape(args_tail)' = GridShape(args_tail)
    BY <1>1, <1>6 DEF Tiles, GridShape
  <2> QED
    BY <2>1, <2>2 DEF Launchable, Oversized
<1>18. Covered' = Covered
  <2>1. Tiles(args_main)' = Tiles(args_main)
    BY <1>1, <1>6 DEF Tiles
  <2> QED
    BY <2>1, <1>3, <1>7, <1>9, <1>17 DEF Covered
<1>19. Rows' = Rows
  BY <1>1, <1>2 DEF Rows
<1>20. Fits' = Fits
  BY <1>2, <1>19 DEF Fits
<1>21. \A a : IsOutput(a)' = IsOutput(a)
  BY <1>9, <1>13 DEF IsOutput
<1> QED
  BY <1>1, <1>2, <1>3, <1>6, <1>7, <1>8, <1>9, <1>11, <1>12, <1>13, <1>14, <1>15,
     <1>17, <1>18, <1>19, <1>20, <1>21

-----------------------------------------------------------------------------
LEMMA InitInv ==
  ASSUME Init
  PROVE  IInv
<1>1. /\ call \in Calls /\ shape \in Shapes /\ rc = 0 /\ queue = <<>> /\ issued = 0 /\ running = {}
      /\ fault \in {"none", "can_implement", "init_main", "run_main", "init_tail", "run_tail"}
      /\ error \in {"none", "last"}
      /\ pc = IF call.coded THEN "can_implement" ELSE "init_main"
      /\ Y = [a \in 0 .. Rows * M - 1 |-> Unset]
      /\ stray = {}
  BY DEF Init
<1>2. ShapeInv
  <2>1. Y = [a \in 0 .. Rows * M - 1 |-> Y[a]]
    BY <1>1
  <2> QED
    BY <1>1, <2>1 DEF ShapeInv
<1>3. QueueInv
  BY <1>1 DEF QueueInv, BeforeMain, BeforeTail
<1>4. CellInv
  <2> SUFFICES ASSUME NEW tok \in Token, NEW block \in Block, NEW o \in Output,
                      OutputAddr(tok, block, o) \in DOMAIN Y
               PROVE  CellOk(block, Y[OutputAddr(tok, block, o)], CellCta(tok, block, o),
                             Reference(tok, block, o))
    BY DEF CellInv
  <2>1. Y[OutputAddr(tok, block, o)] = Unset
    BY <1>1
  <2>2. ~AtHead(block) /\ NotYet(block)
    BY <1>1 DEF AtHead, NotYet, BeforeMain
  <2> QED
    BY <2>1, <2>2 DEF CellOk, Due
<1>5. LaunchInv
  BY <1>1 DEF LaunchInv, BeforeMain
<1>6. OthersInv
  BY <1>1 DEF OthersInv
<1> QED
  BY <1>2, <1>3, <1>4, <1>5, <1>6 DEF IInv

LEMMA ShapeStep ==
  ASSUME ShapeInv, QueueInv, [Next]_vars
  PROVE  ShapeInv'
<1>1. /\ call' = call /\ shape' = shape /\ fault' = fault /\ Rows' * M' = Rows * M
      /\ HasTail' = HasTail
  BY Frozen
<1>2. /\ call \in Calls /\ shape \in Shapes
      /\ fault \in {"none", "can_implement", "init_main", "run_main", "init_tail", "run_tail"}
      /\ error \in {"none", "last", "sticky"}
      /\ pc \in {"can_implement", "init_main", "run_main", "init_tail", "run_tail", "last_error", "returned"}
      /\ pc \in {"can_implement", "last_error"} => call.coded
      /\ pc # "returned" => rc = 0
      /\ pc \in {"init_tail", "run_tail"} => HasTail
      /\ Y = [a \in 0 .. Rows * M - 1 |-> Y[a]]
  BY DEF ShapeInv
<1> DEFINE Host == /\ error' \in {"none", "last", "sticky"}
                   /\ pc' \in {"can_implement", "init_main", "run_main", "init_tail", "run_tail",
                               "last_error", "returned"}
                   /\ pc' \in {"can_implement", "last_error"} => call.coded
                   /\ pc' # "returned" => rc' = 0
                   /\ pc' \in {"init_tail", "run_tail"} => HasTail
                   /\ Y' = Y
<1>3. ASSUME CanImplement PROVE Host
  BY <1>2, <1>3 DEF CanImplement, Goto, Return, device
<1>4. ASSUME InitMain PROVE Host
  BY <1>2, <1>4 DEF InitMain, Goto, Return, device
<1>5. ASSUME RunMain PROVE Host
  BY <1>2, <1>5 DEF RunMain, Goto, Run, ReadError, AfterRuns
<1>6. ASSUME InitTail PROVE Host
  BY <1>2, <1>6 DEF InitTail, Goto, Return, device
<1>7. ASSUME RunTail PROVE Host
  BY <1>2, <1>7 DEF RunTail, Goto, Run, ReadError, AfterRuns
<1>8. ASSUME LastError PROVE Host
  BY <1>2, <1>8 DEF LastError, Goto, Return, ReadError, device
<1>9. ASSUME Issue \/ Retire \/ Trap \/ Done \/ UNCHANGED vars PROVE Host
  BY <1>2, <1>9 DEF Issue, Retire, Trap, Done, vars, host
<1>10. ASSUME Host PROVE ShapeInv'
  BY <1>1, <1>2, <1>10 DEF ShapeInv
<1>11. ASSUME NEW id \in running, Finish(id) PROVE ShapeInv'
  <2>1. Y' = [a \in DOMAIN Y |-> Y'[a]]
    BY <1>11, FinishEffect
  <2>2. Y' = [a \in 0 .. Rows * M - 1 |-> Y'[a]]
    BY <2>1, <1>2
  <2> QED
    BY <1>1, <1>2, <1>11, <2>2 DEF ShapeInv, Finish, host
<1> QED
  BY <1>3, <1>4, <1>5, <1>6, <1>7, <1>8, <1>9, <1>10, <1>11 DEF Next, HostStep

\* A queue of one or two kernels.
LEMMA ShortQueue ==
  ASSUME NEW a, NEW b
  PROVE  /\ Append(<<>>, a) = <<a>> /\ Append(<<a>>, b) = <<a, b>>
         /\ Tail(<<a>>) = <<>> /\ Tail(<<a, b>>) = <<b>>
         /\ Head(<<a>>) = a /\ Head(<<a, b>>) = a
         /\ <<a>> # <<>> /\ <<a, b>> # <<>> /\ <<a>> # <<a, b>> /\ <<b>> # <<a, b>>
         /\ <<a>> = <<b>> => a = b
<1>1. Append(<<a>>, b) = <<a, b>>
  <2>1. /\ <<a>> \in Seq({a, b}) /\ Len(<<a>>) = 1
        /\ <<a, b>> \in Seq({a, b}) /\ Len(<<a, b>>) = 2 /\ <<a, b>>[1] = a /\ <<a, b>>[2] = b
    OBVIOUS
  <2>2. /\ Append(<<a>>, b) \in Seq({a, b}) /\ Len(Append(<<a>>, b)) = 2
        /\ Append(<<a>>, b)[1] = a /\ Append(<<a>>, b)[2] = b
    BY <2>1
  <2>3. \A i \in 1 .. 2 : Append(<<a>>, b)[i] = <<a, b>>[i]
    BY <2>1, <2>2
  <2> QED
    BY <2>1, <2>2, <2>3, SeqEqual
<1>2. /\ Append(<<>>, a) = <<a>> /\ Tail(<<a>>) = <<>> /\ Head(<<a>>) = a /\ Head(<<a, b>>) = a
      /\ <<a>> # <<>> /\ <<a, b>> # <<>> /\ <<a>> # <<a, b>> /\ <<b>> # <<a, b>>
      /\ <<a>> = <<b>> => a = b
  OBVIOUS
<1>3. Tail(<<a, b>>) = <<b>>
  OBVIOUS
<1> QED
  BY <1>1, <1>2, <1>3

\* If everything is aligned and Y is large enough, no CTA traps.
LEMMA TrapReason ==
  ASSUME ShapeInv, QueueInv, Trap
  PROVE  ~(Aligned /\ Fits)
<1>1. PICK id \in running : Misaligned(Head(queue)) \/ ~(Stores(Head(queue), id) \subseteq DOMAIN Y)
  BY DEF Trap
<1>2. IsGemm(Head(queue))
  BY Running
<1>3. Aligned => ~Misaligned(Head(queue))
  BY <1>2 DEF IsGemm, Aligned
<1>4. ASSUME Fits, NEW a \in Stores(Head(queue), id) PROVE a \in DOMAIN Y
  <2>1. PICK ij \in TileCells(Head(queue), TileOffset(Head(queue), id)) :
          a = Addr(Head(queue).D, TileOffset(Head(queue), id).k, ij[1], ij[2])
    BY <1>4 DEF Stores
  <2>2. IsOutput(a)
    BY <2>1, StoresOwn DEF IsOutput
  <2> QED
    BY <1>4, <2>2, FitsY
<1> QED
  BY <1>1, <1>3, <1>4

LEMMA QueueStep ==
  ASSUME ShapeInv, QueueInv, [Next]_vars
  PROVE  QueueInv'
<1>1. call \in Calls /\ shape \in Shapes
  BY DEF ShapeInv
<1>2. PICK main, tail, n :
        /\ main = args_main /\ tail = args_tail /\ n = nmain
        /\ main = args_main' /\ tail = args_tail' /\ n = nmain'
        /\ Aligned' = Aligned /\ Fits' = Fits /\ HasTail' = HasTail
        /\ Launchable(args_main)' = Launchable(args_main)
        /\ Launchable(args_tail)' = Launchable(args_tail)
        /\ \A g : CtaCount(g)' = CtaCount(g)
  BY Frozen
<1>3. /\ n \in Nat /\ main # tail
      /\ Launchable(args_main) => CtaCount(main) \in Nat
      /\ HasTail /\ Launchable(args_tail) => CtaCount(tail) \in Nat
  BY <1>1, <1>2, Sizes, GemmType, Places DEF IsGemm
<1>20. /\ Append(<<>>, main) = <<main>> /\ Append(<<>>, tail) = <<tail>>
      /\ Append(<<main>>, tail) = <<main, tail>>
      /\ Tail(<<main>>) = <<>> /\ Tail(<<tail>>) = <<>> /\ Tail(<<main, tail>>) = <<tail>>
      /\ Head(<<main>>) = main /\ Head(<<tail>>) = tail /\ Head(<<main, tail>>) = main
      /\ <<main>> # <<>> /\ <<tail>> # <<>> /\ <<main, tail>> # <<>> /\ <<main>> # <<tail>>
      /\ <<main>> # <<main, tail>> /\ <<tail>> # <<main, tail>>
  BY <1>3, ShortQueue
<1>4. /\ queue \in {<<>>, <<main>>, <<tail>>, <<main, tail>>}
      /\ queue \in {<<main>>, <<main, tail>>} => Launchable(args_main)
      /\ queue \in {<<tail>>, <<main, tail>>} => HasTail /\ Launchable(args_tail)
      /\ issued \in Nat
      /\ running \subseteq 0 .. issued - 1
      /\ queue = <<>> => issued = 0
      /\ queue # <<>> => issued <= CtaCount(Head(queue))
      /\ BeforeMain => queue = <<>>
      /\ BeforeTail => queue \in {<<>>, <<main>>}
      /\ error = "sticky" => queue = <<>> /\ ~(Aligned /\ Fits)
      /\ pc = "run_tail" => HasTail
  BY <1>2 DEF QueueInv, ShapeInv
<1> DEFINE Goal == /\ queue' \in {<<>>, <<main>>, <<tail>>, <<main, tail>>}
                   /\ queue' \in {<<main>>, <<main, tail>>} => Launchable(args_main)
                   /\ queue' \in {<<tail>>, <<main, tail>>} => HasTail /\ Launchable(args_tail)
                   /\ issued' \in Nat
                   /\ running' \subseteq 0 .. issued' - 1
                   /\ queue' = <<>> => issued' = 0
                   /\ queue' # <<>> => issued' <= CtaCount(Head(queue'))
                   /\ pc' \in {"can_implement", "init_main", "run_main"} => queue' = <<>>
                   /\ pc' \in {"init_tail", "run_tail"} => queue' \in {<<>>, <<main>>}
                   /\ error' = "sticky" => queue' = <<>> /\ ~(Aligned /\ Fits)
<1>5. ASSUME CanImplement \/ InitMain \/ InitTail \/ LastError PROVE Goal
  BY <1>4, <1>5 DEF CanImplement, InitMain, InitTail, LastError, Goto, Return, ReadError, AfterRuns, device,
     BeforeMain, BeforeTail
<1>6. ASSUME RunMain PROVE Goal
  <2>1. queue = <<>> /\ issued = 0
    BY <1>4, <1>6 DEF RunMain, Goto, BeforeMain
  <2>2. /\ queue' \in {<<>>, <<main>>}
        /\ queue' = <<main>> => Launchable(args_main) /\ error # "sticky"
        /\ issued' = issued /\ running' = running
        /\ error' = "sticky" => error = "sticky"
    <3>1. /\ queue' = IF Failing("run_main", args_main) THEN queue ELSE Append(queue, main)
          /\ issued' = issued /\ running' = running
          /\ error' = IF error = "sticky" THEN error ELSE "none"
      BY <1>2, <1>6 DEF RunMain, Run, ReadError
    <3>2. queue' = IF Failing("run_main", args_main) THEN <<>> ELSE <<main>>
      BY <3>1, <2>1, <1>20
    <3>3. queue' = <<main>> => ~Failing("run_main", args_main)
      BY <3>2, <1>20
    <3>4. queue' \in {<<>>, <<main>>}
      BY <3>2
    <3> QED
      BY <3>1, <3>3, <3>4 DEF Failing
  <2>3. pc' \in {"init_tail", "last_error", "returned"}
    BY <1>6 DEF RunMain, Goto, AfterRuns
  <2>4. /\ issued' = 0 /\ running' \subseteq 0 .. issued' - 1
        /\ error' # "sticky" \/ (queue' = <<>> /\ ~(Aligned /\ Fits))
    BY <1>4, <2>1, <2>2, <1>20
  <2>5. CASE queue' = <<>>
    BY <2>3, <2>4, <2>5, <1>20
  <2>6. CASE queue' = <<main>>
    <3>1. Launchable(args_main) /\ Head(queue') = main /\ 0 <= CtaCount(main)
      BY <2>2, <2>6, <1>3, <1>20
    <3> QED
      BY <2>3, <2>4, <2>6, <3>1, <1>20
  <2> QED
    BY <2>2, <2>5, <2>6
<1>7. ASSUME RunTail PROVE Goal
  <2>1. queue \in {<<>>, <<main>>}
    BY <1>4, <1>7 DEF RunTail, Goto, BeforeTail
  <2>2. /\ queue' = queue
           \/ (queue' = Append(queue, tail) /\ error # "sticky" /\ HasTail /\ Launchable(args_tail))
        /\ issued' = issued /\ running' = running
        /\ error' = "sticky" => error = "sticky"
    <3>1. HasTail
      BY <1>4, <1>7 DEF RunTail, Goto
    <3> QED
      BY <3>1, <1>2, <1>7 DEF RunTail, Run, ReadError, Failing
  <2>3. pc' \in {"last_error", "returned"}
    BY <1>7 DEF RunTail, Goto, AfterRuns
  <2>4. CASE queue' = queue
    BY <1>4, <2>2, <2>3, <2>4
  <2>5. CASE queue' = Append(queue, tail) /\ error # "sticky" /\ HasTail /\ Launchable(args_tail)
    <3>1. CASE queue = <<>>
      <4>1. queue' = <<tail>>
        BY <2>5, <3>1, <1>20
      <4> QED
        BY <1>3, <1>20, <1>4, <2>2, <2>3, <2>5, <3>1, <4>1
    <3>2. CASE queue = <<main>>
      <4>1. queue' = <<main, tail>>
        BY <2>5, <3>2, <1>20
      <4> QED
        BY <1>3, <1>20, <1>4, <2>2, <2>3, <2>5, <3>2, <4>1
    <3> QED
      BY <2>1, <3>1, <3>2
  <2> QED
    BY <2>2, <2>4, <2>5
<1>8. ASSUME Issue PROVE Goal
  <2>1. /\ queue # <<>> /\ issued < CtaCount(Head(queue)) /\ running' = running \cup {issued}
        /\ issued' = issued + 1 /\ queue' = queue /\ pc' = pc /\ error' = error
    BY <1>8 DEF Issue, host
  <2>2. CtaCount(Head(queue)) \in Nat
    BY <1>3, <1>4, <2>1
  <2> QED
    BY <1>4, <2>1, <2>2 DEF BeforeMain, BeforeTail
<1>9. ASSUME NEW id \in running, Finish(id) PROVE Goal
  BY <1>4, <1>9 DEF Finish, host, BeforeMain, BeforeTail
<1>10. ASSUME Retire PROVE Goal
  <2>1. /\ queue # <<>> /\ running = {} /\ queue' = Tail(queue) /\ issued' = 0 /\ running' = running
        /\ pc' = pc /\ error' = error
    BY <1>10 DEF Retire, host
  <2>2. queue' \in {<<>>, <<tail>>} /\ (queue' = <<tail>> => queue = <<main, tail>>)
    BY <1>20, <1>4, <2>1
  <2>3. pc' \notin {"can_implement", "init_main", "run_main"} /\ error' # "sticky"
    BY <1>4, <2>1 DEF BeforeMain
  <2>4. queue' \in {<<main>>, <<main, tail>>} => FALSE
    BY <2>2, <1>20
  <2>5. CASE queue' = <<>>
    BY <2>1, <2>3, <2>5, <1>20
  <2>6. CASE queue' = <<tail>>
    <3>1. queue = <<main, tail>> /\ HasTail /\ Launchable(args_tail) /\ CtaCount(tail) \in Nat
      BY <2>2, <2>6, <1>3, <1>4
    <3>2. pc' \notin {"init_tail", "run_tail"}
      BY <3>1, <2>1, <1>4, <1>20 DEF BeforeTail
    <3> QED
      BY <2>1, <2>3, <2>4, <2>6, <3>1, <3>2, <1>20
  <2> QED
    BY <2>2, <2>5, <2>6
<1>11. ASSUME Trap PROVE Goal
  <2>1. queue' = <<>> /\ issued' = 0 /\ running' = {} /\ pc' = pc
    BY <1>11 DEF Trap
  <2>2. ~(Aligned /\ Fits)
    BY <1>11, TrapReason
  <2> QED
    BY <1>4, <2>1, <2>2 DEF BeforeMain, BeforeTail
<1>12. ASSUME Done \/ UNCHANGED vars PROVE Goal
  BY <1>4, <1>12 DEF Done, vars, BeforeMain, BeforeTail
<1>13. Goal
  BY <1>5, <1>6, <1>7, <1>8, <1>9, <1>10, <1>11, <1>12 DEF Next, HostStep
<1> QED
  BY <1>2, <1>13 DEF QueueInv, BeforeMain, BeforeTail

LEMMA LaunchStep ==
  ASSUME ShapeInv, LaunchInv, [Next]_vars
  PROVE  LaunchInv'
<1>1. /\ call' = call /\ HasTail' = HasTail
      /\ Launchable(args_main)' = Launchable(args_main)
      /\ Launchable(args_tail)' = Launchable(args_tail)
  BY Frozen
<1>2. /\ pc # "returned" => rc = 0
      /\ pc = "last_error" => call.coded
  BY DEF ShapeInv
<1> DEFINE Goal == call.coded /\ rc' = 0 /\ pc' \notin {"can_implement", "init_main", "run_main"} =>
                     /\ Launchable(args_main)
                     /\ pc' \notin {"init_tail", "run_tail"} /\ HasTail => Launchable(args_tail)
<1>3. ASSUME CanImplement \/ InitMain PROVE Goal
  BY <1>3 DEF CanImplement, InitMain, Goto, Return
<1>4. ASSUME RunMain PROVE Goal
  BY <1>4 DEF RunMain, Goto, Failed, Failing, AfterRuns
<1>5. ASSUME InitTail PROVE Goal
  BY <1>5, <1>2 DEF InitTail, Goto, Return, LaunchInv, BeforeMain, BeforeTail
<1>6. ASSUME RunTail PROVE Goal
  BY <1>6, <1>2 DEF RunTail, Goto, Failed, Failing, AfterRuns, LaunchInv, BeforeMain, BeforeTail
<1>7. ASSUME LastError PROVE Goal
  BY <1>7, <1>2 DEF LastError, Goto, Return, LaunchInv, BeforeMain, BeforeTail
<1>8. ASSUME UNCHANGED <<pc, rc>> PROVE Goal
  BY <1>8 DEF LaunchInv, BeforeMain, BeforeTail
<1>9. ASSUME Issue \/ (\E id \in running : Finish(id)) \/ Retire \/ Trap \/ Done \/ UNCHANGED vars
      PROVE  UNCHANGED <<pc, rc>>
  BY <1>9 DEF Issue, Finish, Retire, Trap, Done, vars, host
<1> QED
  BY <1>1, <1>3, <1>4, <1>5, <1>6, <1>7, <1>8, <1>9
     DEF Next, HostStep, LaunchInv, BeforeMain, BeforeTail

LEMMA OthersStep ==
  ASSUME ShapeInv, QueueInv, OthersInv, [Next]_vars
  PROVE  OthersInv'
<1>1. \A a : IsOutput(a)' = IsOutput(a)
  BY Frozen
<1>2. CASE UNCHANGED <<Y, stray>>
  BY <1>1, <1>2 DEF OthersInv
<1>3. ASSUME NEW id \in running, Finish(id) PROVE OthersInv'
  BY <1>1, <1>3, FinishEffect DEF OthersInv
<1>4. ASSUME HostStep \/ Issue \/ Retire \/ Trap \/ Done \/ UNCHANGED vars
      PROVE  UNCHANGED <<Y, stray>>
  BY <1>4 DEF HostStep, CanImplement, InitMain, RunMain, InitTail, RunTail, LastError, Run,
     Return, device, Issue, Retire, Trap, Done, vars, host
<1> QED
  BY <1>2, <1>3, <1>4 DEF Next

LEMMA CellStep ==
  ASSUME ShapeInv, QueueInv, CellInv, [Next]_vars
  PROVE  CellInv'
<1> SUFFICES ASSUME NEW tok \in Token, NEW block \in Block, NEW o \in Output,
                    OutputAddr(tok, block, o) \in DOMAIN Y
             PROVE  CellOk(block, Y[OutputAddr(tok, block, o)], CellCta(tok, block, o),
                           Reference(tok, block, o))'
  <2>1. DOMAIN Y' = DOMAIN Y
    BY ShapeStep, Frozen DEF ShapeInv
  <2> QED
    BY <2>1, Frozen DEF CellInv
<1>1. /\ call \in Calls /\ shape \in Shapes
      /\ pc # "returned" => rc = 0
      /\ pc = "can_implement" => call.coded
  BY DEF ShapeInv
<1>2. PICK main, tail, n, g, y, y2, id, ref :
        /\ main = args_main /\ tail = args_tail /\ n = nmain /\ g = GemmOf(block)
        /\ y = Y[OutputAddr(tok, block, o)] /\ y2 = Y'[OutputAddr(tok, block, o)]
        /\ id = CellCta(tok, block, o) /\ ref = Reference(tok, block, o)
  OBVIOUS
\* The place of the element in the queue, before the step and after it.
<1>3. /\ n \in Nat /\ main # tail /\ block \in 0 .. n
      /\ g = IF block < n THEN main ELSE tail
      /\ block \in Covered => id \in 0 .. CtaCount(g) - 1 /\ CtaCount(g) \in Nat
  <2>1. n \in Nat /\ main # tail /\ block \in 0 .. n
    BY <1>1, <1>2, Sizes, GemmType DEF Block
  <2>2. g = IF block < n THEN main ELSE tail
    BY <1>2 DEF GemmOf
  <2>3. block \in Covered => id \in 0 .. CtaCount(g) - 1 /\ CtaCount(g) \in Nat
    BY <1>1, <1>2, CellPlace, Places
  <2> QED
    BY <2>1, <2>2, <2>3
<1>4. /\ AtHead(block) <=> block \in Covered /\ queue # <<>> /\ Head(queue) = g
      /\ AtHead(block)' <=> block \in Covered /\ queue' # <<>> /\ Head(queue') = g
      /\ (block \in Covered)' <=> block \in Covered
  BY <1>2, Frozen DEF AtHead
<1>5. /\ Behind(block) <=> queue = <<main, tail>> /\ block = n
      /\ Behind(block)' <=> queue' = <<main, tail>> /\ block = n
  BY <1>2, Frozen DEF Behind
<1>6. /\ NotYet(block) <=> \/ pc \in {"can_implement", "init_main", "run_main"}
                           \/ pc \in {"init_tail", "run_tail"} /\ block = n
      /\ NotYet(block)' <=> \/ pc' \in {"can_implement", "init_main", "run_main"}
                            \/ pc' \in {"init_tail", "run_tail"} /\ block = n
  BY <1>2, Frozen DEF NotYet, BeforeMain, BeforeTail
<1>7. /\ call' = call /\ fault' = fault /\ HasTail' = HasTail
      /\ Due(block) <=> /\ Aligned /\ Fits /\ rc = 0 /\ (call.coded \/ fault = "none")
                        /\ ~NotYet(block) /\ block \in Covered
      /\ Due(block)' <=> /\ Aligned /\ Fits /\ rc' = 0 /\ (call.coded \/ fault = "none")
                         /\ ~NotYet(block)' /\ block \in Covered
      /\ block \in Covered => IF block = n THEN HasTail /\ Launchable(args_tail)
                              ELSE Launchable(args_main)
  <2>1. call' = call /\ fault' = fault /\ HasTail' = HasTail
    BY Frozen
  <2>2. /\ Due(block) <=> /\ Aligned /\ Fits /\ rc = 0 /\ (call.coded \/ fault = "none")
                          /\ ~NotYet(block) /\ block \in Covered
        /\ Due(block)' <=> /\ Aligned /\ Fits /\ rc' = 0 /\ (call.coded \/ fault = "none")
                           /\ ~NotYet(block)' /\ block \in Covered
    BY Frozen DEF Due, Well
  <2>3. block \in Covered => IF block = n THEN HasTail /\ Launchable(args_tail)
                             ELSE Launchable(args_main)
    BY <1>2 DEF Covered
  <2> QED
    BY <2>1, <2>2, <2>3
<1>8. /\ queue \in {<<>>, <<main>>, <<tail>>, <<main, tail>>}
      /\ issued \in Nat
      /\ queue = <<>> => issued = 0
      /\ pc \in {"can_implement", "init_main", "run_main"} => queue = <<>>
      /\ pc \in {"init_tail", "run_tail"} => queue \in {<<>>, <<main>>}
      /\ queue \in {<<main>>, <<main, tail>>} => Launchable(args_main)
      /\ queue \in {<<tail>>, <<main, tail>>} => HasTail /\ Launchable(args_tail)
      /\ error = "sticky" => ~(Aligned /\ Fits)
  BY <1>2 DEF QueueInv, BeforeMain, BeforeTail
<1>9. /\ y \in {Unset, ref}
      /\ AtHead(block) => y = IF id < issued /\ id \notin running THEN ref ELSE Unset
      /\ Behind(block) \/ NotYet(block) \/ block \notin Covered => y = Unset
      /\ Due(block) /\ ~AtHead(block) /\ ~Behind(block) => y = ref
  BY <1>2 DEF CellInv, CellOk
<1>10. /\ Append(<<>>, main) = <<main>> /\ Append(<<>>, tail) = <<tail>>
       /\ Append(<<main>>, tail) = <<main, tail>>
       /\ Tail(<<main>>) = <<>> /\ Tail(<<tail>>) = <<>> /\ Tail(<<main, tail>>) = <<tail>>
       /\ Head(<<main>>) = main /\ Head(<<tail>>) = tail /\ Head(<<main, tail>>) = main
       /\ <<main>> # <<>> /\ <<tail>> # <<>> /\ <<main, tail>> # <<>> /\ <<main>> # <<tail>>
       /\ <<main>> # <<main, tail>> /\ <<tail>> # <<main, tail>>
  BY <1>3, ShortQueue
<1> DEFINE Goal == /\ y2 \in {Unset, ref}
                   /\ AtHead(block)' => y2 = IF id < issued' /\ id \notin running' THEN ref ELSE Unset
                   /\ Behind(block)' \/ NotYet(block)' \/ block \notin Covered => y2 = Unset
                   /\ Due(block)' /\ ~AtHead(block)' /\ ~Behind(block)' => y2 = ref
\* The steps of the host that launch nothing.
<1>11. ASSUME queue' = queue, issued' = issued, running' = running, y2 = y,
              NotYet(block)' => NotYet(block), Due(block)' => Due(block)
       PROVE  Goal
  BY <1>4, <1>5, <1>9, <1>11
\* A block that no grid reaches stays as it is.
<1>21. ASSUME block \notin Covered PROVE Goal
  <2>1. ~AtHead(block) /\ ~AtHead(block)' /\ ~Due(block)' /\ y = Unset
    BY <1>4, <1>7, <1>9, <1>21
  <2>2. CASE Y' = Y
    BY <2>1, <2>2, <1>2
  <2>3. ASSUME NEW cta \in running, Finish(cta) PROVE y2 = y
    BY <2>1, <2>3, <1>2, FinishEffect
  <2>4. ASSUME HostStep \/ Issue \/ Retire \/ Trap \/ Done \/ UNCHANGED vars PROVE Y' = Y
    BY <2>4 DEF HostStep, CanImplement, InitMain, RunMain, InitTail, RunTail, LastError, Run,
       Return, device, Issue, Retire, Trap, Done, vars, host
  <2>5. y2 = Unset
    BY <2>1, <2>2, <2>3, <2>4, <1>2 DEF Next
  <2> QED
    BY <2>1, <2>5
<1>22. block \in Covered => id \in 0 .. CtaCount(g) - 1 /\ CtaCount(g) \in Nat /\ ~(id < 0)
  BY <1>3
<1>12. ASSUME CanImplement \/ InitMain \/ InitTail \/ LastError PROVE Goal
  <2>1. queue' = queue /\ issued' = issued /\ running' = running /\ y2 = y
    BY <1>2, <1>12 DEF CanImplement, InitMain, InitTail, LastError, Return, device
  <2>2. NotYet(block)' => NotYet(block)
    BY <1>6, <1>12 DEF CanImplement, InitMain, InitTail, LastError, Goto
  <2>3. Due(block)' => Due(block)
    <3>1. CASE CanImplement
      <4>1. pc = "can_implement" /\ call.coded /\ rc = 0
        BY <1>1, <3>1 DEF CanImplement, Goto
      <4>2. (pc' = "init_main" /\ rc' = 0) \/ (pc' = "returned" /\ rc' = 20)
        BY <3>1, <4>1 DEF CanImplement, Goto, Return
      <4> QED
        BY <1>6, <1>7, <4>2
    <3>2. CASE InitMain
      BY <1>1, <1>6, <1>7, <3>2 DEF InitMain, Goto, Return
    <3>3. CASE InitTail
      BY <1>1, <1>6, <1>7, <3>3 DEF InitTail, Goto, Return
    <3>4. CASE LastError
      BY <1>1, <1>6, <1>7, <3>4 DEF LastError, Goto, Return
    <3> QED
      BY <1>12, <3>1, <3>2, <3>3, <3>4
  <2> QED
    BY <1>11, <2>1, <2>2, <2>3
<1>13. ASSUME block \in Covered, RunMain PROVE Goal
  <2>1. pc = "run_main" /\ queue = <<>> /\ issued = 0 /\ y = Unset /\ rc = 0
    BY <1>1, <1>6, <1>8, <1>9, <1>13 DEF RunMain, Goto
  <2>2. issued' = 0 /\ running' = running /\ y2 = Unset
    BY <1>2, <1>13, <2>1 DEF RunMain, Run
  <2>3. queue' = IF Failing("run_main", args_main) THEN <<>> ELSE <<main>>
    BY <1>2, <1>10, <1>13, <2>1 DEF RunMain, Run
  <2>4. ~(id < 0)
    BY <1>13, <1>22
  <2>5. ~Behind(block)'
    BY <1>5, <1>10, <2>3
  <2>6. ASSUME Due(block)', ~AtHead(block)' PROVE FALSE
    <3>1. CASE block < n
      <4>1. queue' = <<>>
        BY <1>3, <1>4, <1>10, <1>13, <2>3, <2>6, <3>1
      <4>2. Launchable(args_main)
        BY <1>3, <1>7, <1>13, <3>1
      <4>3. fault = "run_main" \/ error = "sticky"
        BY <1>10, <2>3, <4>1, <4>2 DEF Failing
      <4>4. fault = "run_main"
        BY <1>7, <1>8, <2>6, <4>3
      <4>5. rc' = 22
        BY <1>7, <1>13, <2>6, <4>4 DEF RunMain, Failed, Failing
      <4> QED
        BY <1>7, <2>6, <4>5
    <3>2. CASE block = n
      <4>1. HasTail /\ rc' = 0 /\ pc' \notin {"init_tail", "run_tail"}
        BY <1>6, <1>7, <2>6, <3>2
      <4>2. pc' = "returned" /\ rc' = 22
        BY <1>13, <4>1 DEF RunMain, Goto
      <4> QED
        BY <4>1, <4>2
    <3> QED
      BY <1>3, <3>1, <3>2
  <2> QED
    BY <2>2, <2>4, <2>5, <2>6
<1>14. ASSUME block \in Covered, RunTail PROVE Goal
  <2>1. pc = "run_tail" /\ queue \in {<<>>, <<main>>} /\ rc = 0
    BY <1>1, <1>8, <1>14 DEF RunTail, Goto
  <2>2. issued' = issued /\ running' = running /\ y2 = y
    BY <1>2, <1>14 DEF RunTail, Run
  <2>3. queue' = IF Failing("run_tail", args_tail) THEN queue ELSE Append(queue, tail)
    BY <1>2, <1>14 DEF RunTail, Run
  <2>4. pc' \in {"last_error", "returned"}
    BY <1>14 DEF RunTail, Goto, AfterRuns
  <2>5. ~NotYet(block)'
    BY <1>6, <2>4
  <2>6. CASE block < n
    <3>1. AtHead(block)' <=> AtHead(block)
      BY <1>3, <1>4, <1>10, <2>1, <2>3, <2>6
    <3>2. ~Behind(block)' /\ ~Behind(block) /\ ~NotYet(block)
      BY <1>3, <1>5, <1>6, <2>1, <2>6
    <3>3. Due(block)' => Due(block)
      BY <1>7, <2>1, <3>2
    <3> QED
      BY <1>9, <2>2, <2>5, <3>1, <3>2, <3>3
  <2>7. CASE block = n
    <3>1. y = Unset /\ g = tail
      BY <1>3, <1>6, <1>9, <2>1, <2>7
    <3>2. AtHead(block)' => issued = 0
      BY <1>3, <1>4, <1>8, <1>10, <2>1, <2>3, <3>1
    <3>3. ~(id < 0)
      BY <1>14, <1>22
    <3>4. ASSUME Due(block)', ~AtHead(block)', ~Behind(block)' PROVE FALSE
      <4>0. Failing("run_tail", args_tail)
        BY <1>4, <1>5, <1>10, <1>14, <2>1, <2>3, <2>7, <3>1, <3>4
      <4>1. fault = "run_tail" \/ error = "sticky"
        BY <1>7, <1>14, <2>7, <4>0 DEF Failing
      <4>2. fault = "run_tail"
        BY <1>7, <1>8, <3>4, <4>1
      <4>3. rc' = 24
        BY <1>7, <1>14, <3>4, <4>2 DEF RunTail, Failed, Failing
      <4> QED
        BY <1>7, <3>4, <4>3
    <3> QED
      BY <2>2, <2>5, <3>1, <3>2, <3>3, <3>4
  <2> QED
    BY <1>3, <2>6, <2>7
<1>15. ASSUME block \in Covered, Issue PROVE Goal
  <2>1. /\ queue' = queue /\ issued' = issued + 1 /\ running' = running \cup {issued} /\ y2 = y
        /\ pc' = pc /\ rc' = rc
    BY <1>2, <1>15 DEF Issue, host
  <2>2. (AtHead(block)' <=> AtHead(block)) /\ (Behind(block)' <=> Behind(block))
    BY <1>4, <1>5, <2>1
  <2>3. (NotYet(block)' <=> NotYet(block)) /\ (Due(block)' <=> Due(block))
    BY <1>6, <1>7, <2>1
  <2>4. id < issued' /\ id \notin running' <=> id < issued /\ id \notin running
    BY <1>15, <1>22, <1>8, <2>1
  <2> QED
    BY <1>9, <2>1, <2>2, <2>3, <2>4
<1>16. ASSUME block \in Covered, NEW cta \in running, Finish(cta) PROVE Goal
  <2>1. /\ queue' = queue /\ issued' = issued /\ running' = running \ {cta} /\ pc' = pc /\ rc' = rc
    BY <1>16 DEF Finish, host
  <2>2. y2 = IF AtHead(block) /\ cta = id THEN ref ELSE y
    BY <1>2, <1>16, FinishEffect
  <2>3. (AtHead(block)' <=> AtHead(block)) /\ (Behind(block)' <=> Behind(block))
    BY <1>4, <1>5, <2>1
  <2>4. (NotYet(block)' <=> NotYet(block)) /\ (Due(block)' <=> Due(block))
    BY <1>6, <1>7, <2>1
  <2>5. cta \in 0 .. issued - 1
    BY <1>16 DEF QueueInv
  <2>6. CASE AtHead(block) /\ cta = id
    <3>1. id < issued' /\ id \notin running'
      BY <1>8, <2>1, <2>5, <2>6
    <3>2. ~Behind(block)
      BY <1>3, <1>4, <1>5, <1>10, <2>6
    <3>3. ~NotYet(block)
      BY <1>3, <1>4, <1>6, <1>8, <1>10, <2>6
    <3> QED
      BY <1>16, <2>2, <2>3, <2>4, <2>6, <3>1, <3>2, <3>3
  <2>7. CASE ~(AtHead(block) /\ cta = id)
    <3>1. AtHead(block) => (id \in running' <=> id \in running)
      BY <2>1, <2>7
    <3> QED
      BY <1>9, <2>1, <2>2, <2>3, <2>4, <2>7, <3>1
  <2> QED
    BY <2>6, <2>7
<1>17. ASSUME block \in Covered, Retire PROVE Goal
  <2>1. /\ queue # <<>> /\ issued = CtaCount(Head(queue)) /\ running = {} /\ queue' = Tail(queue)
        /\ issued' = 0 /\ y2 = y /\ pc' = pc /\ rc' = rc
    BY <1>2, <1>17 DEF Retire, host
  <2>2. (NotYet(block)' <=> NotYet(block)) /\ (Due(block)' <=> Due(block))
    BY <1>6, <1>7, <2>1
  <2>3. AtHead(block) => y = ref
    <3>1. AtHead(block) => id < issued /\ id \notin running
      BY <1>3, <1>4, <2>1
    <3> QED
      BY <1>9, <3>1
  <2>4. queue' \in {<<>>, <<tail>>} /\ (queue' = <<tail>> => queue = <<main, tail>>)
    BY <1>8, <1>10, <2>1
  <2>5. ~Behind(block)'
    BY <1>5, <1>10, <2>4
  <2>6. AtHead(block)' <=> Behind(block)
    <3>1. ASSUME AtHead(block)' PROVE Behind(block)
      <4>1. queue' = <<tail>> /\ g = tail
        BY <1>4, <1>10, <2>4, <3>1
      <4> QED
        BY <1>3, <1>5, <2>4, <4>1
    <3>2. ASSUME Behind(block) PROVE AtHead(block)'
      <4>1. queue' = <<tail>> /\ g = tail
        <5>1. queue = <<main, tail>> /\ block = n
          BY <1>5, <3>2
        <5> QED
          BY <5>1, <1>3, <1>10, <2>1
      <4> QED
        BY <1>4, <1>10, <1>17, <4>1
    <3> QED
      BY <3>1, <3>2
  <2>7. ~(id < 0)
    BY <1>17, <1>22
  <2> QED
    BY <1>9, <2>1, <2>2, <2>3, <2>5, <2>6, <2>7
<1>18. ASSUME Trap PROVE Goal
  <2>1. queue' = <<>> /\ y2 = y /\ pc' = pc /\ rc' = rc
    BY <1>2, <1>18 DEF Trap
  <2>2. ~(Aligned /\ Fits)
    BY <1>18, TrapReason
  <2>3. ~AtHead(block)' /\ ~Behind(block)' /\ ~Due(block)' /\ (NotYet(block)' <=> NotYet(block))
    BY <1>4, <1>5, <1>6, <1>7, <1>10, <2>1, <2>2
  <2> QED
    BY <1>9, <2>1, <2>3
<1>19. ASSUME Done \/ UNCHANGED vars PROVE Goal
  <2>1. queue' = queue /\ issued' = issued /\ running' = running /\ y2 = y /\ pc' = pc /\ rc' = rc
    BY <1>2, <1>19 DEF Done, vars
  <2> QED
    BY <1>6, <1>7, <1>11, <2>1
<1>20. Goal
  BY <1>12, <1>13, <1>14, <1>15, <1>16, <1>17, <1>18, <1>19, <1>21 DEF Next, HostStep
<1> QED
  BY <1>2, <1>20, Frozen DEF CellOk

-----------------------------------------------------------------------------
\* The invariant, for every function, every shape whose windows lie in X, every
\* tile, and every order in which the CTAs of the two kernels end.
THEOREM Invariant == Spec => []IInv
<1>1. Init => IInv
  BY InitInv
<1>2. IInv /\ [Next]_vars => IInv'
  BY ShapeStep, QueueStep, LaunchStep, CellStep, OthersStep DEF IInv
<1> QED
  BY <1>1, <1>2, PTL DEF Spec

\* No CTA reads a window that runs into the next row of X or writes elements
\* that are not its own, and none writes outside a Y that has room for the
\* product: at any time, what has been written is right.
THEOREM NothingIsWrong == Spec => []NothingWrong
<1>1. ASSUME IInv, NEW a \in DOMAIN Y, Y[a] # Unset
      PROVE  \E tok \in Token, block \in Block, o \in Output :
               a = OutputAddr(tok, block, o) /\ Y[a] = Reference(tok, block, o)
  <2>1. PICK tok \in Token, block \in Block, o \in Output : a = OutputAddr(tok, block, o)
    BY <1>1 DEF IInv, OthersInv, IsOutput
  <2> QED
    BY <1>1, <2>1 DEF IInv, CellInv, CellOk
<1>2. ASSUME IInv, Fits PROVE stray = {}
  BY <1>2, FitsY DEF IInv, OthersInv
<1>3. IInv => NothingWrong
  BY <1>1, <1>2 DEF NothingWrong
<1> QED
  BY <1>3, Invariant, PTL

\* When the stream is empty and no step of CUTLASS has failed, the kernel of each
\* block that is covered has been launched and has retired.
LEMMA IdleCovered ==
  ASSUME IInv, Idle, rc = 0, Aligned, Fits, call.coded \/ fault = "none",
         NEW tok \in Token, NEW block \in Block, NEW o \in Output
  PROVE  Y[OutputAddr(tok, block, o)] = IF block \in Covered THEN Reference(tok, block, o) ELSE Unset
<1>1. pc = "returned" /\ queue = <<>>
  BY DEF Idle
<1>2. ~AtHead(block) /\ ~Behind(block) /\ ~NotYet(block)
  BY <1>1, ShortQueue DEF AtHead, Behind, NotYet, BeforeMain, BeforeTail
<1>3. block \in Covered => Due(block)
  BY <1>2 DEF Due, Well
<1>4. OutputAddr(tok, block, o) \in DOMAIN Y
  BY FitsY DEF IInv, IsOutput
<1> QED
  BY <1>2, <1>3, <1>4 DEF IInv, CellInv, CellOk

\* When everything has been launched, both GEMMs together have written each
\* element of the blocks that a grid covers, in the layout promised.
THEOREM ProductIsComplete == Spec => []ProductComplete
<1>1. IInv => ProductComplete
  BY IdleCovered DEF ProductComplete
<1> QED
  BY <1>1, Invariant, PTL

\* A function with codes never reports success for a Y that is not computed,
\* whichever step failed, as long as everything is aligned and the batch count is
\* not reduced.
THEOREM SuccessMeansComplete == Spec => []SuccessIsComplete
<1>1. ASSUME IInv, call.coded, Aligned, nmain < GridLimit, Idle, rc = 0 PROVE IsProduct
  <2>1. call \in Calls /\ shape \in Shapes /\ pc = "returned"
    BY <1>1 DEF IInv, ShapeInv, Idle
  <2>2. call.in = "token" /\ call.swizzle
    BY <1>1, <2>1, CallType
  <2>3. Fits
    <3>1. PICK r \in Int : r = nb * N
      BY <2>1, Sizes
    <3>2. Rows = nb * N
      BY <2>2 DEF Rows
    <3> QED
      BY <3>1, <3>2 DEF Fits
  <2>4. Launchable(args_main) /\ (HasTail => Launchable(args_tail))
    BY <1>1, <2>1 DEF IInv, LaunchInv, BeforeMain, BeforeTail
  <2>5. Tiles(args_main).k = nmain
    <3>1. Tiles(args_main).k = nmain % GridLimit
      BY <2>1, <2>2, GemmType DEF Tiles
    <3>2. PICK n \in Nat, l \in Nat \ {0} : n = nmain /\ l = GridLimit /\ n < l
      BY <1>1, <2>1, Sizes
    <3>3. n % l = n
      BY <3>2
    <3> QED
      BY <3>1, <3>2, <3>3
  <2>6. ASSUME NEW block \in Block, block * stride < Ktot PROVE block \in Covered
    <3>1. block = nmain => HasTail
      <4>1. PICK w \in Int : w = nmain * stride
        BY <2>1, Sizes
      <4>2. block = nmain => Ktail > 0
        BY <2>1, <2>6, <4>1, Sizes
      <4> QED
        BY <4>2 DEF HasTail
    <3>2. block # nmain => block < nmain
      BY <2>1, Sizes DEF Block
    <3> QED
      BY <2>4, <2>5, <3>1, <3>2 DEF Covered
  <2> QED
    BY <1>1, <2>3, <2>6, IdleCovered DEF IsProduct
<1>2. IInv => SuccessIsComplete
  BY <1>1 DEF SuccessIsComplete
<1> QED
  BY <1>2, Invariant, PTL

\* No element of the output is computed twice: the blocks do not overlap, and
\* neither do the tiles of two CTAs.
THEOREM EachWrittenOnce == Spec => WrittenOnce
<1> DEFINE Once == \A id \in running \ running' : queue' = queue =>
                     \A a \in Stores(Head(queue), id) \cap DOMAIN Y : Y[a] = Unset
<1>1. ASSUME IInv, NEW id \in running, NEW a \in Stores(Head(queue), id), a \in DOMAIN Y
      PROVE  Y[a] = Unset
  <2>1. PICK ij \in TileCells(Head(queue), TileOffset(Head(queue), id)) :
          a = Addr(Head(queue).D, TileOffset(Head(queue), id).k, ij[1], ij[2])
    BY <1>1 DEF Stores
  <2>2. PICK tok \in Token, block \in Block, o \in Output :
          a = OutputAddr(tok, block, o) /\ AtHead(block) /\ id = CellCta(tok, block, o)
    BY <1>1, <2>1, StoresOwn DEF IInv
  <2>3. CellOk(block, Y[a], id, Reference(tok, block, o))
    BY <1>1, <2>2 DEF IInv, CellInv
  <2> QED
    BY <1>1, <2>2, <2>3 DEF CellOk
<1>2. IInv => Once
  BY <1>1
<1>3. IInv /\ [Next]_vars => [Once]_vars
  BY <1>2
<1> QED
  BY <1>3, Invariant, PTL DEF Spec, WrittenOnce

\* With the custom swizzle the CTA issued before that of batch b > 0 is that of
\* batch b - 1 and of the same rows and columns of the output.
THEOREM BatchIsFastest == Spec => []BatchFastest
<1>1. ASSUME IInv, call \in {bdmm, bdmm_cfg, swz_s1, rowout_swz_s1, swz_s2}, queue # <<>>,
             NEW id \in running, TileOffset(Head(queue), id).k > 0
      PROVE  TileOffset(Head(queue), id - 1) = [TileOffset(Head(queue), id) EXCEPT !.k = @ - 1]
  <2> DEFINE g == Head(queue)
             t == TileOffset(g, id)
             before == [t EXCEPT !.k = @ - 1]
  <2>1. call \in Calls /\ shape \in Shapes /\ call.swizzle
    BY <1>1 DEF IInv, ShapeInv, bdmm, bdmm_cfg, swz_s1, rowout_swz_s1, swz_s2, Fun
  <2>2. IsGemm(g) /\ id \in 0 .. issued - 1 /\ issued \in Nat /\ issued <= CtaCount(g)
    BY <1>1, ShortQueue DEF IInv, QueueInv, IsGemm
  <2>3. id \in 0 .. CtaCount(g) - 1
    BY <2>1, <2>2, Places
  <2>4. InGrid(g, t) /\ id = Linear(g, t)
    BY <2>1, <2>2, <2>3, Places
  <2>5. InGrid(g, before) /\ before.m = t.m /\ before.n = t.n /\ before.k = t.k - 1
    <3>1. before = [m |-> t.m, n |-> t.n, k |-> t.k - 1]
      BY <2>4 DEF InGrid
    <3>2. t.k \in 0 .. Tiles(g).k - 1 /\ t.k > 0 /\ Tiles(g).k \in Nat
      BY <1>1, <2>1, <2>2, <2>4, GridType DEF InGrid
    <3>3. t.k - 1 \in 0 .. Tiles(g).k - 1
      BY <3>2
    <3> HIDE DEF before, t, g
    <3> QED
      BY <2>4, <3>1, <3>3 DEF InGrid
  <2>6. Linear(g, before) = id - 1
    <3>1. GridShape(g)[1] \in Nat /\ GridShape(g)[2] \in Nat
      BY <2>1, <2>2, GridType DEF GridShape
    <3>2. PICK rest \in Int : rest = GridShape(g)[1] * (t.n + GridShape(g)[2] * t.m)
      <4>1. t.n \in Int /\ t.m \in Int
        BY <2>4, <2>1, <2>2, GridType DEF InGrid
      <4> QED
        BY <3>1, <4>1
    <3>3. Linear(g, t) = t.k + rest /\ Linear(g, before) = (t.k - 1) + rest /\ t.k \in Int
      BY <2>1, <2>4, <2>5, <3>2 DEF Linear, InGrid
    <3> QED
      BY <2>4, <3>2, <3>3
  <2> QED
    BY <2>1, <2>2, <2>5, <2>6, Places
<1>2. IInv => BatchFastest
  BY <1>1 DEF BatchFastest
<1> QED
  BY <1>2, Invariant, PTL

=============================================================================
