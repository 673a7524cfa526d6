-------------------------- MODULE FusedStage_proofs --------------------------
(***************************************************************************)
(* The invariants of FusedStage, proved for every number of rows, blocks,  *)
(* features and planes and every tiling whose warps partition the rows of  *)
(* a CTA.                                                                  *)
(***************************************************************************)
EXTENDS FusedStage, DivisionLemmas

Launched == smem /\ host # "call"

\* The phases of a CTA: a barrier, or the launch, is between two of them.
Multiplying == {"multiply", "sync"}
Rotating    == {"rotate", "rotated"}
Writing     == {"write", "exit"}

\* The thread that rotates row r of CTA t, the one that writes element i of its
\* strip, and the one that leads the warp that multiplies the row.
Rotator(t, r)    == <<t, r % Threads>>
Writer(t, i)     == <<t, i % Threads>>
Multiplier(t, r) == Leader(t, r \div cfg.WM)

Strip == 0 .. cfg.TBM * FEAT - 1
Global(t, r) == t * cfg.TBM + r

\* Planes that a thread which passes the rows in turn has applied to row r.
Applied(x, r) == IF r < at[x] THEN Len(Planes) ELSE IF r = at[x] THEN k[x] ELSE 0

\* The product in a row of the matrix, and the rows after 0 to n planes.
ProductRow(grow) == [f \in Feat |-> Product(grow, f \div N_OUT, f % N_OUT)]
IsAfter(h, grow, n) ==
  h = [i \in 0 .. n |-> IF i = 0 THEN ProductRow(grow) ELSE Rotated(h[i - 1], i)]

\* Has the multiplier of row r of CTA t stored feature f?
Multiplied(t, r, f) ==
  LET l == Multiplier(t, r)
  IN  f \div N_OUT < b[l] \/ (f \div N_OUT = b[l] /\ pc[l] = "sync")

\* Is element i of the strip of CTA t in Y?
Stored(t, i) ==
  /\ pc[Writer(t, i)] \in Writing /\ i < at[Writer(t, i)]
  /\ Global(t, i \div FEAT) < M

\* What memory holds before it is written is no value that the kernel stores.
UnsetIsNoValue ==
  /\ \A grow, j, o : Product(grow, j, o) # Unset
  /\ \A i, u, v : <<"lo", i, u, v>> # Unset /\ <<"hi", i, u, v>> # Unset

-----------------------------------------------------------------------------
ShapeInv ==
  /\ cfg \in Configs
  /\ host \in {"call", "returned", "raised"}
  /\ smem \in BOOLEAN
  /\ pc \in [Thread -> {"wait"} \cup Multiplying \cup Rotating \cup Writing]
  /\ b \in [Thread -> 0 .. nb]
  /\ k \in [Thread -> 0 .. Len(Planes)]
  /\ at \in [Thread -> Nat]
  /\ osh = [t \in Cta |-> [r \in Row |-> [f \in Feat |-> osh[t][r][f]]]]
  /\ Y = [a \in Cells |-> Y[a]]

\* Where a thread is says what it has done.
ThreadInv ==
  \A x \in Thread :
    /\ pc[x] = "wait" <=> ~Launched
    /\ pc[x] \in {"wait"} \cup Multiplying => k[x] = 0 /\ b[x] < nb
    /\ pc[x] = "wait" => b[x] = 0
    /\ pc[x] \in Rotating \cup Writing => at[x] % Threads = x[2]
    /\ pc[x] = "rotated" => at[x] >= cfg.TBM
    /\ pc[x] = "exit" => at[x] >= cfg.TBM * FEAT

\* The threads of a CTA are in the same phase, and at the same block.
TogetherInv ==
  \A x, y \in Thread : x[1] = y[1] =>
    /\ b[x] = b[y]
    /\ pc[x] \in Multiplying => pc[y] \in Multiplying
    /\ pc[x] \in Rotating => pc[y] \in Rotating
    /\ pc[x] \in Writing => pc[y] \in Writing

\* A row of the buffer has the blocks its warp has stored; then the planes its
\* thread has applied.
MultiplyInv ==
  \A t \in Cta, r \in Row :
    pc[Multiplier(t, r)] \in {"wait"} \cup Multiplying =>
      \A f \in Feat : Multiplied(t, r, f) =>
        osh[t][r][f] = Product(Global(t, r), f \div N_OUT, f % N_OUT)

RotateInv ==
  \A t \in Cta, r \in Row :
    /\ pc[Rotator(t, r)] \in Rotating =>
         osh[t][r] = After(Global(t, r))[Applied(Rotator(t, r), r)]
    /\ pc[Rotator(t, r)] \in Writing => osh[t][r] = Fused(Global(t, r))

\* Y has the elements that have been passed, and no others.
WriteInv ==
  \A t \in Cta, i \in Strip :
    Y[t * (cfg.TBM * FEAT) + i] =
      IF Stored(t, i) THEN Fused(Global(t, i \div FEAT))[i % FEAT] ELSE Unset

\* A checked launch returns only if the kernel ran.
HostInv == host = "returned" => smem \/ ~cfg.checked

ControlInv == ShapeInv /\ ThreadInv /\ TogetherInv
IInv       == HostInv /\ ControlInv /\ MultiplyInv /\ RotateInv /\ WriteInv
-----------------------------------------------------------------------------
\* The parameters are numbers of the right kind, and the warps partition the
\* rows of a CTA.
LEMMA Sizes ==
  ASSUME cfg \in Configs
  PROVE  /\ M \in Nat /\ nb \in Nat \ {0} /\ N_OUT \in Nat \ {0} /\ WARP \in Nat \ {0}
         /\ cfg.WM \in Nat \ {0} /\ cfg.TBM \in Nat \ {0}
         /\ FEAT \in Nat \ {0}
         /\ kWarpsM \in Nat \ {0} /\ kWarpsM * cfg.WM = cfg.TBM
         /\ Threads \in Nat \ {0}
         /\ cfg.TBM * FEAT \in Nat \ {0}
         /\ Len(Planes) \in Nat
<1>1. /\ M \in Nat /\ nb \in Nat \ {0} /\ N_OUT \in Nat \ {0} /\ WARP \in Nat \ {0}
      /\ cfg.WM \in Nat \ {0} /\ cfg.TBM \in Nat \ {0} /\ cfg.TBM % cfg.WM = 0
      /\ Len(Planes) \in Nat
  BY FusedAssumption
<1>2. \A p, q \in Nat \ {0} : p * q \in Nat \ {0}
  <2>1. SUFFICES ASSUME NEW p \in Nat \ {0}, NEW q \in Nat \ {0} PROVE p * q \in Nat \ {0}
    OBVIOUS
  <2>2. 1 * q <= p * q /\ p * q \in Int
    BY MulMono
  <2> QED
    BY <2>2
<1>3. PICK tbm \in Nat \ {0}, wm \in Nat \ {0} : tbm = cfg.TBM /\ wm = cfg.WM /\ tbm % wm = 0
  BY <1>1
<1>4. tbm \div wm \in Nat /\ tbm = (tbm \div wm) * wm
  <2>1. tbm \div wm \in Nat /\ tbm = (tbm \div wm) * wm + (tbm % wm)
    BY DivMod
  <2>2. PICK q \in Nat : q = tbm \div wm
    BY <2>1
  <2>3. tbm = q * wm + 0
    BY <1>3, <2>1, <2>2
  <2> QED
    BY <2>2, <2>3
<1>5. tbm \div wm # 0
  BY <1>4
<1>6. kWarpsM \in Nat \ {0} /\ kWarpsM * cfg.WM = cfg.TBM
  BY <1>3, <1>4, <1>5 DEF kWarpsM
<1>7. FEAT \in Nat \ {0} /\ Threads \in Nat \ {0}
  BY <1>1, <1>2, <1>6 DEF FEAT, Threads
<1> QED
  BY <1>1, <1>2, <1>6, <1>7

\* What is computed from the configuration stays as it is.
LEMMA Frozen ==
  ASSUME cfg' = cfg
  PROVE  /\ kWarpsM' = kWarpsM /\ Warp' = Warp /\ Threads' = Threads /\ Cta' = Cta
         /\ Row' = Row /\ Thread' = Thread /\ Strip' = Strip /\ Cells' = Cells
         /\ \A t, r : Rotator(t, r)' = Rotator(t, r) /\ Writer(t, r)' = Writer(t, r)
                      /\ Multiplier(t, r)' = Multiplier(t, r) /\ Global(t, r)' = Global(t, r)
BY DEF kWarpsM, Warp, Threads, Cta, Row, Thread, Strip, Cells, Rotator, Writer, Multiplier,
       Leader, Global

LEMMA ThreadType ==
  ASSUME cfg \in Configs, NEW x \in Thread
  PROVE  /\ x[1] \in Cta /\ x[2] \in 0 .. Threads - 1 /\ x = <<x[1], x[2]>>
         /\ x[2] \in Nat /\ x[1] \in Nat
  BY Sizes DEF Thread, Cta

\* A row has its rotator and its warp, an element of the strip its writer.
LEMMA ActorType ==
  ASSUME cfg \in Configs, NEW t \in Cta
  PROVE  /\ \A r \in Row : Rotator(t, r) \in Thread /\ Multiplier(t, r) \in Thread
                           /\ r \div cfg.WM \in Warp
         /\ \A i \in Strip : Writer(t, i) \in Thread
<1>1. \A i \in Nat : i % Threads \in 0 .. Threads - 1
  BY Sizes, DivMod
<1>2. ASSUME NEW r \in Row PROVE r \div cfg.WM \in Warp /\ (r \div cfg.WM) * WARP \in 0 .. Threads - 1
  <2>a. r \in Nat /\ cfg.WM \in Nat \ {0}
    BY <1>2, Sizes DEF Row
  <2>b. PICK q \in Nat : q = r \div cfg.WM
    BY <2>a, DivMod
  <2>1. PICK tbm \in Nat \ {0}, wm \in Nat \ {0}, n \in Nat \ {0}, wa \in Nat \ {0} :
          tbm = cfg.TBM /\ wm = cfg.WM /\ n = kWarpsM /\ wa = WARP /\ n * wm = tbm
    BY Sizes
  <2>2. r \in Nat /\ r < tbm
    BY <1>2, <2>1, Sizes DEF Row
  <2>3. q \in Nat /\ q * wm <= r
    <3>1. q \in Nat /\ r % wm \in 0 .. wm - 1 /\ r = q * wm + (r % wm)
      BY <2>b, <2>1, <2>2, DivMod
    <3> QED
      BY <3>1
  <2>4. ~(n <= q)
    <3>1. SUFFICES ASSUME n <= q PROVE FALSE
      OBVIOUS
    <3>2. n * wm <= q * wm
      BY <3>1, <2>1, MulMono
    <3> QED
      BY <3>2, <2>1, <2>2, <2>3
  <2>5. q + 1 <= n
    BY <2>1, <2>3, <2>4
  <2>6. (q + 1) * wa <= n * wa /\ (q + 1) * wa = q * wa + wa /\ q * wa \in Nat
    BY <2>1, <2>3, <2>5, MulMono
  <2>7. Threads = n * wa
    BY <2>1 DEF Threads
  <2>8. q * wa \in 0 .. Threads - 1
    <3>1. PICK y \in Nat, z \in Int : y = q * wa /\ z = n * wa /\ (q + 1) * wa = y + wa
      BY <2>6
    <3>2. y + wa <= z
      BY <3>1, <2>6
    <3> QED
      BY <2>7, <3>1, <3>2
  <2>9. q \in Warp
    BY <2>1, <2>b, <2>3, <2>5 DEF Warp
  <2> QED
    BY <2>1, <2>b, <2>8, <2>9
<1>3. \A r \in Row : r \in Nat
  BY Sizes DEF Row
<1>4. \A i \in Strip : i \in Nat
  BY Sizes DEF Strip
<1> QED
  BY <1>1, <1>2, <1>3, <1>4 DEF Rotator, Multiplier, Leader, Writer, Thread

\* The reference, plane by plane: the recursive function exists, because a row
\* that is described up to a plane can be described up to the next.
LEMMA AfterExists ==
  ASSUME NEW grow, NEW n \in Nat
  PROVE  \E h : IsAfter(h, grow, n)
<1> DEFINE product == ProductRow(grow)
           Describes(h, m) == h = [i \in 0 .. m |-> IF i = 0 THEN product ELSE Rotated(h[i - 1], i)]
           Bad == {m \in Nat : ~\E h : Describes(h, m)}
<1> HIDE DEF product
<1>1. Describes([i \in 0 .. 0 |-> product], 0)
  OBVIOUS
<1>2. ASSUME NEW m \in Nat, NEW h, Describes(h, m)
      PROVE  Describes([i \in 0 .. m + 1 |-> IF i <= m THEN h[i] ELSE Rotated(h[m], m + 1)], m + 1)
  <2> DEFINE g == [i \in 0 .. m + 1 |-> IF i <= m THEN h[i] ELSE Rotated(h[m], m + 1)]
  <2>1. ASSUME NEW i \in 0 .. m + 1
        PROVE  g[i] = IF i = 0 THEN product ELSE Rotated(g[i - 1], i)
    <3>1. CASE i = 0
      BY <3>1, <1>2
    <3>2. CASE i \in 1 .. m
      <4>1. g[i] = h[i] /\ g[i - 1] = h[i - 1]
        BY <3>2
      <4>2. h[i] = Rotated(h[i - 1], i)
        BY <3>2, <1>2
      <4> QED
        BY <3>2, <4>1, <4>2
    <3>3. CASE i = m + 1
      <4>1. g[i - 1] = h[m] /\ g[i] = Rotated(h[m], m + 1)
        BY <3>3
      <4> QED
        BY <3>3, <4>1
    <3> QED
      BY <3>1, <3>2, <3>3
  <2> QED
    BY <2>1
<1> HIDE DEF Describes
<1>3. ASSUME Bad # {} PROVE FALSE
  <2>1. PICK m \in Bad : \A j \in Bad : m <= j
    BY <1>3, LeastElement
  <2>2. m # 0
    BY <2>1, <1>1
  <2>3. m - 1 \in Nat /\ m - 1 \notin Bad /\ m \in Nat /\ m = (m - 1) + 1
    BY <2>1, <2>2
  <2>4. PICK h : Describes(h, m - 1)
    BY <2>3
  <2>5. \E g : Describes(g, (m - 1) + 1)
    BY <2>3, <2>4, <1>2
  <2> QED
    BY <2>1, <2>3, <2>5
<1> QED
  BY <1>3 DEF product, Describes, IsAfter

LEMMA AfterPlanes ==
  ASSUME NEW grow, cfg \in Configs
  PROVE  /\ After(grow)[0] = ProductRow(grow)
         /\ \A i \in 1 .. Len(Planes) : After(grow)[i] = Rotated(After(grow)[i - 1], i)
<1>1. Len(Planes) \in Nat
  BY Sizes
<1>2. \E h : IsAfter(h, grow, Len(Planes))
  BY <1>1, AfterExists
<1>3. After(grow) = CHOOSE h : IsAfter(h, grow, Len(Planes))
  BY DEF After, IsAfter, ProductRow
<1>4. IsAfter(After(grow), grow, Len(Planes))
  BY <1>2, <1>3
<1> QED
  BY <1>1, <1>4 DEF IsAfter

\* A number below Threads is its own remainder; a row is no smaller than its
\* rotator, an element no smaller than its writer.
LEMMA OwnRemainder ==
  ASSUME cfg \in Configs
  PROVE  /\ \A j \in 0 .. Threads - 1 : j % Threads = j
         /\ \A r \in Nat : r % Threads <= r /\ (r + Threads) % Threads = r % Threads
         /\ \A p, q \in Nat : p % Threads = q % Threads /\ p < q => p + Threads <= q
<1>1. PICK n \in Nat \ {0} : n = Threads
  BY Sizes
<1>2. \A j \in 0 .. n - 1 : j % n = j
  <2>1. SUFFICES ASSUME NEW j \in 0 .. n - 1 PROVE j % n = j
    OBVIOUS
  <2>2. j = 0 * n + j
    OBVIOUS
  <2> QED
    BY <2>2, DivModUnique
<1>3. \A r \in Nat : r % n <= r /\ (r + n) % n = r % n
  BY ModAtMost, ModStep
<1>4. \A p, q \in Nat : p % n = q % n /\ p < q => p + n <= q
  BY SameMod
<1> QED
  BY <1>1, <1>2, <1>3, <1>4

\* Replacing the buffer of a CTA by another keeps the shape.
Shaped(o) == o = [t \in Cta |-> [r \in Row |-> [f \in Feat |-> o[t][r][f]]]]

LEMMA Updated ==
  ASSUME NEW o, Shaped(o), NEW t \in Cta, NEW e, e = [r \in Row |-> [f \in Feat |-> e[r][f]]]
  PROVE  Shaped([o EXCEPT ![t] = e])
<1> DEFINE n == [o EXCEPT ![t] = e]
<1>1. n = [u \in Cta |-> n[u]]
  BY DEF Shaped
<1>2. ASSUME NEW u \in Cta PROVE n[u] = [r \in Row |-> [f \in Feat |-> n[u][r][f]]]
  <2>1. CASE u = t
    BY <2>1 DEF Shaped
  <2>2. CASE u # t
    BY <2>2 DEF Shaped
  <2> QED
    BY <2>1, <2>2
<1> QED
  BY <1>1, <1>2 DEF Shaped

LEMMA ShapeStep ==
  ASSUME ShapeInv, ThreadInv, [Next]_vars
  PROVE  ShapeInv' /\ cfg' = cfg /\ smem' = smem
<1> DEFINE Typed ==
             /\ host' \in {"call", "returned", "raised"}
             /\ pc' \in [Thread -> {"wait"} \cup Multiplying \cup Rotating \cup Writing]
             /\ b' \in [Thread -> 0 .. nb]
             /\ k' \in [Thread -> 0 .. Len(Planes)]
             /\ at' \in [Thread -> Nat]
             /\ Shaped(osh')
             /\ Y' = [a \in Cells |-> Y'[a]]
             /\ cfg' = cfg /\ smem' = smem
<1>1. /\ cfg \in Configs /\ smem \in BOOLEAN
      /\ host \in {"call", "returned", "raised"}
      /\ pc \in [Thread -> {"wait"} \cup Multiplying \cup Rotating \cup Writing]
      /\ b \in [Thread -> 0 .. nb]
      /\ k \in [Thread -> 0 .. Len(Planes)]
      /\ at \in [Thread -> Nat]
      /\ Shaped(osh)
      /\ Y = [a \in Cells |-> Y[a]]
  BY DEF ShapeInv, Shaped
<1>2. /\ Threads \in Nat /\ cfg.TBM \in Nat /\ \A x \in Thread : x[2] \in Nat /\ x[1] \in Cta
      /\ nb \in Nat /\ Len(Planes) \in Nat
  BY <1>1, Sizes, ThreadType
<1>3. ASSUME Launch PROVE Typed
  BY <1>1, <1>3 DEF Launch, kernel_vars, Multiplying
<1>4. ASSUME LaunchRefused PROVE Typed
  BY <1>1, <1>4 DEF LaunchRefused, kernel_vars
<1>5. ASSUME NEW t \in Cta, NEW w \in Warp, MultiplyBlock(t, w)
      PROVE  Typed
  <2> DEFINE E == [r \in Row |-> [f \in Feat |->
                     IF r \in RowsOf(w) /\ f \div N_OUT = b[Leader(t, w)]
                     THEN Product(t * cfg.TBM + r, b[Leader(t, w)], f % N_OUT) ELSE osh[t][r][f]]]
  <2>1. osh' = [osh EXCEPT ![t] = E]
    BY <1>5, <1>1 DEF MultiplyBlock, Shaped
  <2>a. E = [r \in Row |-> [f \in Feat |-> E[r][f]]]
    OBVIOUS
  <2> HIDE DEF E
  <2>2. Shaped(osh')
    BY <2>1, <2>a, <1>1, Updated
  <2> QED
    BY <1>1, <1>5, <2>2 DEF MultiplyBlock, Move, Multiplying
<1>6. ASSUME NEW t \in Cta, BlockBarrier(t)
      PROVE  Typed
  <2>1. <<t, 0>> \in Peers(t)
    BY <1>1, Sizes DEF Peers, Thread
  <2>2. b[<<t, 0>>] + 1 \in 0 .. nb
    BY <1>6, <2>1, <1>2 DEF BlockBarrier, Move, ThreadInv, ShapeInv, Multiplying, Peers
  <2> QED
    BY <1>1, <1>6, <2>2, <1>2 DEF BlockBarrier, Move, Multiplying, Rotating
<1>7. ASSUME NEW x \in Thread, RotatePlane(x)
      PROVE  Typed
  <2>1. at[x] \in Row /\ k[x] + 1 \in 0 .. Len(Planes)
    BY <1>1, <1>2, <1>7 DEF RotatePlane, Row
  <2>2. osh' = [osh EXCEPT ![x[1]][at[x]] = Rotated(osh[x[1]][at[x]], k[x] + 1)]
    BY <1>1, <1>2, <1>7, <2>1 DEF RotatePlane, Shaped
  <2>3. DOMAIN osh[x[1]][at[x]] = Feat
    BY <1>1, <1>2, <2>1 DEF Shaped
  <2> DEFINE o == Rotated(osh[x[1]][at[x]], k[x] + 1)
             E == [osh[x[1]] EXCEPT ![at[x]] = o]
  <2>4. o = [f \in Feat |-> o[f]]
    BY <2>3 DEF Rotated
  <2> HIDE DEF o
  <2>5. E = [r \in Row |-> [f \in Feat |-> E[r][f]]]
    <3>1. osh[x[1]] = [r \in Row |-> [f \in Feat |-> osh[x[1]][r][f]]]
      BY <1>1, <1>2 DEF Shaped
    <3>2. DOMAIN E = Row /\ E = [r \in Row |-> E[r]]
      BY <3>1
    <3>3. ASSUME NEW r \in Row PROVE E[r] = [f \in Feat |-> E[r][f]]
      BY <3>1, <2>1, <2>4
    <3> QED
      BY <3>2, <3>3
  <2>6. osh' = [osh EXCEPT ![x[1]] = E]
    BY <2>2 DEF o
  <2> HIDE DEF E
  <2>7. Shaped(osh')
    BY <2>5, <2>6, <1>1, <1>2, Updated
  <2> QED
    BY <1>1, <1>7, <2>1, <2>7 DEF RotatePlane
<1>8. ASSUME NEW x \in Thread, NextRow(x)
      PROVE  Typed
  <2>1. at[x] + Threads \in Nat /\ 0 \in 0 .. Len(Planes)
    BY <1>1, <1>2
  <2> QED
    BY <1>1, <1>8, <2>1 DEF NextRow
<1>9. ASSUME NEW x \in Thread, EndRows(x)
      PROVE  Typed
  BY <1>1, <1>9 DEF EndRows, kernel_vars, Rotating
<1>10. ASSUME NEW t \in Cta, RotateBarrier(t)
       PROVE  Typed
  BY <1>1, <1>2, <1>10 DEF RotateBarrier, Move, Writing
<1>11. ASSUME NEW x \in Thread, Write(x)
       PROVE  Typed
  <2>1. at[x] + Threads \in Nat
    BY <1>1, <1>2
  <2>2. at' \in [Thread -> Nat]
    BY <1>1, <1>11, <2>1 DEF Write, NextElement
  <2>3. Y' = [a \in Cells |-> Y'[a]]
    BY <1>1, <1>11 DEF Write
  <2> QED
    BY <1>1, <1>11, <2>2, <2>3 DEF Write
<1>12. ASSUME NEW x \in Thread, Exit(x)
       PROVE  Typed
  BY <1>1, <1>12 DEF Exit, kernel_vars, Writing
<1>13. ASSUME UNCHANGED vars PROVE Typed
  BY <1>1, <1>13 DEF vars
<1>14. Typed
  BY <1>3, <1>4, <1>5, <1>6, <1>7, <1>8, <1>9, <1>10, <1>11, <1>12, <1>13
     DEF Next, CtaStep, Peers, Done
<1> QED
  BY <1>1, <1>14, Frozen DEF ShapeInv, Shaped

LEMMA ThreadStep ==
  ASSUME ControlInv, [Next]_vars
  PROVE  ThreadInv' /\ TogetherInv'
<1>1. cfg \in Configs /\ cfg' = cfg /\ smem' = smem
  BY ShapeStep DEF ControlInv, ShapeInv
<1>2. /\ Threads \in Nat /\ nb \in Nat
      /\ \A x \in Thread : x[2] \in Nat /\ x[2] % Threads = x[2]
      /\ \A r \in Nat : (r + Threads) % Threads = r % Threads
  BY <1>1, Sizes, ThreadType, OwnRemainder
<1>3. /\ pc \in [Thread -> {"wait"} \cup Multiplying \cup Rotating \cup Writing]
      /\ b \in [Thread -> 0 .. nb]
      /\ k \in [Thread -> 0 .. Len(Planes)]
      /\ at \in [Thread -> Nat]
      /\ ThreadInv /\ TogetherInv
  BY DEF ControlInv, ShapeInv
<1> DEFINE Local(x) ==
             /\ pc'[x] = "wait" <=> ~Launched'
             /\ pc'[x] \in {"wait"} \cup Multiplying => k'[x] = 0 /\ b'[x] < nb
             /\ pc'[x] = "wait" => b'[x] = 0
             /\ pc'[x] \in Rotating \cup Writing => at'[x] % Threads = x[2]
             /\ pc'[x] = "rotated" => at'[x] >= cfg.TBM
             /\ pc'[x] = "exit" => at'[x] >= cfg.TBM * FEAT
           Agree(x, y) ==
             /\ b'[x] = b'[y]
             /\ pc'[x] \in Multiplying => pc'[y] \in Multiplying
             /\ pc'[x] \in Rotating => pc'[y] \in Rotating
             /\ pc'[x] \in Writing => pc'[y] \in Writing
           Goal == /\ \A x \in Thread : Local(x)
                   /\ \A x, y \in Thread : x[1] = y[1] => Agree(x, y)
<1>4. ASSUME Launch PROVE Goal
  BY <1>1, <1>3, <1>4
     DEF Launch, kernel_vars, ThreadInv, TogetherInv, Multiplying, Rotating, Writing, Launched
<1>5. ASSUME LaunchRefused PROVE Goal
  BY <1>1, <1>3, <1>5 DEF LaunchRefused, kernel_vars, ThreadInv, TogetherInv, Launched
<1>6. ASSUME NEW t \in Cta, NEW w \in Warp, MultiplyBlock(t, w)
      PROVE  Goal
  <2>1. /\ b' = b /\ k' = k /\ at' = at /\ Launched' = Launched
        /\ \A x \in Thread : \/ pc'[x] = pc[x]
                             \/ pc[x] = "multiply" /\ pc'[x] = "sync"
    BY <1>1, <1>3, <1>6 DEF MultiplyBlock, Move, Launched
  <2>2. \A x \in Thread : Local(x)
    BY <2>1, <1>3 DEF ThreadInv, Multiplying, Rotating, Writing
  <2>3. \A x, y \in Thread : x[1] = y[1] => Agree(x, y)
    BY <2>1, <1>3 DEF TogetherInv, Multiplying, Rotating, Writing
  <2> QED
    BY <2>2, <2>3
<1>7. ASSUME NEW t \in Cta, BlockBarrier(t)
      PROVE  Goal
  <2>1. <<t, 0>> \in Peers(t)
    BY <1>1, Sizes DEF Peers, Thread
  <2>2. PICK j \in Int : j = b[<<t, 0>>]
    BY <2>1, <1>2, <1>3 DEF Peers
  <2>3. \A x \in Peers(t) : b[x] = j /\ pc[x] = "sync" /\ x \in Thread
    BY <1>3, <1>7, <2>1, <2>2 DEF Peers, TogetherInv, BlockBarrier, Move
  <2>4. /\ \A x \in Peers(t) :
             /\ pc'[x] = IF j + 1 < nb THEN "multiply" ELSE "rotate"
             /\ b'[x] = j + 1 /\ at'[x] = x[2]
        /\ \A x \in Thread : x[1] # t => pc'[x] = pc[x] /\ b'[x] = b[x] /\ at'[x] = at[x]
        /\ k' = k /\ Launched' = Launched
    BY <1>1, <1>7, <2>2 DEF BlockBarrier, Move, Peers, Launched
  <2>5. \A x \in Thread : x \in Peers(t) <=> x[1] = t
    BY DEF Peers
  <2>6. ASSUME NEW x \in Thread PROVE Local(x)
    BY <2>2, <2>3, <2>4, <2>5, <1>2, <1>3 DEF ThreadInv, Multiplying, Rotating, Writing
  <2>7. ASSUME NEW x \in Thread, NEW y \in Thread, x[1] = y[1] PROVE Agree(x, y)
    <3>1. CASE x[1] = t
      BY <3>1, <2>2, <2>4, <2>5, <2>7, <1>2 DEF Multiplying, Rotating, Writing
    <3>2. CASE x[1] # t
      BY <3>2, <2>4, <2>7, <1>3 DEF TogetherInv
    <3> QED
      BY <3>1, <3>2
  <2> QED
    BY <2>6, <2>7
<1>8. ASSUME NEW x \in Thread, RotatePlane(x)
      PROVE  Goal
  <2>1. /\ pc' = pc /\ b' = b /\ at' = at /\ Launched' = Launched /\ pc[x] = "rotate"
        /\ \A y \in Thread : y # x => k'[y] = k[y]
    BY <1>1, <1>3, <1>8 DEF RotatePlane, Launched
  <2>2. \A y \in Thread : Local(y)
    BY <2>1, <1>3 DEF ThreadInv, Multiplying
  <2> QED
    BY <2>1, <2>2, <1>3 DEF TogetherInv
<1>9. ASSUME NEW x \in Thread, NextRow(x)
      PROVE  Goal
  <2>1. /\ pc' = pc /\ b' = b /\ Launched' = Launched /\ pc[x] = "rotate"
        /\ \A y \in Thread : y # x => k'[y] = k[y] /\ at'[y] = at[y]
        /\ at'[x] = at[x] + Threads
    BY <1>1, <1>3, <1>9 DEF NextRow, Launched
  <2>2. at'[x] % Threads = at[x] % Threads
    BY <2>1, <1>2, <1>3
  <2>3. \A y \in Thread : Local(y)
    BY <2>1, <2>2, <1>3 DEF ThreadInv, Multiplying
  <2> QED
    BY <2>1, <2>3, <1>3 DEF TogetherInv
<1>10. ASSUME NEW x \in Thread, EndRows(x)
       PROVE  Goal
  BY <1>1, <1>3, <1>10
     DEF EndRows, kernel_vars, ThreadInv, TogetherInv, Multiplying, Rotating, Writing, Launched
<1>11. ASSUME NEW t \in Cta, RotateBarrier(t)
       PROVE  Goal
  <2>1. /\ \A x \in Thread : x[1] = t => pc[x] = "rotated" /\ pc'[x] = "write" /\ at'[x] = x[2]
        /\ \A x \in Thread : x[1] # t => pc'[x] = pc[x] /\ at'[x] = at[x]
        /\ k' = k /\ b' = b /\ Launched' = Launched
    BY <1>1, <1>11 DEF RotateBarrier, Move, Peers, Launched
  <2>2. ASSUME NEW x \in Thread PROVE Local(x)
    <3>1. CASE x[1] = t
      BY <3>1, <2>1, <1>2, <1>3 DEF ThreadInv, Multiplying, Rotating, Writing
    <3>2. CASE x[1] # t
      BY <3>2, <2>1, <1>3 DEF ThreadInv
    <3> QED
      BY <3>1, <3>2
  <2>3. \A x, y \in Thread : x[1] = y[1] => Agree(x, y)
    BY <2>1, <1>3 DEF TogetherInv, Multiplying, Rotating, Writing
  <2> QED
    BY <2>2, <2>3
<1>12. ASSUME NEW x \in Thread, Write(x)
       PROVE  Goal
  <2>1. /\ pc' = pc /\ b' = b /\ k' = k /\ Launched' = Launched /\ pc[x] = "write"
        /\ \A y \in Thread : y # x => at'[y] = at[y]
        /\ at'[x] = at[x] + Threads
    BY <1>1, <1>3, <1>12 DEF Write, NextElement, Launched
  <2>2. at'[x] % Threads = at[x] % Threads
    BY <2>1, <1>2, <1>3
  <2>3. \A y \in Thread : Local(y)
    BY <2>1, <2>2, <1>3 DEF ThreadInv, Multiplying
  <2> QED
    BY <2>1, <2>3, <1>3 DEF TogetherInv
<1>13. ASSUME NEW x \in Thread, Exit(x)
       PROVE  Goal
  BY <1>1, <1>3, <1>13
     DEF Exit, kernel_vars, ThreadInv, TogetherInv, Multiplying, Rotating, Writing, Launched
<1>14. ASSUME UNCHANGED vars PROVE Goal
  BY <1>1, <1>3, <1>14 DEF vars, ThreadInv, TogetherInv, Launched
<1>15. Goal
  BY <1>4, <1>5, <1>6, <1>7, <1>8, <1>9, <1>10, <1>11, <1>12, <1>13, <1>14
     DEF Next, CtaStep, Peers, Done
<1> QED
  BY <1>1, <1>15, Frozen DEF ThreadInv, TogetherInv

\* The warp that multiplies a row is the one whose window of rows it is in.
LEMMA MultiplierOf ==
  ASSUME cfg \in Configs, NEW t \in Cta, NEW r \in Row
  PROVE  /\ WarpOf(Multiplier(t, r)) = r \div cfg.WM
         /\ Multiplier(t, r)[1] = t
         /\ \A w \in Warp : r \in RowsOf(w) <=> w = r \div cfg.WM
<1>1. PICK wm \in Nat \ {0}, wa \in Nat \ {0} : wm = cfg.WM /\ wa = WARP
  BY Sizes
<1>2. r \in Nat
  BY Sizes DEF Row
<1>3. PICK q \in Nat, s \in 0 .. wm - 1 : q = r \div cfg.WM /\ r = q * wm + s
  <2>1. /\ r \div wm \in Nat /\ r % wm \in 0 .. wm - 1
        /\ r = (r \div wm) * wm + (r % wm)
    BY <1>2, DivMod
  <2> QED
    BY <2>1, <1>1
<1>4. (q * wa) \div wa = q
  <2>1. q * wa = q * wa + 0 /\ q * wa \in Int /\ 0 \in 0 .. wa - 1
    OBVIOUS
  <2> QED
    BY <2>1, DivModUnique
<1>5. ASSUME NEW w \in Warp PROVE r \in RowsOf(w) <=> w = q
  <2>1. w \in Int
    BY Sizes DEF Warp
  <2>2. ASSUME r \in RowsOf(w) PROVE w = q
    <3>1. PICK y \in Int : y = w * wm
      BY <2>1
    <3>2. r >= y /\ r <= y + wm - 1 /\ r \in Int
      BY <2>2, <3>1, <1>1, <1>2 DEF RowsOf
    <3>3. r - y \in 0 .. wm - 1 /\ r = y + (r - y)
      BY <3>1, <3>2
    <3>4. w * wm + (r - y) = q * wm + s
      BY <3>1, <3>3, <1>3
    <3> QED
      BY <2>1, <3>3, <3>4, TwoDigits
  <2>3. ASSUME w = q PROVE r \in RowsOf(w)
    <3>1. PICK y \in Nat : y = w * wm /\ r = y + s
      BY <2>3, <1>3
    <3> QED
      BY <3>1, <1>1, <1>3 DEF RowsOf
  <2> QED
    BY <2>2, <2>3
<1> QED
  BY <1>1, <1>3, <1>4, <1>5 DEF WarpOf, Multiplier, Leader

LEMMA MultiplyStep ==
  ASSUME ControlInv, MultiplyInv, [Next]_vars
  PROVE  MultiplyInv'
<1>1. cfg \in Configs /\ cfg' = cfg
  BY ShapeStep DEF ControlInv, ShapeInv
<1>2. /\ pc \in [Thread -> {"wait"} \cup Multiplying \cup Rotating \cup Writing]
      /\ b \in [Thread -> 0 .. nb]
      /\ osh = [t \in Cta |-> [r \in Row |-> [f \in Feat |-> osh[t][r][f]]]]
      /\ ThreadInv /\ TogetherInv
  BY DEF ControlInv, ShapeInv
<1> SUFFICES ASSUME NEW u \in Cta, NEW r \in Row, NEW f \in Feat,
                    pc'[Multiplier(u, r)] \in {"wait"} \cup Multiplying,
                    LET l == Multiplier(u, r)
                    IN  f \div N_OUT < b'[l] \/ (f \div N_OUT = b'[l] /\ pc'[l] = "sync")
             PROVE  osh'[u][r][f] = Product(Global(u, r), f \div N_OUT, f % N_OUT)
  BY <1>1, Frozen DEF MultiplyInv, Multiplied
<1> DEFINE l == Multiplier(u, r)
           d == f \div N_OUT
<1>3. l \in Thread /\ l[1] = u /\ WarpOf(l) = r \div cfg.WM /\ r \div cfg.WM \in Warp
  BY <1>1, ActorType, MultiplierOf
<1>4. d \in Nat /\ nb \in Nat
  <2>1. f \in Nat
    BY <1>1, Sizes DEF Feat
  <2> QED
    BY <2>1, <1>1, Sizes, DivMod
<1>5. /\ pc[l] \in {"wait"} \cup Multiplying
      /\ d < b[l] \/ (d = b[l] /\ pc[l] = "sync")
      => osh[u][r][f] = Product(Global(u, r), d, f % N_OUT)
  BY DEF MultiplyInv, Multiplied
<1>6. /\ pc'[l] \in {"wait"} \cup Multiplying
      /\ d < b'[l] \/ (d = b'[l] /\ pc'[l] = "sync")
  OBVIOUS
<1>7. ASSUME osh' = osh, b' = b, pc'[l] = pc[l]
      PROVE  osh'[u][r][f] = Product(Global(u, r), d, f % N_OUT)
  BY <1>5, <1>6, <1>7
<1> HIDE DEF l, d
<1>8. ASSUME Launch
      PROVE  osh'[u][r][f] = Product(Global(u, r), d, f % N_OUT)
  <2>1. pc[l] = "wait" /\ pc'[l] = "multiply" /\ b' = b /\ osh' = osh
    BY <1>2, <1>3, <1>8 DEF Launch, kernel_vars, ThreadInv, Launched
  <2> QED
    BY <2>1, <1>5, <1>6
<1>9. ASSUME LaunchRefused
      PROVE  osh'[u][r][f] = Product(Global(u, r), d, f % N_OUT)
  BY <1>7, <1>9 DEF LaunchRefused, kernel_vars
<1>10. ASSUME NEW t \in Cta, NEW w \in Warp, MultiplyBlock(t, w)
       PROVE  osh'[u][r][f] = Product(Global(u, r), d, f % N_OUT)
  <2>1. CASE u = t /\ r \div cfg.WM = w
    <3>1. l = Leader(t, w) /\ l \in Lanes(t, w) /\ r \in RowsOf(w)
      BY <2>1, <1>1, <1>3, MultiplierOf DEF l, Multiplier, Lanes
    <3>2. pc[l] = "multiply" /\ b' = b
      BY <1>10, <3>1 DEF MultiplyBlock, Move
    <3>3. osh'[u][r][f] = IF d = b[l] THEN Product(Global(u, r), b[l], f % N_OUT) ELSE osh[u][r][f]
      BY <1>2, <1>10, <2>1, <3>1 DEF MultiplyBlock, d, Global
    <3> QED
      BY <3>2, <3>3, <1>2, <1>3, <1>4, <1>5, <1>6 DEF Multiplying
  <2>2. CASE ~(u = t /\ r \div cfg.WM = w)
    <3>1. l \notin Lanes(t, w) /\ (u = t => r \notin RowsOf(w))
      BY <2>2, <1>1, <1>3, MultiplierOf DEF Lanes
    <3>2. pc'[l] = pc[l] /\ b' = b
      BY <1>3, <1>10, <3>1 DEF MultiplyBlock, Move
    <3>3. osh'[u][r][f] = osh[u][r][f]
      BY <1>2, <1>10, <3>1 DEF MultiplyBlock
    <3> QED
      BY <3>2, <3>3, <1>5, <1>6
  <2> QED
    BY <2>1, <2>2
<1>11. ASSUME NEW t \in Cta, BlockBarrier(t)
       PROVE  osh'[u][r][f] = Product(Global(u, r), d, f % N_OUT)
  <2>1. <<t, 0>> \in Peers(t) /\ <<t, 0>>[1] = t /\ <<t, 0>> \in Thread
    BY <1>1, Sizes DEF Peers, Thread
  <2>2. CASE u = t
    <3>1. l \in Peers(t) /\ b[l] = b[<<t, 0>>]
      BY <2>1, <2>2, <1>2, <1>3 DEF Peers, TogetherInv
    <3>2. pc[l] = "sync" /\ b'[l] = b[l] + 1 /\ osh' = osh /\ pc'[l] # "sync"
      BY <1>3, <1>11, <3>1 DEF BlockBarrier, Move
    <3>3. b[l] \in Int
      BY <1>2, <1>3, <1>4
    <3>4. d < b[l] \/ d = b[l]
      BY <3>2, <3>3, <1>4, <1>6
    <3> QED
      BY <3>2, <3>4, <1>5 DEF Multiplying
  <2>3. CASE u # t
    <3>1. l \notin Peers(t)
      BY <2>3, <1>3 DEF Peers
    <3>2. pc'[l] = pc[l] /\ b'[l] = b[l] /\ osh' = osh
      BY <3>1, <1>3, <1>11 DEF BlockBarrier, Move
    <3> QED
      BY <3>2, <1>5, <1>6
  <2> QED
    BY <2>2, <2>3
<1>12. ASSUME NEW x \in Thread, RotatePlane(x)
       PROVE  osh'[u][r][f] = Product(Global(u, r), d, f % N_OUT)
  <2>1. pc' = pc /\ b' = b /\ pc[x] \in Rotating
    BY <1>12 DEF RotatePlane, Rotating
  <2>2. x[1] # u
    BY <2>1, <1>2, <1>3, <1>6 DEF TogetherInv, Rotating, Multiplying
  <2>3. osh'[u] = osh[u]
    BY <1>2, <1>12, <2>2 DEF RotatePlane
  <2> QED
    BY <2>1, <2>3, <1>5, <1>6
<1>13. ASSUME NEW x \in Thread, NextRow(x) \/ EndRows(x) \/ Write(x) \/ Exit(x)
       PROVE  osh'[u][r][f] = Product(Global(u, r), d, f % N_OUT)
  <2>1. osh' = osh /\ b' = b
    BY <1>13 DEF NextRow, EndRows, Write, Exit, kernel_vars
  <2>2. pc' = pc \/ pc' = [pc EXCEPT ![x] = "rotated"] \/ pc' = [pc EXCEPT ![x] = "exit"]
    BY <1>13 DEF NextRow, EndRows, Write, Exit
  <2>3. pc'[l] = pc[l]
    BY <2>2, <1>2, <1>3, <1>6 DEF Multiplying
  <2> QED
    BY <2>1, <2>3, <1>7
<1>14. ASSUME NEW t \in Cta, RotateBarrier(t)
       PROVE  osh'[u][r][f] = Product(Global(u, r), d, f % N_OUT)
  <2>1. osh' = osh /\ b' = b /\ (pc'[l] = pc[l] \/ pc'[l] = "write")
    BY <1>3, <1>14 DEF RotateBarrier, Move
  <2> QED
    BY <2>1, <1>6, <1>7 DEF Multiplying
<1>15. ASSUME UNCHANGED vars
       PROVE  osh'[u][r][f] = Product(Global(u, r), d, f % N_OUT)
  BY <1>7, <1>15 DEF vars
<1>16. osh'[u][r][f] = Product(Global(u, r), d, f % N_OUT)
  BY <1>8, <1>9, <1>10, <1>11, <1>12, <1>13, <1>14, <1>15 DEF Next, CtaStep, Peers, Done
<1> QED
  BY <1>16 DEF d

\* A row that lacks no block is the product.
LEMMA WholeProduct ==
  ASSUME ControlInv, MultiplyInv, NEW t \in Cta, NEW r \in Row,
         pc[Multiplier(t, r)] = "sync", b[Multiplier(t, r)] + 1 >= nb
  PROVE  osh[t][r] = After(Global(t, r))[0]
<1>1. /\ cfg \in Configs /\ b \in [Thread -> 0 .. nb]
      /\ osh = [c \in Cta |-> [q \in Row |-> [f \in Feat |-> osh[c][q][f]]]]
  BY DEF ControlInv, ShapeInv
<1>2. Multiplier(t, r) \in Thread
  BY <1>1, ActorType
<1>3. ASSUME NEW f \in Feat PROVE osh[t][r][f] = ProductRow(Global(t, r))[f]
  <2>1. f \div N_OUT \in Nat /\ f \div N_OUT < nb
    <3>1. PICK n \in Nat \ {0}, m \in Nat \ {0} : n = N_OUT /\ m = nb /\ f \in Nat /\ f < m * n
      BY <1>1, Sizes DEF Feat, FEAT
    <3>2. f \div n \in Nat /\ f % n \in 0 .. n - 1 /\ f = (f \div n) * n + (f % n)
      BY <3>1, DivMod
    <3>3. PICK q \in Nat : q = f \div n
      BY <3>2
    <3>4. q * n <= f
      BY <3>2, <3>3
    <3>5. ~(m <= q)
      <4>1. SUFFICES ASSUME m <= q PROVE FALSE
        OBVIOUS
      <4>2. m * n <= q * n
        BY <4>1, MulMono
      <4> QED
        BY <4>2, <3>1, <3>4
    <3> QED
      BY <3>1, <3>3, <3>5
  <2>2. Multiplied(t, r, f)
    BY <2>1, <1>1, <1>2, Sizes DEF Multiplied
  <2> QED
    BY <2>2 DEF MultiplyInv, Multiplying, ProductRow
<1>4. osh[t][r] = ProductRow(Global(t, r))
  BY <1>1, <1>3 DEF ProductRow
<1> QED
  BY <1>1, <1>4, AfterPlanes

LEMMA RotateStep ==
  ASSUME ControlInv, MultiplyInv, RotateInv, [Next]_vars
  PROVE  RotateInv'
<1>1. cfg \in Configs /\ cfg' = cfg
  BY ShapeStep DEF ControlInv, ShapeInv
<1>2. /\ pc \in [Thread -> {"wait"} \cup Multiplying \cup Rotating \cup Writing]
      /\ b \in [Thread -> 0 .. nb]
      /\ k \in [Thread -> 0 .. Len(Planes)]
      /\ at \in [Thread -> Nat]
      /\ osh = [t \in Cta |-> [r \in Row |-> [f \in Feat |-> osh[t][r][f]]]]
      /\ ThreadInv /\ TogetherInv
  BY DEF ControlInv, ShapeInv
<1>3. /\ Threads \in Nat \ {0} /\ cfg.TBM \in Nat /\ Len(Planes) \in Nat /\ nb \in Nat
      /\ \A x \in Thread : x[2] \in Nat /\ x[1] \in Cta /\ x = <<x[1], x[2]>>
  BY <1>1, Sizes, ThreadType
<1> SUFFICES ASSUME NEW u \in Cta, NEW r \in Row
             PROVE  LET o == Rotator(u, r)
                        applied == IF r < at'[o] THEN Len(Planes) ELSE IF r = at'[o] THEN k'[o] ELSE 0
                    IN  /\ pc'[o] \in Rotating => osh'[u][r] = After(Global(u, r))[applied]
                        /\ pc'[o] \in Writing => osh'[u][r] = After(Global(u, r))[Len(Planes)]
  <2>1. /\ Cta' = Cta /\ Row' = Row
        /\ \A t, q : Rotator(t, q)' = Rotator(t, q) /\ Global(t, q)' = Global(t, q)
    BY <1>1, Frozen
  <2> QED
    BY <2>1 DEF RotateInv, Applied, Fused
<1> DEFINE o == Rotator(u, r)
           row == After(Global(u, r))
           applied == IF r < at[o] THEN Len(Planes) ELSE IF r = at[o] THEN k[o] ELSE 0
           applied1 == IF r < at'[o] THEN Len(Planes) ELSE IF r = at'[o] THEN k'[o] ELSE 0
           Goal == /\ pc'[o] \in Rotating => osh'[u][r] = row[applied1]
                   /\ pc'[o] \in Writing => osh'[u][r] = row[Len(Planes)]
<1>4. o \in Thread /\ o[1] = u /\ o[2] = r % Threads /\ r \in Nat /\ r < cfg.TBM
      /\ r % Threads \in Nat /\ r % Threads <= r
  <2>1. r \in Nat /\ r < cfg.TBM
    BY <1>1, Sizes DEF Row
  <2>2. r % Threads \in Nat /\ r % Threads <= r
    BY <1>3, <2>1, ModAtMost
  <2> QED
    BY <1>1, <2>1, <2>2, ActorType DEF Rotator
<1>5. /\ pc[o] \in Rotating => osh[u][r] = row[applied]
      /\ pc[o] \in Writing => osh[u][r] = row[Len(Planes)]
  BY DEF RotateInv, Applied, Fused
<1>6. \A i \in 1 .. Len(Planes) : row[i] = Rotated(row[i - 1], i)
  BY <1>1, AfterPlanes
<1>7. ASSUME osh'[u][r] = osh[u][r], pc'[o] \in Rotating => pc[o] \in Rotating /\ at' = at /\ k' = k,
             pc'[o] \in Writing => pc[o] \in Writing
      PROVE  Goal
  BY <1>5, <1>7
<1>8. o = Rotator(u, r)
  OBVIOUS
<1> HIDE DEF o, row
<1>9. ASSUME Launch PROVE Goal
  BY <1>4, <1>9 DEF Launch, Rotating, Writing
<1>10. ASSUME LaunchRefused PROVE Goal
  BY <1>7, <1>10 DEF LaunchRefused, kernel_vars
<1>11. ASSUME NEW t \in Cta, NEW w \in Warp, MultiplyBlock(t, w) PROVE Goal
  <2>1. at' = at /\ k' = k /\ (pc'[o] = pc[o] \/ pc'[o] = "sync")
    BY <1>4, <1>11 DEF MultiplyBlock, Move
  <2>2. CASE u = t
    <3>1. PICK y \in Thread : y[1] = t /\ pc[y] = "multiply"
      BY <1>11 DEF MultiplyBlock, Move, Lanes
    <3>2. pc[o] \in Multiplying
      BY <3>1, <2>2, <1>2, <1>4 DEF TogetherInv, Multiplying
    <3> QED
      BY <3>2, <2>1 DEF Multiplying, Rotating, Writing
  <2>3. CASE u # t
    <3>1. osh'[u] = osh[u]
      BY <2>3, <1>2, <1>11 DEF MultiplyBlock
    <3> QED
      BY <3>1, <2>1, <1>7 DEF Rotating, Writing
  <2> QED
    BY <2>2, <2>3
<1>12. ASSUME NEW t \in Cta, BlockBarrier(t) PROVE Goal
  <2>1. CASE u = t
    <3>1. /\ o \in Peers(t) /\ Multiplier(u, r) \in Peers(t) /\ <<t, 0>> \in Peers(t)
          /\ Multiplier(u, r) \in Thread
      <4>1. Multiplier(u, r) \in Thread /\ Multiplier(u, r)[1] = u
        BY <1>1, ActorType, MultiplierOf
      <4>2. <<t, 0>> \in Thread /\ <<t, 0>>[1] = t
        BY <1>3 DEF Thread
      <4> QED
        BY <4>1, <4>2, <2>1, <1>4 DEF Peers
    <3>2. /\ pc[Multiplier(u, r)] = "sync" /\ pc[o] = "sync"
          /\ at'[o] = o[2] /\ k' = k /\ osh' = osh
          /\ pc'[o] = IF b[<<t, 0>>] + 1 < nb THEN "multiply" ELSE "rotate"
      BY <3>1, <1>4, <1>12 DEF BlockBarrier, Move
    <3>3. k[o] = 0
      BY <3>2, <1>2, <1>4 DEF ThreadInv, Multiplying
    <3>4. applied1 = 0
      BY <3>2, <3>3, <1>4
    <3>5. b[Multiplier(u, r)] = b[<<t, 0>>] /\ b[<<t, 0>>] \in Int
      BY <3>1, <1>2, <1>3 DEF TogetherInv, Peers
    <3>6. pc'[o] = "rotate" => osh[u][r] = row[0]
      BY <3>2, <3>5, <1>3, WholeProduct DEF row
    <3> QED
      BY <3>2, <3>4, <3>6 DEF Rotating, Writing
  <2>2. CASE u # t
    <3>1. pc'[o] = pc[o] /\ at'[o] = at[o] /\ k' = k /\ osh' = osh
      BY <2>2, <1>4, <1>12 DEF BlockBarrier, Move, Peers
    <3> QED
      BY <3>1, <1>5
  <2> QED
    BY <2>1, <2>2
<1>13. ASSUME NEW x \in Thread, RotatePlane(x) PROVE Goal
  <2>1. /\ pc[x] = "rotate" /\ at[x] < cfg.TBM /\ k[x] < Len(Planes)
        /\ pc' = pc /\ at' = at
        /\ k' = [k EXCEPT ![x] = k[x] + 1]
        /\ osh' = [osh EXCEPT ![x[1]] = [osh[x[1]] EXCEPT ![at[x]] = Rotated(osh[x[1]][at[x]], k[x] + 1)]]
    BY <1>2, <1>3, <1>13 DEF RotatePlane
  <2>2. at[x] \in Row /\ at[x] % Threads = x[2] /\ at[x] \in Nat /\ k[x] \in Nat
    BY <2>1, <1>2, <1>3 DEF ThreadInv, Rotating, Row
  <2>3. x = Rotator(x[1], at[x])
    BY <2>2, <1>3 DEF Rotator
  <2>4. CASE u = x[1] /\ r = at[x]
    <3>1. o = x
      BY <2>3, <2>4, <1>8
    <3>2. osh[u][r] = row[k[x]]
      BY <3>1, <2>1, <2>2, <2>4, <1>5 DEF Rotating
    <3>3. osh'[u][r] = Rotated(osh[u][r], k[x] + 1)
      BY <2>1, <2>2, <2>4, <1>2
    <3>4. k'[x] = k[x] + 1 /\ k[x] + 1 \in 1 .. Len(Planes) /\ (k[x] + 1) - 1 = k[x]
      BY <2>1, <2>2, <1>2, <1>3
    <3>5. osh'[u][r] = row[k'[x]]
      BY <3>2, <3>3, <3>4, <1>6
    <3> QED
      BY <3>1, <3>5, <2>1, <2>4, <2>2 DEF Rotating, Writing
  <2>5. CASE ~(u = x[1] /\ r = at[x])
    <3>1. osh'[u][r] = osh[u][r]
      BY <2>1, <2>2, <2>5, <1>2
    <3>2. applied1 = applied
      <4>1. CASE o = x
        BY <4>1, <2>1, <2>5, <1>4
      <4>2. CASE o # x
        BY <4>2, <2>1, <1>2, <1>4
      <4> QED
        BY <4>1, <4>2
    <3> QED
      BY <3>1, <3>2, <2>1, <1>5
  <2> QED
    BY <2>4, <2>5
<1>14. ASSUME NEW x \in Thread, NextRow(x) PROVE Goal
  <2>1. /\ pc[x] = "rotate" /\ k[x] = Len(Planes)
        /\ pc' = pc /\ osh' = osh
        /\ k' = [k EXCEPT ![x] = 0]
        /\ at' = [at EXCEPT ![x] = at[x] + Threads]
    BY <1>2, <1>3, <1>14 DEF NextRow
  <2>2. applied1 = applied
    <3>1. CASE o = x
      <4>1. at[x] \in Nat /\ at[x] % Threads = r % Threads /\ at'[x] = at[x] + Threads /\ k'[x] = 0
        BY <3>1, <2>1, <1>2, <1>4 DEF ThreadInv, Rotating
      <4>2. at[x] < r => at[x] + Threads <= r
        BY <4>1, <1>1, <1>4, OwnRemainder
      <4> QED
        BY <4>1, <4>2, <3>1, <2>1, <1>3, <1>4
    <3>2. CASE o # x
      BY <3>2, <2>1, <1>2, <1>4
    <3> QED
      BY <3>1, <3>2
  <2> QED
    BY <2>1, <2>2, <1>5
<1>15. ASSUME NEW x \in Thread, EndRows(x) PROVE Goal
  <2>1. /\ osh' = osh /\ at' = at /\ k' = k
        /\ pc[x] \in Rotating /\ pc' = [pc EXCEPT ![x] = "rotated"]
    BY <1>15 DEF EndRows, kernel_vars, Rotating
  <2>2. pc'[o] \in Rotating => pc[o] \in Rotating
    BY <2>1, <1>2, <1>4
  <2>3. pc'[o] \in Writing => pc[o] \in Writing
    BY <2>1, <1>2, <1>4 DEF Writing
  <2> QED
    BY <2>1, <2>2, <2>3, <1>7
<1>16. ASSUME NEW t \in Cta, RotateBarrier(t) PROVE Goal
  <2>1. CASE u = t
    <3>1. pc[o] = "rotated" /\ pc'[o] = "write" /\ osh' = osh
      BY <2>1, <1>4, <1>16 DEF RotateBarrier, Move, Peers
    <3>2. r < at[o]
      BY <3>1, <1>2, <1>3, <1>4 DEF ThreadInv
    <3> QED
      BY <3>1, <3>2, <1>5 DEF Rotating
  <2>2. CASE u # t
    <3>1. pc'[o] = pc[o] /\ at'[o] = at[o] /\ k' = k /\ osh' = osh
      BY <2>2, <1>4, <1>16 DEF RotateBarrier, Move, Peers
    <3> QED
      BY <3>1, <1>5
  <2> QED
    BY <2>1, <2>2
<1>17. ASSUME NEW x \in Thread, Write(x) PROVE Goal
  <2>1. /\ pc' = pc /\ osh' = osh /\ k' = k /\ pc[x] \in Writing
        /\ at' = [at EXCEPT ![x] = at[x] + Threads]
    BY <1>2, <1>17 DEF Write, NextElement, Writing
  <2>2. pc[o] \in Rotating => at'[o] = at[o]
    BY <2>1, <1>2, <1>4 DEF Rotating, Writing
  <2> QED
    BY <2>1, <2>2, <1>5
<1>18. ASSUME NEW x \in Thread, Exit(x) PROVE Goal
  <2>1. /\ osh' = osh /\ at' = at /\ k' = k
        /\ pc[x] \in Writing /\ pc' = [pc EXCEPT ![x] = "exit"]
    BY <1>18 DEF Exit, kernel_vars, Writing
  <2>2. pc'[o] \in Rotating => pc[o] \in Rotating
    BY <2>1, <1>2, <1>4 DEF Rotating
  <2>3. pc'[o] \in Writing => pc[o] \in Writing
    BY <2>1, <1>2, <1>4
  <2> QED
    BY <2>1, <2>2, <2>3, <1>7
<1>19. ASSUME UNCHANGED vars PROVE Goal
  BY <1>7, <1>19 DEF vars
<1>20. Goal
  BY <1>9, <1>10, <1>11, <1>12, <1>13, <1>14, <1>15, <1>16, <1>17, <1>18, <1>19
     DEF Next, CtaStep, Peers, Done
<1> QED
  BY <1>20 DEF o, row

\* CTA t exists when its first row does.
LEMMA CtaRows ==
  ASSUME cfg \in Configs, NEW t \in Nat
  PROVE  /\ t \in Cta => t * cfg.TBM + cfg.TBM <= M + cfg.TBM - 1
         /\ t * cfg.TBM < M => t \in Cta
<1>1. PICK d \in Nat \ {0}, m \in Nat : d = cfg.TBM /\ m = M
  BY Sizes
<1>2. PICK q \in Nat, s \in 0 .. d - 1 : q = (m + d - 1) \div d /\ m + d - 1 = q * d + s
  <2>1. m + d - 1 \in Nat
    BY <1>1
  <2>2. (m + d - 1) \div d \in Nat /\ (m + d - 1) % d \in 0 .. d - 1
        /\ m + d - 1 = ((m + d - 1) \div d) * d + ((m + d - 1) % d)
    BY <2>1, DivMod
  <2> QED
    BY <2>2
<1>3. Cta = 0 .. q - 1
  BY <1>1, <1>2 DEF Cta
<1>4. PICK y \in Nat, z \in Nat : y = t * d /\ z = q * d
  OBVIOUS
<1>5. ASSUME t < q PROVE y + d <= m + d - 1
  <2>1. (t + 1) * d <= q * d /\ (t + 1) * d = t * d + d
    BY <1>5, MulMono
  <2> QED
    BY <2>1, <1>2, <1>4
<1>6. ASSUME y < m PROVE t < q
  <2>1. ASSUME q <= t PROVE FALSE
    <3>1. q * d <= t * d
      BY <2>1, MulMono
    <3> QED
      BY <3>1, <1>1, <1>2, <1>4, <1>6
  <2> QED
    BY <2>1
<1> QED
  BY <1>1, <1>3, <1>4, <1>5, <1>6

\* Element i of the strip of CTA t in Y: its row, its feature, its address.
LEMMA StripCell ==
  ASSUME cfg \in Configs, NEW t \in Cta, NEW i \in Strip
  PROVE  /\ i \div FEAT \in Row /\ i % FEAT \in Feat /\ i \in Nat /\ i < cfg.TBM * FEAT
         /\ t * (cfg.TBM * FEAT) + i \in Cells
         /\ t * (cfg.TBM * FEAT) + i = Global(t, i \div FEAT) * FEAT + (i % FEAT)
         /\ (t * (cfg.TBM * FEAT) + i) \div FEAT = Global(t, i \div FEAT)
         /\ (t * (cfg.TBM * FEAT) + i) % FEAT = i % FEAT
         /\ Global(t, i \div FEAT) < M <=> t * (cfg.TBM * FEAT) + i < M * FEAT
<1>1. PICK d \in Nat \ {0}, n \in Nat \ {0}, m \in Nat : d = cfg.TBM /\ n = FEAT /\ m = M
  BY Sizes
<1>2. i \in Nat /\ i < d * n /\ t \in Nat
  BY <1>1, Sizes DEF Strip, Cta
<1>3. PICK r \in Nat, f \in 0 .. n - 1 : r = i \div n /\ f = i % n /\ i = r * n + f
  <2>1. i \div n \in Nat /\ i % n \in 0 .. n - 1 /\ i = (i \div n) * n + (i % n)
    BY <1>2, DivMod
  <2> QED
    BY <2>1
<1>4. r < d
  <2>1. ASSUME d <= r PROVE FALSE
    <3>1. d * n <= r * n
      BY <2>1, MulMono
    <3> QED
      BY <3>1, <1>2, <1>3
  <2> QED
    BY <2>1
<1>5. PICK grow \in Nat : grow = t * d + r
  BY <1>2
<1>6. t * (d * n) + i = grow * n + f
  <2>1. PICK y \in Nat : y = t * d
    BY <1>2
  <2>2. t * (d * n) = y * n
    BY <2>1, <1>2
  <2>3. grow * n = y * n + r * n
    BY <2>1, <1>5
  <2>4. PICK p \in Int, q \in Int : p = y * n /\ q = r * n
    BY <2>1
  <2> QED
    BY <2>2, <2>3, <2>4, <1>3
<1>7. PICK a \in Nat : a = t * (d * n) + i /\ a = grow * n + f
  <2>1. grow * n \in Nat
    BY <1>5
  <2> QED
    BY <2>1, <1>6
<1>8. a \div n = grow /\ a % n = f
  <2>1. a = grow * n + f
    BY <1>7
  <2> QED
    BY <2>1, DivModUnique
<1>9. ASSUME NEW j \in Nat PROVE grow < j <=> a < j * n
  <2>1. ASSUME grow < j PROVE a < j * n
    <3>1. (grow + 1) * n <= j * n /\ (grow + 1) * n = grow * n + n
      BY <2>1, MulMono
    <3> QED
      BY <3>1, <1>7
  <2>2. ASSUME j <= grow PROVE ~(a < j * n)
    <3>1. j * n <= grow * n
      BY <2>2, MulMono
    <3> QED
      BY <3>1, <1>7
  <2> QED
    BY <2>1, <2>2
<1>10. grow < m + d
  <2>1. t * d + d <= m + d - 1
    BY <1>1, <1>2, CtaRows
  <2>2. PICK y \in Nat : y = t * d
    BY <1>2
  <2> QED
    BY <2>1, <2>2, <1>4, <1>5
<1>11. m + d \in Nat /\ a < (m + d) * n
  BY <1>9, <1>10
<1>12. a \in Cells
  BY <1>1, <1>11 DEF Cells
<1>13. r \in Row /\ f \in Feat
  BY <1>1, <1>4 DEF Row, Feat
<1>14. grow < m <=> a < m * n
  BY <1>9
<1>15. /\ Global(t, i \div FEAT) = grow /\ t * (cfg.TBM * FEAT) + i = a
       /\ i \div FEAT = r /\ i % FEAT = f
  BY <1>1, <1>3, <1>5, <1>7 DEF Global
<1>16. grow * FEAT + f = a /\ cfg.TBM * FEAT = d * n /\ M * FEAT = m * n
  BY <1>1, <1>7
<1>17. a \div FEAT = grow /\ a % FEAT = f /\ M = m
  BY <1>1, <1>8
<1>18. i \in Nat /\ i < cfg.TBM * FEAT
  BY <1>2, <1>16
<1>19. grow < M <=> a < M * FEAT
  BY <1>14, <1>16, <1>17
<1> QED
  BY <1>12, <1>13, <1>15, <1>16, <1>17, <1>18, <1>19

LEMMA StripsApart ==
  ASSUME cfg \in Configs, NEW t \in Cta, NEW u \in Cta, NEW i \in Strip, NEW j \in Strip,
         t * (cfg.TBM * FEAT) + i = u * (cfg.TBM * FEAT) + j
  PROVE  t = u /\ i = j
<1>1. PICK n \in Nat \ {0} : n = cfg.TBM * FEAT
  BY Sizes
<1>2. i \in 0 .. n - 1 /\ j \in 0 .. n - 1 /\ t \in Int /\ u \in Int
  BY <1>1 DEF Strip, Cta
<1>3. t * n + i = u * n + j
  BY <1>1
<1> QED
  BY <1>2, <1>3, TwoDigits

LEMMA StripsCover ==
  ASSUME cfg \in Configs, NEW a \in 0 .. M * FEAT - 1
  PROVE  \E t \in Cta, i \in Strip : a = t * (cfg.TBM * FEAT) + i
<1>1. PICK d \in Nat \ {0}, n \in Nat \ {0}, m \in Nat, s \in Nat \ {0} :
        d = cfg.TBM /\ n = FEAT /\ m = M /\ s = d * n
  BY Sizes
<1>2. a \in Nat /\ a < m * n
  BY <1>1
<1>3. PICK t \in Nat, i \in 0 .. s - 1 : a = t * s + i
  BY <1>2, DivMod
<1>4. t * d < m
  <2>1. PICK y \in Nat : y = t * d
    OBVIOUS
  <2>2. t * s = y * n
    BY <2>1, <1>1
  <2>3. ASSUME m <= y PROVE FALSE
    <3>1. m * n <= y * n
      BY <2>3, MulMono
    <3> QED
      BY <3>1, <2>2, <1>2, <1>3
  <2> QED
    BY <2>1, <2>3
<1>5. t \in Cta
  BY <1>1, <1>4, CtaRows
<1> QED
  BY <1>1, <1>3, <1>5 DEF Strip

\* A write stores an element of the thread's strip, in its place.
LEMMA WriteEffect ==
  ASSUME ControlInv, RotateInv, NEW x \in Thread, Write(x)
  PROVE  /\ x[1] \in Cta /\ at[x] \in Strip /\ x = Writer(x[1], at[x])
         /\ Y' = IF Global(x[1], at[x] \div FEAT) < M
                 THEN [Y EXCEPT ![x[1] * (cfg.TBM * FEAT) + at[x]] =
                         Fused(Global(x[1], at[x] \div FEAT))[at[x] % FEAT]]
                 ELSE Y
<1>1. cfg \in Configs /\ ThreadInv /\ TogetherInv /\ at \in [Thread -> Nat]
  BY DEF ControlInv, ShapeInv
<1>2. pc[x] = "write" /\ at[x] < cfg.TBM * FEAT /\ at[x] \in Nat /\ at[x] % Threads = x[2]
  BY <1>1 DEF Write, ThreadInv, Writing
<1>3. x[1] \in Cta /\ x = <<x[1], x[2]>>
  BY <1>1, ThreadType
<1>4. at[x] \in Strip /\ x = Writer(x[1], at[x])
  BY <1>1, <1>2, <1>3, Sizes DEF Strip, Writer
<1>5. PICK t \in Cta, i \in Strip : t = x[1] /\ i = at[x]
  BY <1>3, <1>4
<1>6. /\ i \div FEAT \in Row
      /\ t * (cfg.TBM * FEAT) + i = Global(t, i \div FEAT) * FEAT + (i % FEAT)
  BY <1>1, StripCell
<1>7. osh[t][i \div FEAT] = Fused(Global(t, i \div FEAT))
  <2>1. Rotator(t, i \div FEAT) \in Thread /\ Rotator(t, i \div FEAT)[1] = t
    BY <1>1, <1>6, ActorType DEF Rotator
  <2>2. pc[Rotator(t, i \div FEAT)] \in Writing
    BY <2>1, <1>1, <1>2, <1>5 DEF TogetherInv, Writing
  <2> QED
    BY <2>2, <1>6 DEF RotateInv
<1>8. Y' = IF Global(t, i \div FEAT) < M
           THEN [Y EXCEPT ![Global(t, i \div FEAT) * FEAT + (i % FEAT)] = osh[t][i \div FEAT][i % FEAT]]
           ELSE Y
  <2>1. Y' = IF Global(x[1], at[x] \div FEAT) < M
             THEN [Y EXCEPT ![Global(x[1], at[x] \div FEAT) * FEAT + (at[x] % FEAT)] =
                     osh[x[1]][at[x] \div FEAT][at[x] % FEAT]]
             ELSE Y
    BY DEF Write, Exists, Global
  <2> QED
    BY <2>1, <1>5
<1> QED
  BY <1>3, <1>4, <1>5, <1>6, <1>7, <1>8

LEMMA WriteStep ==
  ASSUME ControlInv, RotateInv, WriteInv, [Next]_vars
  PROVE  WriteInv'
<1>1. cfg \in Configs /\ cfg' = cfg
  BY ShapeStep DEF ControlInv, ShapeInv
<1>2. /\ pc \in [Thread -> {"wait"} \cup Multiplying \cup Rotating \cup Writing]
      /\ at \in [Thread -> Nat]
      /\ Y = [a \in Cells |-> Y[a]]
      /\ ThreadInv /\ TogetherInv
  BY DEF ControlInv, ShapeInv
<1> SUFFICES ASSUME NEW u \in Cta, NEW i \in Strip
             PROVE  Y'[u * (cfg.TBM * FEAT) + i] =
                      IF /\ pc'[Writer(u, i)] \in Writing /\ i < at'[Writer(u, i)]
                         /\ Global(u, i \div FEAT) < M
                      THEN Fused(Global(u, i \div FEAT))[i % FEAT] ELSE Unset
  <2>1. /\ Cta' = Cta /\ Strip' = Strip
        /\ \A t, q : Writer(t, q)' = Writer(t, q) /\ Global(t, q)' = Global(t, q)
    BY <1>1, Frozen
  <2> QED
    BY <1>1, <2>1 DEF WriteInv, Stored
<1> DEFINE o == Writer(u, i)
           a == u * (cfg.TBM * FEAT) + i
           final == Fused(Global(u, i \div FEAT))[i % FEAT]
           real == Global(u, i \div FEAT) < M
           Goal == Y'[a] = IF pc'[o] \in Writing /\ i < at'[o] /\ real THEN final ELSE Unset
<1>3. o \in Thread /\ o[1] = u /\ o[2] = i % Threads /\ i \in Nat /\ a \in Cells
  BY <1>1, ActorType, StripCell DEF Writer
<1>4. Y[a] = IF pc[o] \in Writing /\ i < at[o] /\ real THEN final ELSE Unset
  BY DEF WriteInv, Stored
<1>5. o[2] <= i
  BY <1>1, <1>3, OwnRemainder
<1>6. o = Writer(u, i) /\ a = u * (cfg.TBM * FEAT) + i /\ final = Fused(Global(u, i \div FEAT))[i % FEAT]
      /\ (real <=> Global(u, i \div FEAT) < M)
  OBVIOUS
<1> HIDE DEF o, a, final, real
<1>7. ASSUME Y' = Y, pc[o] \in Writing <=> pc'[o] \in Writing, pc'[o] \in Writing => at'[o] = at[o]
      PROVE  Goal
  BY <1>4, <1>7
<1>8. ASSUME Launch PROVE Goal
  <2>1. pc[o] = "wait" /\ pc'[o] = "multiply" /\ Y' = Y
    BY <1>2, <1>3, <1>8 DEF Launch, kernel_vars, ThreadInv, Launched
  <2> QED
    BY <2>1, <1>4 DEF Writing
<1>9. ASSUME LaunchRefused PROVE Goal
  BY <1>7, <1>9 DEF LaunchRefused, kernel_vars
<1>10. ASSUME NEW t \in Cta, NEW w \in Warp, MultiplyBlock(t, w) PROVE Goal
  <2>1. at' = at /\ Y' = Y /\ (pc'[o] = pc[o] \/ (pc[o] = "multiply" /\ pc'[o] = "sync"))
    BY <1>3, <1>10 DEF MultiplyBlock, Move
  <2> QED
    BY <2>1, <1>7 DEF Writing
<1>11. ASSUME NEW t \in Cta, BlockBarrier(t) PROVE Goal
  <2>1. Y' = Y /\ \/ pc'[o] = pc[o] /\ at'[o] = at[o]
                  \/ pc[o] = "sync" /\ pc'[o] \in {"multiply", "rotate"}
    BY <1>3, <1>11 DEF BlockBarrier, Move
  <2> QED
    BY <2>1, <1>7 DEF Writing
<1>12. ASSUME NEW x \in Thread, RotatePlane(x) PROVE Goal
  BY <1>7, <1>12 DEF RotatePlane
<1>13. ASSUME NEW x \in Thread, NextRow(x) PROVE Goal
  <2>1. Y' = Y /\ pc' = pc /\ pc[x] = "rotate" /\ (o # x => at'[o] = at[o])
    BY <1>2, <1>3, <1>13 DEF NextRow
  <2> QED
    BY <2>1, <1>7 DEF Writing
<1>14. ASSUME NEW x \in Thread, EndRows(x) PROVE Goal
  <2>1. Y' = Y /\ at' = at /\ (pc'[o] = pc[o] \/ (pc[o] = "rotate" /\ pc'[o] = "rotated"))
    BY <1>2, <1>3, <1>14 DEF EndRows, kernel_vars
  <2> QED
    BY <2>1, <1>7 DEF Writing
<1>15. ASSUME NEW t \in Cta, RotateBarrier(t) PROVE Goal
  <2>1. Y' = Y /\ \/ pc'[o] = pc[o] /\ at'[o] = at[o]
                  \/ pc[o] = "rotated" /\ at'[o] = o[2]
    BY <1>3, <1>15 DEF RotateBarrier, Move
  <2>2. o[2] \in Int
    BY <1>1, <1>3, ThreadType
  <2> QED
    BY <2>1, <2>2, <1>3, <1>4, <1>5 DEF Writing
<1>16. ASSUME NEW x \in Thread, Write(x) PROVE Goal
  <2>1. /\ pc' = pc /\ pc[x] = "write" /\ at' = [at EXCEPT ![x] = at[x] + Threads]
        /\ at[x] \in Nat
    BY <1>2, <1>16 DEF Write, NextElement
  <2>2. PICK t \in Cta, j \in Strip :
          /\ t = x[1] /\ j = at[x] /\ x = Writer(t, j)
          /\ Y' = IF Global(t, j \div FEAT) < M
                  THEN [Y EXCEPT ![t * (cfg.TBM * FEAT) + j] = Fused(Global(t, j \div FEAT))[j % FEAT]]
                  ELSE Y
    BY <1>16, WriteEffect
  <2>3. CASE t = u /\ j = i
    <3>1. o = x /\ Y' = IF real THEN [Y EXCEPT ![a] = final] ELSE Y
      BY <2>2, <2>3, <1>6
    <3>2. i < at'[o] /\ ~(i < at[o])
      BY <3>1, <2>1, <2>2, <2>3, <1>1, <1>2, <1>3, Sizes
    <3>3. Y'[a] = IF real THEN final ELSE Y[a]
      BY <3>1, <1>2, <1>3
    <3> QED
      BY <3>1, <3>2, <3>3, <2>1, <1>4 DEF Writing
  <2>4. CASE ~(t = u /\ j = i)
    <3>1. t * (cfg.TBM * FEAT) + j # a
      BY <2>4, <1>1, <1>6, StripsApart
    <3>2. Y'[a] = Y[a]
      BY <3>1, <2>2, <1>2, <1>3
    <3>3. i < at'[o] <=> i < at[o]
      <4>1. CASE o # x
        BY <4>1, <2>1, <1>2, <1>3
      <4>2. CASE o = x
        <5>1. i # j /\ at'[o] = j + Threads /\ at[o] = j /\ j \in Nat
          BY <4>2, <2>1, <2>2, <2>4, <1>2, <1>3
        <5>2. i % Threads = j % Threads
          BY <4>2, <2>2, <1>3 DEF Writer
        <5>3. j < i => j + Threads <= i
          BY <5>1, <5>2, <1>1, <1>3, OwnRemainder
        <5> QED
          BY <5>1, <5>3, <1>1, <1>3, Sizes
      <4> QED
        BY <4>1, <4>2
    <3> QED
      BY <3>2, <3>3, <2>1, <1>4
  <2> QED
    BY <2>3, <2>4
<1>17. ASSUME NEW x \in Thread, Exit(x) PROVE Goal
  <2>1. Y' = Y /\ at' = at /\ (pc'[o] = pc[o] \/ (pc[o] = "write" /\ pc'[o] = "exit"))
    BY <1>2, <1>3, <1>17 DEF Exit, kernel_vars
  <2> QED
    BY <2>1, <1>7 DEF Writing
<1>18. ASSUME UNCHANGED vars PROVE Goal
  BY <1>7, <1>18 DEF vars
<1>19. Goal
  BY <1>8, <1>9, <1>10, <1>11, <1>12, <1>13, <1>14, <1>15, <1>16, <1>17, <1>18
     DEF Next, CtaStep, Peers, Done
<1> QED
  BY <1>6, <1>19

-----------------------------------------------------------------------------
LEMMA InitInv == Init => IInv
<1> SUFFICES ASSUME Init PROVE IInv
  OBVIOUS
<1>1. cfg \in Configs
  BY DEF Init
<1>2. ShapeInv
  <2>1. nb \in Nat /\ Len(Planes) \in Nat
    BY <1>1, Sizes
  <2> QED
    BY <2>1 DEF Init, ShapeInv
<1>3. ThreadInv /\ TogetherInv /\ HostInv
  <2>1. nb > 0
    BY <1>1, Sizes
  <2> QED
    BY <2>1 DEF Init, ThreadInv, TogetherInv, HostInv, Launched, Multiplying, Rotating, Writing
<1>4. MultiplyInv
  <2>1. ASSUME NEW f \in Feat PROVE f \div N_OUT \in Nat
    <3>1. f \in Nat /\ N_OUT \in Nat \ {0}
      BY <1>1, Sizes DEF Feat
    <3> QED
      BY <3>1, DivMod
  <2>2. \A t \in Cta, r \in Row : pc[Multiplier(t, r)] = "wait" /\ b[Multiplier(t, r)] = 0
    BY <1>1, ActorType DEF Init
  <2> QED
    BY <2>1, <2>2 DEF MultiplyInv, Multiplied
<1>5. RotateInv
  BY <1>1, ActorType DEF Init, RotateInv, Rotating, Writing
<1>6. WriteInv
  <2>1. \A t \in Cta, i \in Strip : ~Stored(t, i)
    BY <1>1, ActorType DEF Init, Stored, Writing
  <2>2. \A t \in Cta, i \in Strip : Y[t * (cfg.TBM * FEAT) + i] = Unset
    BY <1>1, StripCell DEF Init
  <2> QED
    BY <2>1, <2>2 DEF WriteInv
<1> QED
  BY <1>2, <1>3, <1>4, <1>5, <1>6 DEF IInv, ControlInv

LEMMA HostStep ==
  ASSUME HostInv, [Next]_vars
  PROVE  HostInv'
<1>1. ASSUME NEW t \in Cta, CtaStep(t) PROVE HostInv'
  BY <1>1 DEF HostInv, CtaStep, MultiplyBlock, RotatePlane, NextRow, EndRows, Write, Exit,
     BlockBarrier, RotateBarrier
<1> QED
  BY <1>1 DEF HostInv, Next, Launch, LaunchRefused, Done, vars

LEMMA IInvStep ==
  ASSUME IInv, [Next]_vars
  PROVE  IInv'
<1> QED
  BY HostStep, ShapeStep, ThreadStep, MultiplyStep, RotateStep, WriteStep DEF IInv, ControlInv

THEOREM Invariant == Spec => []IInv
<1>1. IInv /\ [Next]_vars => IInv'
  BY IInvStep
<1> QED
  BY InitInv, <1>1, PTL DEF Spec

-----------------------------------------------------------------------------
\* No row is the one that was never written, however many planes it has had.
LEMMA AfterIsWritten ==
  ASSUME UnsetIsNoValue, cfg \in Configs, NEW grow, NEW n \in 0 .. Len(Planes)
  PROVE  \A f \in Feat : After(grow)[n][f] # Unset
<1> DEFINE Bad == {i \in Nat : i <= Len(Planes)
                               /\ ~(/\ DOMAIN After(grow)[i] = Feat
                                    /\ \A f \in Feat : After(grow)[i][f] # Unset)}
<1>1. ASSUME Bad # {} PROVE FALSE
  <2>1. PICK m \in Bad : \A j \in Bad : m <= j
    BY <1>1, LeastElement
  <2>2. m # 0
    <3>1. After(grow)[0] = ProductRow(grow)
      BY AfterPlanes
    <3>2. /\ DOMAIN ProductRow(grow) = Feat
          /\ \A f \in Feat : ProductRow(grow)[f] = Product(grow, f \div N_OUT, f % N_OUT)
      BY DEF ProductRow
    <3>3. \A f \in Feat : ProductRow(grow)[f] # Unset
      BY <3>2 DEF UnsetIsNoValue
    <3> QED
      BY <2>1, <3>1, <3>2, <3>3
  <2>a. PICK n1 \in Nat : n1 = Len(Planes)
    BY Sizes
  <2>b. m \in Nat /\ m <= n1
    BY <2>1, <2>a
  <2>c. m - 1 \in Nat /\ m - 1 < m /\ m \in 1 .. n1 /\ m - 1 <= n1
    BY <2>2, <2>b
  <2>d. m - 1 \notin Bad
    <3>1. m - 1 \in Bad => m <= m - 1
      BY <2>1
    <3> QED
      BY <3>1, <2>b, <2>c
  <2>3. /\ m \in Nat /\ m - 1 \in Nat /\ m - 1 \notin Bad /\ m \in 1 .. Len(Planes)
        /\ m - 1 <= Len(Planes)
    BY <2>a, <2>b, <2>c, <2>d
  <2>4. /\ DOMAIN After(grow)[m - 1] = Feat
        /\ \A f \in Feat : After(grow)[m - 1][f] # Unset
    BY <2>3
  <2>5. After(grow)[m] = Rotated(After(grow)[m - 1], m)
    BY <2>3, AfterPlanes
  <2>6. /\ DOMAIN After(grow)[m] = Feat
        /\ \A f \in Feat : After(grow)[m][f] # Unset
    <3> DEFINE row == After(grow)[m - 1]
               I == Planes[m][1]
               J == Planes[m][2]
               lo == <<"lo", m, row[I], row[J]>>
               hi == <<"hi", m, row[I], row[J]>>
    <3>1. lo # Unset /\ hi # Unset
      BY DEF UnsetIsNoValue
    <3>2. After(grow)[m] = [row EXCEPT ![I] = lo, ![J] = hi]
      BY <2>5 DEF Rotated
    <3>3. row = After(grow)[m - 1]
      OBVIOUS
    <3> HIDE DEF row, I, J, lo, hi
    <3> QED
      BY <2>4, <3>1, <3>2, <3>3
  <2> QED
    BY <2>1, <2>6
<1>2. n \in Nat /\ n <= Len(Planes)
  BY Sizes
<1> QED
  BY <1>1, <1>2

\* PhasesApart: a thread never rotates a row that another thread is at or that
\* lacks a block, and none is written before all of its CTA are rotated.
THEOREM PhasesStayApart ==
  ASSUME UnsetIsNoValue
  PROVE  Spec => []PhasesApart
<1>1. ASSUME IInv PROVE PhasesApart
  <2>1. /\ cfg \in Configs /\ ThreadInv /\ TogetherInv /\ RotateInv
        /\ at \in [Thread -> Nat] /\ k \in [Thread -> 0 .. Len(Planes)]
        /\ cfg.TBM \in Nat
    BY <1>1, Sizes DEF IInv, ControlInv, ShapeInv
  <2>2. \A x \in Thread : x[1] \in Cta /\ x = <<x[1], x[2]>>
    BY <2>1, ThreadType
  <2>3. ASSUME NEW x \in Thread, pc[x] = "rotate", at[x] < cfg.TBM
        PROVE  /\ at[x] \in Row /\ Rotator(x[1], at[x]) = x
               /\ \A f \in Feat : osh[x[1]][at[x]][f] # Unset
    <3>1. at[x] \in Row /\ at[x] % Threads = x[2]
      BY <2>1, <2>3 DEF ThreadInv, Rotating, Row
    <3>2. Rotator(x[1], at[x]) = x
      BY <2>2, <3>1 DEF Rotator
    <3>3. osh[x[1]][at[x]] = After(Global(x[1], at[x]))[k[x]]
      BY <2>1, <2>2, <2>3, <3>1, <3>2 DEF RotateInv, Applied, Rotating
    <3> QED
      BY <2>1, <3>1, <3>2, <3>3, AfterIsWritten
  <2>4. ASSUME NEW x \in Thread, NEW r \in Row, pc[x] = "write"
        PROVE  osh[x[1]][r] = Fused(x[1] * cfg.TBM + r)
    <3>1. Rotator(x[1], r) \in Thread /\ Rotator(x[1], r)[1] = x[1]
      BY <2>1, <2>2, ActorType DEF Rotator
    <3>2. pc[Rotator(x[1], r)] \in Writing
      BY <2>1, <2>4, <3>1 DEF TogetherInv, Writing
    <3> QED
      BY <2>1, <2>2, <3>2 DEF RotateInv, Global
  <2> QED
    BY <2>3, <2>4 DEF PhasesApart
<1> QED
  BY Invariant, <1>1, PTL

\* WrittenOnce: every element of Y is written once, with its final value, and
\* nothing is written beyond the last row.
THEOREM StripsAreWrittenOnce == Spec => WrittenOnce
<1> DEFINE Once == \A a \in DOMAIN Y :
              Y'[a] # Y[a] => /\ a < M * FEAT
                              /\ Y[a] = Unset
                              /\ Y'[a] = Fused(a \div FEAT)[a % FEAT]
<1>1. ASSUME IInv, Next PROVE Once
  <2>1. SUFFICES ASSUME NEW a \in DOMAIN Y, Y'[a] # Y[a]
                 PROVE  a < M * FEAT /\ Y[a] = Unset /\ Y'[a] = Fused(a \div FEAT)[a % FEAT]
    OBVIOUS
  <2>2. PICK x \in Thread : Write(x)
    BY <1>1, <2>1
       DEF Next, Launch, LaunchRefused, Done, vars, kernel_vars, CtaStep, Peers, MultiplyBlock,
           BlockBarrier, RotatePlane, NextRow, EndRows, RotateBarrier, Exit
  <2>3. /\ cfg \in Configs /\ pc[x] = "write" /\ at \in [Thread -> Nat]
        /\ Y = [c \in Cells |-> Y[c]] /\ ControlInv /\ RotateInv /\ WriteInv
    BY <1>1, <2>2 DEF IInv, ControlInv, ShapeInv, Write
  <2>4. PICK t \in Cta, i \in Strip :
          /\ t = x[1] /\ i = at[x] /\ x = Writer(t, i)
          /\ Y' = IF Global(t, i \div FEAT) < M
                  THEN [Y EXCEPT ![t * (cfg.TBM * FEAT) + i] = Fused(Global(t, i \div FEAT))[i % FEAT]]
                  ELSE Y
    BY <2>2, <2>3, WriteEffect
  <2>5. /\ a = t * (cfg.TBM * FEAT) + i /\ a \in Cells
        /\ Global(t, i \div FEAT) < M
        /\ Y'[a] = Fused(Global(t, i \div FEAT))[i % FEAT]
    BY <2>1, <2>3, <2>4
  <2>6. a < M * FEAT /\ a \div FEAT = Global(t, i \div FEAT) /\ a % FEAT = i % FEAT /\ i \in Nat
    BY <2>3, <2>5, StripCell
  <2>7. Y[a] = Unset
    <3>1. ~Stored(t, i)
      BY <2>4, <2>6 DEF Stored
    <3> QED
      BY <2>3, <2>5, <3>1 DEF WriteInv
  <2> QED
    BY <2>5, <2>6, <2>7
<1>2. IInv /\ [Next]_vars => [Once]_vars
  BY <1>1
<1>3. Spec => [][Once]_vars
  BY Invariant, <1>2, PTL DEF Spec
<1> QED
  BY <1>3 DEF WrittenOnce

\* ReturnsStage: where every launch is checked, a call that returns has, in the
\* end, multiplied each row by every block and rotated it by every plane.
THEOREM StageIsReturned ==
  ASSUME \A g \in Configs : g.checked
  PROVE  Spec => []ReturnsStage
<1>1. ASSUME IInv PROVE ReturnsStage
  <2>1. /\ cfg \in Configs /\ ThreadInv /\ WriteInv /\ HostInv
        /\ at \in [Thread -> Nat]
    BY <1>1 DEF IInv, ControlInv, ShapeInv
  <2>2. SUFFICES ASSUME Finished, host = "returned", NEW a \in 0 .. M * FEAT - 1
                 PROVE  Y[a] = Fused(a \div FEAT)[a % FEAT]
    BY DEF ReturnsStage
  <2>3. Launched
    BY <2>1, <2>2 DEF HostInv, Launched
  <2>4. PICK t \in Cta, i \in Strip : a = t * (cfg.TBM * FEAT) + i
    BY <2>1, StripsCover
  <2>5. Writer(t, i) \in Thread
    BY <2>1, ActorType
  <2>6. pc[Writer(t, i)] = "exit" /\ at[Writer(t, i)] >= cfg.TBM * FEAT
    BY <2>1, <2>2, <2>3, <2>5 DEF Finished, ThreadInv
  <2>7. /\ i \in Nat /\ i < cfg.TBM * FEAT /\ Global(t, i \div FEAT) < M
        /\ a \div FEAT = Global(t, i \div FEAT) /\ a % FEAT = i % FEAT
    <3>1. a < M * FEAT
      BY <2>1, Sizes
    <3> QED
      BY <2>1, <2>4, <3>1, StripCell
  <2>8. i < at[Writer(t, i)]
    BY <2>1, <2>5, <2>6, <2>7, Sizes
  <2>9. Stored(t, i)
    BY <2>6, <2>7, <2>8 DEF Stored, Writing
  <2> QED
    BY <2>1, <2>4, <2>7, <2>9 DEF WriteInv
<1> QED
  BY Invariant, <1>1, PTL
==============================================================================
