--------------------------- MODULE DivisionLemmas ---------------------------
(***************************************************************************)
(* Facts about division with remainder, stated once for the index          *)
(* arithmetic of the kernels (row-major addresses, tiles of a grid stride).*)
(***************************************************************************)
EXTENDS Integers, WellFoundedInduction, TLAPS

\* Quotient and remainder rebuild the dividend.
LEMMA DivMod ==
  ASSUME NEW a \in Nat, NEW n \in Nat \ {0}
  PROVE  /\ a \div n \in Nat
         /\ a % n \in 0 .. n - 1
         /\ a = (a \div n) * n + (a % n)
  OBVIOUS

\* Multiplication by a natural number is monotonic.
LEMMA MulMono ==
  ASSUME NEW a \in Int, NEW b \in Int, NEW n \in Nat, a <= b
  PROVE  a * n <= b * n
  OBVIOUS

\* A two-digit number with low digit below n determines its digits.
LEMMA TwoDigits ==
  ASSUME NEW n \in Nat \ {0}, NEW a \in Int, NEW b \in Int,
         NEW r \in 0 .. n - 1, NEW s \in 0 .. n - 1,
         a * n + r = b * n + s
  PROVE  a = b /\ r = s
<1>1. ~(a < b)
  <2>1. SUFFICES ASSUME a < b PROVE FALSE
    OBVIOUS
  <2>2. (a + 1) * n <= b * n
    BY <2>1, MulMono
  <2> QED
    BY <2>2
<1>2. ~(b < a)
  <2>1. SUFFICES ASSUME b < a PROVE FALSE
    OBVIOUS
  <2>2. (b + 1) * n <= a * n
    BY <2>1, MulMono
  <2> QED
    BY <2>2
<1> QED
  BY <1>1, <1>2

\* Quotient and remainder are the only digits of the dividend.
LEMMA DivModUnique ==
  ASSUME NEW n \in Nat \ {0}, NEW q \in Int, NEW r \in 0 .. n - 1,
         NEW a \in Int, a = q * n + r
  PROVE  a \div n = q /\ a % n = r
  OBVIOUS

\* The remainder is no larger than the dividend.
LEMMA ModAtMost ==
  ASSUME NEW a \in Nat, NEW n \in Nat \ {0}
  PROVE  a % n <= a /\ a % n \in Nat
<1>1. PICK q \in Nat, r \in 0 .. n - 1 : a = q * n + r /\ r = a % n
  BY DivMod
<1>2. 0 * n <= q * n
  BY MulMono
<1> QED
  BY <1>1, <1>2

\* Division is monotonic.
LEMMA DivMono ==
  ASSUME NEW a \in Nat, NEW b \in Nat, NEW n \in Nat \ {0}, a <= b
  PROVE  a \div n <= b \div n
<1>1. SUFFICES ASSUME b \div n < a \div n PROVE FALSE
  BY DivMod
<1>2. (b \div n + 1) * n <= (a \div n) * n
  BY <1>1, DivMod, MulMono
<1>3. b < (b \div n + 1) * n
  BY DivMod
<1> QED
  BY <1>2, <1>3, DivMod

\* A step of n keeps the remainder.
LEMMA ModStep ==
  ASSUME NEW a \in Nat, NEW n \in Nat \ {0}
  PROVE  (a + n) % n = a % n
<1>1. PICK q \in Nat, r \in 0 .. n - 1 : a = q * n + r /\ r = a % n
  BY DivMod
<1>2. a + n = (q + 1) * n + r
  BY <1>1
<1>3. q + 1 \in Int /\ a + n \in Int
  OBVIOUS
<1>4. (a + n) % n = r
  BY <1>2, <1>3, DivModUnique
<1> QED
  BY <1>1, <1>4

\* Two numbers with the same remainder are at least one step apart.
LEMMA SameMod ==
  ASSUME NEW a \in Nat, NEW b \in Nat, NEW n \in Nat \ {0}, a % n = b % n, a < b
  PROVE  a + n <= b
<1>1. PICK q \in Nat, r \in 0 .. n - 1 : a = q * n + r /\ r = a % n
  BY DivMod
<1>2. PICK p \in Nat, s \in 0 .. n - 1 : b = p * n + s /\ s = b % n
  BY DivMod
<1>3. ~(p <= q)
  <2>1. SUFFICES ASSUME p <= q PROVE FALSE
    OBVIOUS
  <2>2. p * n <= q * n
    BY <2>1, MulMono
  <2> QED
    BY <1>1, <1>2, <2>2
<1>4. (q + 1) * n <= p * n
  BY <1>3, MulMono
<1> QED
  BY <1>1, <1>2, <1>4

\* A nonempty set of natural numbers has a least element.  Induction is by the
\* least counterexample.
LEMMA LeastElement ==
  ASSUME NEW T \in SUBSET Nat, T # {}
  PROVE  \E m \in T : \A j \in T : m <= j
<1> DEFINE R == OpToRel(<, Nat)
<1>1. IsWellFoundedOn(R, Nat)
  BY NatLessThanWellFounded
<1>2. \A j, m \in Nat : j < m => <<j, m>> \in R
  BY DEF OpToRel
<1> HIDE DEF R
<1>3. PICK m \in T : \A j \in T : ~(<<j, m>> \in R)
  BY <1>1, WFMin
<1>4. ASSUME NEW j \in T PROVE m <= j
  <2>1. m \in Nat /\ j \in Nat
    BY <1>3
  <2>2. ~(j < m)
    BY <2>1, <1>2, <1>3
  <2> QED
    BY <2>1, <2>2
<1> QED
  BY <1>4

\* Distributivity, for the addresses base + batch * step.
LEMMA FactorOut ==
  ASSUME NEW a \in Int, NEW b \in Int, NEW c \in Int, NEW x \in Int
  PROVE  a * x + b * (c * x) = (a + b * c) * x
OBVIOUS

\* A number below m is in the one of Ceil(m, n) tiles that its quotient names.
LEMMA TileUnique ==
  ASSUME NEW n \in Nat \ {0}, NEW m \in Nat, NEW i \in 0 .. m - 1
  PROVE  /\ i \div n \in 0 .. (m + n - 1) \div n - 1
         /\ \A t \in Int : i \in t * n .. t * n + n - 1 <=> t = i \div n
<1>1. i \in Nat /\ i < m
  OBVIOUS
<1>2. PICK q \in Nat, r \in 0 .. n - 1 : q = i \div n /\ i = q * n + r
  BY <1>1, DivMod
<1>3. PICK c \in Nat, s \in 0 .. n - 1 : c = (m + n - 1) \div n /\ m + n - 1 = c * n + s
  <2>1. m + n - 1 \in Nat
    OBVIOUS
  <2>2. /\ (m + n - 1) \div n \in Nat /\ (m + n - 1) % n \in 0 .. n - 1
        /\ m + n - 1 = ((m + n - 1) \div n) * n + ((m + n - 1) % n)
    BY <2>1, DivMod
  <2> QED
    BY <2>2
<1>4. ~(c <= q)
  <2>1. ASSUME c <= q PROVE FALSE
    <3>1. c * n <= q * n
      BY <2>1, MulMono
    <3>2. PICK y \in Int, z \in Int : y = c * n /\ z = q * n
      OBVIOUS
    <3> QED
      BY <3>1, <3>2, <1>1, <1>2, <1>3
  <2> QED
    BY <2>1
<1>5. ASSUME NEW t \in Int PROVE i \in t * n .. t * n + n - 1 <=> t = q
  <2>1. PICK y \in Int : y = t * n
    OBVIOUS
  <2>2. ASSUME i \in y .. y + n - 1 PROVE t = q
    <3>1. i - y \in 0 .. n - 1 /\ i = y + (i - y)
      BY <2>2
    <3>2. t * n + (i - y) = q * n + r
      BY <3>1, <2>1, <1>2
    <3> QED
      BY <3>1, <3>2, TwoDigits
  <2>3. ASSUME t = q PROVE i \in y .. y + n - 1
    BY <2>1, <2>3, <1>2
  <2> QED
    BY <2>1, <2>2, <2>3
<1> QED
  BY <1>2, <1>3, <1>4, <1>5

\* Dividing by d1 and then by d2 is dividing by their product.
LEMMA DivDiv ==
  ASSUME NEW d1 \in Nat \ {0}, NEW d2 \in Nat \ {0},
         NEW z \in Nat, NEW y \in 0 .. d2 - 1, NEW x \in 0 .. d1 - 1,
         NEW u \in Nat, u = z * d2 + y, NEW id \in Nat, id = u * d1 + x
  PROVE  id \div (d1 * d2) = z /\ id = x + d1 * (y + d2 * z)
<1>1. PICK dd \in Nat \ {0} : dd = d1 * d2
  <2>1. 1 * d2 <= d1 * d2 /\ d1 * d2 \in Int
    BY MulMono
  <2> QED
    BY <2>1
<1>2. PICK w \in Nat : w = y * d1
  OBVIOUS
<1>3. w + x \in 0 .. dd - 1
  <2>1. (y + 1) * d1 <= d2 * d1 /\ (y + 1) * d1 = y * d1 + d1 /\ d2 * d1 = d1 * d2
    BY MulMono
  <2> QED
    BY <2>1, <1>1, <1>2
<1>4. PICK a \in Int : a = z * dd
  OBVIOUS
<1>5. u * d1 = a + w
  <2>1. u * d1 = (z * d2) * d1 + y * d1
    OBVIOUS
  <2>2. (z * d2) * d1 = z * (d1 * d2)
    OBVIOUS
  <2> QED
    BY <2>1, <2>2, <1>1, <1>2, <1>4
<1>6. id = z * dd + (w + x)
  BY <1>2, <1>4, <1>5
<1>7. id \div dd = z
  BY <1>3, <1>6, DivModUnique
<1>8. d1 * (y + d2 * z) = u * d1
  OBVIOUS
<1> QED
  BY <1>1, <1>7, <1>8

\* The highest of the three digits of a number below d1 * d2 * d3 is below d3.
LEMMA HighDigit ==
  ASSUME NEW d1 \in Nat \ {0}, NEW d2 \in Nat \ {0}, NEW d3 \in Nat,
         NEW z \in Nat, NEW y \in Nat, NEW x \in Nat, NEW u \in Nat, u = z * d2 + y,
         NEW id \in Nat, id = u * d1 + x, NEW v \in Nat, v = d2 * d3, NEW size \in Nat, size = d1 * v,
         id < size
  PROVE  z < d3
<1>1. SUFFICES ASSUME d3 <= z PROVE FALSE
  OBVIOUS
<1>2. d3 * d2 <= z * d2
  BY <1>1, MulMono
<1>3. PICK w \in Nat : w = z * d2
  OBVIOUS
<1>4. v <= u
  BY <1>2, <1>3
<1>5. v * d1 <= u * d1
  BY <1>4, MulMono
<1>6. PICK q \in Nat : q = u * d1
  OBVIOUS
<1> QED
  BY <1>5, <1>6

\* The number with three given digits has them.
LEMMA OfDigits ==
  ASSUME NEW d1 \in Nat \ {0}, NEW d2 \in Nat \ {0}, NEW d3 \in Nat,
         NEW x \in 0 .. d1 - 1, NEW y \in 0 .. d2 - 1, NEW z \in 0 .. d3 - 1,
         NEW id, id = x + d1 * (y + d2 * z)
  PROVE  /\ id \in Nat /\ id < d1 * d2 * d3
         /\ id % d1 = x /\ (id \div d1) % d2 = y /\ id \div (d1 * d2) = z
<1>1. PICK u \in Nat : u = z * d2 + y
  OBVIOUS
<1>2. PICK v \in Nat : v = u * d1
  BY <1>1
<1>3. id = v + x /\ id \in Nat
  <2>1. d1 * (y + d2 * z) = u * d1
    BY <1>1
  <2> QED
    BY <2>1, <1>2
<1>4. id = u * d1 + x
  BY <1>2, <1>3
<1>5. id \div d1 = u /\ id % d1 = x
  BY <1>3, <1>4, DivModUnique
<1>6. u \div d2 = z /\ u % d2 = y
  BY <1>1, DivModUnique
<1>7. id < d1 * d2 * d3
  <2>1. (z + 1) * d2 <= d3 * d2 /\ (z + 1) * d2 = z * d2 + d2
    BY MulMono
  <2>2. PICK w \in Int, e \in Int : w = z * d2 /\ e = d3 * d2
    OBVIOUS
  <2>3. u + 1 <= e
    BY <2>1, <2>2, <1>1
  <2>4. (u + 1) * d1 <= e * d1 /\ (u + 1) * d1 = u * d1 + d1
    BY <2>2, <2>3, MulMono
  <2>5. e * d1 = d1 * d2 * d3 /\ e * d1 \in Int
    BY <2>2
  <2>6. PICK a \in Int : a = e * d1
    BY <2>5
  <2>7. v + d1 <= a
    BY <2>4, <2>6, <1>2
  <2>8. id < a
    BY <2>7, <2>6, <1>2, <1>3
  <2> QED
    BY <2>5, <2>6, <2>8
<1>8. id \div (d1 * d2) = z
  BY <1>1, <1>3, <1>4, DivDiv
<1> QED
  BY <1>3, <1>5, <1>6, <1>7, <1>8
=============================================================================
