------------------------- MODULE GivensPerm_proofs -------------------------
(***************************************************************************)
(* givens_perm.py and colmajor_setup.py proved correct for every           *)
(* permutation of any number of coordinates.  First PermCycles: cycles_of  *)
(* returns the cycles and two_matchings the two layers.  Then              *)
(* Orientations: the union-find forest represents the demands entered,     *)
(* they contradict each other exactly when there is an even cycle, and the *)
(* angles returned meet them.  Last ColmajorSetup: the tables of a stage.  *)
(***************************************************************************)
EXTENDS Orientations, ColmajorSetup, DivisionLemmas, FiniteSetTheorems, SequenceTheorems

\* y is on a finished cycle; y is on the path being walked.
OnCycle(y) == \E j \in 1 .. Len(cycles) : \E i \in 1 .. Len(cycles[j]) : cycles[j][i] = y
OnPath(y)  == \E i \in 1 .. Len(c) : c[i] = y

\* perm takes each element of d to the next.
Chain(d) == \A i \in 1 .. Len(d) - 1 : perm[d[i]] = d[i + 1]

\* The path starts at s, leads to x, and meets neither itself nor a cycle.
PathInv ==
  pc = "walk" =>
    /\ Chain(c)
    /\ c = <<>> => x = s /\ ~seen[s]
    /\ c # <<>> => c[1] = s /\ perm[c[Len(c)]] = x
    /\ \A i, j \in 1 .. Len(c) : c[i] = c[j] => i = j
    /\ \A i \in 1 .. Len(c) : ~OnCycle(c[i])

\* Every finished list is a closed chain, and no coordinate occurs twice.
CycleInv ==
  /\ \A j \in 1 .. Len(cycles) :
       /\ cycles[j] # <<>>
       /\ Chain(cycles[j])
       /\ perm[cycles[j][Len(cycles[j])]] = cycles[j][1]
  /\ \A j, k \in 1 .. Len(cycles) :
       \A i \in 1 .. Len(cycles[j]), l \in 1 .. Len(cycles[k]) :
         cycles[j][i] = cycles[k][l] => j = k /\ i = l

\* What has been seen is what is on a list, and all below s has been seen.
SeenInv ==
  /\ \A y \in Coord : seen[y] <=> OnCycle(y) \/ (pc = "walk" /\ OnPath(y))
  /\ \A y \in Coord : y < s => seen[y]
  /\ pc \in {"match", "matched"} => s = n

\* The first m cycles have been reflected.
MatchInv ==
  /\ pc \in {"scan", "walk"} => m = 0
  /\ pc = "matched" => m = Len(cycles)
  /\ \A j \in 1 .. m : \A i \in 0 .. Len(cycles[j]) - 1 :
       /\ tau[At(cycles[j], i)] = At(cycles[j], (0 - i) % Len(cycles[j]))
       /\ sig[At(cycles[j], i)] = At(cycles[j], (1 - i) % Len(cycles[j]))

Types ==
  /\ perm \in Inputs
  /\ pc \in {"scan", "walk", "match", "matched"}
  /\ s \in 0 .. n
  /\ seen \in [Coord -> BOOLEAN]
  /\ c \in Seq(Coord)
  /\ pc = "walk" => s \in Coord /\ x \in Coord
  /\ cycles \in Seq(Seq(Coord))
  /\ m \in 0 .. Len(cycles)
  /\ tau \in [Coord -> Coord]
  /\ sig \in [Coord -> Coord]

\* A path without repetitions is no longer than there are coordinates.
PathBound == Len(c) <= n

IInv == Types /\ PathInv /\ CycleInv /\ SeenInv /\ MatchInv /\ PathBound

-----------------------------------------------------------------------------
\* What Append does to length and elements.
LEMMA AppendProps ==
  ASSUME NEW S, NEW q \in Seq(S), NEW e \in S
  PROVE  /\ Append(q, e) \in Seq(S)
         /\ Len(Append(q, e)) = Len(q) + 1
         /\ \A i \in 1 .. Len(q) : Append(q, e)[i] = q[i]
         /\ Append(q, e)[Len(q) + 1] = e
  OBVIOUS

\* The elements of a list, and its length.
LEMMA SeqProps ==
  ASSUME NEW S, NEW q \in Seq(S)
  PROVE  /\ Len(q) \in Nat
         /\ \A i \in 1 .. Len(q) : q[i] \in S
         /\ q = <<>> <=> Len(q) = 0
  OBVIOUS

\* Remainders of any integer are indices.
LEMMA ModIndex ==
  ASSUME NEW L \in Nat \ {0}, NEW a \in Int
  PROVE  a % L \in 0 .. L - 1
  OBVIOUS

\* The residues of the two reflections of an index and of its successor.
LEMMA Residues ==
  ASSUME NEW L \in Nat \ {0}, NEW i \in 0 .. L - 1
  PROVE  /\ (0 - i) % L = (IF i = 0 THEN 0 ELSE L - i)
         /\ (1 - i) % L = (IF i = 0 THEN 1 % L ELSE IF i = 1 THEN 0 ELSE L + 1 - i)
         /\ (i + 1) % L = (IF i = L - 1 THEN 0 ELSE i + 1)
<1>1. (0 - i) % L = (IF i = 0 THEN 0 ELSE L - i)
  <2>1. CASE i = 0
    <3>1. 0 - i = 0 * L + 0
      BY <2>1
    <3> QED
      BY <2>1, <3>1, DivModUnique
  <2>2. CASE i # 0
    <3>1. 0 - i = (-1) * L + (L - i) /\ L - i \in 0 .. L - 1 /\ 0 - i \in Int /\ -1 \in Int
      BY <2>2
    <3> QED
      BY <2>2, <3>1, DivModUnique
  <2> QED
    BY <2>1, <2>2
<1>2. (1 - i) % L = (IF i = 0 THEN 1 % L ELSE IF i = 1 THEN 0 ELSE L + 1 - i)
  <2>1. CASE i = 0
    BY <2>1
  <2>2. CASE i = 1
    <3>1. 1 - i = 0 * L + 0
      BY <2>2
    <3> QED
      BY <2>2, <3>1, DivModUnique
  <2>3. CASE i > 1
    <3>1. 1 - i = (-1) * L + (L + 1 - i) /\ L + 1 - i \in 0 .. L - 1 /\ 1 - i \in Int /\ -1 \in Int
      BY <2>3
    <3> QED
      BY <2>3, <3>1, DivModUnique
  <2> QED
    BY <2>1, <2>2, <2>3
<1>3. (i + 1) % L = (IF i = L - 1 THEN 0 ELSE i + 1)
  <2>1. CASE i = L - 1
    <3>1. i + 1 = 1 * L + 0 /\ i + 1 \in Int /\ 1 \in Int /\ 0 \in 0 .. L - 1
      BY <2>1
    <3> QED
      BY <2>1, <3>1, DivModUnique
  <2>2. CASE i # L - 1
    <3>1. i + 1 = 0 * L + (i + 1) /\ i + 1 \in 0 .. L - 1 /\ i + 1 \in Int
      BY <2>2
    <3> QED
      BY <2>2, <3>1, DivModUnique
  <2> QED
    BY <2>1, <2>2
<1> QED
  BY <1>1, <1>2, <1>3

\* Reflecting twice in the same axis gives the index back; reflecting in the
\* axis of tau and then in that of sig gives the next index.
LEMMA Reflections ==
  ASSUME NEW L \in Nat \ {0}, NEW i \in 0 .. L - 1
  PROVE  /\ (0 - ((0 - i) % L)) % L = i
         /\ (1 - ((1 - i) % L)) % L = i
         /\ (1 - ((0 - i) % L)) % L = (i + 1) % L
<1>0. 1 % L = IF L = 1 THEN 0 ELSE 1
  <2>1. CASE L = 1
    BY <2>1
  <2>2. CASE L > 1
    <3>1. 1 = 0 * L + 1 /\ 1 \in 0 .. L - 1
      BY <2>2
    <3> QED
      BY <2>2, <3>1, DivModUnique
  <2> QED
    BY <2>1, <2>2
<1>1. CASE i = 0
  <2>1. (0 - i) % L = 0
    BY <1>1, Residues
  <2>2. (1 - i) % L = 1 % L
    BY <1>1, Residues
  <2>3. (0 - 0) % L = 0
    BY <1>1, <2>1
  <2>4. (1 - 0) % L = 1 % L
    BY <1>1, <2>2
  <2>5. (1 - (1 % L)) % L = 0
    <3>1. CASE L = 1
      BY <3>1
    <3>2. CASE L # 1
      <4>1. 1 \in 0 .. L - 1 /\ (1 - 1) % L = 0
        BY <3>2, Residues
      <4> QED
        BY <1>0, <3>2, <4>1
    <3> QED
      BY <3>1, <3>2
  <2> QED
    BY <1>1, <2>1, <2>2, <2>3, <2>4, <2>5
<1>2. CASE i # 0
  <2>0. L - i \in 0 .. L - 1 /\ L - i # 0
    BY <1>2
  <2>1. (0 - i) % L = L - i
    BY <1>2, Residues
  <2>2. (0 - (L - i)) % L = L - (L - i)
    BY <2>0, Residues
  <2>3. (1 - (L - i)) % L = IF L - i = 1 THEN 0 ELSE L + 1 - (L - i)
    BY <2>0, Residues
  <2>4. (i + 1) % L = IF i = L - 1 THEN 0 ELSE i + 1
    BY Residues
  <2>5. (1 - ((1 - i) % L)) % L = i
    <3>1. CASE i = 1
      <4>1. (1 - i) % L = 0 /\ L # 1
        BY <3>1, Residues
      <4>2. (1 - 0) % L = 1
        BY <1>0, <4>1
      <4> QED
        BY <3>1, <4>1, <4>2
    <3>2. CASE i # 1
      <4>1. L + 1 - i \in 0 .. L - 1 /\ L + 1 - i # 0 /\ L + 1 - i # 1
        BY <1>2, <3>2
      <4>2. (1 - i) % L = L + 1 - i
        BY <1>2, <3>2, Residues
      <4>3. (1 - (L + 1 - i)) % L = L + 1 - (L + 1 - i)
        BY <4>1, Residues
      <4> QED
        BY <4>2, <4>3
    <3> QED
      BY <3>1, <3>2
  <2> QED
    BY <2>0, <2>1, <2>2, <2>3, <2>4, <2>5
<1> QED
  BY <1>1, <1>2

\* A list without repetitions is no longer than there are coordinates.
LEMMA ShortList ==
  ASSUME NEW q \in Seq(Coord), \A i, j \in 1 .. Len(q) : q[i] = q[j] => i = j
  PROVE  Len(q) <= n
<1>1. SUFFICES ASSUME Len(q) > n PROVE FALSE
  BY SeqProps, InputAssumption
<1>2. Len(q) \in Nat /\ n \in Nat
  BY SeqProps, InputAssumption
<1>3. IsFiniteSet(1 .. Len(q)) /\ Cardinality(1 .. Len(q)) = Len(q)
  BY <1>1, <1>2, FS_Interval
<1>4. IsFiniteSet(Coord) /\ Cardinality(Coord) = n
  BY <1>2, FS_Interval DEF Coord
<1>5. q \in [1 .. Len(q) -> Coord]
  OBVIOUS
<1>6. \E i, j \in 1 .. Len(q) : i # j /\ q[i] = q[j]
  BY <1>1, <1>2, <1>3, <1>4, <1>5, FS_PigeonHole
<1> QED
  BY <1>6

-----------------------------------------------------------------------------
LEMMA IInvInit == Init => IInv
<1> SUFFICES ASSUME Init PROVE IInv
  OBVIOUS
<1>1. Types
  BY InputAssumption DEF Init, Types, Coord
<1>2. PathInv /\ CycleInv /\ MatchInv
  BY DEF Init, PathInv, CycleInv, MatchInv
<1>3. SeenInv
  BY InputAssumption DEF Init, SeenInv, OnCycle, Coord
<1>4. PathBound
  BY InputAssumption DEF Init, PathBound
<1> QED
  BY <1>1, <1>2, <1>3, <1>4 DEF IInv

\* The steps of the scan leave the lists alone, or empty the path.
LEMMA ScanStep ==
  ASSUME IInv, SkipSeen \/ StartCycle \/ EndScan
  PROVE  IInv'
<1>0. n \in Nat
  BY InputAssumption
<1>1. Types'
  <2>1. CASE SkipSeen
    <3>1. s' \in 0 .. n
      BY <1>0, <2>1 DEF IInv, Types, SkipSeen
    <3> QED
      BY <2>1, <3>1 DEF IInv, Types, SkipSeen
  <2>2. CASE StartCycle
    <3>1. s \in Coord
      BY <1>0, <2>2 DEF IInv, Types, StartCycle, Coord
    <3> QED
      BY <2>2, <3>1 DEF IInv, Types, StartCycle
  <2>3. CASE EndScan
    BY <2>3 DEF IInv, Types, EndScan
  <2> QED
    BY <2>1, <2>2, <2>3
<1>2. CycleInv'
  BY DEF IInv, CycleInv, Chain, SkipSeen, StartCycle, EndScan
<1>3. PathInv'
  BY DEF IInv, PathInv, Chain, SkipSeen, StartCycle, EndScan
<1>4. SeenInv'
  <2>1. ASSUME NEW y \in Coord PROVE OnCycle(y)' <=> OnCycle(y)
    BY DEF OnCycle, SkipSeen, StartCycle, EndScan
  <2>2. CASE SkipSeen
    <3>1. ASSUME NEW y \in Coord, y < s' PROVE seen[y]
      <4>1. y < s \/ y = s
        BY <1>0, <2>2, <3>1 DEF IInv, Types, SkipSeen, Coord
      <4> QED
        BY <2>2, <3>1, <4>1 DEF IInv, SeenInv, SkipSeen
    <3> QED
      BY <2>1, <2>2, <3>1 DEF IInv, SeenInv, SkipSeen
  <2>3. CASE StartCycle
    BY <1>0, <2>1, <2>3 DEF IInv, Types, SeenInv, StartCycle, OnPath
  <2>4. CASE EndScan
    BY <1>0, <2>1, <2>4 DEF IInv, Types, SeenInv, EndScan
  <2> QED
    BY <2>2, <2>3, <2>4
<1>5. MatchInv'
  BY DEF IInv, MatchInv, At, SkipSeen, StartCycle, EndScan
<1>6. PathBound'
  BY <1>0 DEF IInv, PathBound, SkipSeen, StartCycle, EndScan
<1> QED
  BY <1>1, <1>2, <1>3, <1>4, <1>5, <1>6 DEF IInv

\* The walk appends a coordinate that is on no list yet.
LEMMA WalkStep ==
  ASSUME IInv, Walk
  PROVE  IInv'
<1> DEFINE L == Len(c)
<1>0. n \in Nat /\ IsPermutation(perm)
  BY InputAssumption DEF IInv, Types
<1>1. x \in Coord /\ perm[x] \in Coord /\ ~seen[x] /\ pc = "walk" /\ pc' = "walk"
  BY <1>0 DEF IInv, Types, Walk, IsPermutation
<1>2. L \in Nat /\ Len(c') = L + 1 /\ c'[L + 1] = x /\ c' \in Seq(Coord)
  BY <1>1, AppendProps, SeqProps DEF IInv, Types, Walk
<1>3. ASSUME NEW i \in 1 .. L PROVE c'[i] = c[i] /\ c[i] \in Coord
  BY <1>1, <1>3, AppendProps, SeqProps DEF IInv, Types, Walk
<1>4. Types'
  BY <1>1, <1>2 DEF IInv, Types, Walk
<1>5. ASSUME NEW y \in Coord PROVE OnCycle(y)' <=> OnCycle(y)
  BY DEF OnCycle, Walk
<1>6. ~OnCycle(x) /\ ~OnPath(x)
  BY <1>1 DEF IInv, SeenInv
<1>7. \A i, j \in 1 .. L + 1 : c'[i] = c'[j] => i = j
  <2> SUFFICES ASSUME NEW i \in 1 .. L + 1, NEW j \in 1 .. L + 1, c'[i] = c'[j] PROVE i = j
    OBVIOUS
  <2>1. CASE i \in 1 .. L /\ j \in 1 .. L
    BY <1>1, <1>3, <2>1 DEF IInv, PathInv
  <2>2. CASE i = L + 1 /\ j \in 1 .. L
    BY <1>2, <1>3, <1>6, <2>2 DEF OnPath
  <2>3. CASE i \in 1 .. L /\ j = L + 1
    BY <1>2, <1>3, <1>6, <2>3 DEF OnPath
  <2> QED
    BY <1>2, <2>1, <2>2, <2>3
<1>8. PathInv'
  <2>1. Chain(c)'
    <3> SUFFICES ASSUME NEW i \in 1 .. L PROVE perm'[c'[i]] = c'[i + 1]
      BY <1>2 DEF Chain
    <3>1. perm' = perm
      BY DEF Walk
    <3>2. CASE i < L
      <4>1. i \in 1 .. L - 1 /\ i + 1 \in 1 .. L
        BY <1>2, <3>2
      <4> QED
        BY <1>1, <1>3, <3>1, <4>1 DEF IInv, PathInv, Chain
    <3>3. CASE i = L
      <4>1. c # <<>>
        BY <1>2, <3>3
      <4> QED
        BY <1>1, <1>2, <1>3, <3>1, <3>3, <4>1 DEF IInv, PathInv
    <3> QED
      BY <1>2, <3>2, <3>3
  <2>2. c' # <<>>
    BY <1>2, SeqProps
  <2>3. c'[1] = s
    <3>1. CASE L = 0
      BY <1>1, <1>2, <3>1, SeqProps DEF IInv, Types, PathInv
    <3>2. CASE L # 0
      <4>1. 1 \in 1 .. L /\ c # <<>>
        BY <1>2, <3>2
      <4> QED
        BY <1>1, <1>3, <4>1 DEF IInv, PathInv
    <3> QED
      BY <3>1, <3>2
  <2>4. perm'[c'[L + 1]] = x'
    BY <1>2 DEF Walk
  <2>5. \A i \in 1 .. L + 1 : ~OnCycle(c[i])'
    <3> SUFFICES ASSUME NEW i \in 1 .. L + 1 PROVE ~OnCycle(c[i])'
      OBVIOUS
    <3>0. cycles' = cycles
      BY DEF Walk
    <3>1. CASE i \in 1 .. L
      <4>1. ~OnCycle(c[i])
        BY <1>1, <3>1 DEF IInv, PathInv
      <4> QED
        BY <1>3, <3>0, <3>1, <4>1 DEF OnCycle
    <3>2. CASE i = L + 1
      BY <1>2, <1>6, <3>0, <3>2 DEF OnCycle
    <3> QED
      BY <1>2, <3>1, <3>2
  <2>6. s' = s
    BY DEF Walk
  <2> QED
    BY <1>2, <1>7, <2>1, <2>2, <2>3, <2>4, <2>5, <2>6 DEF PathInv
<1>9. CycleInv'
  BY DEF IInv, CycleInv, Chain, Walk
<1>10. SeenInv'
  <2>1. ASSUME NEW y \in Coord PROVE OnPath(y)' <=> OnPath(y) \/ y = x
    <3>1. OnPath(y)' <=> \E i \in 1 .. L + 1 : c'[i] = y
      BY <1>2 DEF OnPath
    <3>2. (\E i \in 1 .. L + 1 : c'[i] = y) <=> (\E i \in 1 .. L : c'[i] = y) \/ c'[L + 1] = y
      BY <1>2
    <3> QED
      BY <1>2, <1>3, <3>1, <3>2 DEF OnPath
  <2>2. ASSUME NEW y \in Coord PROVE seen'[y] <=> seen[y] \/ y = x
    BY <1>1, <2>2 DEF IInv, Types, Walk
  <2>3. s' = s /\ s \in 0 .. n
    BY DEF IInv, Types, Walk
  <2> QED
    BY <1>1, <1>5, <2>1, <2>2, <2>3 DEF IInv, SeenInv
<1>11. MatchInv'
  BY DEF IInv, MatchInv, At, Walk
<1>12. PathBound'
  BY <1>2, <1>7, ShortList DEF PathBound
<1> QED
  BY <1>4, <1>8, <1>9, <1>10, <1>11, <1>12 DEF IInv

\* The walk stops at s, and nowhere else: the path is a whole cycle.
LEMMA WalkEnds ==
  ASSUME IInv, pc = "walk", seen[x]
  PROVE  c # <<>> /\ x = s
<1>0. n \in Nat /\ IsPermutation(perm)
  BY InputAssumption DEF IInv, Types
<1>1. x \in Coord /\ c \in Seq(Coord) /\ cycles \in Seq(Seq(Coord))
  BY DEF IInv, Types
<1>2. c # <<>>
  BY DEF IInv, PathInv
<1>3. Len(c) \in Nat \ {0} /\ c[Len(c)] \in Coord /\ perm[c[Len(c)]] = x
  BY <1>1, <1>2, SeqProps DEF IInv, PathInv
<1>4. ~OnCycle(x)
  <2> SUFFICES ASSUME NEW j \in 1 .. Len(cycles), NEW i \in 1 .. Len(cycles[j]),
                      cycles[j][i] = x
               PROVE  FALSE
    BY DEF OnCycle
  <2>1. Len(cycles[j]) \in Nat \ {0} /\ cycles[j] \in Seq(Coord)
    BY <1>1, SeqProps DEF IInv, CycleInv
  \* The element before x on that cycle has the same image as the end of the path.
  <2>2. \E l \in 1 .. Len(cycles[j]) : perm[cycles[j][l]] = x
    <3>1. CASE i = 1
      <4>1. Len(cycles[j]) \in 1 .. Len(cycles[j])
        BY <2>1
      <4>2. perm[cycles[j][Len(cycles[j])]] = cycles[j][1]
        BY DEF IInv, CycleInv
      <4> QED
        BY <3>1, <4>1, <4>2
    <3>2. CASE i # 1
      <4>1. i - 1 \in 1 .. Len(cycles[j]) - 1 /\ i - 1 + 1 = i
        BY <2>1, <3>2
      <4>2. perm[cycles[j][i - 1]] = cycles[j][i - 1 + 1]
        BY <4>1 DEF IInv, CycleInv, Chain
      <4> QED
        BY <2>1, <4>1, <4>2
    <3> QED
      BY <3>1, <3>2
  <2>3. PICK l \in 1 .. Len(cycles[j]) : perm[cycles[j][l]] = x
    BY <2>2
  <2>4. cycles[j][l] = c[Len(c)]
    BY <1>0, <1>3, <2>1, <2>3, SeqProps DEF IsPermutation
  <2>5. OnCycle(c[Len(c)])
    BY <2>4 DEF OnCycle
  <2> QED
    BY <1>3, <2>5 DEF IInv, PathInv
<1>5. PICK i \in 1 .. Len(c) : c[i] = x
  BY <1>1, <1>4 DEF IInv, SeenInv, OnPath
<1>6. i = 1
  <2>1. SUFFICES ASSUME i # 1 PROVE FALSE
    OBVIOUS
  <2>2. i - 1 \in 1 .. Len(c) - 1 /\ i - 1 \in 1 .. Len(c) /\ i - 1 + 1 = i
    BY <1>3, <2>1
  <2>3. perm[c[i - 1]] = c[i - 1 + 1]
    BY <2>2 DEF IInv, PathInv, Chain
  <2>4. c[i - 1] \in Coord /\ perm[c[i - 1]] = x
    BY <1>1, <1>5, <2>2, <2>3, SeqProps
  <2>5. c[i - 1] = c[Len(c)]
    BY <1>0, <1>3, <2>4 DEF IsPermutation
  <2>6. i - 1 = Len(c)
    BY <1>3, <2>2, <2>5 DEF IInv, PathInv
  <2> QED
    BY <1>3, <2>2, <2>6
<1> QED
  BY <1>2, <1>5, <1>6 DEF IInv, PathInv

\* Closing makes a cycle of the path.
LEMMA CloseStep ==
  ASSUME IInv, Close
  PROVE  IInv'
<1> DEFINE N == Len(cycles)
<1>0. n \in Nat /\ pc = "walk" /\ pc' = "scan" /\ seen[x] /\ seen' = seen /\ perm' = perm
  BY InputAssumption DEF Close
<1>1. c # <<>> /\ x = s /\ c[1] = s /\ perm[c[Len(c)]] = c[1]
  BY <1>0, WalkEnds DEF IInv, PathInv
<1>2. N \in Nat /\ Len(cycles') = N + 1 /\ cycles'[N + 1] = c /\ cycles' \in Seq(Seq(Coord))
  BY AppendProps, SeqProps DEF IInv, Types, Close
<1>3. ASSUME NEW j \in 1 .. N PROVE cycles'[j] = cycles[j]
  BY <1>3, AppendProps DEF IInv, Types, Close
<1>4. Types'
  <2>1. s \in Coord /\ s' = s + 1
    BY <1>0 DEF IInv, Types, Close
  <2>2. s' \in 0 .. n
    BY <1>0, <2>1 DEF Coord
  <2>3. m' = 0
    BY <1>0 DEF IInv, MatchInv, Close
  <2>4. m' \in 0 .. Len(cycles')
    BY <1>2, <2>3
  <2> QED
    BY <1>0, <1>2, <2>2, <2>4 DEF IInv, Types, Close
<1>5. PathInv'
  BY <1>0 DEF PathInv
<1>6. CycleInv'
  <2>1. ASSUME NEW j \in 1 .. N + 1
        PROVE  /\ cycles'[j] # <<>>
               /\ Chain(cycles[j])'
               /\ perm'[cycles'[j][Len(cycles'[j])]] = cycles'[j][1]
    <3>1. CASE j \in 1 .. N
      BY <1>0, <1>3, <3>1 DEF IInv, CycleInv, Chain
    <3>2. CASE j = N + 1
      BY <1>0, <1>1, <1>2, <3>2 DEF IInv, PathInv, Chain
    <3> QED
      BY <1>2, <3>1, <3>2
  <2>2. ASSUME NEW j \in 1 .. N + 1, NEW k \in 1 .. N + 1,
               NEW i \in 1 .. Len(cycles'[j]), NEW l \in 1 .. Len(cycles'[k]),
               cycles'[j][i] = cycles'[k][l]
        PROVE  j = k /\ i = l
    <3>1. CASE j \in 1 .. N /\ k \in 1 .. N
      BY <1>3, <2>2, <3>1 DEF IInv, CycleInv
    <3>2. CASE j = N + 1 /\ k = N + 1
      BY <1>0, <1>2, <2>2, <3>2 DEF IInv, PathInv
    <3>3. CASE j = N + 1 /\ k \in 1 .. N
      <4>1. i \in 1 .. Len(c) /\ l \in 1 .. Len(cycles[k]) /\ c[i] = cycles[k][l]
        BY <1>2, <1>3, <2>2, <3>3
      <4>2. ~OnCycle(c[i])
        BY <1>0, <4>1 DEF IInv, PathInv
      <4> QED
        BY <3>3, <4>1, <4>2 DEF OnCycle
    <3>4. CASE j \in 1 .. N /\ k = N + 1
      <4>1. l \in 1 .. Len(c) /\ i \in 1 .. Len(cycles[j]) /\ c[l] = cycles[j][i]
        BY <1>2, <1>3, <2>2, <3>4
      <4>2. ~OnCycle(c[l])
        BY <1>0, <4>1 DEF IInv, PathInv
      <4> QED
        BY <3>4, <4>1, <4>2 DEF OnCycle
    <3> QED
      BY <1>2, <3>1, <3>2, <3>3, <3>4
  <2> QED
    BY <1>2, <2>1, <2>2 DEF CycleInv
<1>7. SeenInv'
  <2>1. ASSUME NEW y \in Coord PROVE OnCycle(y)' <=> OnCycle(y) \/ OnPath(y)
    <3> DEFINE On(j) == \E i \in 1 .. Len(cycles'[j]) : cycles'[j][i] = y
    <3>1. OnCycle(y)' <=> \E j \in 1 .. N + 1 : On(j)
      BY <1>2 DEF OnCycle
    <3>2. OnCycle(y) <=> \E j \in 1 .. N : On(j)
      BY <1>3 DEF OnCycle
    <3>3. OnPath(y) <=> On(N + 1)
      BY <1>2 DEF OnPath
    <3>4. \A j : j \in 1 .. N + 1 <=> j \in 1 .. N \/ j = N + 1
      BY <1>2
    <3> HIDE DEF On
    <3> QED
      BY <3>1, <3>2, <3>3, <3>4
  <2>2. ASSUME NEW y \in Coord, y < s' PROVE seen[y]
    <3>1. y < s \/ y = s
      BY <1>0, <2>2 DEF IInv, Types, Close, Coord
    <3> QED
      BY <1>0, <1>1, <3>1, <2>2 DEF IInv, SeenInv
  <2> QED
    BY <1>0, <2>1, <2>2 DEF IInv, SeenInv
<1>8. MatchInv'
  <2>1. m' = 0
    BY <1>0 DEF IInv, MatchInv, Close
  <2>2. 1 .. m' = {}
    BY <2>1
  <2> QED
    BY <1>0, <2>1, <2>2 DEF MatchInv
<1>9. PathBound'
  BY <1>0 DEF IInv, PathBound, Close
<1> QED
  BY <1>4, <1>5, <1>6, <1>7, <1>8, <1>9 DEF IInv

\* Reflect on a list without repetitions: what becomes of its elements and of
\* all other coordinates.
LEMMA ReflectProps ==
  ASSUME NEW d \in Seq(Coord), d # <<>>,
         \A i, l \in 1 .. Len(d) : d[i] = d[l] => i = l,
         NEW inv \in [Coord -> Coord], NEW r \in 0 .. 1
  PROVE  /\ Reflect(inv, d, r) \in [Coord -> Coord]
         /\ \A i \in 0 .. Len(d) - 1 :
               Reflect(inv, d, r)[At(d, i)] = At(d, (r - i) % Len(d))
         /\ \A y \in Coord : (\A i \in 0 .. Len(d) - 1 : At(d, i) # y)
                                => Reflect(inv, d, r)[y] = inv[y]
<1>1. Len(d) \in Nat \ {0}
  BY SeqProps
<1>2. ASSUME NEW i \in 0 .. Len(d) - 1 PROVE At(d, i) \in Coord
  BY <1>1, SeqProps DEF At
<1>3. ASSUME NEW i \in 0 .. Len(d) - 1 PROVE (r - i) % Len(d) \in 0 .. Len(d) - 1
  <2>1. r - i \in Int
    BY <1>1
  <2> QED
    BY <1>1, <2>1, ModIndex
<1>4. ASSUME NEW i \in 0 .. Len(d) - 1, NEW l \in 0 .. Len(d) - 1, At(d, i) = At(d, l)
      PROVE  i = l
  <2>1. i + 1 \in 1 .. Len(d) /\ l + 1 \in 1 .. Len(d)
    BY <1>1
  <2>2. i + 1 = l + 1
    BY <1>4, <2>1 DEF At
  <2> QED
    BY <2>2
<1>5. ASSUME NEW y \in Coord, NEW i \in 0 .. Len(d) - 1, At(d, i) = y
      PROVE  Reflect(inv, d, r)[y] = At(d, (r - i) % Len(d))
  <2>1. (CHOOSE l \in 0 .. Len(d) - 1 : At(d, l) = y) = i
    BY <1>4, <1>5
  <2> QED
    BY <1>5, <2>1 DEF Reflect
<1>6. ASSUME NEW y \in Coord, \A i \in 0 .. Len(d) - 1 : At(d, i) # y
      PROVE  Reflect(inv, d, r)[y] = inv[y]
  BY <1>6 DEF Reflect
<1>7. ASSUME NEW y \in Coord PROVE Reflect(inv, d, r)[y] \in Coord
  <2>1. CASE \E i \in 0 .. Len(d) - 1 : At(d, i) = y
    <3>1. PICK i \in 0 .. Len(d) - 1 : At(d, i) = y
      BY <2>1
    <3>2. PICK l \in 0 .. Len(d) - 1 : l = (r - i) % Len(d)
      BY <1>3
    <3>3. Reflect(inv, d, r)[y] = At(d, l)
      BY <1>5, <3>1, <3>2
    <3> QED
      BY <1>2, <3>3
  <2>2. CASE \A i \in 0 .. Len(d) - 1 : At(d, i) # y
    BY <1>6, <2>2
  <2> QED
    BY <2>1, <2>2
<1>8. Reflect(inv, d, r) = [y \in Coord |-> Reflect(inv, d, r)[y]]
  BY DEF Reflect
<1>9. Reflect(inv, d, r) \in [Coord -> Coord]
  BY <1>7, <1>8
<1> QED
  BY <1>2, <1>5, <1>6, <1>9

LEMMA MatchStep ==
  ASSUME IInv, MatchCycle \/ EndMatch
  PROVE  IInv'
<1>1. CASE EndMatch
  BY <1>1 DEF IInv, Types, PathInv, CycleInv, Chain, SeenInv, OnCycle, MatchInv, At, PathBound, EndMatch
<1>2. CASE MatchCycle
  <2> DEFINE d == cycles[m + 1]
  <2>1. m \in Nat /\ m + 1 \in 1 .. Len(cycles) /\ Len(cycles) \in Nat
    BY <1>2, SeqProps DEF IInv, Types, MatchCycle
  <2>2. d \in Seq(Coord) /\ d # <<>> /\ \A i, l \in 1 .. Len(d) : d[i] = d[l] => i = l
    <3>1. d \in Seq(Coord) /\ d # <<>>
      BY <2>1, SeqProps DEF IInv, Types, CycleInv
    <3>2. ASSUME NEW i \in 1 .. Len(d), NEW l \in 1 .. Len(d), d[i] = d[l] PROVE i = l
      BY <2>1, <3>2 DEF IInv, CycleInv
    <3> QED
      BY <3>1, <3>2
  <2>3. tau' = Reflect(tau, d, 0) /\ sig' = Reflect(sig, d, 1)
    BY <1>2 DEF MatchCycle, At
  <2>4. m' = m + 1 /\ cycles' = cycles
    BY <1>2 DEF MatchCycle
  <2> HIDE DEF d
  <2>0. 0 \in 0 .. 1 /\ 1 \in 0 .. 1 /\ tau \in [Coord -> Coord] /\ sig \in [Coord -> Coord]
    BY DEF IInv, Types
  \* What ReflectProps says of either reflection of d.
  <2>a. /\ tau' \in [Coord -> Coord]
        /\ \A i \in 0 .. Len(d) - 1 : tau'[At(d, i)] = At(d, (0 - i) % Len(d))
        /\ \A y \in Coord : (\A i \in 0 .. Len(d) - 1 : At(d, i) # y) => tau'[y] = tau[y]
    BY <2>0, <2>2, <2>3, ReflectProps
  <2>b. /\ sig' \in [Coord -> Coord]
        /\ \A i \in 0 .. Len(d) - 1 : sig'[At(d, i)] = At(d, (1 - i) % Len(d))
        /\ \A y \in Coord : (\A i \in 0 .. Len(d) - 1 : At(d, i) # y) => sig'[y] = sig[y]
    <3>1. /\ Reflect(sig, d, 1) \in [Coord -> Coord]
          /\ \A i \in 0 .. Len(d) - 1 : Reflect(sig, d, 1)[At(d, i)] = At(d, (1 - i) % Len(d))
          /\ \A y \in Coord : (\A i \in 0 .. Len(d) - 1 : At(d, i) # y)
                                 => Reflect(sig, d, 1)[y] = sig[y]
      BY <2>0, <2>2, ReflectProps
    <3> QED
      BY <2>3, <3>1
  <2>5. tau' \in [Coord -> Coord] /\ sig' \in [Coord -> Coord]
    BY <2>a, <2>b
  <2>6. Types'
    BY <1>2, <2>1, <2>4, <2>5 DEF IInv, Types, MatchCycle
  <2>7. \A j \in 1 .. m + 1 : \A i \in 0 .. Len(cycles[j]) - 1 :
          /\ tau'[At(cycles[j], i)] = At(cycles[j], (0 - i) % Len(cycles[j]))
          /\ sig'[At(cycles[j], i)] = At(cycles[j], (1 - i) % Len(cycles[j]))
    <3> SUFFICES ASSUME NEW j \in 1 .. m + 1, NEW i \in 0 .. Len(cycles[j]) - 1
                 PROVE  /\ tau'[At(cycles[j], i)] = At(cycles[j], (0 - i) % Len(cycles[j]))
                        /\ sig'[At(cycles[j], i)] = At(cycles[j], (1 - i) % Len(cycles[j]))
      OBVIOUS
    <3>1. CASE j = m + 1
      BY <2>a, <2>b, <3>1 DEF d
    <3>2. CASE j \in 1 .. m
      <4>1. j \in 1 .. Len(cycles) /\ cycles[j] \in Seq(Coord) /\ Len(cycles[j]) \in Nat
        BY <2>1, <3>2, SeqProps DEF IInv, Types
      <4>2. i + 1 \in 1 .. Len(cycles[j]) /\ At(cycles[j], i) \in Coord
        BY <4>1, SeqProps DEF At
      <4>3. ASSUME NEW l \in 0 .. Len(d) - 1 PROVE At(d, l) # At(cycles[j], i)
        <5>1. l + 1 \in 1 .. Len(cycles[m + 1]) /\ m + 1 # j
          BY <2>1, <2>2, <3>2, SeqProps DEF d
        <5> QED
          BY <2>1, <4>1, <4>2, <5>1 DEF IInv, CycleInv, At, d
      <4>4. tau'[At(cycles[j], i)] = tau[At(cycles[j], i)] /\ sig'[At(cycles[j], i)] = sig[At(cycles[j], i)]
        BY <2>a, <2>b, <4>2, <4>3
      <4> QED
        BY <3>2, <4>4 DEF IInv, MatchInv
    <3> QED
      BY <2>1, <3>1, <3>2
  <2>8. MatchInv'
    BY <1>2, <2>4, <2>7 DEF MatchInv, MatchCycle, At
  <2>9. PathInv' /\ CycleInv' /\ SeenInv' /\ PathBound'
    BY <1>2 DEF IInv, PathInv, CycleInv, Chain, SeenInv, OnCycle, PathBound, MatchCycle
  <2> QED
    BY <2>6, <2>8, <2>9 DEF IInv
<1> QED
  BY <1>1, <1>2

LEMMA IInvStep == IInv /\ [Next]_vars => IInv'
<1>1. ASSUME IInv, UNCHANGED vars PROVE IInv'
  <2>1. Types' /\ PathBound'
    BY <1>1 DEF vars, IInv, Types, PathBound
  <2>2. PathInv' /\ CycleInv' /\ SeenInv'
    BY <1>1 DEF vars, IInv, PathInv, CycleInv, Chain, SeenInv, OnCycle, OnPath
  <2>3. MatchInv'
    BY <1>1 DEF vars, IInv, MatchInv, At
  <2> QED
    BY <2>1, <2>2, <2>3 DEF IInv
<1> QED
  BY <1>1, ScanStep, WalkStep, CloseStep, MatchStep DEF Next

THEOREM Invariance == Spec => []IInv
<1> QED
  BY IInvInit, IInvStep, PTL DEF Spec

\* Every list and counter stays in bounds, for every permutation.
THEOREM TypeCorrect == Spec => []TypeOK
<1>1. IInv => TypeOK
  BY DEF IInv, Types, PathBound, TypeOK
<1> QED
  BY <1>1, Invariance, PTL

LEMMA ClosedLemma == IInv => CyclesClosed
<1> SUFFICES ASSUME IInv PROVE CyclesClosed
  OBVIOUS
<1>1. ASSUME NEW j \in 1 .. Len(cycles), NEW i \in 0 .. Len(cycles[j]) - 1
      PROVE  perm[At(cycles[j], i)] = At(cycles[j], (i + 1) % Len(cycles[j]))
  <2> DEFINE L == Len(cycles[j])
  <2>1. L \in Nat \ {0} /\ i \in 0 .. L - 1
    BY SeqProps DEF IInv, Types, CycleInv
  <2>2. perm[cycles[j][L]] = cycles[j][1] /\ \A u \in 1 .. L - 1 : perm[cycles[j][u]] = cycles[j][u + 1]
    BY DEF IInv, CycleInv, Chain
  <2> HIDE DEF L
  <2>3. perm[cycles[j][i + 1]] = cycles[j][((i + 1) % L) + 1]
    <3>1. CASE i = L - 1
      <4>1. (i + 1) % L = 0 /\ i + 1 = L
        BY <2>1, <3>1, Residues
      <4> QED
        BY <2>2, <4>1
    <3>2. CASE i # L - 1
      <4>1. (i + 1) % L = i + 1
        BY <2>1, <3>2, Residues
      <4>2. i + 1 \in 1 .. L - 1
        BY <2>1, <3>2
      <4> QED
        BY <2>2, <4>1, <4>2
    <3> QED
      BY <3>1, <3>2
  <2> QED
    BY <2>3 DEF At, L
<1> QED
  BY <1>1 DEF IInv, CycleInv, CyclesClosed

\* cycles_of returns the cycles: for every permutation of any size, each list
\* it closes is one whole cycle, and the lists are disjoint.
THEOREM CyclesOf == Spec => []CyclesClosed
<1> QED
  BY ClosedLemma, Invariance, PTL

LEMMA FactorLemma == IInv => Factorised
<1> SUFFICES ASSUME IInv, pc = "matched", NEW y \in Coord
             PROVE  tau[tau[y]] = y /\ sig[sig[y]] = y /\ sig[tau[y]] = perm[y]
  BY DEF Factorised
<1>1. OnCycle(y)
  BY InputAssumption DEF IInv, SeenInv, Coord
<1>2. PICK j \in 1 .. Len(cycles) : \E u \in 1 .. Len(cycles[j]) : cycles[j][u] = y
  BY <1>1 DEF OnCycle
<1>2a. PICK u \in 1 .. Len(cycles[j]) : cycles[j][u] = y
  BY <1>2
<1> DEFINE L == Len(cycles[j])
           i == u - 1
           P(a) == At(cycles[j], a)
<1>3. L \in Nat \ {0} /\ i \in 0 .. L - 1 /\ P(i) = y
  <2>1. L \in Nat /\ u \in 1 .. L
    BY SeqProps DEF IInv, Types
  <2>2. u - 1 + 1 = u
    BY <2>1
  <2> QED
    BY <1>2a, <2>1, <2>2 DEF At
<1>4. \A a \in 0 .. L - 1 : tau[P(a)] = P((0 - a) % L) /\ sig[P(a)] = P((1 - a) % L)
  <2>1. j \in 1 .. m
    BY DEF IInv, MatchInv
  <2> QED
    BY <2>1 DEF IInv, MatchInv
<1>5. perm[P(i)] = P((i + 1) % L)
  BY <1>3, ClosedLemma DEF CyclesClosed
<1>6. (0 - i) % L \in 0 .. L - 1 /\ (1 - i) % L \in 0 .. L - 1
  <2>1. 0 - i \in Int /\ 1 - i \in Int
    BY <1>3
  <2> QED
    BY <1>3, <2>1, ModIndex
<1> HIDE DEF P, L, i
<1>7. tau[tau[y]] = P((0 - ((0 - i) % L)) % L)
  BY <1>3, <1>4, <1>6
<1>8. sig[sig[y]] = P((1 - ((1 - i) % L)) % L)
  BY <1>3, <1>4, <1>6
<1>9. sig[tau[y]] = P((1 - ((0 - i) % L)) % L)
  BY <1>3, <1>4, <1>6
<1>10. /\ (0 - ((0 - i) % L)) % L = i
       /\ (1 - ((1 - i) % L)) % L = i
       /\ (1 - ((0 - i) % L)) % L = (i + 1) % L
  BY <1>3, Reflections
<1> QED
  BY <1>3, <1>5, <1>7, <1>8, <1>9, <1>10

\* two_matchings is right: for every permutation of any size, tau and sig are
\* involutions, so layers of disjoint swaps, and sig after tau is perm.
THEOREM Matchings == Spec => []Factorised
<1> QED
  BY FactorLemma, Invariance, PTL

\* verify's first assertion: the butterfly permutation of every grid of n
\* coordinates is a permutation, so a legal argument of two_matchings.
THEOREM ButterflyIsPermutation ==
  ASSUME NEW nblocks \in Nat \ {0}, NEW per_block \in Nat \ {0}, n = nblocks * per_block
  PROVE  IsPermutation(perm1(nblocks, per_block))
<1>1. ASSUME NEW y \in Coord
      PROVE  /\ y % nblocks \in 0 .. nblocks - 1 /\ y \div nblocks \in 0 .. per_block - 1
             /\ y = (y \div nblocks) * nblocks + (y % nblocks)
  <2>1. y \in Nat /\ y < nblocks * per_block
    BY InputAssumption DEF Coord
  <2>2. /\ y \div nblocks \in Nat /\ y % nblocks \in 0 .. nblocks - 1
        /\ y = (y \div nblocks) * nblocks + (y % nblocks)
    BY <2>1, DivMod
  <2>3. y \div nblocks < per_block
    <3>1. SUFFICES ASSUME per_block <= y \div nblocks PROVE FALSE
      BY <2>2
    <3>2. PICK q \in Nat, r \in 0 .. nblocks - 1 : y = q * nblocks + r /\ q = y \div nblocks
      BY <2>2
    <3>3. per_block * nblocks <= q * nblocks
      BY <3>1, <3>2, MulMono
    <3>4. nblocks * per_block = per_block * nblocks
      OBVIOUS
    <3> QED
      BY <2>1, <3>2, <3>3, <3>4
  <2> QED
    BY <2>2, <2>3
<1>2. ASSUME NEW y \in Coord
      PROVE  (y % nblocks) * per_block + (y \div nblocks) \in Coord
  <2>1. PICK a \in 0 .. nblocks - 1, b \in 0 .. per_block - 1 :
          a = y % nblocks /\ b = y \div nblocks
    BY <1>1
  <2>2. (a + 1) * per_block <= nblocks * per_block /\ 0 * per_block <= a * per_block
    BY <2>1, MulMono
  <2>3. a * per_block + b \in 0 .. n - 1
    BY <2>1, <2>2
  <2> QED
    BY <2>1, <2>3 DEF Coord
<1>3. ASSUME NEW y \in Coord, NEW g \in Coord,
             (y % nblocks) * per_block + (y \div nblocks) = (g % nblocks) * per_block + (g \div nblocks)
      PROVE  y = g
  <2>1. PICK a \in 0 .. nblocks - 1, b \in 0 .. per_block - 1 :
          a = y % nblocks /\ b = y \div nblocks /\ y = b * nblocks + a
    BY <1>1
  <2>2. PICK e \in 0 .. nblocks - 1, u \in 0 .. per_block - 1 :
          e = g % nblocks /\ u = g \div nblocks /\ g = u * nblocks + e
    BY <1>1
  <2>3. a * per_block + b = e * per_block + u
    BY <1>3, <2>1, <2>2
  <2>4. a = e /\ b = u
    BY <2>3, TwoDigits
  <2> QED
    BY <2>1, <2>2, <2>4
<1> QED
  BY <1>2, <1>3 DEF IsPermutation, perm1

-----------------------------------------------------------------------------
\* From here on: solve_orientations.

\* Parents have smaller ranks, none of them above N: there is no circle.
Ranked(uf, r, N) ==
  /\ N \in Nat /\ r \in [Node -> 0 .. N]
  /\ \A y \in Node : uf.par[y] # y => r[uf.par[y]] < r[y]

Forest(uf) ==
  /\ uf.par \in [Node -> Node] /\ uf.rel \in [Node -> Bit]
  /\ \A y \in Node : uf.par[y] = y => uf.rel[y] = 0
  /\ \E N : \E r : Ranked(uf, r, N)

\* The angles b have the parities that the forest asks for.
Agrees(uf, b) == \A y \in Node : Xor(b[y], b[uf.par[y]]) = uf.rel[y]

-----------------------------------------------------------------------------
LEMMA XorIs ==
  ASSUME NEW a \in Bit, NEW b \in Bit
  PROVE  Xor(a, b) = IF a = b THEN 0 ELSE 1
BY DEF Xor, Bit

LEMMA XorBit ==
  ASSUME NEW a \in Bit, NEW b \in Bit
  PROVE  Xor(a, b) \in Bit
BY XorIs DEF Bit

\* A set with the children of its members holds all nodes, if it holds the roots.
LEMMA ForestInduction ==
  ASSUME NEW uf, NEW r, NEW N, uf.par \in [Node -> Node], Ranked(uf, r, N), NEW S,
         \A y \in Node : uf.par[y] = y \/ uf.par[y] \in S => y \in S
  PROVE  \A y \in Node : y \in S
<1> SUFFICES ASSUME NEW z \in Node, z \notin S PROVE FALSE
  OBVIOUS
<1> DEFINE Bad == {k \in Nat : \E y \in Node : r[y] = k /\ y \notin S}
<1>1. \A y \in Node : r[y] \in Nat
  BY DEF Ranked
<1>2. r[z] \in Bad
  BY <1>1
<1>3. PICK k \in Bad : \A j \in Bad : k <= j
  BY <1>2, LeastElement
<1>4. PICK y \in Node : r[y] = k /\ y \notin S
  BY <1>3
<1>5. uf.par[y] # y /\ uf.par[y] \notin S /\ uf.par[y] \in Node
  BY <1>4
<1>6. r[uf.par[y]] < k /\ r[uf.par[y]] \in Bad
  BY <1>1, <1>4, <1>5 DEF Ranked
<1> QED
  BY <1>1, <1>3, <1>4, <1>6

\* F says of a root what base says, and of another node what step makes of its parent.
Follows(uf, base, step, F) ==
  \A y \in Node : F[y] = IF uf.par[y] = y THEN base[y] ELSE step[y][F[uf.par[y]]]

LEMMA ForestRecursion ==
  ASSUME NEW uf, Forest(uf), NEW V, NEW base \in [Node -> V], NEW step \in [Node -> [V -> V]]
  PROVE  \E F \in [Node -> V] : Follows(uf, base, step, F)
<1>0. PICK N, r : Ranked(uf, r, N) /\ uf.par \in [Node -> Node]
  BY DEF Forest
<1> DEFINE Up(F, y) == IF uf.par[y] = y THEN base[y] ELSE step[y][F[uf.par[y]]]
           Solves(F, k) == F \in [Node -> V] /\ \A y \in Node : r[y] < k => F[y] = Up(F, y)
           Bad == {k \in Nat : ~ \E F : Solves(F, k)}
<1>1. \A y \in Node : r[y] \in 0 .. N
  BY <1>0 DEF Ranked
<1>2. \A F \in [Node -> V], y \in Node : Up(F, y) \in V
  BY <1>0
<1>3. Solves(base, 0)
  BY <1>1
<1>4. ASSUME NEW k \in Nat, NEW F, Solves(F, k) PROVE \E G : Solves(G, k + 1)
  <2> DEFINE G == [y \in Node |-> IF r[y] < k THEN F[y] ELSE Up(F, y)]
  <2>1. G \in [Node -> V]
    BY <1>2, <1>4
  <2>2. ASSUME NEW y \in Node, r[y] < k + 1 PROVE G[y] = Up(F, y)
    BY <1>4
  <2>3. ASSUME NEW y \in Node, r[y] < k + 1 PROVE Up(G, y) = Up(F, y)
    <3>1. CASE uf.par[y] = y
      BY <3>1
    <3>2. CASE uf.par[y] # y
      <4>1. uf.par[y] \in Node /\ r[uf.par[y]] < k
        BY <1>0, <1>1, <2>3, <3>2 DEF Ranked
      <4>2. G[uf.par[y]] = F[uf.par[y]]
        BY <4>1
      <4> HIDE DEF G
      <4> QED
        BY <3>2, <4>2
    <3> QED
      BY <3>1, <3>2
  <2> HIDE DEF G, Up
  <2>4. Solves(G, k + 1)
    BY <2>1, <2>2, <2>3
  <2> QED
    BY <2>4
<1> HIDE DEF Solves
<1>5. Bad = {}
  <2> SUFFICES ASSUME Bad # {} PROVE FALSE
    OBVIOUS
  <2>1. PICK k \in Bad : \A j \in Bad : k <= j
    BY LeastElement
  <2>2. k # 0
    BY <1>3, <2>1
  <2>3. k - 1 \in Nat /\ (k - 1) + 1 = k /\ k - 1 \notin Bad
    BY <2>1, <2>2
  <2> QED
    BY <1>4, <2>1, <2>3
<1>6. PICK F : Solves(F, N + 1)
  <2>1. N + 1 \in Nat
    BY <1>0 DEF Ranked
  <2> QED
    BY <1>5, <2>1
<1>7. \A y \in Node : r[y] < N + 1
  BY <1>0, <1>1 DEF Ranked
<1> QED
  BY <1>6, <1>7 DEF Solves, Follows

\* find: the root, and the parity relative to it.
LEMMA Roots ==
  ASSUME NEW uf, Forest(uf)
  PROVE  /\ RootIn(uf) \in [Node -> Node]
         /\ \A y \in Node : RootIn(uf)[y] = IF uf.par[y] = y THEN y ELSE RootIn(uf)[uf.par[y]]
<1>1. PICK N, r : Ranked(uf, r, N)
  BY DEF Forest
<1>2. PICK id, step : id = [y \in Node |-> y] /\ step = [y \in Node |-> [v \in Node |-> v]]
  OBVIOUS
<1>3. id \in [Node -> Node] /\ step \in [Node -> [Node -> Node]] /\ uf.par \in [Node -> Node]
  BY <1>2 DEF Forest
<1>4. PICK F \in [Node -> Node] : Follows(uf, id, step, F)
  BY <1>3, ForestRecursion
<1>5. F = [y \in Node |-> IF uf.par[y] = y THEN y ELSE F[uf.par[y]]]
  BY <1>2, <1>3, <1>4 DEF Follows
<1>6. RootIn(uf) = CHOOSE G : G = [y \in Node |-> IF uf.par[y] = y THEN y ELSE G[uf.par[y]]]
  BY DEF RootIn
<1>7. RootIn(uf) = [y \in Node |-> IF uf.par[y] = y THEN y ELSE RootIn(uf)[uf.par[y]]]
  BY <1>5, <1>6
<1>8. \A y \in Node : RootIn(uf)[y] = IF uf.par[y] = y THEN y ELSE RootIn(uf)[uf.par[y]]
  BY <1>7
<1> DEFINE S == {z \in Node : RootIn(uf)[z] \in Node}
<1>a. \A y \in Node : uf.par[y] = y \/ uf.par[y] \in S => y \in S
  BY <1>8
<1> HIDE DEF S
<1>9. \A y \in Node : y \in S
  BY <1>1, <1>3, <1>a, ForestInduction
<1> QED
  BY <1>7, <1>8, <1>9 DEF S

LEMMA Parities ==
  ASSUME NEW uf, Forest(uf)
  PROVE  /\ ParityIn(uf) \in [Node -> Bit]
         /\ \A y \in Node : ParityIn(uf)[y] =
              IF uf.par[y] = y THEN 0 ELSE Xor(uf.rel[y], ParityIn(uf)[uf.par[y]])
<1>1. PICK N, r : Ranked(uf, r, N)
  BY DEF Forest
<1>2. PICK zero, step : /\ zero = [y \in Node |-> 0]
                        /\ step = [y \in Node |-> [v \in Bit |-> Xor(uf.rel[y], v)]]
  OBVIOUS
<1>3. uf.par \in [Node -> Node] /\ \A y \in Node : uf.rel[y] \in Bit
  BY DEF Forest
<1>4. zero \in [Node -> Bit] /\ step \in [Node -> [Bit -> Bit]]
  <2>1. \A y \in Node, v \in Bit : Xor(uf.rel[y], v) \in Bit
    BY <1>3, XorBit
  <2>2. 0 \in Bit
    BY DEF Bit
  <2> QED
    BY <1>2, <2>1, <2>2
<1>5. PICK F \in [Node -> Bit] : Follows(uf, zero, step, F)
  BY <1>4, ForestRecursion
<1>6. F = [y \in Node |-> IF uf.par[y] = y THEN 0 ELSE Xor(uf.rel[y], F[uf.par[y]])]
  <2>1. ASSUME NEW y \in Node
        PROVE  F[y] = IF uf.par[y] = y THEN 0 ELSE Xor(uf.rel[y], F[uf.par[y]])
    <3>1. F[uf.par[y]] \in Bit
      BY <1>3
    <3>2. step[y][F[uf.par[y]]] = Xor(uf.rel[y], F[uf.par[y]])
      BY <1>2, <3>1
    <3> QED
      BY <1>2, <1>5, <3>2 DEF Follows
  <2> QED
    BY <2>1
<1>7. ParityIn(uf) =
        CHOOSE G : G = [y \in Node |-> IF uf.par[y] = y THEN 0 ELSE Xor(uf.rel[y], G[uf.par[y]])]
  BY DEF ParityIn
<1>8. ParityIn(uf) =
        [y \in Node |-> IF uf.par[y] = y THEN 0 ELSE Xor(uf.rel[y], ParityIn(uf)[uf.par[y]])]
  BY <1>6, <1>7
<1>9. \A y \in Node : ParityIn(uf)[y] =
        IF uf.par[y] = y THEN 0 ELSE Xor(uf.rel[y], ParityIn(uf)[uf.par[y]])
  BY <1>8
<1> DEFINE S == {z \in Node : ParityIn(uf)[z] \in Bit}
<1>10. \A y \in Node : uf.par[y] = y \/ uf.par[y] \in S => y \in S
  <2>1. 0 \in Bit
    BY DEF Bit
  <2> QED
    BY <1>3, <1>9, <2>1, XorBit
<1> HIDE DEF S
<1>11. \A y \in Node : y \in S
  BY <1>1, <1>3, <1>10, ForestInduction
<1> QED
  BY <1>8, <1>9, <1>11 DEF S

\* The root of a node is a root, and its rank is no greater.
LEMMA RootProps ==
  ASSUME NEW uf, Forest(uf), NEW N, NEW r, Ranked(uf, r, N), NEW y \in Node
  PROVE  /\ RootIn(uf)[y] \in Node
         /\ uf.par[RootIn(uf)[y]] = RootIn(uf)[y]
         /\ RootIn(uf)[RootIn(uf)[y]] = RootIn(uf)[y]
         /\ ParityIn(uf)[RootIn(uf)[y]] = 0
         /\ uf.par[y] # y => r[RootIn(uf)[y]] < r[y]
<1> DEFINE R == RootIn(uf)
           S == {z \in Node : uf.par[R[z]] = R[z] /\ (uf.par[z] # z => r[R[z]] < r[z])}
<1>1. /\ R \in [Node -> Node]
      /\ \A z \in Node : R[z] = IF uf.par[z] = z THEN z ELSE R[uf.par[z]]
  BY Roots
<1>2. \A z \in Node : uf.par[z] \in Node /\ r[z] \in Int
  BY DEF Forest, Ranked
<1>3. \A z \in Node : uf.par[z] # z => r[uf.par[z]] < r[z]
  BY DEF Ranked
<1> HIDE DEF R
<1>4. ASSUME NEW z \in Node, uf.par[z] = z \/ uf.par[z] \in S PROVE z \in S
  <2>1. CASE uf.par[z] = z
    BY <1>1, <2>1
  <2>2. CASE uf.par[z] # z
    <3>1. uf.par[z] \in S /\ R[z] = R[uf.par[z]] /\ R[z] \in Node
      BY <1>1, <1>4, <2>2
    <3>2. r[R[z]] <= r[uf.par[z]]
      <4>1. CASE uf.par[uf.par[z]] = uf.par[z]
        <5>1. R[uf.par[z]] = uf.par[z]
          BY <1>1, <1>2, <4>1
        <5> QED
          BY <1>2, <3>1, <5>1
      <4>2. CASE uf.par[uf.par[z]] # uf.par[z]
        BY <1>2, <3>1, <4>2
      <4> QED
        BY <4>1, <4>2
    <3>3. r[R[z]] < r[z]
      BY <1>2, <1>3, <2>2, <3>1, <3>2
    <3> QED
      BY <3>1, <3>3
  <2> QED
    BY <2>1, <2>2
<1> HIDE DEF S
<1>5. y \in S
  <2>1. \A z \in Node : uf.par[z] = z \/ uf.par[z] \in S => z \in S
    BY <1>4
  <2>2. uf.par \in [Node -> Node]
    BY DEF Forest
  <2> QED
    BY <2>1, <2>2, ForestInduction
<1>6. R[y] \in Node /\ uf.par[R[y]] = R[y]
  BY <1>1, <1>5 DEF S
<1>7. R[R[y]] = R[y]
  BY <1>1, <1>6
<1>8. ParityIn(uf)[R[y]] = 0
  BY <1>6, Parities
<1> QED
  BY <1>5, <1>6, <1>7, <1>8 DEF S, R

\* The angles agree with the forest if they do so along the way to the root.
LEMMA AgreesByRoots ==
  ASSUME NEW uf, Forest(uf), NEW b \in [Node -> Bit]
  PROVE  Agrees(uf, b) <=> \A y \in Node : Xor(b[y], b[RootIn(uf)[y]]) = ParityIn(uf)[y]
<1> DEFINE R == RootIn(uf)
           Q == ParityIn(uf)
           S == {y \in Node : Xor(b[y], b[R[y]]) = Q[y]}
<1>1. PICK N, r : Ranked(uf, r, N)
  BY DEF Forest
<1>2. /\ R \in [Node -> Node]
      /\ \A y \in Node : R[y] = IF uf.par[y] = y THEN y ELSE R[uf.par[y]]
  BY Roots
<1>3. /\ Q \in [Node -> Bit]
      /\ \A y \in Node : Q[y] = IF uf.par[y] = y THEN 0 ELSE Xor(uf.rel[y], Q[uf.par[y]])
  BY Parities
<1>4. \A y \in Node : uf.par[y] \in Node /\ uf.rel[y] \in Bit /\ (uf.par[y] = y => uf.rel[y] = 0)
  BY DEF Forest
<1> HIDE DEF R, Q
<1>5. ASSUME NEW y \in Node, uf.par[y] = y
      PROVE  Xor(b[y], b[uf.par[y]]) = uf.rel[y] /\ Xor(b[y], b[R[y]]) = Q[y]
  BY <1>2, <1>3, <1>4, <1>5, XorIs
\* Of the two edges of a triangle and its third side.
<1>6. ASSUME NEW u \in Bit, NEW v \in Bit, NEW w \in Bit, NEW e \in Bit, NEW g \in Bit,
             Xor(v, w) = g
      PROVE  Xor(u, v) = e <=> Xor(u, w) = Xor(e, g)
  BY <1>6, XorIs DEF Bit
<1>7. ASSUME NEW y \in Node, uf.par[y] # y, uf.par[y] \in S
      PROVE  Xor(b[y], b[uf.par[y]]) = uf.rel[y] <=> Xor(b[y], b[R[y]]) = Q[y]
  <2>1. R[y] = R[uf.par[y]] /\ Q[y] = Xor(uf.rel[y], Q[uf.par[y]])
    BY <1>2, <1>3, <1>7
  <2>2. /\ b[y] \in Bit /\ b[uf.par[y]] \in Bit /\ b[R[y]] \in Bit
        /\ uf.rel[y] \in Bit /\ Q[uf.par[y]] \in Bit
    BY <1>2, <1>3, <1>4
  <2>3. Xor(b[uf.par[y]], b[R[y]]) = Q[uf.par[y]]
    BY <1>7, <2>1
  <2> QED
    BY <1>6, <2>1, <2>2, <2>3
<1>8. ASSUME Agrees(uf, b) PROVE \A y \in Node : y \in S
  <2>1. \A y \in Node : uf.par[y] = y \/ uf.par[y] \in S => y \in S
    BY <1>5, <1>7, <1>8 DEF Agrees
  <2> HIDE DEF S
  <2>2. uf.par \in [Node -> Node]
    BY DEF Forest
  <2> QED
    BY <1>1, <2>1, <2>2, ForestInduction
<1>9. ASSUME \A y \in Node : y \in S PROVE Agrees(uf, b)
  BY <1>4, <1>5, <1>7, <1>9 DEF Agrees
<1> QED
  BY <1>8, <1>9 DEF R, Q

\* A forest with other parents that lead to the same roots with the same parities.
LEMMA SameForest ==
  ASSUME NEW uf, Forest(uf), NEW g, Forest(g),
         RootIn(g) = RootIn(uf), ParityIn(g) = ParityIn(uf), NEW b \in [Node -> Bit]
  PROVE  Agrees(g, b) <=> Agrees(uf, b)
BY AgreesByRoots

\* The nodes that find passes on its way to the root.
PathIn(uf) ==
  LET path[z \in Node] == IF uf.par[z] = z THEN {} ELSE {z} \cup path[uf.par[z]] IN path

LEMMA Paths ==
  ASSUME NEW uf, Forest(uf), NEW y \in Node
  PROVE  PathIn(uf)[y] \subseteq {z \in Node : uf.par[z] # z}
<1>1. PICK N, r : Ranked(uf, r, N)
  BY DEF Forest
<1> DEFINE V == SUBSET Node
<1>2. PICK base, step : /\ base = [z \in Node |-> {}]
                        /\ step = [z \in Node |-> [v \in V |-> {z} \cup v]]
  OBVIOUS
<1>3. uf.par \in [Node -> Node] /\ base \in [Node -> V] /\ step \in [Node -> [V -> V]]
  <2>1. \A z \in Node, v \in V : {z} \cup v \in V
    OBVIOUS
  <2>2. {} \in V
    OBVIOUS
  <2> HIDE DEF V
  <2> QED
    BY <1>2, <2>1, <2>2 DEF Forest
<1> HIDE DEF V
<1>4. PICK F \in [Node -> V] : Follows(uf, base, step, F)
  BY <1>3, ForestRecursion
<1>5. F = [z \in Node |-> IF uf.par[z] = z THEN {} ELSE {z} \cup F[uf.par[z]]]
  <2>1. ASSUME NEW z \in Node
        PROVE  F[z] = IF uf.par[z] = z THEN {} ELSE {z} \cup F[uf.par[z]]
    <3>1. F[uf.par[z]] \in V
      BY <1>3
    <3>2. step[z][F[uf.par[z]]] = {z} \cup F[uf.par[z]]
      BY <1>2, <3>1
    <3> QED
      BY <1>2, <1>4, <3>2 DEF Follows
  <2> QED
    BY <2>1
<1>6. PathIn(uf) = CHOOSE G : G = [z \in Node |-> IF uf.par[z] = z THEN {} ELSE {z} \cup G[uf.par[z]]]
  BY DEF PathIn
<1>7. PathIn(uf) = [z \in Node |-> IF uf.par[z] = z THEN {} ELSE {z} \cup PathIn(uf)[uf.par[z]]]
  BY <1>5, <1>6
<1>8. \A z \in Node : PathIn(uf)[z] = IF uf.par[z] = z THEN {} ELSE {z} \cup PathIn(uf)[uf.par[z]]
  BY <1>7
<1> DEFINE S == {z \in Node : PathIn(uf)[z] \subseteq {w \in Node : uf.par[w] # w}}
<1>9. \A z \in Node : uf.par[z] = z \/ uf.par[z] \in S => z \in S
  BY <1>8
<1> HIDE DEF S
<1>10. y \in S
  BY <1>1, <1>3, <1>9, ForestInduction
<1> QED
  BY <1>10 DEF S

\* find compresses the way to the root and changes nothing that can be found.
LEMMA FindProps ==
  ASSUME NEW uf, Forest(uf), NEW y \in Node
  PROVE  /\ Forest(Find(uf, y))
         /\ RootIn(Find(uf, y)) = RootIn(uf) /\ ParityIn(Find(uf, y)) = ParityIn(uf)
<1> DEFINE R == RootIn(uf)
           Q == ParityIn(uf)
           W == PathIn(uf)[y]
           g == Find(uf, y)
<1>1. PICK N, r : Ranked(uf, r, N)
  BY DEF Forest
<1>2. /\ R \in [Node -> Node]
      /\ \A z \in Node : R[z] = IF uf.par[z] = z THEN z ELSE R[uf.par[z]]
  BY Roots
<1>3. /\ Q \in [Node -> Bit]
      /\ \A z \in Node : Q[z] = IF uf.par[z] = z THEN 0 ELSE Xor(uf.rel[z], Q[uf.par[z]])
  BY Parities
<1>4. \A z \in Node : /\ R[z] \in Node /\ uf.par[R[z]] = R[z] /\ R[R[z]] = R[z] /\ Q[R[z]] = 0
                      /\ uf.par[z] # z => r[R[z]] < r[z]
  BY <1>1, RootProps
<1>5. \A z \in W : z \in Node /\ uf.par[z] # z
  BY Paths
<1>6. /\ g.par = [z \in Node |-> IF z \in W THEN R[z] ELSE uf.par[z]]
      /\ g.rel = [z \in Node |-> IF z \in W THEN Q[z] ELSE uf.rel[z]]
  BY DEF Find, PathIn
<1>7. /\ uf.par \in [Node -> Node] /\ uf.rel \in [Node -> Bit]
      /\ \A z \in Node : uf.par[z] = z => uf.rel[z] = 0
  BY DEF Forest
<1>8. N \in Nat /\ r \in [Node -> 0 .. N] /\ \A z \in Node : uf.par[z] # z => r[uf.par[z]] < r[z]
  BY <1>1 DEF Ranked
<1> HIDE DEF R, Q, W, g
<1>9. g.par \in [Node -> Node] /\ g.rel \in [Node -> Bit]
  BY <1>2, <1>3, <1>6, <1>7
<1>10. \A z \in Node : g.par[z] # z => uf.par[z] # z
  BY <1>5, <1>6
<1>11. \A z \in Node : g.par[z] = z => uf.par[z] = z /\ z \notin W
  BY <1>4, <1>5, <1>6
<1>12. Ranked(g, r, N)
  BY <1>4, <1>5, <1>6, <1>8 DEF Ranked
<1>13. Forest(g)
  BY <1>6, <1>7, <1>9, <1>11, <1>12 DEF Forest
<1> DEFINE S == {z \in Node : RootIn(g)[z] = R[z] /\ ParityIn(g)[z] = Q[z]}
<1>14. /\ RootIn(g) \in [Node -> Node] /\ ParityIn(g) \in [Node -> Bit]
       /\ \A z \in Node :
            /\ RootIn(g)[z] = IF g.par[z] = z THEN z ELSE RootIn(g)[g.par[z]]
            /\ ParityIn(g)[z] = IF g.par[z] = z THEN 0 ELSE Xor(g.rel[z], ParityIn(g)[g.par[z]])
  BY <1>13, Roots, Parities
<1>15. ASSUME NEW z \in Node, g.par[z] = z \/ g.par[z] \in S PROVE z \in S
  <2>1. CASE g.par[z] = z
    BY <1>2, <1>3, <1>11, <1>14, <2>1
  <2>2. CASE g.par[z] # z /\ z \in W
    <3>1. g.par[z] = R[z] /\ g.rel[z] = Q[z] /\ R[z] \in S
      BY <1>6, <1>15, <2>2
    <3>2. RootIn(g)[z] = R[z]
      BY <1>4, <1>14, <2>2, <3>1
    <3>3. ParityIn(g)[z] = Xor(Q[z], 0)
      BY <1>4, <1>14, <2>2, <3>1
    <3>4. Q[z] \in Bit /\ Xor(Q[z], 0) = Q[z]
      BY <1>3, XorIs DEF Bit
    <3> QED
      BY <3>2, <3>3, <3>4
  <2>3. CASE g.par[z] # z /\ z \notin W
    <3>1. g.par[z] = uf.par[z] /\ g.rel[z] = uf.rel[z] /\ uf.par[z] \in S /\ uf.par[z] # z
      BY <1>6, <1>15, <2>3
    <3> QED
      BY <1>2, <1>3, <1>14, <2>3, <3>1
  <2> QED
    BY <2>1, <2>2, <2>3
<1> HIDE DEF S
<1>16. \A z \in Node : z \in S
  BY <1>9, <1>12, <1>15, ForestInduction
<1>17. RootIn(g) = R /\ ParityIn(g) = Q
  BY <1>2, <1>3, <1>14, <1>16 DEF S
<1> QED
  BY <1>13, <1>17 DEF R, Q, g

\* union: the demand is added to the forest, or it contradicts the forest.
LEMMA UnionProps ==
  ASSUME NEW uf, Forest(uf), NEW a \in Node, NEW b \in Node, NEW bit \in Bit
  PROVE  LET result == Union(uf, a, b, bit)
         IN  /\ result.ok \in BOOLEAN
             /\ Forest(result.uf)
             /\ \A v \in [Node -> Bit] :
                  IF result.ok
                  THEN Agrees(result.uf, v) <=> Agrees(uf, v) /\ Xor(v[a], v[b]) = bit
                  ELSE ~(Agrees(uf, v) /\ Xor(v[a], v[b]) = bit)
<1> DEFINE g == Find(Find(uf, a), b)
           R == RootIn(g)
           Q == ParityIn(g)
           ra == R[a]
           rb == R[b]
           need == Xor(Xor(Q[a], Q[b]), bit)
           result == Union(uf, a, b, bit)
           lk == [par |-> [g.par EXCEPT ![ra] = rb], rel |-> [g.rel EXCEPT ![ra] = need]]
<1>1. Forest(g) /\ \A v \in [Node -> Bit] : Agrees(g, v) <=> Agrees(uf, v)
  <2>1. /\ Forest(Find(uf, a)) /\ RootIn(Find(uf, a)) = RootIn(uf)
        /\ ParityIn(Find(uf, a)) = ParityIn(uf)
    BY FindProps
  <2>2. Forest(g) /\ R = RootIn(Find(uf, a)) /\ Q = ParityIn(Find(uf, a))
    BY <2>1, FindProps
  <2> QED
    BY <2>1, <2>2, SameForest
<1>2. result = IF ra = rb THEN [ok |-> need = 0, uf |-> g] ELSE [ok |-> TRUE, uf |-> lk]
  BY DEF Union
<1>3. PICK N, r : Ranked(g, r, N)
  BY <1>1 DEF Forest
<1>4. /\ g.par \in [Node -> Node] /\ g.rel \in [Node -> Bit]
      /\ \A z \in Node : g.par[z] = z => g.rel[z] = 0
  BY <1>1 DEF Forest
<1>5. /\ R \in [Node -> Node] /\ Q \in [Node -> Bit]
      /\ \A z \in Node : R[z] = IF g.par[z] = z THEN z ELSE R[g.par[z]]
  BY <1>1, Roots, Parities
<1>6. \A z \in Node : g.par[R[z]] = R[z]
  BY <1>1, <1>3, RootProps
<1>7. \A v \in [Node -> Bit] : Agrees(g, v) <=> \A z \in Node : Xor(v[z], v[R[z]]) = Q[z]
  BY <1>1, AgreesByRoots
<1> HIDE DEF g, R, Q, result
<1>8. need \in Bit
  BY <1>5, XorBit
\* The parity that the roots must have for the demand to be met.
<1>9. ASSUME NEW v \in [Node -> Bit], Agrees(g, v)
      PROVE  Xor(v[a], v[b]) = bit <=> Xor(v[ra], v[rb]) = need
  <2>1. /\ v[a] \in Bit /\ v[b] \in Bit /\ v[ra] \in Bit /\ v[rb] \in Bit
        /\ Q[a] \in Bit /\ Q[b] \in Bit
    BY <1>5
  <2>2. Xor(v[a], v[ra]) = Q[a] /\ Xor(v[b], v[rb]) = Q[b]
    BY <1>7, <1>9
  <2>3. ASSUME NEW p \in Bit, NEW q \in Bit, NEW s1 \in Bit, NEW s2 \in Bit
        PROVE  Xor(p, q) = bit <=> Xor(s1, s2) = Xor(Xor(Xor(p, s1), Xor(q, s2)), bit)
    <3>1. PICK u, w, d, e : /\ u = Xor(p, s1) /\ w = Xor(q, s2) /\ d = Xor(u, w)
                            /\ e = Xor(d, bit)
      OBVIOUS
    <3>2. u \in Bit /\ w \in Bit /\ d \in Bit
      BY <3>1, XorBit
    <3>3. /\ u = (IF p = s1 THEN 0 ELSE 1) /\ w = (IF q = s2 THEN 0 ELSE 1)
          /\ d = (IF u = w THEN 0 ELSE 1) /\ e = (IF d = bit THEN 0 ELSE 1)
          /\ Xor(p, q) = (IF p = q THEN 0 ELSE 1) /\ Xor(s1, s2) = (IF s1 = s2 THEN 0 ELSE 1)
      BY <3>1, <3>2, XorIs
    <3>4. Xor(p, q) = bit <=> Xor(s1, s2) = e
      BY <3>2, <3>3 DEF Bit
    <3> QED
      BY <3>1, <3>4
  <2> QED
    BY <2>1, <2>2, <2>3
<1>10. CASE ra = rb
  <2>1. result.ok = (need = 0) /\ result.uf = g
    BY <1>2, <1>10
  <2>2. \A v \in [Node -> Bit] : Xor(v[ra], v[rb]) = 0
    <3>1. \A v \in [Node -> Bit] : v[ra] \in Bit
      BY <1>5
    <3> QED
      BY <1>10, <3>1, XorIs
  <2>3. ASSUME NEW v \in [Node -> Bit]
        PROVE  IF result.ok
               THEN Agrees(result.uf, v) <=> Agrees(uf, v) /\ Xor(v[a], v[b]) = bit
               ELSE ~(Agrees(uf, v) /\ Xor(v[a], v[b]) = bit)
    <3> HIDE DEF need, ra, rb
    <3> QED
      BY <1>1, <1>9, <2>1, <2>2
  <2> QED
    BY <1>1, <2>1, <2>3 DEF result
<1>11. CASE ra # rb
  <2>1. result.ok = TRUE /\ result.uf = lk
    BY <1>2, <1>11
  <2>2. /\ lk.par = [g.par EXCEPT ![ra] = rb] /\ lk.rel = [g.rel EXCEPT ![ra] = need]
        /\ ra \in Node /\ rb \in Node /\ g.par[ra] = ra /\ g.rel[ra] = 0 /\ g.par[rb] = rb
        /\ R[ra] = ra /\ R[rb] = rb
    BY <1>4, <1>5, <1>6
  <2> HIDE DEF ra, rb, need, lk
  <2>3. /\ lk.par \in [Node -> Node] /\ lk.rel \in [Node -> Bit]
        /\ lk.par[ra] = rb /\ lk.rel[ra] = need
        /\ \A z \in Node : z # ra => lk.par[z] = g.par[z] /\ lk.rel[z] = g.rel[z]
    BY <1>4, <1>8, <2>2
  <2>4. Forest(lk)
    \* What leads to ra is ranked above all that rb may be.
    <3> DEFINE up == [z \in Node |-> IF R[z] = ra THEN r[z] + N + 1 ELSE r[z]]
    <3>1. N \in Nat /\ r \in [Node -> 0 .. N] /\ \A z \in Node : g.par[z] # z => r[g.par[z]] < r[z]
      BY <1>3 DEF Ranked
    <3>2. up \in [Node -> 0 .. (N + N + 1)] /\ N + N + 1 \in Nat
      BY <3>1
    <3>3. ASSUME NEW z \in Node, lk.par[z] # z PROVE up[lk.par[z]] < up[z]
      <4>1. CASE z = ra
        <5>1. up[z] = r[z] + N + 1 /\ up[lk.par[z]] = r[rb] /\ r[z] \in 0 .. N /\ r[rb] \in 0 .. N
          BY <1>11, <2>2, <2>3, <3>1, <4>1
        <5> QED
          BY <3>1, <5>1
      <4>2. CASE z # ra
        <5>1. lk.par[z] = g.par[z] /\ g.par[z] # z /\ g.par[z] \in Node /\ R[g.par[z]] = R[z]
          BY <1>4, <1>5, <2>3, <3>3, <4>2
        <5>2. r[g.par[z]] < r[z] /\ r[z] \in 0 .. N /\ r[g.par[z]] \in 0 .. N
          BY <3>1, <5>1
        <5> QED
          BY <3>1, <5>1, <5>2
      <4> QED
        BY <4>1, <4>2
    <3> HIDE DEF up
    <3>4. Ranked(lk, up, N + N + 1)
      BY <3>2, <3>3 DEF Ranked
    <3>5. \A z \in Node : lk.par[z] = z => lk.rel[z] = 0
      BY <1>4, <1>11, <2>2, <2>3
    <3> QED
      BY <2>3, <3>4, <3>5 DEF Forest
  <2>5. ASSUME NEW v \in [Node -> Bit]
        PROVE  Agrees(lk, v) <=> Agrees(g, v) /\ Xor(v[ra], v[rb]) = need
    <3>1. Xor(v[ra], v[g.par[ra]]) = g.rel[ra]
      BY <2>2, XorIs
    <3>2. ASSUME NEW z \in Node, z # ra
          PROVE  Xor(v[z], v[lk.par[z]]) = lk.rel[z] <=> Xor(v[z], v[g.par[z]]) = g.rel[z]
      BY <2>3, <3>2
    <3>3. ASSUME Agrees(lk, v) PROVE Agrees(g, v) /\ Xor(v[ra], v[rb]) = need
      BY <2>2, <2>3, <3>1, <3>2, <3>3 DEF Agrees
    <3>4. ASSUME Agrees(g, v), Xor(v[ra], v[rb]) = need PROVE Agrees(lk, v)
      BY <2>2, <2>3, <3>2, <3>4 DEF Agrees
    <3> QED
      BY <3>3, <3>4
  <2>6. \A v \in [Node -> Bit] : Agrees(lk, v) <=> Agrees(uf, v) /\ Xor(v[a], v[b]) = bit
    BY <1>1, <1>9, <2>5
  <2> QED
    BY <2>1, <2>4, <2>6 DEF result
<1> QED
  BY <1>10, <1>11

-----------------------------------------------------------------------------
\* The layers are involutions, and tau followed by sig is the permutation.
LayersOk ==
  /\ n \in Nat
  /\ perm \in [Coord -> Coord] /\ tau \in [Coord -> Coord] /\ sig \in [Coord -> Coord]
  /\ \A a \in Coord : tau[tau[a]] = a /\ sig[sig[a]] = a /\ sig[tau[a]] = perm[a]

\* The lower end of the plane of a, and the lower ends below k.
Low(inv, a)   == IF a < inv[a] THEN a ELSE inv[a]
Below(inv, k) == {b \in LowerEnds(inv) : b < k}

\* The planes of a layer are numbered from 0 up, and different ones differently.
LEMMA Planes ==
  ASSUME n \in Nat, NEW inv \in [Coord -> Coord], \A a \in Coord : inv[inv[a]] = a
  PROVE  /\ PlaneCount(inv) \in Nat
         /\ \A a \in Coord : inv[a] # a => PlaneOf(inv, a) \in 0 .. PlaneCount(inv) - 1
         /\ \A a \in Coord : PlaneOf(inv, inv[a]) = PlaneOf(inv, a)
         /\ \A a, b \in Coord : /\ inv[a] # a /\ inv[b] # b
                                /\ PlaneOf(inv, a) = PlaneOf(inv, b)
                                => b = a \/ b = inv[a]
<1> DEFINE E == LowerEnds(inv)
           Size(k) == Cardinality(Below(inv, k))
<1>1. IsFiniteSet(E) /\ \A k : IsFiniteSet(Below(inv, k))
  <2>1. IsFiniteSet(0 .. n - 1)
    BY FS_Interval
  <2>2. E \subseteq 0 .. n - 1 /\ \A k : Below(inv, k) \subseteq 0 .. n - 1
    BY DEF LowerEnds, Below, Coord
  <2> QED
    BY <2>1, <2>2, FS_Subset
<1>2. \A k : Size(k) \in Nat
  BY <1>1, FS_CardinalityType
<1>3. PlaneCount(inv) \in Nat /\ PlaneCount(inv) = Cardinality(E)
  BY <1>1, FS_CardinalityType DEF PlaneCount
<1>4. ASSUME NEW a \in Coord
      PROVE  PlaneOf(inv, a) = Size(Low(inv, a)) /\ Low(inv, inv[a]) = Low(inv, a)
             /\ (inv[a] # a => Low(inv, a) \in E)
  <2>1. a \in Int /\ inv[a] \in Int /\ inv[a] \in Coord /\ inv[inv[a]] = a
    BY DEF Coord
  <2>2. {b \in E : b < a /\ b < inv[a]} = Below(inv, Low(inv, a))
    <3>1. \A b \in E : b \in Int
      BY DEF LowerEnds, Coord
    <3> QED
      BY <2>1, <3>1 DEF Below, Low
  <2>3. Low(inv, inv[a]) = Low(inv, a)
    BY <2>1 DEF Low
  <2>4. inv[a] # a => Low(inv, a) \in E
    BY <2>1 DEF Low, LowerEnds
  <2> QED
    BY <2>2, <2>3, <2>4 DEF PlaneOf
<1>5. ASSUME NEW k \in E, NEW l \in E, k < l PROVE Size(k) < Size(l)
  <2>1. k \in Int /\ l \in Int /\ \A b \in E : b \in Int
    BY DEF LowerEnds, Coord
  <2>2. Below(inv, k) \subseteq Below(inv, l) /\ k \in Below(inv, l) /\ k \notin Below(inv, k)
    <3>1. \A b \in E : b < k => b < l
      BY <1>5, <2>1
    <3>2. ~(k < k)
      BY <2>1
    <3> QED
      BY <1>5, <3>1, <3>2 DEF Below
  <2>3. Size(k) <= Size(l) /\ Size(k) # Size(l)
    BY <1>1, <2>2, FS_Subset
  <2> QED
    BY <1>2, <2>3
<1>6. ASSUME NEW k \in E PROVE Size(k) < Cardinality(E)
  <2>1. Below(inv, k) \subseteq E /\ k \notin Below(inv, k)
    BY DEF Below, LowerEnds, Coord
  <2>2. Size(k) <= Cardinality(E) /\ Size(k) # Cardinality(E)
    BY <1>1, <2>1, FS_Subset
  <2> QED
    BY <1>2, <1>3, <2>2
<1> HIDE DEF E, Size
<1>7. ASSUME NEW a \in Coord, inv[a] # a PROVE PlaneOf(inv, a) \in 0 .. PlaneCount(inv) - 1
  BY <1>2, <1>3, <1>4, <1>6, <1>7
<1>8. ASSUME NEW a \in Coord, NEW b \in Coord, inv[a] # a, inv[b] # b,
             PlaneOf(inv, a) = PlaneOf(inv, b)
      PROVE  b = a \/ b = inv[a]
  <2>1. Low(inv, a) \in E /\ Low(inv, b) \in E /\ Size(Low(inv, a)) = Size(Low(inv, b))
    BY <1>4, <1>8
  <2>2. Low(inv, a) \in Int /\ Low(inv, b) \in Int
    BY DEF Low, Coord
  <2>3. Low(inv, a) = Low(inv, b)
    BY <1>2, <1>5, <2>1, <2>2
  <2> QED
    BY <2>3 DEF Low
<1>9. \A a \in Coord : PlaneOf(inv, inv[a]) = PlaneOf(inv, a)
  BY <1>4
<1> QED
  BY <1>3, <1>7, <1>8, <1>9

\* The demand of coordinate a: between which nodes, and which parity.
From(a) == IF tau[a] # a THEN TNode(a) ELSE GND
To(a)   == IF perm[a] # tau[a] THEN SNode(tau[a]) ELSE GND
Want(a) == BitOf((IF tau[a] # a THEN sgn(a, tau[a]) ELSE 1)
                 * (IF perm[a] # tau[a] THEN sgn(tau[a], perm[a]) ELSE 1))
Meets(b, a) == Xor(b[From(a)], b[To(a)]) = Want(a)

\* Coordinate a is moved by one of the layers only.
OneLayer(a) == (tau[a] = a) # (perm[a] = tau[a])

LEMMA Nodes ==
  ASSUME LayersOk
  PROVE  /\ nt \in Nat /\ ns \in Nat /\ GND \in Nat /\ GND \in Node
         /\ \A a \in Coord : tau[a] # a => TNode(a) \in 0 .. nt - 1
         /\ \A a \in Coord : sig[a] # a => SNode(a) \in nt .. GND - 1
         /\ \A a \in Coord : From(a) \in Node /\ To(a) \in Node
<1>1. nt \in Nat /\ \A a \in Coord : tau[a] # a => TNode(a) \in 0 .. nt - 1
  BY Planes DEF LayersOk, nt, TNode
<1>2. ns \in Nat /\ \A a \in Coord : sig[a] # a => PlaneOf(sig, a) \in 0 .. ns - 1
  BY Planes DEF LayersOk, ns
<1>3. \A a \in Coord : sig[a] # a => SNode(a) \in nt .. GND - 1
  BY <1>1, <1>2 DEF SNode, GND
<1>4. GND \in Nat /\ GND \in Node
  BY <1>1, <1>2 DEF GND, Node
<1>5. ASSUME NEW a \in Coord PROVE From(a) \in Node /\ To(a) \in Node
  <2>1. tau[a] \in Coord /\ sig[tau[a]] = perm[a]
    BY DEF LayersOk
  <2>2. \A y \in 0 .. nt - 1 : y \in Node
    BY <1>1, <1>2 DEF GND, Node
  <2>3. \A y \in nt .. GND - 1 : y \in Node
    BY <1>1, <1>2 DEF GND, Node
  <2> QED
    BY <1>1, <1>3, <1>4, <2>1, <2>2, <2>3 DEF From, To
<1> QED
  BY <1>1, <1>2, <1>3, <1>4, <1>5

\* The sign of a coordinate by its demand.  The ground has parity 0 in b, but
\* may have another one in the parities v that b was read from.
LEMMA NetIs ==
  ASSUME LayersOk, NEW a \in Coord, NEW v \in [Node -> Bit], NEW b,
         \A y \in Node : y # GND => b[y] = v[y]
  PROVE  NetSign(b, a) = (IF Meets(v, a) THEN 1 ELSE -1)
                         * (IF OneLayer(a) /\ v[GND] = 1 THEN -1 ELSE 1)
<1> DEFINE p == tau[a]
           q == perm[a]
           u == v[From(a)]
           w == v[To(a)]
           S(bit) == IF bit = 0 THEN 1 ELSE -1
<1>1. p \in Coord /\ sig[p] = q /\ q \in Coord
  BY DEF LayersOk
<1>2. /\ From(a) \in Node /\ To(a) \in Node /\ GND \in Node
      /\ p # a => From(a) = TNode(a) /\ From(a) # GND
      /\ q # p => To(a) = SNode(p) /\ To(a) # GND
  <2>1. nt \in Nat /\ ns \in Nat /\ GND \in Nat /\ GND \in Node /\ From(a) \in Node /\ To(a) \in Node
    BY Nodes
  <2>2. p # a => TNode(a) \in 0 .. nt - 1
    BY Nodes
  <2>3. q # p => SNode(p) \in nt .. GND - 1
    BY <1>1, Nodes
  <2>4. \A y \in 0 .. nt - 1 : y # GND
    BY <2>1 DEF GND
  <2>5. \A y \in nt .. GND - 1 : y # GND
    BY <2>1
  <2> QED
    BY <2>1, <2>2, <2>3, <2>4, <2>5 DEF From, To
<1>3. u \in Bit /\ w \in Bit /\ v[GND] \in Bit
  BY <1>2
<1>4. LayerSign(tau, b[TNode(a)], a) = IF p = a THEN 1 ELSE sgn(a, p) * S(u)
  BY <1>2 DEF LayerSign
<1>5. LayerSign(sig, b[SNode(p)], p) = IF q = p THEN 1 ELSE sgn(p, q) * S(w)
  BY <1>1, <1>2 DEF LayerSign
<1>6. /\ p = a => u = v[GND]
      /\ q = p => w = v[GND]
  BY DEF From, To
<1>7. PICK t, s1, s2 : t = Xor(u, w) /\ s1 = sgn(a, p) /\ s2 = sgn(p, q)
  OBVIOUS
<1>8. t = (IF u = w THEN 0 ELSE 1) /\ s1 \in {1, -1} /\ s2 \in {1, -1}
  BY <1>3, <1>7, XorIs DEF sgn
<1>9. NetSign(b, a) = (IF p = a THEN 1 ELSE s1 * S(u)) * (IF q = p THEN 1 ELSE s2 * S(w))
  BY <1>4, <1>5, <1>7 DEF NetSign
<1>10. Meets(v, a) <=> t = BitOf((IF p # a THEN s1 ELSE 1) * (IF q # p THEN s2 ELSE 1))
  BY <1>7 DEF Meets, Want
<1>11. OneLayer(a) <=> (p = a) # (q = p)
  BY DEF OneLayer
<1> HIDE DEF p, q, u, w
<1>12. CASE p = a /\ q = p
  BY <1>3, <1>6, <1>8, <1>9, <1>10, <1>11, <1>12 DEF BitOf, Bit
<1>13. CASE p = a /\ q # p
  BY <1>3, <1>6, <1>8, <1>9, <1>10, <1>11, <1>13 DEF BitOf, Bit
<1>14. CASE p # a /\ q = p
  BY <1>3, <1>6, <1>8, <1>9, <1>10, <1>11, <1>14 DEF BitOf, Bit
<1>15. CASE p # a /\ q # p
  BY <1>3, <1>6, <1>8, <1>9, <1>10, <1>11, <1>15 DEF BitOf, Bit
<1> QED
  BY <1>12, <1>13, <1>14, <1>15

\* The coordinate at place i of cycle j, and what the matching leaves: every
\* coordinate has one place, and the layers reflect every cycle.
Place(j, i) == cycles[j][i + 1]
Length(j)   == Len(cycles[j])
Cycled ==
  /\ \A j \in 1 .. Len(cycles) : Length(j) \in Nat \ {0}
  /\ \A j \in 1 .. Len(cycles) : \A i \in 0 .. Length(j) - 1 :
       /\ Place(j, i) \in Coord
       /\ tau[Place(j, i)] = Place(j, IF i = 0 THEN 0 ELSE Length(j) - i)
       /\ sig[Place(j, i)] = Place(j, IF i = 0 THEN (IF Length(j) = 1 THEN 0 ELSE 1)
                                      ELSE IF i = 1 THEN 0 ELSE Length(j) + 1 - i)
  /\ \A a \in Coord : \E j \in 1 .. Len(cycles) : \E i \in 0 .. Length(j) - 1 : Place(j, i) = a
  /\ \A j, k \in 1 .. Len(cycles) :
       \A i \in 0 .. Length(j) - 1, l \in 0 .. Length(k) - 1 :
         Place(j, i) = Place(k, l) => j = k /\ i = l

\* What the layers do at a place.
LEMMA Places ==
  ASSUME Cycled, NEW j \in 1 .. Len(cycles), NEW L, L = Length(j), NEW i \in 0 .. L - 1
  PROVE  /\ Place(j, i) \in Coord
         /\ tau[Place(j, i)] = Place(j, IF i = 0 THEN 0 ELSE L - i)
         /\ sig[Place(j, i)] = Place(j, IF i = 0 THEN (IF L = 1 THEN 0 ELSE 1)
                                        ELSE IF i = 1 THEN 0 ELSE L + 1 - i)
BY Zenon DEF Cycled

LEMMA PlaceUnique ==
  ASSUME Cycled, NEW j \in 1 .. Len(cycles), NEW k \in 1 .. Len(cycles),
         NEW i \in 0 .. Length(j) - 1, NEW l \in 0 .. Length(k) - 1, Place(j, i) = Place(k, l)
  PROVE  j = k /\ i = l
<1>1. \A jj, kk \in 1 .. Len(cycles) :
        \A ii \in 0 .. Length(jj) - 1, ll \in 0 .. Length(kk) - 1 :
          Place(jj, ii) = Place(kk, ll) => jj = kk /\ ii = ll
  BY Zenon DEF Cycled
<1>2. \A ii \in 0 .. Length(j) - 1, ll \in 0 .. Length(k) - 1 :
        Place(j, ii) = Place(k, ll) => j = k /\ ii = ll
  BY Zenon, <1>1
<1> QED
  BY Zenon, <1>2

LEMMA MatchedLayers ==
  ASSUME IInv, pc = "matched"
  PROVE  LayersOk
<1>1. /\ perm \in [Coord -> Coord] /\ tau \in [Coord -> Coord] /\ sig \in [Coord -> Coord]
  BY InputAssumption DEF IInv, Types, IsPermutation
<1>2. \A a \in Coord : tau[tau[a]] = a /\ sig[sig[a]] = a /\ sig[tau[a]] = perm[a]
  BY FactorLemma DEF Factorised
<1> QED
  BY <1>1, <1>2, InputAssumption DEF LayersOk

LEMMA MatchedCycles ==
  ASSUME IInv, pc = "matched"
  PROVE  Cycled
<1>1. cycles \in Seq(Seq(Coord))
  BY DEF IInv, Types
<1>2. ASSUME NEW j \in 1 .. Len(cycles)
      PROVE  cycles[j] \in Seq(Coord) /\ Length(j) \in Nat \ {0}
  <2>1. cycles[j] \in Seq(Coord) /\ cycles[j] # <<>>
    BY <1>1 DEF IInv, CycleInv
  <2> QED
    BY <2>1 DEF Length
<1>3. ASSUME NEW j \in 1 .. Len(cycles), NEW i \in 0 .. Length(j) - 1
      PROVE  Place(j, i) \in Coord /\ i + 1 \in 1 .. Length(j)
  BY <1>2 DEF Place, Length
<1>4. m = Len(cycles) /\ s = n
  BY DEF IInv, MatchInv, SeenInv
<1>5. ASSUME NEW j \in 1 .. Len(cycles), NEW i \in 0 .. Length(j) - 1
      PROVE  /\ tau[Place(j, i)] = Place(j, IF i = 0 THEN 0 ELSE Length(j) - i)
             /\ sig[Place(j, i)] = Place(j, IF i = 0 THEN (IF Length(j) = 1 THEN 0 ELSE 1)
                                            ELSE IF i = 1 THEN 0 ELSE Length(j) + 1 - i)
  <2>1. /\ tau[Place(j, i)] = Place(j, (0 - i) % Length(j))
        /\ sig[Place(j, i)] = Place(j, (1 - i) % Length(j))
    BY <1>4 DEF IInv, MatchInv, At, Place, Length
  <2>2. /\ (0 - i) % Length(j) = (IF i = 0 THEN 0 ELSE Length(j) - i)
        /\ (1 - i) % Length(j) = (IF i = 0 THEN 1 % Length(j) ELSE IF i = 1 THEN 0 ELSE Length(j) + 1 - i)
    <3>1. PICK L \in Nat \ {0} : L = Length(j)
      BY <1>2
    <3>2. i \in 0 .. L - 1
      BY <3>1
    <3>3. /\ (0 - i) % L = (IF i = 0 THEN 0 ELSE L - i)
          /\ (1 - i) % L = (IF i = 0 THEN 1 % L ELSE IF i = 1 THEN 0 ELSE L + 1 - i)
      BY <3>2, Residues
    <3> QED
      BY <3>1, <3>3
  <2>3. Length(j) = 1 => 1 % Length(j) = 0
    OBVIOUS
  <2>4. Length(j) # 1 => 1 % Length(j) = 1
    <3>1. Length(j) # 1 => 1 \in 0 .. Length(j) - 1 /\ 1 = 0 * Length(j) + 1
      BY <1>2
    <3> QED
      BY <1>2, <3>1, DivModUnique
  <2> HIDE DEF Length
  <2> QED
    BY <2>1, <2>2, <2>3, <2>4
<1>6. ASSUME NEW a \in Coord
      PROVE  \E j \in 1 .. Len(cycles) : \E i \in 0 .. Length(j) - 1 : Place(j, i) = a
  <2>1. a < n
    BY InputAssumption DEF Coord
  <2>2. OnCycle(a)
    BY <1>4, <2>1 DEF IInv, SeenInv
  <2>3. PICK j \in 1 .. Len(cycles) : \E i \in 1 .. Len(cycles[j]) : cycles[j][i] = a
    BY <2>2 DEF OnCycle
  <2>4. PICK i \in 1 .. Len(cycles[j]) : cycles[j][i] = a
    BY <2>3
  <2>5. i - 1 \in 0 .. Length(j) - 1 /\ Place(j, i - 1) = a
    BY <1>2, <2>4 DEF Length, Place
  <2> QED
    BY <2>5
<1>7. ASSUME NEW j \in 1 .. Len(cycles), NEW k \in 1 .. Len(cycles),
             NEW i \in 0 .. Length(j) - 1, NEW l \in 0 .. Length(k) - 1, Place(j, i) = Place(k, l)
      PROVE  j = k /\ i = l
  <2>1. i + 1 \in 1 .. Len(cycles[j]) /\ l + 1 \in 1 .. Len(cycles[k])
    BY <1>3 DEF Length
  <2>2. j = k /\ i + 1 = l + 1
    BY <1>7, <2>1 DEF IInv, CycleInv, Place
  <2> QED
    BY <2>2
<1> QED
  BY <1>2, <1>3, <1>5, <1>6, <1>7 DEF Cycled

-----------------------------------------------------------------------------
\* An orientation of the planes: one end of every swapped pair, such that the
\* swaps a coordinate passes in the two layers are passed both along or both against.
Oriented(TS, SS) ==
  \A a \in Coord :
    /\ tau[a] # a => (a \in TS <=> tau[a] \notin TS)
    /\ sig[a] # a => (a \in SS <=> sig[a] \notin SS)
    /\ tau[a] # a /\ sig[tau[a]] # tau[a] => (a \in TS <=> tau[a] \in SS)
    /\ tau[a] # a /\ sig[tau[a]] = tau[a] => a \in TS
    /\ tau[a] = a /\ sig[a] # a => a \in SS

\* In a cycle of length 2 k + 1 the tau pairs are entered at the places 1 to k,
\* the sig pairs at the place 0 and at those above k + 1.
LEMMA OddOrients ==
  ASSUME Cycled, \A j \in 1 .. Len(cycles) : \E k \in Nat : Length(j) = 2 * k + 1
  PROVE  \E TS, SS : Oriented(TS, SS)
<1> DEFINE TS == {a \in Coord : \E j \in 1 .. Len(cycles) : \E i \in 0 .. Length(j) - 1 :
                                  Place(j, i) = a /\ 0 < i /\ 2 * i < Length(j)}
           SS == {a \in Coord : \E j \in 1 .. Len(cycles) : \E i \in 0 .. Length(j) - 1 :
                                  Place(j, i) = a /\ (i = 0 \/ 2 * i > Length(j) + 1)}
<1>1. ASSUME NEW j \in 1 .. Len(cycles), NEW i \in 0 .. Length(j) - 1
      PROVE  /\ Place(j, i) \in Coord
             /\ Place(j, i) \in TS <=> 0 < i /\ 2 * i < Length(j)
             /\ Place(j, i) \in SS <=> i = 0 \/ 2 * i > Length(j) + 1
  <2>1. Place(j, i) \in Coord
    BY Places
  <2>2. ASSUME NEW k \in 1 .. Len(cycles), NEW l \in 0 .. Length(k) - 1, Place(k, l) = Place(j, i)
        PROVE  k = j /\ l = i
    BY <2>2, PlaceUnique
  <2> QED
    BY <2>1, <2>2
<1>2. ASSUME NEW j \in 1 .. Len(cycles), NEW i \in 0 .. Length(j) - 1, NEW l \in 0 .. Length(j) - 1
      PROVE  Place(j, i) = Place(j, l) <=> i = l
  BY PlaceUnique
<1> HIDE DEF TS, SS
<1>3. ASSUME NEW a \in Coord
      PROVE  /\ tau[a] # a => (a \in TS <=> tau[a] \notin TS)
             /\ sig[a] # a => (a \in SS <=> sig[a] \notin SS)
             /\ tau[a] # a /\ sig[tau[a]] # tau[a] => (a \in TS <=> tau[a] \in SS)
             /\ tau[a] # a /\ sig[tau[a]] = tau[a] => a \in TS
             /\ tau[a] = a /\ sig[a] # a => a \in SS
  <2>1. PICK j \in 1 .. Len(cycles) : \E i \in 0 .. Length(j) - 1 : Place(j, i) = a
    BY DEF Cycled
  <2>2. PICK i \in 0 .. Length(j) - 1 : Place(j, i) = a
    BY <2>1
  <2>3. PICK k \in Nat : Length(j) = 2 * k + 1
    OBVIOUS
  <2>4. i \in 0 .. 2 * k
    BY <2>2, <2>3
  <2>5. PICK p : p = IF i = 0 THEN 0 ELSE 2 * k + 1 - i
    OBVIOUS
  <2>6. PICK q : q = IF i = 0 THEN (IF k = 0 THEN 0 ELSE 1) ELSE IF i = 1 THEN 0 ELSE 2 * k + 2 - i
    OBVIOUS
  <2>7. PICK r : r = IF p = 0 THEN (IF k = 0 THEN 0 ELSE 1) ELSE IF p = 1 THEN 0 ELSE 2 * k + 2 - p
    OBVIOUS
  <2>8. p \in 0 .. 2 * k /\ q \in 0 .. 2 * k /\ r \in 0 .. 2 * k
    BY <2>4, <2>5, <2>6, <2>7
  <2>9. \A e \in 0 .. 2 * k : e \in 0 .. Length(j) - 1
    BY <2>3
  <2>10. 2 * k + 1 = 1 <=> k = 0
    OBVIOUS
  <2>11. tau[a] = Place(j, p) /\ sig[a] = Place(j, q)
    <3>1. PICK L : L = Length(j)
      OBVIOUS
    <3>2. /\ tau[Place(j, i)] = Place(j, IF i = 0 THEN 0 ELSE L - i)
          /\ sig[Place(j, i)] = Place(j, IF i = 0 THEN (IF L = 1 THEN 0 ELSE 1)
                                         ELSE IF i = 1 THEN 0 ELSE L + 1 - i)
      BY <2>2, <3>1, Places
    <3>3. /\ p = (IF i = 0 THEN 0 ELSE L - i)
          /\ q = (IF i = 0 THEN (IF L = 1 THEN 0 ELSE 1) ELSE IF i = 1 THEN 0 ELSE L + 1 - i)
      BY <2>3, <2>4, <2>5, <2>6, <2>10, <3>1
    <3> QED
      BY <2>2, <3>2, <3>3
  <2>12. sig[tau[a]] = Place(j, r)
    <3>1. PICK L : L = Length(j)
      OBVIOUS
    <3>2. p \in 0 .. L - 1
      BY <2>8, <2>9, <3>1
    <3>3. sig[Place(j, p)] = Place(j, IF p = 0 THEN (IF L = 1 THEN 0 ELSE 1)
                                      ELSE IF p = 1 THEN 0 ELSE L + 1 - p)
      BY <3>1, <3>2, Places
    <3>4. r = (IF p = 0 THEN (IF L = 1 THEN 0 ELSE 1) ELSE IF p = 1 THEN 0 ELSE L + 1 - p)
      BY <2>3, <2>7, <2>8, <2>10, <3>1
    <3> QED
      BY <2>11, <3>3, <3>4
  <2>13. /\ a \in TS <=> 0 < i /\ 2 * i < 2 * k + 1
         /\ a \in SS <=> i = 0 \/ 2 * i > 2 * k + 2
         /\ tau[a] \in TS <=> 0 < p /\ 2 * p < 2 * k + 1
         /\ tau[a] \in SS <=> p = 0 \/ 2 * p > 2 * k + 2
         /\ sig[a] \in SS <=> q = 0 \/ 2 * q > 2 * k + 2
    <3>1. (2 * k + 1) + 1 = 2 * k + 2
      OBVIOUS
    <3> QED
      BY <1>1, <2>2, <2>3, <2>8, <2>9, <2>11, <3>1
  <2>14. /\ tau[a] = a <=> p = i
         /\ sig[a] = a <=> q = i
         /\ sig[tau[a]] = tau[a] <=> r = p
    BY <1>2, <2>2, <2>8, <2>9, <2>11, <2>12
  <2>15. i # p => (0 < i /\ 2 * i < 2 * k + 1 <=> ~(0 < p /\ 2 * p < 2 * k + 1))
    BY <2>4, <2>5
  <2>16. q # i => (i = 0 \/ 2 * i > 2 * k + 2 <=> ~(q = 0 \/ 2 * q > 2 * k + 2))
    BY <2>4, <2>6
  <2>17. p # i /\ r # p => (0 < i /\ 2 * i < 2 * k + 1 <=> (p = 0 \/ 2 * p > 2 * k + 2))
    BY <2>4, <2>5, <2>7
  <2>18. p # i /\ r = p => 0 < i /\ 2 * i < 2 * k + 1
    BY <2>4, <2>5, <2>7
  <2>19. p = i /\ q # i => i = 0 \/ 2 * i > 2 * k + 2
    BY <2>4, <2>5, <2>6
  <2> QED
    BY <2>13, <2>14, <2>15, <2>16, <2>17, <2>18, <2>19
<1> QED
  BY <1>3 DEF Oriented

\* In a cycle of length 2 k the sig pairs would all be entered at the places
\* k + 1 to 2 k, where 0 is meant by 2 k, and yet the place k is one, too.
LEMMA EvenDoesNot ==
  ASSUME Cycled, NEW TS, NEW SS, Oriented(TS, SS),
         NEW j \in 1 .. Len(cycles), NEW k \in Nat, Length(j) = 2 * k
  PROVE  FALSE
<1> DEFINE Neg(i) == IF i = 0 THEN 0 ELSE 2 * k - i
<1>1. k > 0
  BY DEF Cycled
<1>2. ASSUME NEW i \in 0 .. 2 * k - 1, NEW l \in 0 .. 2 * k - 1
      PROVE  Place(j, i) = Place(j, l) <=> i = l
  BY PlaceUnique
<1>3. ASSUME NEW i \in 0 .. 2 * k - 1
      PROVE  /\ Place(j, i) \in Coord
             /\ tau[Place(j, i)] = Place(j, Neg(i))
             /\ sig[Place(j, i)] = Place(j, IF i = 0 THEN 1 ELSE IF i = 1 THEN 0 ELSE 2 * k + 1 - i)
  <2>1. PICK L : L = 2 * k
    OBVIOUS
  <2>2. L # 1
    BY <2>1
  <2>3. /\ Place(j, i) \in Coord
        /\ tau[Place(j, i)] = Place(j, IF i = 0 THEN 0 ELSE L - i)
        /\ sig[Place(j, i)] = Place(j, IF i = 0 THEN (IF L = 1 THEN 0 ELSE 1)
                                       ELSE IF i = 1 THEN 0 ELSE L + 1 - i)
    BY <2>1, Places
  <2> QED
    BY <2>1, <2>2, <2>3
<1>4. Place(j, 0) \in SS
  <2>1. 0 \in 0 .. 2 * k - 1 /\ 1 \in 0 .. 2 * k - 1
    BY <1>1
  <2>2. tau[Place(j, 0)] = Place(j, 0) /\ sig[Place(j, 0)] # Place(j, 0)
    BY <1>2, <1>3, <2>1
  <2> QED
    BY <1>3, <2>1, <2>2 DEF Oriented
<1>5. Place(j, k) \in SS
  <2>1. PICK q : q = IF k = 1 THEN 0 ELSE 2 * k + 1 - k
    OBVIOUS
  <2>2. k \in 0 .. 2 * k - 1 /\ q \in 0 .. 2 * k - 1 /\ q # k /\ Neg(k) = k /\ k # 0
    BY <1>1, <2>1
  <2>3. tau[Place(j, k)] = Place(j, k) /\ sig[Place(j, k)] # Place(j, k)
    BY <1>2, <1>3, <2>1, <2>2
  <2> QED
    BY <1>3, <2>2, <2>3 DEF Oriented
\* From the place -i on to -i - 1, by way of i + 1.
<1>6. ASSUME NEW i \in 0 .. k - 1, Place(j, Neg(i)) \in SS
      PROVE  Place(j, i + 1) \notin SS /\ (i + 1 < k => Place(j, Neg(i + 1)) \in SS)
  <2>1. /\ Neg(i) \in 0 .. 2 * k - 1 /\ i + 1 \in 0 .. 2 * k - 1 /\ Neg(i) # i + 1
        /\ i + 1 = IF Neg(i) = 0 THEN 1 ELSE IF Neg(i) = 1 THEN 0 ELSE 2 * k + 1 - Neg(i)
    BY <1>1
  <2>2. sig[Place(j, Neg(i))] = Place(j, i + 1) /\ Place(j, Neg(i)) # Place(j, i + 1)
    BY <1>2, <1>3, <2>1
  <2>3. Place(j, i + 1) \notin SS
    BY <1>3, <1>6, <2>1, <2>2 DEF Oriented
  <2>4. ASSUME i + 1 < k PROVE Place(j, Neg(i + 1)) \in SS
    <3>1. PICK u : u = Neg(i + 1)
      OBVIOUS
    <3>2. /\ u \in 0 .. 2 * k - 1 /\ u # i + 1 /\ Neg(u) = i + 1 /\ u # 0
          /\ i + 2 \in 0 .. 2 * k - 1 /\ i + 2 # u
          /\ 2 * k + 1 - u = i + 2 /\ u # 1
      BY <2>4, <3>1
    <3>3. PICK v : v = IF i + 1 = 0 THEN 1 ELSE IF i + 1 = 1 THEN 0 ELSE 2 * k + 1 - (i + 1)
      OBVIOUS
    <3>4. v \in 0 .. 2 * k - 1 /\ v # i + 1
      BY <2>4, <3>3
    <3>5. /\ tau[Place(j, u)] = Place(j, i + 1) /\ Place(j, u) # Place(j, i + 1)
          /\ tau[Place(j, i + 1)] = Place(j, u)
          /\ sig[Place(j, u)] # Place(j, u) /\ sig[Place(j, i + 1)] # Place(j, i + 1)
      BY <1>2, <1>3, <2>1, <3>1, <3>2, <3>3, <3>4
    <3>6. Place(j, u) \in Coord /\ Place(j, i + 1) \in Coord
      BY <1>3, <2>1, <3>2
    <3> HIDE DEF Neg
    <3>7. Place(j, u) \notin TS
      BY <2>3, <3>5, <3>6 DEF Oriented
    <3>8. Place(j, i + 1) \in TS
      BY <3>5, <3>6, <3>7 DEF Oriented
    <3> QED
      BY <3>1, <3>5, <3>6, <3>8 DEF Oriented
  <2> QED
    BY <2>3, <2>4
<1> DEFINE Bad == {i \in 0 .. k - 1 : Place(j, Neg(i)) \notin SS}
<1>7. Bad = {}
  <2> SUFFICES ASSUME Bad # {} PROVE FALSE
    OBVIOUS
  <2>1. Bad \in SUBSET Nat
    OBVIOUS
  <2>2. PICK i \in Bad : \A l \in Bad : i <= l
    BY <2>1, LeastElement
  <2>3. i # 0
    BY <1>4, <2>2
  <2>4. i - 1 \in 0 .. k - 1 /\ i - 1 \notin Bad /\ (i - 1) + 1 = i /\ i < k
    BY <2>2, <2>3
  <2> QED
    BY <1>6, <2>2, <2>4
<1>8. k - 1 \in 0 .. k - 1 /\ (k - 1) + 1 = k
  BY <1>1
<1> QED
  BY <1>5, <1>6, <1>7, <1>8

\* The parity of a plane with which it takes coordinate a along without a sign.
TB(a) == BitOf(sgn(a, tau[a]))
SB(a) == BitOf(sgn(a, sig[a]))

LEMMA Signs ==
  ASSUME LayersOk, NEW a \in Coord
  PROVE  /\ TB(a) \in Bit /\ SB(a) \in Bit
         /\ tau[a] # a => TB(tau[a]) = 1 - TB(a) /\ TNode(tau[a]) = TNode(a)
         /\ sig[a] # a => SB(sig[a]) = 1 - SB(a) /\ SNode(sig[a]) = SNode(a)
<1>1. tau[a] \in Coord /\ sig[a] \in Coord /\ tau[tau[a]] = a /\ sig[sig[a]] = a
  BY DEF LayersOk
<1>2. a \in Int /\ tau[a] \in Int /\ sig[a] \in Int
  BY <1>1 DEF Coord
<1>3. ASSUME NEW u \in Int, NEW v \in Int
      PROVE  BitOf(sgn(u, v)) \in Bit /\ (u # v => BitOf(sgn(v, u)) = 1 - BitOf(sgn(u, v)))
  BY DEF BitOf, sgn, Bit
<1>4. TB(a) \in Bit /\ SB(a) \in Bit
  BY <1>2, <1>3 DEF TB, SB
<1>5. TB(tau[a]) = BitOf(sgn(tau[a], a)) /\ SB(sig[a]) = BitOf(sgn(sig[a], a))
  BY <1>1 DEF TB, SB
<1>6. tau[a] # a => TB(tau[a]) = 1 - TB(a)
  BY <1>2, <1>3, <1>5 DEF TB
<1>7. sig[a] # a => SB(sig[a]) = 1 - SB(a)
  BY <1>2, <1>3, <1>5 DEF SB
<1>8. n \in Nat /\ tau \in [Coord -> Coord] /\ \A e \in Coord : tau[tau[e]] = e
  BY DEF LayersOk
<1>9. n \in Nat /\ sig \in [Coord -> Coord] /\ \A e \in Coord : sig[sig[e]] = e
  BY DEF LayersOk
<1>10. PlaneOf(tau, tau[a]) = PlaneOf(tau, a)
  BY <1>8, Planes
<1>11. PlaneOf(sig, sig[a]) = PlaneOf(sig, a)
  BY <1>9, Planes
<1> QED
  BY <1>4, <1>6, <1>7, <1>10, <1>11 DEF TNode, SNode

LEMMA WantIs ==
  ASSUME LayersOk, NEW a \in Coord, NEW p, p = tau[a]
  PROVE  Want(a) = IF p # a THEN IF sig[p] # p THEN Xor(TB(a), SB(p)) ELSE TB(a)
                            ELSE IF sig[p] # p THEN SB(p) ELSE 0
<1>1. p \in Coord /\ sig[p] = perm[a]
  BY DEF LayersOk
<1>2. PICK s1, s2 : s1 = sgn(a, p) /\ s2 = sgn(p, sig[p])
  OBVIOUS
<1>3. s1 \in {1, -1} /\ s2 \in {1, -1} /\ TB(a) = BitOf(s1) /\ SB(p) = BitOf(s2)
  BY <1>2 DEF sgn, TB, SB
<1>4. Want(a) = BitOf((IF p # a THEN s1 ELSE 1) * (IF sig[p] # p THEN s2 ELSE 1))
  BY <1>1, <1>2 DEF Want
<1>5. TB(a) \in Bit /\ SB(p) \in Bit
  BY <1>1, Signs
<1>6. Xor(TB(a), SB(p)) = IF TB(a) = SB(p) THEN 0 ELSE 1
  BY <1>5, XorIs
<1>7. CASE p # a /\ sig[p] # p
  BY <1>3, <1>4, <1>6, <1>7 DEF BitOf
<1>8. CASE p # a /\ sig[p] = p
  BY <1>3, <1>4, <1>8 DEF BitOf
<1>9. CASE p = a /\ sig[p] # p
  BY <1>3, <1>4, <1>9 DEF BitOf
<1>10. CASE p = a /\ sig[p] = p
  BY <1>4, <1>10 DEF BitOf
<1> QED
  BY <1>7, <1>8, <1>9, <1>10

\* Angles that meet all demands are an orientation, namely of the planes that
\* turn the way that takes the first end along without a sign.
LEMMA MeetsOriented ==
  ASSUME LayersOk, NEW b \in [Node -> Bit], b[GND] = 0, NEW TS, NEW SS,
         \A a \in Coord : tau[a] # a => (a \in TS <=> b[TNode(a)] = TB(a)),
         \A a \in Coord : sig[a] # a => (a \in SS <=> b[SNode(a)] = SB(a))
  PROVE  Oriented(TS, SS) <=> \A a \in Coord : Meets(b, a)
<1>1. ASSUME NEW a \in Coord
      PROVE  /\ tau[a] # a => (a \in TS <=> tau[a] \notin TS)
             /\ sig[a] # a => (a \in SS <=> sig[a] \notin SS)
  <2>1. tau[a] \in Coord /\ sig[a] \in Coord /\ tau[tau[a]] = a /\ sig[sig[a]] = a
    BY DEF LayersOk
  <2>2. /\ tau[a] # a => TNode(a) \in Node
        /\ sig[a] # a => SNode(a) \in Node
    <3>1. nt \in Nat /\ ns \in Nat /\ (tau[a] # a => TNode(a) \in 0 .. nt - 1)
          /\ (sig[a] # a => SNode(a) \in nt .. GND - 1)
      BY Nodes
    <3> QED
      BY <3>1 DEF Node, GND
  <2>3. /\ TB(a) \in Bit /\ SB(a) \in Bit
        /\ tau[a] # a => TB(tau[a]) = 1 - TB(a) /\ TNode(tau[a]) = TNode(a)
        /\ sig[a] # a => SB(sig[a]) = 1 - SB(a) /\ SNode(sig[a]) = SNode(a)
    BY Signs
  <2>4. ASSUME NEW u \in Bit, NEW v \in Bit PROVE u = v <=> ~(u = 1 - v)
    BY DEF Bit
  <2>5. tau[a] # a => (a \in TS <=> tau[a] \notin TS)
    <3>1. SUFFICES ASSUME tau[a] # a PROVE a \in TS <=> tau[a] \notin TS
      OBVIOUS
    <3>2. a \in TS <=> b[TNode(a)] = TB(a)
      BY <3>1
    <3>3. tau[a] \in TS <=> b[TNode(a)] = 1 - TB(a)
      BY <2>1, <2>3, <3>1
    <3>4. b[TNode(a)] \in Bit
      BY <2>2, <3>1
    <3> QED
      BY <2>3, <2>4, <3>2, <3>3, <3>4
  <2>6. sig[a] # a => (a \in SS <=> sig[a] \notin SS)
    <3>1. SUFFICES ASSUME sig[a] # a PROVE a \in SS <=> sig[a] \notin SS
      OBVIOUS
    <3>2. a \in SS <=> b[SNode(a)] = SB(a)
      BY <3>1
    <3>3. sig[a] \in SS <=> b[SNode(a)] = 1 - SB(a)
      BY <2>1, <2>3, <3>1
    <3>4. b[SNode(a)] \in Bit
      BY <2>2, <3>1
    <3> QED
      BY <2>3, <2>4, <3>2, <3>3, <3>4
  <2> QED
    BY <2>5, <2>6
<1>2. ASSUME NEW a \in Coord
      PROVE  Meets(b, a) <=> /\ tau[a] # a /\ sig[tau[a]] # tau[a] => (a \in TS <=> tau[a] \in SS)
                             /\ tau[a] # a /\ sig[tau[a]] = tau[a] => a \in TS
                             /\ tau[a] = a /\ sig[a] # a => a \in SS
  <2>1. PICK p : p = tau[a]
    OBVIOUS
  <2>2. p \in Coord /\ sig[p] = perm[a]
    BY <2>1 DEF LayersOk
  <2>3. PICK u, v, w : u = b[From(a)] /\ v = b[To(a)] /\ w = Xor(u, v)
    OBVIOUS
  <2>4. From(a) \in Node /\ To(a) \in Node
    BY Nodes
  <2>5. u \in Bit /\ v \in Bit /\ w = IF u = v THEN 0 ELSE 1
    BY <2>3, <2>4, XorIs
  <2>6. Meets(b, a) <=> w = Want(a)
    BY <2>3 DEF Meets
  <2>7. /\ p # a => u = b[TNode(a)]
        /\ p = a => u = 0
        /\ sig[p] # p => v = b[SNode(p)]
        /\ sig[p] = p => v = 0
    BY <2>1, <2>2, <2>3 DEF From, To
  <2>8. TB(a) \in Bit /\ SB(p) \in Bit
    BY <2>2, Signs
  <2>9. Xor(TB(a), SB(p)) = IF TB(a) = SB(p) THEN 0 ELSE 1
    BY <2>8, XorIs
  <2>10. Want(a) = IF p # a THEN IF sig[p] # p THEN Xor(TB(a), SB(p)) ELSE TB(a)
                            ELSE IF sig[p] # p THEN SB(p) ELSE 0
    BY <2>1, WantIs
  <2>11. /\ p # a => (a \in TS <=> u = TB(a))
         /\ sig[p] # p => (p \in SS <=> v = SB(p))
    BY <2>1, <2>2, <2>7
  <2>12. CASE p # a /\ sig[p] # p
    BY <2>1, <2>5, <2>6, <2>8, <2>9, <2>10, <2>11, <2>12 DEF Bit
  <2>13. CASE p # a /\ sig[p] = p
    BY <2>1, <2>5, <2>6, <2>7, <2>8, <2>10, <2>11, <2>13 DEF Bit
  <2>14. CASE p = a /\ sig[p] # p
    BY <2>1, <2>5, <2>6, <2>7, <2>8, <2>10, <2>11, <2>14 DEF Bit
  <2>15. CASE p = a /\ sig[p] = p
    BY <2>1, <2>5, <2>6, <2>7, <2>10, <2>15
  <2> QED
    BY <2>12, <2>13, <2>14, <2>15
<1>3. (\A a \in Coord : Meets(b, a)) <=>
        \A a \in Coord : /\ tau[a] # a /\ sig[tau[a]] # tau[a] => (a \in TS <=> tau[a] \in SS)
                         /\ tau[a] # a /\ sig[tau[a]] = tau[a] => a \in TS
                         /\ tau[a] = a /\ sig[a] # a => a \in SS
  BY <1>2
<1> QED
  BY <1>1, <1>3 DEF Oriented

LEMMA OrientedSolves ==
  ASSUME LayersOk, NEW TS, NEW SS, Oriented(TS, SS)
  PROVE  \E b \in [Node -> Bit] : \A a \in Coord : Meets(b, a)
<1> DEFINE TurnT(y) == \E e \in Coord : tau[e] # e /\ TNode(e) = y /\ e \in TS /\ TB(e) = 1
           TurnS(y) == \E e \in Coord : sig[e] # e /\ SNode(e) = y /\ e \in SS /\ SB(e) = 1
           b == [y \in Node |-> IF TurnT(y) \/ TurnS(y) THEN 1 ELSE 0]
<1>1. /\ nt \in Nat /\ ns \in Nat /\ GND \in Nat /\ GND \in Node
      /\ \A a \in Coord : tau[a] # a => TNode(a) \in 0 .. nt - 1
      /\ \A a \in Coord : sig[a] # a => SNode(a) \in nt .. GND - 1
  BY Nodes
<1>2. /\ \A y \in 0 .. nt - 1 : y \in Node /\ y < nt /\ y # GND
      /\ \A y \in nt .. GND - 1 : y \in Node /\ nt <= y /\ y # GND
  BY <1>1 DEF Node, GND
<1>3. b \in [Node -> Bit]
  BY DEF Bit
<1>4. b[GND] = 0
  BY <1>1, <1>2
<1>5. \A a \in Coord : tau[a] \in Coord /\ sig[a] \in Coord /\ tau[tau[a]] = a /\ sig[sig[a]] = a
  BY DEF LayersOk
<1>6. \A a, e \in Coord : tau[a] # a /\ tau[e] # e /\ TNode(a) = TNode(e) => e = a \/ e = tau[a]
  <2>1. n \in Nat /\ tau \in [Coord -> Coord] /\ \A e \in Coord : tau[tau[e]] = e
    BY DEF LayersOk
  <2> QED
    BY <2>1, Planes DEF TNode
<1>7. \A a, e \in Coord : sig[a] # a /\ sig[e] # e /\ SNode(a) = SNode(e) => e = a \/ e = sig[a]
  <2>1. n \in Nat /\ sig \in [Coord -> Coord] /\ \A e \in Coord : sig[sig[e]] = e
    BY DEF LayersOk
  <2>2. ASSUME NEW a \in Coord, NEW e \in Coord, sig[a] # a, sig[e] # e, SNode(a) = SNode(e)
        PROVE  PlaneOf(sig, a) = PlaneOf(sig, e)
    <3>1. PlaneOf(sig, a) \in Int /\ PlaneOf(sig, e) \in Int
      BY <2>1, <2>2, Planes
    <3> QED
      BY <1>1, <2>2, <3>1 DEF SNode
  <2> QED
    BY <2>1, <2>2, Planes
<1>8. ASSUME NEW a \in Coord, tau[a] # a
      PROVE  a \in TS <=> b[TNode(a)] = TB(a)
  <2>1. ~TurnS(TNode(a)) /\ TNode(a) \in Node
    <3>1. TNode(a) \in Node /\ TNode(a) < nt /\ TNode(a) \in Int
      BY <1>1, <1>2, <1>8
    <3>2. ASSUME NEW e \in Coord, sig[e] # e, SNode(e) = TNode(a) PROVE FALSE
      <4>1. nt <= SNode(e) /\ SNode(e) \in Int
        BY <1>1, <1>2, <3>2
      <4> QED
        BY <1>1, <3>1, <3>2, <4>1
    <3> QED
      BY <3>1, <3>2
  <2>2. TurnT(TNode(a)) <=> (a \in TS /\ TB(a) = 1) \/ (tau[a] \in TS /\ TB(tau[a]) = 1)
    <3>1. tau[a] \in Coord /\ tau[tau[a]] # tau[a] /\ TNode(tau[a]) = TNode(a)
      BY <1>5, <1>8, Signs
    <3> QED
      BY <1>6, <1>8, <3>1
  <2>3. TB(a) \in Bit /\ TB(tau[a]) = 1 - TB(a) /\ (a \in TS <=> tau[a] \notin TS)
    BY <1>8, Signs DEF Oriented
  <2>4. b[TNode(a)] = IF TurnT(TNode(a)) THEN 1 ELSE 0
    BY <2>1
  <2> HIDE DEF TurnT, TurnS, b
  <2> QED
    BY <2>2, <2>3, <2>4 DEF Bit
<1>9. ASSUME NEW a \in Coord, sig[a] # a
      PROVE  a \in SS <=> b[SNode(a)] = SB(a)
  <2>1. ~TurnT(SNode(a)) /\ SNode(a) \in Node
    <3>1. SNode(a) \in Node /\ nt <= SNode(a) /\ SNode(a) \in Int
      BY <1>1, <1>2, <1>9
    <3>2. ASSUME NEW e \in Coord, tau[e] # e, TNode(e) = SNode(a) PROVE FALSE
      <4>1. TNode(e) < nt /\ TNode(e) \in Int
        BY <1>1, <1>2, <3>2
      <4> QED
        BY <1>1, <3>1, <3>2, <4>1
    <3> QED
      BY <3>1, <3>2
  <2>2. TurnS(SNode(a)) <=> (a \in SS /\ SB(a) = 1) \/ (sig[a] \in SS /\ SB(sig[a]) = 1)
    <3>1. sig[a] \in Coord /\ sig[sig[a]] # sig[a] /\ SNode(sig[a]) = SNode(a)
      BY <1>5, <1>9, Signs
    <3> QED
      BY <1>7, <1>9, <3>1
  <2>3. SB(a) \in Bit /\ SB(sig[a]) = 1 - SB(a) /\ (a \in SS <=> sig[a] \notin SS)
    BY <1>9, Signs DEF Oriented
  <2>4. b[SNode(a)] = IF TurnS(SNode(a)) THEN 1 ELSE 0
    BY <2>1
  <2> HIDE DEF TurnT, TurnS, b
  <2> QED
    BY <2>2, <2>3, <2>4 DEF Bit
<1> HIDE DEF b
<1>10. \A a \in Coord : Meets(b, a)
  BY <1>3, <1>4, <1>8, <1>9, MeetsOriented
<1> QED
  BY <1>3, <1>10

LEMMA SolvedIsOriented ==
  ASSUME LayersOk, NEW v \in [Node -> Bit], \A a \in Coord : Meets(v, a)
  PROVE  \E TS, SS : Oriented(TS, SS)
<1> DEFINE b == [y \in Node |-> Xor(v[y], v[GND])]
           TS == {a \in Coord : b[TNode(a)] = TB(a)}
           SS == {a \in Coord : b[SNode(a)] = SB(a)}
<1>1. GND \in Node /\ \A a \in Coord : From(a) \in Node /\ To(a) \in Node
  BY Nodes
<1>2. b \in [Node -> Bit]
  BY <1>1, XorBit
<1>3. b[GND] = 0
  BY <1>1, XorIs
<1>4. ASSUME NEW x1 \in Bit, NEW x2 \in Bit, NEW g \in Bit
      PROVE  Xor(Xor(x1, g), Xor(x2, g)) = Xor(x1, x2)
  <2>1. PICK u, w : u = Xor(x1, g) /\ w = Xor(x2, g)
    OBVIOUS
  <2>2. u \in Bit /\ w \in Bit
    BY <2>1, XorBit
  <2>3. /\ u = (IF x1 = g THEN 0 ELSE 1) /\ w = (IF x2 = g THEN 0 ELSE 1)
        /\ Xor(u, w) = (IF u = w THEN 0 ELSE 1) /\ Xor(x1, x2) = (IF x1 = x2 THEN 0 ELSE 1)
    BY <2>1, <2>2, XorIs
  <2>4. Xor(u, w) = Xor(x1, x2)
    BY <2>2, <2>3 DEF Bit
  <2> QED
    BY <2>1, <2>4
<1>5. ASSUME NEW a \in Coord PROVE Meets(b, a)
  <2>1. v[From(a)] \in Bit /\ v[To(a)] \in Bit /\ v[GND] \in Bit
    BY <1>1
  <2>2. Xor(b[From(a)], b[To(a)]) = Xor(v[From(a)], v[To(a)])
    BY <1>1, <1>4, <2>1
  <2> HIDE DEF b
  <2> QED
    BY <2>2 DEF Meets
<1> HIDE DEF b
<1>6. Oriented(TS, SS)
  <2>1. /\ \A a \in Coord : tau[a] # a => (a \in TS <=> b[TNode(a)] = TB(a))
        /\ \A a \in Coord : sig[a] # a => (a \in SS <=> b[SNode(a)] = SB(a))
    OBVIOUS
  <2> HIDE DEF TS, SS
  <2> QED
    BY <1>2, <1>3, <1>5, <2>1, MeetsOriented
<1> QED
  BY <1>6

\* The demands can be met exactly when no cycle has even length.
LEMMA SolvableIffOdd ==
  ASSUME LayersOk, Cycled
  PROVE  (\E b \in [Node -> Bit] : \A a \in Coord : Meets(b, a))
           <=> ~ \E j \in 1 .. Len(cycles) : Len(cycles[j]) % 2 = 0
<1>1. ASSUME NEW j \in 1 .. Len(cycles)
      PROVE  /\ Len(cycles[j]) % 2 = 0 => \E k \in Nat : Length(j) = 2 * k
             /\ Len(cycles[j]) % 2 # 0 => \E k \in Nat : Length(j) = 2 * k + 1
  <2>1. PICK L \in Nat : L = Len(cycles[j])
    BY DEF Cycled, Length
  <2>2. 2 \in Nat \ {0}
    OBVIOUS
  <2>3. L \div 2 \in Nat /\ L % 2 \in 0 .. 2 - 1 /\ L = (L \div 2) * 2 + (L % 2)
    BY <2>2, DivMod
  <2>4. PICK k \in Nat, r \in 0 .. 1 : L % 2 = r /\ L = k * 2 + r
    BY <2>3
  <2>5. (r = 0 => L = 2 * k) /\ (r # 0 => L = 2 * k + 1)
    BY <2>4
  <2>6. L = Length(j)
    BY <2>1 DEF Length
  <2> QED
    BY <2>1, <2>4, <2>5, <2>6
<1>2. ASSUME NEW b \in [Node -> Bit], \A a \in Coord : Meets(b, a),
             NEW j \in 1 .. Len(cycles), Len(cycles[j]) % 2 = 0
      PROVE  FALSE
  <2>1. PICK TS, SS : Oriented(TS, SS)
    BY <1>2, SolvedIsOriented
  <2>2. PICK k \in Nat : Length(j) = 2 * k
    BY <1>1, <1>2
  <2> QED
    BY <2>1, <2>2, EvenDoesNot
<1>3. ASSUME \A j \in 1 .. Len(cycles) : Len(cycles[j]) % 2 # 0
      PROVE  \E b \in [Node -> Bit] : \A a \in Coord : Meets(b, a)
  <2>1. PICK TS, SS : Oriented(TS, SS)
    BY <1>1, <1>3, OddOrients
  <2> QED
    BY <2>1, OrientedSolves
<1> QED
  BY <1>2, <1>3

-----------------------------------------------------------------------------
\* The inductive invariant.  Until the layers are found it is that of
\* PermCycles; then the forest allows those angles, of the planes and of the
\* ground, that meet the demands entered, whatever find has compressed.
UF == [par |-> par, rel |-> rel]

Matching == pc \in {"scan", "walk", "match", "matched"}
Solving  == pc \in {"solve", "raised", "done"}

MatchPart ==
  /\ Matching \/ Solving
  /\ Matching => IInv /\ f = 0
LayerPart ==
  Solving => LayersOk /\ Cycled /\ f \in Nat /\ f <= n
ForestPart ==
  pc = "solve" =>
    /\ Forest(UF)
    /\ \A b \in [Node -> Bit] : Agrees(UF, b) <=> \A a \in 0 .. f - 1 : Meets(b, a)
RaisedPart ==
  pc = "raised" => \A b \in [Node -> Bit] : ~ \A a \in Coord : Meets(b, a)
DonePart ==
  pc = "done" => \E b \in [Node -> Bit] :
                   /\ \A a \in Coord : Meets(b, a)
                   /\ t_ang = [i \in 0 .. nt - 1 |-> b[i]]
                   /\ s_ang = [i \in 0 .. ns - 1 |-> b[nt + i]]

OInv == MatchPart /\ LayerPart /\ ForestPart /\ RaisedPart /\ DonePart

\* After the layers are found, the nodes and the demands stay.
LEMMA Frame ==
  ASSUME UNCHANGED <<perm, tau, sig, cycles>>
  PROVE  /\ Node' = Node /\ nt' = nt /\ ns' = ns
         /\ LayersOk => LayersOk'
         /\ Cycled => Cycled'
         /\ \A b, a : Meets(b, a)' <=> Meets(b, a)
         /\ \A uf, b : Agrees(uf, b)' <=> Agrees(uf, b)
         /\ \A uf : Forest(uf)' <=> Forest(uf)
<1>1. nt' = nt /\ ns' = ns
  BY DEF nt, ns, PlaneCount, LowerEnds
<1>2. GND' = GND /\ Node' = Node
  BY <1>1 DEF GND, Node
<1>3. LayersOk => LayersOk'
  BY DEF LayersOk
<1>4. Cycled => Cycled'
  BY DEF Cycled, Place, Length
<1>5. \A a : TNode(a)' = TNode(a) /\ SNode(tau[a])' = SNode(tau[a])
  BY <1>1 DEF TNode, SNode, PlaneOf, LowerEnds
<1>6. \A a : From(a)' = From(a) /\ To(a)' = To(a) /\ Want(a)' = Want(a)
  BY <1>2, <1>5 DEF From, To, Want
<1>7. \A b, a : Meets(b, a)' <=> Meets(b, a)
  BY <1>6 DEF Meets
<1>8. \A uf, b : Agrees(uf, b)' <=> Agrees(uf, b)
  BY <1>2 DEF Agrees
<1>9. \A uf : Forest(uf)' <=> Forest(uf)
  BY <1>2 DEF Forest, Ranked
<1> QED
  BY <1>1, <1>2, <1>3, <1>4, <1>7, <1>8, <1>9

LEMMA OInvInit == SolveInit => OInv
<1> SUFFICES ASSUME SolveInit PROVE OInv
  OBVIOUS
<1>1. IInv /\ f = 0 /\ pc = "scan"
  BY IInvInit DEF SolveInit, Init
<1> QED
  BY <1>1 DEF OInv, MatchPart, LayerPart, ForestPart, RaisedPart, DonePart, Matching, Solving

LEMMA MatchKeeps ==
  ASSUME OInv, Match
  PROVE  OInv'
<1>1. pc \in {"scan", "walk", "match"} /\ pc' \in {"scan", "walk", "match", "matched"} /\ f' = f
  BY DEF Match, ovars, Next, SkipSeen, StartCycle, Walk, Close, EndScan,
         MatchCycle, EndMatch
<1>2. IInv'
  BY <1>1, IInvStep DEF OInv, MatchPart, Matching, Match
<1> QED
  BY <1>1, <1>2 DEF OInv, MatchPart, LayerPart, ForestPart, RaisedPart, DonePart, Matching, Solving

LEMMA SetupKeeps ==
  ASSUME OInv, Setup
  PROVE  OInv'
<1>1. LayersOk /\ Cycled /\ f = 0 /\ n \in Nat
  BY MatchedLayers, MatchedCycles, InputAssumption DEF OInv, MatchPart, Matching, Setup
<1>2. UNCHANGED <<perm, tau, sig, cycles>> /\ pc' = "solve" /\ f' = f
  BY DEF Setup
<1>3. PICK uf : uf = [par |-> par', rel |-> rel']
  OBVIOUS
<1>4. uf.par = [y \in Node |-> y] /\ uf.rel = [y \in Node |-> 0]
  BY <1>3 DEF Setup
<1>5. Forest(uf)
  <2>1. Ranked(uf, [y \in Node |-> 0], 0)
    BY <1>4 DEF Ranked
  <2> QED
    BY <1>4, <2>1 DEF Forest, Bit
<1>6. ASSUME NEW b \in [Node -> Bit] PROVE Agrees(uf, b)
  BY <1>4, XorIs DEF Agrees
<1>7. UF' = uf
  BY <1>3 DEF UF
<1>8. MatchPart' /\ LayerPart' /\ RaisedPart' /\ DonePart'
  BY <1>1, <1>2, Frame DEF MatchPart, LayerPart, RaisedPart, DonePart, Matching, Solving
<1>9. ForestPart'
  <2>1. Forest(uf)' /\ Node' = Node
    BY <1>2, <1>5, Frame
  <2>2. ASSUME NEW b \in [Node -> Bit] PROVE Agrees(uf, b)'
    BY <1>2, <1>6, Frame
  <2>3. \A a \in 0 .. f' - 1 : FALSE
    BY <1>1, <1>2
  <2> QED
    BY <1>7, <2>1, <2>2, <2>3 DEF ForestPart, Bit
<1> QED
  BY <1>8, <1>9 DEF OInv

\* One demand is entered.  When the forest contradicts it, no angles meet the
\* demands of the coordinates up to f.
LEMMA DemandKeeps ==
  ASSUME OInv, pc = "solve", f < n, NEW u, NEW v, NEW w, Demand(u, v, w), w = Want(f),
         (u = From(f) /\ v = To(f)) \/ (u = To(f) /\ v = From(f))
  PROVE  OInv'
<1> DEFINE result == Union(UF, u, v, w)
<1>1. LayersOk /\ Cycled /\ f \in Nat /\ n \in Nat /\ f \in Coord
  BY DEF OInv, LayerPart, Solving, LayersOk, Coord
<1>2. Forest(UF) /\ \A b \in [Node -> Bit] : Agrees(UF, b) <=> \A a \in 0 .. f - 1 : Meets(b, a)
  BY DEF OInv, ForestPart
<1>3. From(f) \in Node /\ To(f) \in Node /\ u \in Node /\ v \in Node
  BY <1>1, Nodes
<1>4. w \in Bit
  BY DEF Want, BitOf, Bit
<1>5. /\ result.ok \in BOOLEAN /\ Forest(result.uf)
      /\ \A b \in [Node -> Bit] :
           IF result.ok
           THEN Agrees(result.uf, b) <=> Agrees(UF, b) /\ Xor(b[u], b[v]) = w
           ELSE ~(Agrees(UF, b) /\ Xor(b[u], b[v]) = w)
  <2>1. PICK g : g = UF
    OBVIOUS
  <2>2. Forest(g)
    BY <1>2, <2>1
  <2>3. u \in Node /\ v \in Node /\ w \in Bit
    BY <1>3, <1>4
  <2>4. PICK res : res = Union(g, u, v, w)
    OBVIOUS
  <2>5. res.ok \in BOOLEAN /\ Forest(res.uf)
    BY <2>2, <2>3, <2>4, UnionProps
  <2>6. ASSUME NEW b \in [Node -> Bit]
        PROVE  IF res.ok
               THEN Agrees(res.uf, b) <=> Agrees(g, b) /\ Xor(b[u], b[v]) = w
               ELSE ~(Agrees(g, b) /\ Xor(b[u], b[v]) = w)
    BY <2>2, <2>3, <2>4, UnionProps
  <2> QED
    BY <2>1, <2>4, <2>5, <2>6
<1>6. /\ par' = result.uf.par /\ rel' = result.uf.rel
      /\ IF result.ok THEN f' = f + 1 /\ pc' = pc ELSE f' = f /\ pc' = "raised"
      /\ UNCHANGED <<perm, tau, sig, cycles>>
  BY DEF Demand, UF
<1> HIDE DEF result
<1>7. PICK uf : uf = UF'
  OBVIOUS
<1>8. uf.par = result.uf.par /\ uf.rel = result.uf.rel
  BY <1>6, <1>7 DEF UF
<1>9. Forest(uf)
  BY <1>5, <1>8 DEF Forest, Ranked
<1>10. \A b : Agrees(uf, b) <=> Agrees(result.uf, b)
  BY <1>8 DEF Agrees
<1>11. ASSUME NEW b \in [Node -> Bit]
       PROVE  IF result.ok THEN Agrees(uf, b) <=> \A a \in 0 .. f : Meets(b, a)
                           ELSE ~ \A a \in 0 .. f : Meets(b, a)
  <2>1. (\A a \in 0 .. f : Meets(b, a)) <=> (\A a \in 0 .. f - 1 : Meets(b, a)) /\ Meets(b, f)
    <3>1. 0 .. f = (0 .. f - 1) \cup {f}
      BY <1>1
    <3> QED
      BY <3>1
  <2>2. Meets(b, f) <=> Xor(b[u], b[v]) = w
    <3>1. b[u] \in Bit /\ b[v] \in Bit
      BY <1>3
    <3>2. Xor(b[u], b[v]) = Xor(b[v], b[u])
      BY <3>1, XorIs
    <3> QED
      BY <3>2 DEF Meets
  <2> QED
    BY <1>2, <1>5, <1>10, <2>1, <2>2
<1>12. CASE result.ok
  <2>1. pc' = "solve" /\ f' = f + 1
    BY <1>6, <1>12
  <2>2. MatchPart' /\ LayerPart' /\ RaisedPart' /\ DonePart'
    <3>1. LayersOk' /\ Cycled' /\ f' \in Nat /\ n' = n /\ f' <= n
      BY <1>1, <1>6, <2>1, Frame
    <3> QED
      BY <2>1, <3>1 DEF MatchPart, LayerPart, RaisedPart, DonePart, Matching, Solving
  <2>3. ForestPart'
    <3>1. Forest(uf)' /\ Node' = Node
      BY <1>6, <1>9, Frame
    <3>2. ASSUME NEW b \in [Node -> Bit]
          PROVE  Agrees(uf, b)' <=> \A a \in 0 .. f' - 1 : Meets(b, a)'
      <4>1. f' - 1 = f
        BY <1>1, <2>1
      <4> QED
        BY <1>6, <1>11, <1>12, <4>1, Frame
    <3> QED
      BY <1>7, <3>1, <3>2 DEF ForestPart, Bit
  <2> QED
    BY <2>2, <2>3 DEF OInv
<1>13. CASE ~result.ok
  <2>1. pc' = "raised" /\ f' = f
    BY <1>6, <1>13
  <2>2. MatchPart' /\ LayerPart' /\ ForestPart' /\ DonePart'
    <3>1. LayersOk' /\ Cycled' /\ f' \in Nat /\ n' = n /\ f' <= n
      BY <1>1, <1>6, <2>1, Frame
    <3> QED
      BY <2>1, <3>1 DEF MatchPart, LayerPart, ForestPart, DonePart, Matching, Solving
  <2>3. RaisedPart'
    <3>1. ASSUME NEW b \in [Node -> Bit] PROVE ~ \A a \in Coord : Meets(b, a)
      <4>1. \A a \in 0 .. f : a \in Coord
        BY <1>1 DEF Coord
      <4> QED
        BY <1>11, <1>13, <4>1
    <3> QED
      BY <1>6, <3>1, Frame DEF RaisedPart, Coord, Bit
  <2> QED
    BY <2>2, <2>3 DEF OInv
<1> QED
  BY <1>12, <1>13

LEMMA SolveKeeps ==
  ASSUME OInv, BothLayers \/ TauOnly \/ SigOnly
  PROVE  OInv'
<1>1. pc = "solve" /\ f < n
  BY DEF BothLayers, TauOnly, SigOnly
<1>2. Demand(From(f), To(f), Want(f)) \/ Demand(To(f), From(f), Want(f))
  <2>1. LayersOk /\ f \in Coord
    <3>1. LayersOk /\ f \in Nat /\ n \in Nat
      BY <1>1 DEF OInv, LayerPart, Solving, LayersOk
    <3> QED
      BY <1>1, <3>1 DEF Coord
  <2>2. tau[f] \in Coord
    BY <2>1 DEF LayersOk
  <2>3. sgn(f, tau[f]) \in {1, -1} /\ sgn(tau[f], perm[f]) \in {1, -1}
    BY DEF sgn
  <2>4. CASE BothLayers
    <3>1. From(f) = TNode(f) /\ To(f) = SNode(tau[f])
      BY <2>4 DEF BothLayers, From, To
    <3>2. Want(f) = BitOf(sgn(f, tau[f]) * sgn(tau[f], perm[f]))
      BY <2>4 DEF BothLayers, Want
    <3> QED
      BY <2>4, <3>1, <3>2 DEF BothLayers
  <2>5. CASE TauOnly
    <3>1. From(f) = TNode(f) /\ To(f) = GND
      BY <2>5 DEF TauOnly, From, To
    <3>2. Want(f) = BitOf(sgn(f, tau[f]) * 1) /\ sgn(f, tau[f]) * 1 = sgn(f, tau[f])
      BY <2>3, <2>5 DEF TauOnly, Want
    <3> QED
      BY <2>5, <3>1, <3>2 DEF TauOnly
  <2>6. CASE SigOnly
    <3>1. From(f) = GND /\ To(f) = SNode(tau[f])
      BY <2>6 DEF SigOnly, From, To
    <3>2. Want(f) = BitOf(1 * sgn(tau[f], perm[f])) /\ 1 * sgn(tau[f], perm[f]) = sgn(tau[f], perm[f])
      BY <2>3, <2>6 DEF SigOnly, Want
    <3>3. Demand(SNode(tau[f]), GND, Want(f))
      BY <2>6, <3>2 DEF SigOnly
    <3> QED
      BY <3>1, <3>3
  <2> QED
    BY <2>4, <2>5, <2>6
<1> QED
  BY <1>1, <1>2, DemandKeeps

LEMMA FixedKeeps ==
  ASSUME OInv, FixedPoint
  PROVE  OInv'
<1>1. /\ pc = "solve" /\ pc' = "solve" /\ f < n /\ f' = f + 1 /\ tau[f] = f /\ perm[f] = f
      /\ UNCHANGED <<perm, tau, sig, cycles, par, rel>>
  BY DEF FixedPoint
<1>2. LayersOk /\ Cycled /\ f \in Nat /\ n \in Nat /\ f \in Coord
  BY <1>1 DEF OInv, LayerPart, Solving, LayersOk, Coord
<1>3. Forest(UF) /\ \A b \in [Node -> Bit] : Agrees(UF, b) <=> \A a \in 0 .. f - 1 : Meets(b, a)
  BY <1>1 DEF OInv, ForestPart
<1>4. From(f) = GND /\ To(f) = GND /\ Want(f) = 0
  BY <1>1 DEF From, To, Want, BitOf
<1>5. ASSUME NEW b \in [Node -> Bit] PROVE Meets(b, f)
  <2>1. b[GND] \in Bit
    BY <1>2, Nodes
  <2> QED
    BY <1>4, <2>1, XorIs DEF Meets
<1>6. 0 .. f' - 1 = (0 .. f - 1) \cup {f}
  BY <1>1, <1>2
<1>7. MatchPart' /\ LayerPart' /\ RaisedPart' /\ DonePart'
  <2>1. LayersOk' /\ Cycled' /\ f' \in Nat /\ n' = n /\ f' <= n
    BY <1>1, <1>2, Frame
  <2> QED
    BY <1>1, <2>1 DEF MatchPart, LayerPart, RaisedPart, DonePart, Matching, Solving
<1>8. ForestPart'
  <2>1. PICK uf : uf = UF
    OBVIOUS
  <2>2. UF' = uf
    BY <1>1, <2>1 DEF UF
  <2>3. Forest(uf)' /\ Node' = Node
    BY <1>1, <1>3, <2>1, Frame
  <2>4. ASSUME NEW b \in [Node -> Bit]
        PROVE  Agrees(uf, b)' <=> \A a \in 0 .. f' - 1 : Meets(b, a)'
    BY <1>1, <1>3, <1>5, <1>6, <2>1, Frame
  <2> QED
    BY <2>2, <2>3, <2>4 DEF ForestPart, Bit
<1> QED
  BY <1>7, <1>8 DEF OInv

\* The parities of find satisfy the forest, whatever the ground has.
LEMMA ParitiesAgree ==
  ASSUME NEW uf, Forest(uf)
  PROVE  ParityIn(uf) \in [Node -> Bit] /\ Agrees(uf, ParityIn(uf))
<1> DEFINE Q == ParityIn(uf)
<1>1. /\ Q \in [Node -> Bit]
      /\ \A y \in Node : Q[y] = IF uf.par[y] = y THEN 0 ELSE Xor(uf.rel[y], Q[uf.par[y]])
  BY Parities
<1> HIDE DEF Q
<1>2. ASSUME NEW y \in Node PROVE Xor(Q[y], Q[uf.par[y]]) = uf.rel[y]
  <2>1. /\ uf.par[y] \in Node /\ uf.rel[y] \in Bit /\ (uf.par[y] = y => uf.rel[y] = 0)
        /\ Q[y] \in Bit /\ Q[uf.par[y]] \in Bit
    BY <1>1 DEF Forest
  <2>2. PICK u \in Bit, v \in Bit, e \in Bit : u = Q[y] /\ v = Q[uf.par[y]] /\ e = uf.rel[y]
    BY <2>1
  <2>3. CASE uf.par[y] = y
    BY <2>1, <2>2, <2>3, XorIs
  <2>4. CASE uf.par[y] # y
    <3>1. u = Xor(e, v)
      BY <1>1, <2>2, <2>4
    <3>2. u = (IF e = v THEN 0 ELSE 1) /\ Xor(u, v) = (IF u = v THEN 0 ELSE 1)
      BY <3>1, XorIs
    <3> QED
      BY <2>2, <3>2 DEF Bit
  <2> QED
    BY <2>3, <2>4
<1> QED
  BY <1>1, <1>2 DEF Agrees, Q

LEMMA AnglesKeeps ==
  ASSUME OInv, Angles
  PROVE  OInv'
<1> DEFINE Q == ParityIn(UF)
<1>1. /\ pc = "solve" /\ pc' = "done" /\ f = n /\ f' = f
      /\ UNCHANGED <<perm, tau, sig, cycles, par, rel>>
      /\ t_ang' = [i \in 0 .. nt - 1 |-> Q[i]]
      /\ s_ang' = [i \in 0 .. ns - 1 |-> Q[nt + i]]
  BY DEF Angles, UF
<1>2. LayersOk /\ Cycled /\ f \in Nat /\ n \in Nat /\ f <= n
  BY <1>1 DEF OInv, LayerPart, Solving, LayersOk
<1>3. Forest(UF) /\ \A b \in [Node -> Bit] : Agrees(UF, b) <=> \A a \in 0 .. f - 1 : Meets(b, a)
  BY <1>1 DEF OInv, ForestPart
<1>4. Q \in [Node -> Bit] /\ Agrees(UF, Q)
  BY <1>3, ParitiesAgree
<1> HIDE DEF Q
<1>5. \A a \in Coord : Meets(Q, a)
  BY <1>1, <1>3, <1>4 DEF Coord
<1>6. MatchPart' /\ LayerPart' /\ ForestPart' /\ RaisedPart'
  <2>1. LayersOk' /\ Cycled' /\ f' \in Nat /\ n' = n /\ f' <= n
    BY <1>1, <1>2, Frame
  <2> QED
    BY <1>1, <2>1 DEF MatchPart, LayerPart, ForestPart, RaisedPart, Matching, Solving
<1>7. DonePart'
  <2>1. PICK b : b = Q
    OBVIOUS
  <2>2. b \in [Node -> Bit]' /\ nt' = nt /\ ns' = ns
    BY <1>1, <1>4, <2>1, Frame DEF Bit
  <2>3. \A a \in Coord : Meets(b, a)'
    BY <1>1, <1>5, <2>1, Frame
  <2>4. t_ang' = [i \in 0 .. nt' - 1 |-> b[i]] /\ s_ang' = [i \in 0 .. ns' - 1 |-> b[nt' + i]]
    BY <1>1, <2>1, <2>2
  <2>5. Coord' = Coord
    BY DEF Coord
  <2> QED
    BY <2>2, <2>3, <2>4, <2>5 DEF DonePart
<1> QED
  BY <1>6, <1>7 DEF OInv

LEMMA OInvStep == OInv /\ [SolveNext]_solveVars => OInv'
<1>1. ASSUME OInv, UNCHANGED solveVars PROVE OInv'
  <2>1. UNCHANGED <<perm, tau, sig, cycles>> /\ pc' = pc /\ f' = f /\ UF' = UF
        /\ t_ang' = t_ang /\ s_ang' = s_ang
    BY <1>1 DEF solveVars, vars, ovars, UF
  <2>2. IInv => IInv'
    <3>1. UNCHANGED vars
      BY <1>1 DEF solveVars
    <3> QED
      BY <3>1, IInvStep
  <2>3. MatchPart'
    BY <1>1, <2>1, <2>2 DEF OInv, MatchPart, Matching, Solving
  <2>4. LayerPart'
    BY <1>1, <2>1, Frame DEF OInv, LayerPart, Solving
  <2>5. ForestPart'
    <3>1. PICK uf : uf = UF
      OBVIOUS
    <3>2. SUFFICES ASSUME pc = "solve"
                   PROVE  /\ Forest(uf)'
                          /\ \A b \in [Node -> Bit]' : Agrees(uf, b)' <=> \A a \in 0 .. f' - 1 : Meets(b, a)'
      BY <2>1, <3>1 DEF ForestPart
    <3>3. Forest(uf) /\ \A b \in [Node -> Bit] : Agrees(uf, b) <=> \A a \in 0 .. f - 1 : Meets(b, a)
      BY <1>1, <3>1, <3>2 DEF OInv, ForestPart
    <3>4. Node' = Node /\ Bit' = Bit
      BY <2>1, Frame DEF Bit
    <3> QED
      BY <2>1, <3>3, <3>4, Frame
  <2>6. RaisedPart'
    BY <1>1, <2>1, Frame DEF OInv, RaisedPart, Coord, Bit
  <2>7. DonePart'
    <3>1. SUFFICES ASSUME pc = "done" PROVE DonePart'
      BY <2>1 DEF DonePart
    <3>2. PICK b \in [Node -> Bit] : /\ \A a \in Coord : Meets(b, a)
                                     /\ t_ang = [i \in 0 .. nt - 1 |-> b[i]]
                                     /\ s_ang = [i \in 0 .. ns - 1 |-> b[nt + i]]
      BY <1>1, <3>1 DEF OInv, DonePart
    <3>3. b \in [Node -> Bit]' /\ nt' = nt /\ ns' = ns
      BY <2>1, <3>2, Frame DEF Bit
    <3>4. \A a \in Coord : Meets(b, a)'
      BY <2>1, <3>2, Frame
    <3>5. t_ang' = [i \in 0 .. nt' - 1 |-> b[i]] /\ s_ang' = [i \in 0 .. ns' - 1 |-> b[nt' + i]]
      BY <2>1, <3>2, <3>3
    <3>6. Coord' = Coord
      BY DEF Coord
    <3> QED
      BY <3>3, <3>4, <3>5, <3>6 DEF DonePart
  <2> QED
    BY <2>3, <2>4, <2>5, <2>6, <2>7 DEF OInv
<1> QED
  BY <1>1, MatchKeeps, SetupKeeps, SolveKeeps, FixedKeeps, AnglesKeeps DEF SolveNext

THEOREM SolveInvariant == SolveSpec => []OInv
<1> QED
  BY OInvInit, OInvStep, PTL DEF SolveSpec

-----------------------------------------------------------------------------
\* The forest says neither more nor less than the demands entered, whatever
\* was linked and compressed on the way.
THEOREM Represents == SolveSpec => []ForestRepresents
<1>1. ASSUME OInv PROVE ForestRepresents
  <2> SUFFICES ASSUME pc = "solve", NEW b \in Assignments
               PROVE  (\A y \in Node : Xor(b[y], b[par[y]]) = rel[y])
                        <=> (\A a \in 0 .. f - 1 : NetSign(b, a) = 1)
    BY DEF ForestRepresents
  <2>1. b \in [Node -> Bit] /\ b[GND] = 0
    BY DEF Assignments
  <2>2. LayersOk /\ f \in Nat /\ f <= n /\ n \in Nat
    BY <1>1 DEF OInv, LayerPart, Solving, LayersOk
  <2>3. Agrees(UF, b) <=> \A a \in 0 .. f - 1 : Meets(b, a)
    BY <1>1, <2>1 DEF OInv, ForestPart
  <2>4. Agrees(UF, b) <=> \A y \in Node : Xor(b[y], b[par[y]]) = rel[y]
    BY DEF Agrees, UF
  <2>5. ASSUME NEW a \in 0 .. f - 1 PROVE NetSign(b, a) = 1 <=> Meets(b, a)
    <3>1. a \in Coord
      BY <2>2 DEF Coord
    <3>2. NetSign(b, a) = (IF Meets(b, a) THEN 1 ELSE -1)
                          * (IF OneLayer(a) /\ b[GND] = 1 THEN -1 ELSE 1)
      BY <2>1, <2>2, <3>1, NetIs
    <3>3. NetSign(b, a) = (IF Meets(b, a) THEN 1 ELSE -1) * 1
      BY <2>1, <3>2
    <3> QED
      BY <3>3
  <2> QED
    BY <2>3, <2>4, <2>5
<1> QED
  BY <1>1, SolveInvariant, PTL

\* A contradiction is met exactly when there is a cycle of even length, and
\* then there is no choice of angles.
THEOREM Raises == SolveSpec => []RaisesIfImpossible
<1>1. ASSUME OInv PROVE RaisesIfImpossible
  <2> DEFINE even == \E j \in 1 .. Len(cycles) : Len(cycles[j]) % 2 = 0
  <2>1. ASSUME pc \in {"raised", "done"}
        PROVE  LayersOk /\ ((\E b \in [Node -> Bit] : \A a \in Coord : Meets(b, a)) <=> ~even)
    <3>1. LayersOk /\ Cycled
      BY <1>1, <2>1 DEF OInv, LayerPart, Solving
    <3> QED
      BY <3>1, SolvableIffOdd
  <2> HIDE DEF even
  <2>2. ASSUME pc = "raised" PROVE even /\ \A b \in Assignments : \E a \in Coord : NetSign(b, a) # 1
    <3>1. \A b \in [Node -> Bit] : ~ \A a \in Coord : Meets(b, a)
      BY <1>1, <2>2 DEF OInv, RaisedPart
    <3>2. even
      BY <2>1, <2>2, <3>1
    <3>3. ASSUME NEW b \in Assignments PROVE \E a \in Coord : NetSign(b, a) # 1
      <4>1. b \in [Node -> Bit] /\ b[GND] = 0 /\ LayersOk
        BY <2>1, <2>2 DEF Assignments
      <4>2. PICK a \in Coord : ~Meets(b, a)
        BY <3>1, <4>1
      <4>3. NetSign(b, a) = (IF Meets(b, a) THEN 1 ELSE -1)
                            * (IF OneLayer(a) /\ b[GND] = 1 THEN -1 ELSE 1)
        BY <4>1, NetIs
      <4>4. NetSign(b, a) = (-1) * 1
        BY <4>1, <4>2, <4>3
      <4> QED
        BY <4>4
    <3> QED
      BY <3>2, <3>3
  <2>3. ASSUME pc = "done" PROVE ~even
    <3>1. \E b \in [Node -> Bit] : \A a \in Coord : Meets(b, a)
      BY <1>1, <2>3 DEF OInv, DonePart
    <3> QED
      BY <2>1, <2>3, <3>1
  <2> QED
    BY <2>2, <2>3 DEF RaisesIfImpossible, even
<1> QED
  BY <1>1, SolveInvariant, PTL

\* The angles returned carry every coordinate that both layers move without a
\* sign, and those that one layer moves all with the same sign.
THEOREM SameSigns == SolveSpec => []SignsUniform
<1>1. ASSUME OInv PROVE SignsUniform
  <2> SUFFICES ASSUME pc = "done"
               PROVE  \E sign \in {1, -1} : \A a \in Coord :
                        NetSign(Chosen, a) = IF (tau[a] = a) # (perm[a] = tau[a]) THEN sign ELSE 1
    BY DEF SignsUniform
  <2>1. LayersOk
    BY <1>1 DEF OInv, LayerPart, Solving
  <2>2. PICK v \in [Node -> Bit] : /\ \A a \in Coord : Meets(v, a)
                                   /\ t_ang = [i \in 0 .. nt - 1 |-> v[i]]
                                   /\ s_ang = [i \in 0 .. ns - 1 |-> v[nt + i]]
    BY <1>1 DEF OInv, DonePart
  <2>3. nt \in Nat /\ ns \in Nat /\ GND \in Nat
    BY <2>1, Nodes
  <2>4. ASSUME NEW y \in Node, y # GND PROVE Chosen[y] = v[y]
    <3>1. y \in Nat /\ y < GND /\ GND = nt + ns
      BY <2>3, <2>4 DEF Node, GND
    <3>2. CASE y < nt
      <4>1. y \in 0 .. nt - 1
        BY <2>3, <3>1, <3>2
      <4> QED
        BY <2>2, <3>2, <4>1 DEF Chosen
    <3>3. CASE ~(y < nt)
      <4>1. y - nt \in 0 .. ns - 1 /\ nt + (y - nt) = y
        BY <2>3, <3>1, <3>3
      <4> QED
        BY <2>2, <3>1, <3>3, <4>1 DEF Chosen
    <3> QED
      BY <3>2, <3>3
  <2>5. PICK sign \in {1, -1} : sign = IF v[GND] = 1 THEN -1 ELSE 1
    OBVIOUS
  <2>6. ASSUME NEW a \in Coord
        PROVE  NetSign(Chosen, a) = IF (tau[a] = a) # (perm[a] = tau[a]) THEN sign ELSE 1
    <3>1. NetSign(Chosen, a) = (IF Meets(v, a) THEN 1 ELSE -1)
                               * (IF OneLayer(a) /\ v[GND] = 1 THEN -1 ELSE 1)
      BY <2>1, <2>4, NetIs
    <3>2. NetSign(Chosen, a) = 1 * (IF OneLayer(a) /\ v[GND] = 1 THEN -1 ELSE 1)
      BY <2>2, <3>1
    <3>3. NetSign(Chosen, a) = IF OneLayer(a) THEN sign ELSE 1
      BY <2>5, <3>2
    <3> QED
      BY <3>3 DEF OneLayer
  <2> QED
    BY <2>6
<1> QED
  BY <1>1, SolveInvariant, PTL

-----------------------------------------------------------------------------
(***************************************************************************)
(* build_stage of colmajor_setup.py, which walks the same cycles: the      *)
(* tables of a stage, for every permutation of any number of features.     *)
(***************************************************************************)
Walking == pc \in {"scan", "walk"}
Staging == pc \in {"stage", "built"}

\* On a cycle of length L: the position after i, and those that i is reflected to.
Succ(i, L)      == (i + 1) % L
Mirror(r, i, L) == (r - i) % L
IsOdd(d)        == Len(d) % 2 = 1

\* The cycles of perm, all of them, and none twice.
Closed ==
  \A j \in 1 .. Len(cycles) : \A i \in 0 .. Len(cycles[j]) - 1 :
    perm[At(cycles[j], i)] = At(cycles[j], Succ(i, Len(cycles[j])))
Distinct ==
  \A j, k \in 1 .. Len(cycles) :
    \A i \in 1 .. Len(cycles[j]), l \in 1 .. Len(cycles[k]) :
      cycles[j][i] = cycles[k][l] => j = k /\ i = l
Covering ==
  \A y \in Coord : \E j \in 1 .. Len(cycles) : \E i \in 1 .. Len(cycles[j]) : cycles[j][i] = y

CyclesInv ==
  /\ perm \in [Coord -> Coord]
  /\ cycles \in Seq(Seq(Coord))
  /\ \A j \in 1 .. Len(cycles) : cycles[j] # <<>>
  /\ Closed /\ Distinct /\ Covering

\* The first m cycles have been reflected by both layers, the even ones left out.
LayersInv ==
  /\ tau \in [Coord -> Coord] /\ sig \in [Coord -> Coord]
  /\ m \in 0 .. Len(cycles)
  /\ \A j \in 1 .. Len(cycles) : \A i \in 0 .. Len(cycles[j]) - 1 :
       LET d == cycles[j]
           turned == j <= m /\ IsOdd(d)
       IN  /\ tau[At(d, i)] = At(d, IF turned THEN Mirror(0, i, Len(d)) ELSE i)
           /\ sig[At(d, i)] = At(d, IF turned THEN Mirror(1, i, Len(d)) ELSE i)

SwapTable(d) == [k \in 1 .. Len(Pairs) |-> SwapEntry(d, Pairs[k].layer, Pairs[k].ab)]
FxTable(d)   == [k \in 1 .. Len(Pairs) |-> FxEntry(d, Pairs[k].layer, Pairs[k].ab)]

\* The 11-cycles among the first h, and no other, have their tables.
StageInv ==
  /\ m = Len(cycles)
  /\ h \in 0 .. Len(cycles)
  /\ cyc_feat \in Seq(Seq(Coord))
  /\ swap = [i \in 1 .. Len(cyc_feat) |-> SwapTable(cyc_feat[i])]
  /\ fx = [i \in 1 .. Len(cyc_feat) |-> FxTable(cyc_feat[i])]
  /\ \A i \in 1 .. Len(cyc_feat) :
       \E j \in 1 .. h : cyc_feat[i] = cycles[j] /\ Len(cycles[j]) = LMAX
  /\ \A j \in 1 .. h : Len(cycles[j]) = LMAX =>
       \E i \in 1 .. Len(cyc_feat) : cyc_feat[i] = cycles[j]

BuildInv ==
  /\ pc \in {"scan", "walk", "match", "stage", "built"}
  /\ Walking => IInv /\ tau = [y \in Coord |-> y] /\ sig = [y \in Coord |-> y]
  /\ ~Walking => CyclesInv /\ LayersInv
  /\ Walking \/ pc = "match" => h = 0 /\ cyc_feat = <<>> /\ swap = <<>> /\ fx = <<>>
  /\ Staging => StageInv
  /\ pc = "built" => h = Len(cycles)

-----------------------------------------------------------------------------
\* A step of the walk is one of PermCycles that leaves the layers alone.
LEMMA CyclesInIs ==
  ASSUME Next, Walking
  PROVE  /\ pc' \in {"scan", "walk", "match"} /\ tau' = tau /\ sig' = sig
         /\ pc' = "match" => pc = "scan" /\ s = n /\ UNCHANGED <<perm, s, cycles, m>>
BY DEF Next, SkipSeen, StartCycle, Walk, Close, EndScan, MatchCycle, EndMatch, Walking

\* When the scan is over, the lists are the cycles of perm.
LEMMA AllCycles ==
  ASSUME IInv, pc = "scan", s = n
  PROVE  CyclesInv
<1>1. perm \in [Coord -> Coord] /\ cycles \in Seq(Seq(Coord))
  BY InputAssumption DEF IInv, Types, InputAssumption, IsPermutation, Coord
<1>2. CyclesClosed
  BY ClosedLemma
<1>3. Distinct
  BY DEF IInv, CycleInv, Distinct
<1>4. Closed /\ \A j \in 1 .. Len(cycles) : cycles[j] # <<>>
  BY <1>2 DEF CyclesClosed, At, Closed, Succ
<1>5. ASSUME NEW y \in Coord
      PROVE  \E j \in 1 .. Len(cycles) : \E i \in 1 .. Len(cycles[j]) : cycles[j][i] = y
  <2>1. y \in Coord /\ y < s
    BY InputAssumption DEF Coord
  <2>2. OnCycle(y)
    BY <2>1 DEF IInv, SeenInv
  <2> QED
    BY <2>2 DEF OnCycle
<1> QED
  BY <1>1, <1>3, <1>4, <1>5 DEF CyclesInv, Covering

\* The lists as sequences.
LEMMA CycleProps ==
  ASSUME CyclesInv, NEW j \in 1 .. Len(cycles)
  PROVE  /\ cycles[j] \in Seq(Coord) /\ Len(cycles[j]) \in Nat \ {0}
         /\ \A i \in 0 .. Len(cycles[j]) - 1 : At(cycles[j], i) \in Coord
         /\ \A i, l \in 0 .. Len(cycles[j]) - 1 : At(cycles[j], i) = At(cycles[j], l) => i = l
<1>1. cycles[j] \in Seq(Coord) /\ cycles[j] # <<>>
  BY DEF CyclesInv
<1>2. Len(cycles[j]) \in Nat \ {0}
  BY <1>1
<1>3. ASSUME NEW i \in 0 .. Len(cycles[j]) - 1 PROVE i + 1 \in 1 .. Len(cycles[j])
  BY <1>2
<1>4. \A i \in 0 .. Len(cycles[j]) - 1 : At(cycles[j], i) \in Coord
  BY <1>1, <1>3 DEF At
<1>5. ASSUME NEW i \in 0 .. Len(cycles[j]) - 1, NEW l \in 0 .. Len(cycles[j]) - 1,
             At(cycles[j], i) = At(cycles[j], l)
      PROVE  i = l
  <2>1. i + 1 = l + 1
    BY <1>3, <1>5 DEF CyclesInv, Distinct, At
  <2> QED
    BY <2>1, <1>2
<1> QED
  BY <1>1, <1>2, <1>4, <1>5

-----------------------------------------------------------------------------
LEMMA InitBuilds ==
  ASSUME BuildInit
  PROVE  BuildInv
<1>1. IInv
  BY IInvInit DEF BuildInit
<1> QED
  BY <1>1 DEF BuildInit, Init, Coord, BuildInv, Walking, Staging

LEMMA CyclesInStep ==
  ASSUME BuildInv, CyclesIn
  PROVE  BuildInv'
<1>1. Next /\ Walking /\ UNCHANGED svars /\ IInv /\ tau = [y \in Coord |-> y] /\ sig = [y \in Coord |-> y]
  BY DEF CyclesIn, BuildInv, Walking
<1>2. /\ pc' \in {"scan", "walk", "match"} /\ tau' = tau /\ sig' = sig
      /\ pc' = "match" => pc = "scan" /\ s = n /\ UNCHANGED <<perm, s, cycles, m>>
  BY <1>1, CyclesInIs
<1>3. IInv'
  BY <1>1, IInvStep
<1>4. ASSUME pc' = "match" PROVE CyclesInv' /\ LayersInv'
  <2>1. CyclesInv
    BY <1>1, <1>2, <1>4, AllCycles
  <2>2. CyclesInv'
    BY <1>2, <1>4, <2>1 DEF CyclesInv, Closed, Distinct, Covering
  <2>3. m = 0
    BY <1>1 DEF IInv, MatchInv, Walking
  <2>4. LayersInv
    <3>1. tau \in [Coord -> Coord] /\ sig \in [Coord -> Coord]
      BY <1>1
    <3>2. Len(cycles) \in Nat
      BY <2>1 DEF CyclesInv
    <3>3. m \in 0 .. Len(cycles) /\ \A j \in 1 .. Len(cycles) : ~(j <= m)
      BY <2>3, <3>2
    <3> QED
      BY <1>1, <2>1, <3>1, <3>3, CycleProps DEF LayersInv
  <2>5. LayersInv'
    BY <1>2, <1>4, <2>4 DEF LayersInv
  <2> QED
    BY <2>2, <2>5
<1>5. h' = h /\ cyc_feat' = cyc_feat /\ swap' = swap /\ fx' = fx
  BY <1>1 DEF svars
<1> QED
  BY <1>1, <1>2, <1>3, <1>4, <1>5 DEF BuildInv, Walking, Staging

\* The planes of one cycle: its elements are reflected, all others stay.
LEMMA PlanesStep ==
  ASSUME BuildInv, PlanesOf
  PROVE  BuildInv'
<1> DEFINE d == cycles[m + 1]
<1>1. /\ pc = "match" /\ m < Len(cycles) /\ m' = m + 1
      /\ UNCHANGED <<perm, pc, s, seen, c, x, cycles, svars>>
      /\ CyclesInv /\ LayersInv
      /\ h = 0 /\ cyc_feat = <<>> /\ swap = <<>> /\ fx = <<>>
  BY DEF BuildInv, PlanesOf, Walking
<1>2. m \in Nat /\ m + 1 \in 1 .. Len(cycles) /\ Len(cycles) \in Nat
  BY <1>1 DEF LayersInv, CyclesInv
<1>3. /\ d \in Seq(Coord) /\ Len(d) \in Nat \ {0} /\ d # <<>>
      /\ \A i \in 0 .. Len(d) - 1 : At(d, i) \in Coord
      /\ \A i, l \in 0 .. Len(d) - 1 : At(d, i) = At(d, l) => i = l
      /\ \A i, l \in 1 .. Len(d) : d[i] = d[l] => i = l
  <2>1. /\ d \in Seq(Coord) /\ Len(d) \in Nat \ {0}
        /\ \A i \in 0 .. Len(d) - 1 : At(d, i) \in Coord
        /\ \A i, l \in 0 .. Len(d) - 1 : At(d, i) = At(d, l) => i = l
    BY <1>1, <1>2, CycleProps
  <2>2. d # <<>>
    BY <1>1, <1>2 DEF CyclesInv
  <2>3. \A i, l \in 1 .. Len(d) : d[i] = d[l] => i = l
    BY <1>1, <1>2 DEF CyclesInv, Distinct
  <2> QED
    BY <2>1, <2>2, <2>3
<1> HIDE DEF d
<1>4. ASSUME NEW inv \in [Coord -> Coord], NEW r \in 0 .. 1
      PROVE  /\ Reflect(inv, d, r) \in [Coord -> Coord]
             /\ \A i \in 0 .. Len(d) - 1 : Reflect(inv, d, r)[At(d, i)] = At(d, Mirror(r, i, Len(d)))
             /\ \A y \in Coord : (\A i \in 0 .. Len(d) - 1 : At(d, i) # y)
                                    => Reflect(inv, d, r)[y] = inv[y]
  BY <1>3, ReflectProps DEF Mirror
<1> DEFINE Turned(inv, r) == IF IsOdd(d) /\ Len(d) > 1 THEN Reflect(inv, d, r) ELSE inv
<1>5. ASSUME NEW inv \in [Coord -> Coord], NEW r \in 0 .. 1,
             \A i \in 0 .. Len(d) - 1 : inv[At(d, i)] = At(d, i)
      PROVE  /\ Turned(inv, r) \in [Coord -> Coord]
             /\ \A i \in 0 .. Len(d) - 1 :
                  Turned(inv, r)[At(d, i)] = At(d, IF IsOdd(d) THEN Mirror(r, i, Len(d)) ELSE i)
             /\ \A y \in Coord : (\A i \in 0 .. Len(d) - 1 : At(d, i) # y)
                                    => Turned(inv, r)[y] = inv[y]
  <2>1. CASE IsOdd(d) /\ Len(d) > 1
    BY <1>4, <1>5, <2>1
  <2>2. CASE Len(d) = 1
    <3>1. \A i \in 0 .. Len(d) - 1 : i = 0 /\ Mirror(r, i, Len(d)) = 0
      BY <2>2 DEF Mirror
    <3> QED
      BY <1>5, <2>2, <3>1
  <2>3. CASE ~(IsOdd(d))
    BY <1>5, <2>3
  <2>4. Len(d) = 1 \/ Len(d) > 1
    <3>1. PICK L \in Nat \ {0} : L = Len(d)
      BY <1>3
    <3>2. L = 1 \/ L > 1
      OBVIOUS
    <3> QED
      BY <3>1, <3>2
  <2> QED
    BY <2>1, <2>2, <2>3, <2>4
<1>6. /\ tau \in [Coord -> Coord] /\ sig \in [Coord -> Coord]
      /\ \A i \in 0 .. Len(d) - 1 : tau[At(d, i)] = At(d, i) /\ sig[At(d, i)] = At(d, i)
  <2>1. ~(m + 1 <= m)
    BY <1>2
  <2> QED
    BY <1>1, <1>2, <2>1 DEF LayersInv, d
<1>7. tau' = Turned(tau, 0) /\ sig' = Turned(sig, 1)
  BY DEF PlanesOf, d, IsOdd
<1> HIDE DEF Turned
<1>8. /\ tau' \in [Coord -> Coord]
      /\ \A i \in 0 .. Len(d) - 1 :
           tau'[At(d, i)] = At(d, IF IsOdd(d) THEN Mirror(0, i, Len(d)) ELSE i)
      /\ \A y \in Coord : (\A i \in 0 .. Len(d) - 1 : At(d, i) # y) => tau'[y] = tau[y]
  <2>1. 0 \in 0 .. 1
    OBVIOUS
  <2>2. tau \in [Coord -> Coord] /\ \A i \in 0 .. Len(d) - 1 : tau[At(d, i)] = At(d, i)
    BY <1>6
  <2> QED
    BY <1>5, <1>7, <2>1, <2>2
<1>9. /\ sig' \in [Coord -> Coord]
      /\ \A i \in 0 .. Len(d) - 1 :
           sig'[At(d, i)] = At(d, IF IsOdd(d) THEN Mirror(1, i, Len(d)) ELSE i)
      /\ \A y \in Coord : (\A i \in 0 .. Len(d) - 1 : At(d, i) # y) => sig'[y] = sig[y]
  <2>1. 1 \in 0 .. 1
    OBVIOUS
  <2>2. sig \in [Coord -> Coord] /\ \A i \in 0 .. Len(d) - 1 : sig[At(d, i)] = At(d, i)
    BY <1>6
  <2> QED
    BY <1>5, <1>7, <2>1, <2>2
<1>10. ASSUME NEW j \in 1 .. Len(cycles), NEW i \in 0 .. Len(cycles[j]) - 1
      PROVE  LET e == cycles[j]
                 turned == j <= m + 1 /\ IsOdd(e)
             IN  /\ tau'[At(e, i)] = At(e, IF turned THEN Mirror(0, i, Len(e)) ELSE i)
                 /\ sig'[At(e, i)] = At(e, IF turned THEN Mirror(1, i, Len(e)) ELSE i)
  <2>1. CASE j = m + 1
    BY <1>8, <1>9, <1>2, <2>1 DEF d
  <2>2. CASE j # m + 1
    <3>1. At(cycles[j], i) \in Coord /\ \A l \in 0 .. Len(d) - 1 : At(d, l) # At(cycles[j], i)
      <4>1. At(cycles[j], i) \in Coord /\ i + 1 \in 1 .. Len(cycles[j])
        BY <1>1, CycleProps
      <4>2. ASSUME NEW l \in 0 .. Len(d) - 1, At(d, l) = At(cycles[j], i) PROVE FALSE
        <5>1. l + 1 \in 1 .. Len(d)
          BY <1>3
        <5> QED
          BY <1>1, <1>2, <2>2, <4>1, <4>2, <5>1 DEF CyclesInv, Distinct, At, d
      <4> QED
        BY <4>1, <4>2
    <3>2. j <= m + 1 <=> j <= m
      BY <1>2, <2>2
    <3> QED
      BY <1>1, <1>8, <1>9, <3>1, <3>2 DEF LayersInv
  <2> QED
    BY <2>1, <2>2
<1>11. LayersInv'
  BY <1>1, <1>2, <1>8, <1>9, <1>10 DEF LayersInv
<1>12. CyclesInv'
  BY <1>1 DEF CyclesInv, Closed, Distinct, Covering
<1> QED
  BY <1>1, <1>11, <1>12 DEF BuildInv, Walking, Staging, svars

-----------------------------------------------------------------------------
\* The positions that the two layers swap with p on a cycle of LMAX.
TauPos(p) == IF p = 0 THEN 0 ELSE 11 - p
RhoPos(p) == IF p <= 1 THEN 1 - p ELSE 12 - p
Position  == 0 .. LMAX - 1

\* A list with tables, as the layers and perm see it.
Eleven(d) ==
  /\ Len(d) = LMAX
  /\ \A p \in Position : /\ At(d, p) \in Coord
                         /\ tau[At(d, p)] = At(d, TauPos(p))
                         /\ sig[At(d, p)] = At(d, RhoPos(p))
                         /\ perm[At(d, p)] = At(d, IF p = 10 THEN 0 ELSE p + 1)
  /\ \A p, q \in Position : At(d, p) = At(d, q) => p = q

LEMMA MirrorEleven ==
  ASSUME NEW p \in Position
  PROVE  /\ Mirror(0, p, LMAX) = TauPos(p) /\ Mirror(1, p, LMAX) = RhoPos(p)
         /\ Succ(p, LMAX) = (IF p = 10 THEN 0 ELSE p + 1)
         /\ TauPos(p) \in Position /\ RhoPos(p) \in Position
         /\ RhoPos(TauPos(p)) = (IF p = 10 THEN 0 ELSE p + 1)
<1>1. p \in 0 .. 10
  BY DEF Position, LMAX
<1>2. (0 - p) % 11 = (IF p = 0 THEN 0 ELSE 11 - p)
  BY <1>1
<1>3. (1 - p) % 11 = (IF p <= 1 THEN 1 - p ELSE 12 - p)
  BY <1>1
<1>4. (p + 1) % 11 = (IF p = 10 THEN 0 ELSE p + 1)
  BY <1>1
<1> QED
  BY <1>1, <1>2, <1>3, <1>4 DEF Mirror, Succ, TauPos, RhoPos, Position, LMAX

LEMMA Reflected ==
  ASSUME CyclesInv, LayersInv, m = Len(cycles),
         NEW j \in 1 .. Len(cycles), Len(cycles[j]) = LMAX
  PROVE  Eleven(cycles[j])
<1>1. 0 .. Len(cycles[j]) - 1 = Position
  BY DEF Position
<1>2. IsOdd(cycles[j])
  BY DEF IsOdd, LMAX
<1>3. j <= m
  BY DEF CyclesInv
<1>4. \A i \in Position : /\ tau[At(cycles[j], i)] = At(cycles[j], Mirror(0, i, LMAX))
                          /\ sig[At(cycles[j], i)] = At(cycles[j], Mirror(1, i, LMAX))
  BY <1>1, <1>2, <1>3 DEF LayersInv
<1>5. \A i \in Position : perm[At(cycles[j], i)] = At(cycles[j], Succ(i, LMAX))
  BY <1>1 DEF CyclesInv, Closed
<1>6. /\ \A i \in Position : At(cycles[j], i) \in Coord
      /\ \A i, l \in Position : At(cycles[j], i) = At(cycles[j], l) => i = l
  BY <1>1, CycleProps
<1>7. ASSUME NEW p \in Position
      PROVE  /\ tau[At(cycles[j], p)] = At(cycles[j], TauPos(p))
             /\ sig[At(cycles[j], p)] = At(cycles[j], RhoPos(p))
             /\ perm[At(cycles[j], p)] = At(cycles[j], IF p = 10 THEN 0 ELSE p + 1)
  <2>1. /\ Mirror(0, p, LMAX) = TauPos(p) /\ Mirror(1, p, LMAX) = RhoPos(p)
        /\ Succ(p, LMAX) = (IF p = 10 THEN 0 ELSE p + 1)
    BY MirrorEleven
  <2>2. /\ tau[At(cycles[j], p)] = At(cycles[j], Mirror(0, p, LMAX))
        /\ sig[At(cycles[j], p)] = At(cycles[j], Mirror(1, p, LMAX))
        /\ perm[At(cycles[j], p)] = At(cycles[j], Succ(p, LMAX))
    BY <1>4, <1>5
  <2> QED
    BY <2>1, <2>2
<1> QED
  BY <1>6, <1>7 DEF Eleven

\* The pairs of a table: k and 11 - k of the first layer, then those of the second.
Pair(k) == IF k <= 5 THEN <<k, 11 - k>> ELSE IF k = 6 THEN <<0, 1>> ELSE <<k - 5, 17 - k>>
Layer(k) == IF k <= 5 THEN "tau" ELSE "rho"

LEMMA PairsAre ==
  /\ Len(TAU_POS) = 5 /\ Len(RHO_POS) = 5 /\ Len(Pairs) = 10 /\ Len(RP) = 10
  /\ \A k \in 1 .. 5 : TAU_POS[k] = Pair(k) /\ RHO_POS[k] = Pair(k + 5)
  /\ \A k \in 1 .. 10 : RP[k] = Pair(k) /\ Pairs[k].layer = Layer(k) /\ Pairs[k].ab = Pair(k)
<1>1. Len(TAU_POS) = 5 /\ \A k \in 1 .. 5 : TAU_POS[k] = <<k, 11 - k>>
  BY DEF TAU_POS
<1>2. Len(RHO_POS) = 5 /\ \A k \in 1 .. 5 : RHO_POS[k] = IF k = 1 THEN <<0, 1>> ELSE <<k, 12 - k>>
  BY DEF RHO_POS
<1>3. Len(RP) = 10 /\ \A k \in 1 .. 10 : RP[k] = Pair(k)
  BY DEF RP, Pair
<1> DEFINE T == [i \in 1 .. 5 |-> [layer |-> "tau", ab |-> TAU_POS[i]]]
           R == [i \in 1 .. 5 |-> [layer |-> "rho", ab |-> RHO_POS[i]]]
<1>4. Pairs = T \o R
  BY <1>1, <1>2 DEF Pairs
<1>5. T \in Seq({T[i] : i \in 1 .. 5} \cup {R[i] : i \in 1 .. 5}) /\ Len(T) = 5
  OBVIOUS
<1>6. R \in Seq({T[i] : i \in 1 .. 5} \cup {R[i] : i \in 1 .. 5}) /\ Len(R) = 5
  OBVIOUS
<1>7. \A i \in 1 .. 5 : /\ T[i].layer = "tau" /\ T[i].ab = TAU_POS[i]
                        /\ R[i].layer = "rho" /\ R[i].ab = RHO_POS[i]
  OBVIOUS
<1> HIDE DEF T, R
<1>8. Len(Pairs) = 10 /\ \A k \in 1 .. 10 : Pairs[k] = IF k <= 5 THEN T[k] ELSE R[k - 5]
  <2>1. PICK A : T \in Seq(A) /\ R \in Seq(A)
    BY <1>5, <1>6
  <2>2. /\ Len(T \o R) = Len(T) + Len(R)
        /\ \A k \in 1 .. Len(T) + Len(R) :
             (T \o R)[k] = IF k <= Len(T) THEN T[k] ELSE R[k - Len(T)]
    BY <2>1, ConcatProperties
  <2>3. 5 + 5 = 10
    OBVIOUS
  <2> QED
    BY <1>4, <1>5, <1>6, <2>2, <2>3
<1>9. \A k \in 1 .. 5 : TAU_POS[k] = Pair(k) /\ RHO_POS[k] = Pair(k + 5)
  <2> TAKE k \in 1 .. 5
  <2>1. TAU_POS[k] = Pair(k)
    BY <1>1 DEF Pair
  <2>2. k = 1 => RHO_POS[k] = Pair(k + 5)
    BY <1>2 DEF Pair
  <2>3. k # 1 => k + 5 > 6 /\ (k + 5) - 5 = k /\ 17 - (k + 5) = 12 - k
    OBVIOUS
  <2>4. k # 1 => RHO_POS[k] = Pair(k + 5)
    BY <1>2, <2>3 DEF Pair
  <2> QED
    BY <2>1, <2>2, <2>4
<1>10. ASSUME NEW k \in 1 .. 10 PROVE Pairs[k].layer = Layer(k) /\ Pairs[k].ab = Pair(k)
  <2>1. CASE k <= 5
    <3>1. k \in 1 .. 5
      BY <2>1
    <3> QED
      BY <3>1, <2>1, <1>7, <1>8, <1>9 DEF Layer
  <2>2. CASE ~(k <= 5)
    <3>1. k - 5 \in 1 .. 5 /\ (k - 5) + 5 = k
      BY <2>2
    <3> QED
      BY <3>1, <2>2, <1>7, <1>8, <1>9 DEF Layer
  <2> QED
    BY <2>1, <2>2
<1> QED
  BY <1>1, <1>2, <1>3, <1>8, <1>9, <1>10

\* A pair joins two positions that its layer swaps.
LEMMA PairIsPlane ==
  ASSUME NEW k \in 1 .. 10
  PROVE  /\ Pair(k)[1] \in Position /\ Pair(k)[2] \in Position /\ Pair(k)[1] # Pair(k)[2]
         /\ k <= 5 => Pair(k)[2] = TauPos(Pair(k)[1]) /\ Pair(k)[1] = TauPos(Pair(k)[2])
         /\ k > 5 => Pair(k)[2] = RhoPos(Pair(k)[1]) /\ Pair(k)[1] = RhoPos(Pair(k)[2])
<1>1. CASE k <= 5
  <2>1. Pair(k)[1] = k /\ Pair(k)[2] = 11 - k
    BY <1>1 DEF Pair
  <2> QED
    BY <1>1, <2>1 DEF TauPos, Position, LMAX
<1>2. CASE k = 6
  <2>1. Pair(k)[1] = 0 /\ Pair(k)[2] = 1
    BY <1>2 DEF Pair
  <2> QED
    BY <1>2, <2>1 DEF RhoPos, Position, LMAX
<1>3. CASE k > 6
  <2>1. Pair(k)[1] = k - 5 /\ Pair(k)[2] = 17 - k
    BY <1>3 DEF Pair
  <2> QED
    BY <1>3, <2>1 DEF RhoPos, Position, LMAX
<1> QED
  BY <1>1, <1>2, <1>3

LEMMA PlaneIn ==
  ASSUME NEW inv, NEW fa \in Coord, NEW fb \in Coord, fa # fb, inv[fa] = fb, inv[fb] = fa
  PROVE  Plane(fa, fb) \in PlanesIn(inv)
<1>1. fa \in Int /\ fb \in Int
  BY DEF Coord
<1>2. fa < fb \/ fb < fa
  BY <1>1
<1>3. CASE fa < fb
  BY <1>3 DEF Plane, PlanesIn
<1>4. CASE fb < fa
  <2>1. ~(fa < fb)
    BY <1>1, <1>4
  <2> QED
    BY <1>4, <2>1 DEF Plane, PlanesIn
<1> QED
  BY <1>2, <1>3, <1>4

LEMMA NeverRaises ==
  ASSUME NEW d, Eleven(d)
  PROVE  ~KeyError(d)
<1>1. ASSUME NEW i \in 1 .. 5
      PROVE  Plane(At(d, TAU_POS[i][1]), At(d, TAU_POS[i][2])) \in PlanesIn(tau)
  <2>1. i \in 1 .. 10 /\ i <= 5 /\ TAU_POS[i] = Pair(i)
    BY PairsAre
  <2>2. PICK a, b : a = Pair(i)[1] /\ b = Pair(i)[2]
    OBVIOUS
  <2>3. a \in Position /\ b \in Position /\ a # b /\ b = TauPos(a) /\ a = TauPos(b)
    BY <2>1, <2>2, PairIsPlane
  <2>4. /\ At(d, a) \in Coord /\ At(d, b) \in Coord /\ At(d, a) # At(d, b)
        /\ tau[At(d, a)] = At(d, b) /\ tau[At(d, b)] = At(d, a)
    BY <2>3 DEF Eleven
  <2> QED
    BY <2>1, <2>2, <2>4, PlaneIn
<1>2. ASSUME NEW i \in 1 .. 5
      PROVE  Plane(At(d, RHO_POS[i][1]), At(d, RHO_POS[i][2])) \in PlanesIn(sig)
  <2>1. i + 5 \in 1 .. 10 /\ i + 5 > 5 /\ RHO_POS[i] = Pair(i + 5)
    BY PairsAre
  <2>2. PICK a, b : a = Pair(i + 5)[1] /\ b = Pair(i + 5)[2]
    OBVIOUS
  <2>3. a \in Position /\ b \in Position /\ a # b /\ b = RhoPos(a) /\ a = RhoPos(b)
    BY <2>1, <2>2, PairIsPlane
  <2>4. /\ At(d, a) \in Coord /\ At(d, b) \in Coord /\ At(d, a) # At(d, b)
        /\ sig[At(d, a)] = At(d, b) /\ sig[At(d, b)] = At(d, a)
    BY <2>3 DEF Eleven
  <2> QED
    BY <2>1, <2>2, <2>4, PlaneIn
<1> QED
  BY <1>1, <1>2, PairsAre DEF KeyError

-----------------------------------------------------------------------------
\* A list of tables with one more appended.
LEMMA AppendAny ==
  ASSUME NEW q, NEW N \in Nat, NEW e, q = [i \in 1 .. N |-> q[i]]
  PROVE  Append(q, e) = [i \in 1 .. N + 1 |-> IF i = N + 1 THEN e ELSE q[i]]
<1>1. PICK A : A = {q[i] : i \in 1 .. N} \cup {e}
  OBVIOUS
<1>2. q \in Seq(A) /\ Len(q) = N /\ e \in A
  <2>1. \A i \in 1 .. N : q[i] \in A
    BY <1>1, Zenon
  <2>2. [i \in 1 .. N |-> q[i]] \in Seq(A) /\ Len([i \in 1 .. N |-> q[i]]) = N
    BY <2>1
  <2> QED
    BY <1>1, <2>2
<1>3. Append(q, e) \in Seq(A) /\ Len(Append(q, e)) = N + 1
  BY <1>2
<1>4. \A i \in 1 .. N + 1 : Append(q, e)[i] = IF i = N + 1 THEN e ELSE q[i]
  BY <1>2
<1> DEFINE F == [i \in 1 .. N + 1 |-> IF i = N + 1 THEN e ELSE q[i]]
<1>5. F \in Seq(A) /\ Len(F) = N + 1
  <2>1. \A i \in 1 .. N + 1 : i = N + 1 \/ i \in 1 .. N
    OBVIOUS
  <2>2. \A i \in 1 .. N + 1 : (IF i = N + 1 THEN e ELSE q[i]) \in A
    BY <1>1, <2>1, Zenon
  <2>3. PICK M \in Nat : M = N + 1
    OBVIOUS
  <2>4. F = [i \in 1 .. M |-> IF i = M THEN e ELSE q[i]]
    BY <2>3
  <2> HIDE DEF F
  <2>5. F \in [1 .. M -> A]
    BY <2>2, <2>3, <2>4
  <2> QED
    BY <2>3, <2>5
<1> QED
  BY <1>3, <1>4, <1>5

LEMMA CyclesKept ==
  ASSUME CyclesInv, LayersInv, UNCHANGED <<perm, cycles, m, tau, sig>>
  PROVE  CyclesInv' /\ LayersInv'
BY DEF CyclesInv, Closed, Distinct, Covering, LayersInv

LEMMA EndPlanesStep ==
  ASSUME BuildInv, EndPlanes
  PROVE  BuildInv'
<1>1. /\ pc = "match" /\ m = Len(cycles) /\ pc' = "stage"
      /\ UNCHANGED <<perm, cycles, m, tau, sig, h, cyc_feat, swap, fx>>
      /\ CyclesInv /\ LayersInv
      /\ h = 0 /\ cyc_feat = <<>> /\ swap = <<>> /\ fx = <<>>
  BY DEF BuildInv, EndPlanes, Walking, svars
<1>2. StageInv'
  <2>1. Len(cycles) \in Nat
    BY <1>1 DEF CyclesInv
  <2>2. /\ m' = Len(cycles') /\ h' = 0 /\ h' \in 0 .. Len(cycles')
        /\ cyc_feat' = <<>> /\ swap' = <<>> /\ fx' = <<>>
    BY <1>1, <2>1
  <2>3. /\ cyc_feat' \in Seq(Seq(Coord)) /\ Len(cyc_feat') = 0
        /\ swap' = [i \in 1 .. Len(cyc_feat') |-> SwapTable(cyc_feat'[i])]
        /\ fx' = [i \in 1 .. Len(cyc_feat') |-> FxTable(cyc_feat'[i])]
    BY <2>2
  <2> QED
    BY <2>2, <2>3 DEF StageInv, SwapTable, FxTable, SwapEntry, FxEntry, At, Coord
<1> QED
  BY <1>1, <1>2, CyclesKept DEF BuildInv, Walking, Staging

LEMMA SkipStep ==
  ASSUME BuildInv, SkipCycle
  PROVE  BuildInv'
<1>1. /\ pc = "stage" /\ h < Len(cycles) /\ Len(cycles[h + 1]) # LMAX /\ h' = h + 1 /\ pc' = pc
      /\ UNCHANGED <<perm, cycles, m, tau, sig, cyc_feat, swap, fx>>
      /\ CyclesInv /\ LayersInv /\ StageInv
  BY DEF BuildInv, SkipCycle, Walking, Staging
<1>2. Len(cycles) \in Nat /\ h \in Nat /\ h' \in 0 .. Len(cycles)
  BY <1>1 DEF CyclesInv, StageInv
<1>3. \A j \in 1 .. h' : j \in 1 .. h \/ j = h + 1
  BY <1>1, <1>2
<1>4. \A j \in 1 .. h : j \in 1 .. h'
  BY <1>1, <1>2
<1>5. StageInv'
  <2>1. \A j \in 1 .. h' : Len(cycles[j]) = LMAX => \E i \in 1 .. Len(cyc_feat) : cyc_feat[i] = cycles[j]
    BY <1>1, <1>3 DEF StageInv
  <2>2. \A i \in 1 .. Len(cyc_feat) :
          \E j \in 1 .. h' : cyc_feat[i] = cycles[j] /\ Len(cycles[j]) = LMAX
    BY <1>1, <1>4 DEF StageInv
  <2>3. /\ m = Len(cycles) /\ cyc_feat \in Seq(Seq(Coord))
        /\ swap = [i \in 1 .. Len(cyc_feat) |-> SwapTable(cyc_feat[i])]
        /\ fx = [i \in 1 .. Len(cyc_feat) |-> FxTable(cyc_feat[i])]
    BY <1>1 DEF StageInv
  <2> HIDE DEF LMAX
  <2> QED
    BY <1>1, <1>2, <2>1, <2>2, <2>3 DEF StageInv, SwapTable, FxTable, SwapEntry, FxEntry
<1> QED
  BY <1>1, <1>5, CyclesKept DEF BuildInv, Walking, Staging

LEMMA StageStep ==
  ASSUME BuildInv, StageCycle
  PROVE  BuildInv'
<1> DEFINE d == cycles[h + 1]
           N == Len(cyc_feat)
<1>1. /\ pc = "stage" /\ h < Len(cycles) /\ Len(d) = LMAX /\ h' = h + 1
      /\ UNCHANGED <<perm, cycles, m, tau, sig>>
      /\ CyclesInv /\ LayersInv /\ StageInv
  BY DEF BuildInv, StageCycle, Walking, Staging
<1>2. Len(cycles) \in Nat /\ h \in Nat /\ h' \in 0 .. Len(cycles) /\ h + 1 \in 1 .. Len(cycles)
  BY <1>1 DEF CyclesInv, StageInv
<1>3. d \in Seq(Coord) /\ ~KeyError(d)
  BY <1>1, <1>2, Reflected, NeverRaises, CycleProps DEF StageInv
<1>4. /\ pc' = pc /\ cyc_feat' = Append(cyc_feat, d)
      /\ swap' = Append(swap, SwapTable(d)) /\ fx' = Append(fx, FxTable(d))
  BY <1>3 DEF StageCycle, SwapTable, FxTable
<1> HIDE DEF d
<1>5. /\ N \in Nat /\ cyc_feat' \in Seq(Seq(Coord)) /\ Len(cyc_feat') = N + 1
      /\ \A i \in 1 .. N : cyc_feat'[i] = cyc_feat[i]
      /\ cyc_feat'[N + 1] = d
  <2>1. cyc_feat \in Seq(Seq(Coord))
    BY <1>1 DEF StageInv
  <2> QED
    BY <2>1, <1>3, <1>4
<1>6. \A i \in 1 .. N + 1 : i = N + 1 \/ i \in 1 .. N
  BY <1>5
<1>7. \A i \in 1 .. N + 1 : cyc_feat'[i] = IF i = N + 1 THEN d ELSE cyc_feat[i]
  BY <1>5, <1>6, Zenon
<1>8. swap' = [i \in 1 .. Len(cyc_feat') |-> SwapTable(cyc_feat'[i])]
  <2>1. swap = [i \in 1 .. N |-> SwapTable(cyc_feat[i])]
    BY <1>1 DEF StageInv
  <2>2. swap = [i \in 1 .. N |-> swap[i]]
    BY <2>1, Zenon
  <2>3. swap' = [i \in 1 .. N + 1 |-> IF i = N + 1 THEN SwapTable(d) ELSE swap[i]]
    BY <1>4, <1>5, <2>2, AppendAny
  <2> QED
    BY <1>5, <1>6, <1>7, <2>1, <2>3
<1>9. fx' = [i \in 1 .. Len(cyc_feat') |-> FxTable(cyc_feat'[i])]
  <2>1. fx = [i \in 1 .. N |-> FxTable(cyc_feat[i])]
    BY <1>1 DEF StageInv
  <2>2. fx = [i \in 1 .. N |-> fx[i]]
    BY <2>1, Zenon
  <2>3. fx' = [i \in 1 .. N + 1 |-> IF i = N + 1 THEN FxTable(d) ELSE fx[i]]
    BY <1>4, <1>5, <2>2, AppendAny
  <2> QED
    BY <1>5, <1>6, <1>7, <2>1, <2>3
<1>10. \A i \in 1 .. N + 1 : \E j \in 1 .. h + 1 : cyc_feat'[i] = cycles[j] /\ Len(cycles[j]) = LMAX
  <2>1. \A i \in 1 .. N : \E j \in 1 .. h : cyc_feat[i] = cycles[j] /\ Len(cycles[j]) = LMAX
    BY <1>1 DEF StageInv
  <2>2. h + 1 \in 1 .. h + 1 /\ \A j \in 1 .. h : j \in 1 .. h + 1
    BY <1>2
  <2> QED
    BY <1>1, <1>6, <1>7, <2>1, <2>2 DEF d
<1>11. \A j \in 1 .. h + 1 : Len(cycles[j]) = LMAX => \E i \in 1 .. N + 1 : cyc_feat'[i] = cycles[j]
  <2>1. \A j \in 1 .. h : Len(cycles[j]) = LMAX => \E i \in 1 .. N : cyc_feat[i] = cycles[j]
    BY <1>1 DEF StageInv
  <2>2. \A j \in 1 .. h + 1 : j = h + 1 \/ j \in 1 .. h
    BY <1>2
  <2>3. N + 1 \in 1 .. N + 1 /\ \A i \in 1 .. N : i \in 1 .. N + 1
    BY <1>5
  <2> QED
    BY <1>5, <2>1, <2>2, <2>3 DEF d
<1>12. StageInv'
  <2> HIDE DEF LMAX
  <2>1. m' = Len(cycles') /\ cycles' = cycles
    BY <1>1 DEF StageInv
  <2> QED
    BY <1>1, <1>2, <1>5, <1>8, <1>9, <1>10, <1>11, <2>1
       DEF StageInv, SwapTable, FxTable, SwapEntry, FxEntry
<1> QED
  BY <1>1, <1>4, <1>12, CyclesKept DEF BuildInv, Walking, Staging

LEMMA BuildInvStep == BuildInv /\ [BuildNext]_buildVars => BuildInv'
<1> SUFFICES ASSUME BuildInv, [BuildNext]_buildVars PROVE BuildInv'
  OBVIOUS
<1>1. CASE EndStage
  <2>1. /\ pc = "stage" /\ h = Len(cycles) /\ pc' = "built"
        /\ UNCHANGED <<perm, cycles, m, tau, sig, h, cyc_feat, swap, fx>>
        /\ CyclesInv /\ LayersInv /\ StageInv
    BY <1>1 DEF BuildInv, EndStage, Walking, Staging, svars
  <2>2. StageInv'
    BY <2>1 DEF StageInv, SwapTable, FxTable, SwapEntry, FxEntry
  <2> QED
    BY <2>1, <2>2, CyclesKept DEF BuildInv, Walking, Staging
<1>2. CASE UNCHANGED buildVars
  <2>1. UNCHANGED <<perm, pc, s, seen, c, x, cycles, m, tau, sig, h, cyc_feat, swap, fx>>
    BY <1>2 DEF buildVars, vars, svars
  <2>2. IInv => IInv'
    <3>1. UNCHANGED vars
      BY <1>2 DEF buildVars
    <3> QED
      BY <3>1, IInvStep
  <2>3. StageInv => StageInv'
    BY <2>1 DEF StageInv, SwapTable, FxTable, SwapEntry, FxEntry
  <2> QED
    BY <2>1, <2>2, <2>3, CyclesKept DEF BuildInv, Walking, Staging
<1> QED
  BY <1>1, <1>2, CyclesInStep, PlanesStep, EndPlanesStep, SkipStep, StageStep DEF BuildNext

\* In every reachable state the lists are the cycles of perm, the layers are
\* reflections of the odd ones, and the tables are those of the 11-cycles.
THEOREM BuildInvariant == BuildSpec => []BuildInv
<1>1. BuildInit => BuildInv
  BY InitBuilds
<1> QED
  BY <1>1, BuildInvStep, PTL DEF BuildSpec

\* No look-up of build_stage raises: the pairs of positions of the tables are
\* planes of tau and of rho, whatever permutation the stage is built for.
THEOREM LookUpsSucceed == BuildSpec => []NoKeyError
<1>1. BuildInv => NoKeyError
  BY DEF BuildInv, NoKeyError
<1> QED
  BY <1>1, BuildInvariant, PTL

-----------------------------------------------------------------------------
\* What the row form makes of feature y, the other feature of its plane being g.
Turned(layer, y, g, vf, vg) ==
  IF y < g THEN TurnedLo(vf, vg, Cos(layer, Plane(y, g)), Sin(layer, Plane(y, g)), 1)
           ELSE TurnedHi(vg, vf, Cos(layer, Plane(y, g)), Sin(layer, Plane(y, g)), 1)

Half == RowLayer([y \in Coord |-> Input(y)], "tau", tau)

LEMMA RowValue ==
  ASSUME NEW y \in Coord, tau \in [Coord -> Coord]
  PROVE  /\ Half[y] = IF tau[y] = y THEN Input(y)
                      ELSE Turned("tau", y, tau[y], Input(y), Input(tau[y]))
         /\ RowForm[y] = IF sig[y] = y THEN Half[y]
                         ELSE Turned("rho", y, sig[y], Half[y], Half[sig[y]])
<1>1. tau[y] \in Coord
  OBVIOUS
<1>2. Half[y] = IF tau[y] = y THEN Input(y)
                ELSE Turned("tau", y, tau[y], Input(y), Input(tau[y]))
  BY <1>1 DEF Half, RowLayer, Turned
<1>3. RowForm[y] = IF sig[y] = y THEN Half[y]
                   ELSE Turned("rho", y, sig[y], Half[y], Half[sig[y]])
  BY DEF RowForm, Half, RowLayer, Turned
<1> QED
  BY <1>2, <1>3

\* A feature that no table holds is on a cycle of length one or of even
\* length, which both layers leave alone.
LEMMA OthersLemma ==
  ASSUME BuildInv
  PROVE  OthersUntouched
<1> SUFFICES ASSUME pc = "built",
                    \A j \in 1 .. Len(cycles) :
                      Len(cycles[j]) \in {1, LMAX} \/ Len(cycles[j]) % 2 = 0,
                    NEW y \in Coord,
                    \A i \in 1 .. Len(cyc_feat), p \in 0 .. LMAX - 1 : y # At(cyc_feat[i], p)
             PROVE  RowForm[y] = Input(y)
  <2> DEFINE tabled == {At(cyc_feat[i], p) : i \in 1 .. Len(cyc_feat), p \in 0 .. LMAX - 1}
             odd == \A i \in 1 .. Len(cycles) : Len(cycles[i]) \in {1, LMAX} \/ Len(cycles[i]) % 2 = 0
  <2>1. ASSUME NEW y \in Coord \ tabled, NEW i \in 1 .. Len(cyc_feat), NEW p \in 0 .. LMAX - 1
        PROVE  y # At(cyc_feat[i], p)
    <3>1. At(cyc_feat[i], p) \in tabled
      OBVIOUS
    <3> QED
      BY <3>1
  <2>2. OthersUntouched <=> (pc = "built" => (odd => \A y \in Coord \ tabled : RowForm[y] = Input(y)))
    BY DEF OthersUntouched
  <2> HIDE DEF tabled
  <2> QED
    BY <2>1, <2>2, Zenon
<1>1. CyclesInv /\ LayersInv /\ StageInv /\ h = Len(cycles)
  BY DEF BuildInv, Walking, Staging
<1>2. PICK j \in 1 .. Len(cycles) : \E l \in 1 .. Len(cycles[j]) : cycles[j][l] = y
  BY <1>1 DEF CyclesInv, Covering
<1>3. PICK l \in 1 .. Len(cycles[j]) : cycles[j][l] = y
  BY <1>2
<1>4. Len(cycles[j]) \in Nat \ {0}
  BY <1>1, CycleProps
<1>5. PICK k \in 0 .. Len(cycles[j]) - 1 : At(cycles[j], k) = y
  <2>1. l - 1 \in 0 .. Len(cycles[j]) - 1 /\ (l - 1) + 1 = l
    BY <1>4
  <2> QED
    BY <1>3, <2>1 DEF At
<1>6. Len(cycles[j]) # LMAX
  <2> SUFFICES ASSUME Len(cycles[j]) = LMAX PROVE FALSE
    OBVIOUS
  <2>1. PICK i \in 1 .. Len(cyc_feat) : cyc_feat[i] = cycles[j]
    BY <1>1 DEF StageInv
  <2> QED
    BY <1>5, <2>1
<1>7. tau[y] = y /\ sig[y] = y
  <2>1. j <= m
    BY <1>1 DEF StageInv, CyclesInv
  <2>2. /\ tau[y] = At(cycles[j], IF IsOdd(cycles[j]) THEN Mirror(0, k, Len(cycles[j])) ELSE k)
        /\ sig[y] = At(cycles[j], IF IsOdd(cycles[j]) THEN Mirror(1, k, Len(cycles[j])) ELSE k)
    BY <1>1, <1>5, <2>1 DEF LayersInv
  <2>3. CASE Len(cycles[j]) = 1
    <3>1. k = 0 /\ Mirror(0, k, 1) = 0 /\ Mirror(1, k, 1) = 0
      BY <1>5, <2>3 DEF Mirror
    <3> QED
      BY <1>5, <2>2, <2>3, <3>1
  <2>4. CASE Len(cycles[j]) % 2 = 0
    <3>1. ~IsOdd(cycles[j])
      <4>1. 0 # 1
        OBVIOUS
      <4> QED
        BY <2>4, <4>1, Zenon DEF IsOdd
    <3> QED
      BY <1>5, <2>2, <3>1
  <2> QED
    BY <1>6, <2>3, <2>4
<1> QED
  BY <1>1, <1>7, RowValue DEF LayersInv

\* When the only odd cycles are fixed points and 11-cycles, the features
\* outside the tables keep their values in the row form, for every permutation.
THEOREM OthersStay == BuildSpec => []OthersUntouched
BY OthersLemma, BuildInvariant, PTL

-----------------------------------------------------------------------------
\* One rotation of the values v of cycle d, seen from the features it joins.
PairTurn(v, d, layer, a, b) ==
  [p \in Position |->
     IF p = a THEN Turned(layer, At(d, a), At(d, b), v[a], v[b])
     ELSE IF p = b THEN Turned(layer, At(d, b), At(d, a), v[b], v[a])
     ELSE v[p]]

LEMMA TurnIs ==
  ASSUME NEW v, v = [p \in Position |-> v[p]], NEW a \in Position, NEW b \in Position, a # b,
         NEW cs, NEW sn, NEW sign
  PROVE  Turn(v, a, b, cs, sn, sign) =
           [p \in Position |-> IF p = a THEN TurnedLo(v[a], v[b], cs, sn, sign)
                               ELSE IF p = b THEN TurnedHi(v[a], v[b], cs, sn, sign)
                               ELSE v[p]]
<1>1. PICK lo, hi : lo = TurnedLo(v[a], v[b], cs, sn, sign) /\ hi = TurnedHi(v[a], v[b], cs, sn, sign)
  OBVIOUS
<1>2. Turn(v, a, b, cs, sn, sign) = [v EXCEPT ![a] = lo, ![b] = hi]
  BY <1>1 DEF Turn
<1>3. [v EXCEPT ![a] = lo, ![b] = hi] =
        [p \in Position |-> IF p = a THEN lo ELSE IF p = b THEN hi ELSE v[p]]
  OBVIOUS
<1> QED
  BY <1>1, <1>2, <1>3

LEMMA PlaneSym ==
  ASSUME NEW fa \in Coord, NEW fb \in Coord, fa # fb
  PROVE  Plane(fa, fb) = Plane(fb, fa) /\ (fb < fa <=> ~(fa < fb))
BY DEF Plane, Coord

\* The positions of a swap entry are put in the order of their features.
LEMMA SwapTurn ==
  ASSUME NEW v, v = [p \in Position |-> v[p]], NEW d, Eleven(d),
         NEW k \in 1 .. 10, NEW layer, NEW e, e = SwapEntry(d, layer, Pair(k))
  PROVE  Turn(v, e.lo, e.hi, e.cs, e.sn, 1) = PairTurn(v, d, layer, Pair(k)[1], Pair(k)[2])
<1>1. PICK a, b : a = Pair(k)[1] /\ b = Pair(k)[2]
  OBVIOUS
<1>2. PICK fa, fb : fa = At(d, a) /\ fb = At(d, b)
  OBVIOUS
<1>3. a \in Position /\ b \in Position /\ a # b
  BY <1>1, PairIsPlane
<1>4. fa \in Coord /\ fb \in Coord /\ fa # fb
  BY <1>2, <1>3 DEF Eleven
<1>5. PICK cs, sn : cs = Cos(layer, Plane(fa, fb)) /\ sn = Sin(layer, Plane(fa, fb))
  OBVIOUS
<1>6. /\ e.lo = IF fa < fb THEN a ELSE b
      /\ e.hi = IF fa < fb THEN b ELSE a
      /\ e.cs = cs /\ e.sn = sn
  BY <1>1, <1>2, <1>5 DEF SwapEntry
<1>7. PairTurn(v, d, layer, a, b) =
        [p \in Position |-> IF p = a THEN Turned(layer, fa, fb, v[a], v[b])
                            ELSE IF p = b THEN Turned(layer, fb, fa, v[b], v[a])
                            ELSE v[p]]
  BY <1>2 DEF PairTurn
<1>8. Plane(fb, fa) = Plane(fa, fb) /\ (fb < fa <=> ~(fa < fb))
  BY <1>4, PlaneSym
<1>9. CASE fa < fb
  <2>1. /\ Turned(layer, fa, fb, v[a], v[b]) = TurnedLo(v[a], v[b], cs, sn, 1)
        /\ Turned(layer, fb, fa, v[b], v[a]) = TurnedHi(v[a], v[b], cs, sn, 1)
    BY <1>5, <1>8, <1>9 DEF Turned
  <2>2. Turn(v, a, b, cs, sn, 1) = PairTurn(v, d, layer, a, b)
    BY <1>3, <1>7, <2>1, TurnIs
  <2> QED
    BY <1>1, <1>6, <1>9, <2>2
<1>10. CASE ~(fa < fb)
  <2>1. /\ Turned(layer, fa, fb, v[a], v[b]) = TurnedHi(v[b], v[a], cs, sn, 1)
        /\ Turned(layer, fb, fa, v[b], v[a]) = TurnedLo(v[b], v[a], cs, sn, 1)
    BY <1>5, <1>8, <1>10 DEF Turned
  <2>2. Turn(v, b, a, cs, sn, 1) =
          [p \in Position |-> IF p = b THEN TurnedLo(v[b], v[a], cs, sn, 1)
                              ELSE IF p = a THEN TurnedHi(v[b], v[a], cs, sn, 1)
                              ELSE v[p]]
    BY <1>3, TurnIs
  <2>3. Turn(v, b, a, cs, sn, 1) = PairTurn(v, d, layer, a, b)
    BY <1>3, <1>7, <2>1, <2>2
  <2> QED
    BY <1>1, <1>6, <1>10, <2>3
<1> QED
  BY <1>9, <1>10

\* The literal positions are not put in order: the sign of the sine makes up for it.
LEMMA FxTurn ==
  ASSUME NEW v, v = [p \in Position |-> v[p]], NEW d, Eleven(d),
         NEW k \in 1 .. 10, NEW layer, NEW e, e = FxEntry(d, layer, Pair(k))
  PROVE  Turn(v, Pair(k)[1], Pair(k)[2], e.cs, e.sn, e.sign)
           = PairTurn(v, d, layer, Pair(k)[1], Pair(k)[2])
<1>1. PICK a, b : a = Pair(k)[1] /\ b = Pair(k)[2]
  OBVIOUS
<1>2. PICK fa, fb : fa = At(d, a) /\ fb = At(d, b)
  OBVIOUS
<1>3. a \in Position /\ b \in Position /\ a # b
  BY <1>1, PairIsPlane
<1>4. fa \in Coord /\ fb \in Coord /\ fa # fb
  BY <1>2, <1>3 DEF Eleven
<1>5. PICK cs, sn : cs = Cos(layer, Plane(fa, fb)) /\ sn = Sin(layer, Plane(fa, fb))
  OBVIOUS
<1>6. e.sign = (IF fa < fb THEN 1 ELSE -1) /\ e.cs = cs /\ e.sn = sn
  BY <1>1, <1>2, <1>5 DEF FxEntry
<1>7. PairTurn(v, d, layer, a, b) =
        [p \in Position |-> IF p = a THEN Turned(layer, fa, fb, v[a], v[b])
                            ELSE IF p = b THEN Turned(layer, fb, fa, v[b], v[a])
                            ELSE v[p]]
  BY <1>2 DEF PairTurn
<1>8. Plane(fb, fa) = Plane(fa, fb) /\ (fb < fa <=> ~(fa < fb))
  BY <1>4, PlaneSym
<1>9. CASE fa < fb
  <2>1. /\ Turned(layer, fa, fb, v[a], v[b]) = TurnedLo(v[a], v[b], cs, sn, 1)
        /\ Turned(layer, fb, fa, v[b], v[a]) = TurnedHi(v[a], v[b], cs, sn, 1)
    BY <1>5, <1>8, <1>9 DEF Turned
  <2>2. Turn(v, a, b, cs, sn, 1) = PairTurn(v, d, layer, a, b)
    BY <1>3, <1>7, <2>1, TurnIs
  <2> QED
    BY <1>1, <1>6, <1>9, <2>2
<1>10. CASE ~(fa < fb)
  <2>1. /\ Turned(layer, fa, fb, v[a], v[b]) = TurnedHi(v[b], v[a], cs, sn, 1)
        /\ Turned(layer, fb, fa, v[b], v[a]) = TurnedLo(v[b], v[a], cs, sn, 1)
    BY <1>5, <1>8, <1>10 DEF Turned
  <2>2. -(-1) = 1
    <3>1. PICK z \in Int : z + 1 = 0
      <4>1. -1 \in Int /\ -1 + 1 = 0
        OBVIOUS
      <4> QED
        BY <4>1
    <3>2. z = -1 /\ -z = 1
      BY <3>1
    <3> QED
      BY <3>2, Zenon
  <2>3. /\ TurnedLo(v[a], v[b], cs, sn, -1) = TurnedHi(v[b], v[a], cs, sn, 1)
        /\ TurnedHi(v[a], v[b], cs, sn, -1) = TurnedLo(v[b], v[a], cs, sn, 1)
    BY <2>2 DEF TurnedLo, TurnedHi
  <2>4. Turn(v, a, b, cs, sn, -1) = PairTurn(v, d, layer, a, b)
    BY <1>3, <1>7, <2>1, <2>3, TurnIs
  <2> QED
    BY <1>1, <1>6, <1>10, <2>4
<1> QED
  BY <1>9, <1>10

-----------------------------------------------------------------------------
\* The pair of the first layer that turns position p, and that of the second.
TauTurn(p) == IF p <= 5 THEN p ELSE 11 - p
RhoTurn(p) == IF p <= 1 THEN 6 ELSE IF p <= 5 THEN p + 5 ELSE 17 - p

\* The values of the features of d after k pairs.
AfterPairs(d, k) ==
  [p \in Position |-> IF k < TauTurn(p) THEN Input(At(d, p))
                      ELSE IF k < RhoTurn(p) THEN Half[At(d, p)]
                      ELSE RowForm[At(d, p)]]

LEMMA TurnOf ==
  ASSUME NEW k \in 1 .. 10, NEW p \in Position
  PROVE  /\ TauTurn(p) \in 0 .. 5 /\ RhoTurn(p) \in 6 .. 11
         /\ k <= 5 => (TauTurn(p) = k <=> p = Pair(k)[1] \/ p = Pair(k)[2])
         /\ k > 5 => (RhoTurn(p) = k <=> p = Pair(k)[1] \/ p = Pair(k)[2])
<1>1. p \in 0 .. 10
  BY DEF Position, LMAX
<1>2. TauTurn(p) \in 0 .. 5 /\ RhoTurn(p) \in 6 .. 11
  BY <1>1 DEF TauTurn, RhoTurn
<1>3. CASE k <= 5
  <2>1. Pair(k)[1] = k /\ Pair(k)[2] = 11 - k
    BY <1>3 DEF Pair
  <2> QED
    BY <1>1, <1>2, <1>3, <2>1 DEF TauTurn
<1>4. CASE k = 6
  <2>1. Pair(k)[1] = 0 /\ Pair(k)[2] = 1
    BY <1>4 DEF Pair
  <2> QED
    BY <1>1, <1>2, <1>4, <2>1 DEF RhoTurn
<1>5. CASE k > 6
  <2>1. Pair(k)[1] = k - 5 /\ Pair(k)[2] = 17 - k
    BY <1>5 DEF Pair
  <2> QED
    BY <1>1, <1>2, <1>5, <2>1 DEF RhoTurn
<1> QED
  BY <1>3, <1>4, <1>5

LEMMA AfterStart ==
  ASSUME NEW d, Eleven(d), tau \in [Coord -> Coord]
  PROVE  AfterPairs(d, 0) = Loaded(d)
<1>1. ASSUME NEW p \in Position
      PROVE  (IF 0 < TauTurn(p) THEN Input(At(d, p))
              ELSE IF 0 < RhoTurn(p) THEN Half[At(d, p)] ELSE RowForm[At(d, p)])
               = Input(At(d, p))
  <2>1. TauTurn(p) \in 0 .. 5 /\ RhoTurn(p) \in 6 .. 11
    BY TurnOf
  <2>2. CASE p = 0
    <3>1. At(d, p) \in Coord /\ tau[At(d, p)] = At(d, p)
      BY <2>2 DEF Eleven, TauPos
    <3>2. Half[At(d, p)] = Input(At(d, p))
      BY <3>1, RowValue
    <3> QED
      BY <2>1, <3>2
  <2>3. CASE p # 0
    <3>1. 0 < TauTurn(p)
      BY <2>3 DEF TauTurn, Position, LMAX
    <3> QED
      BY <3>1
  <2> QED
    BY <2>2, <2>3
<1> QED
  BY <1>1 DEF AfterPairs, Loaded, Position

LEMMA AfterEnd ==
  ASSUME NEW d, Eleven(d), tau \in [Coord -> Coord], NEW p \in Position
  PROVE  AfterPairs(d, 10)[p] = RowForm[At(d, p)]
<1>1. TauTurn(p) \in 0 .. 5 /\ RhoTurn(p) \in 6 .. 11
  BY TurnOf
<1>2. AfterPairs(d, 10)[p] = IF 10 < RhoTurn(p) THEN Half[At(d, p)] ELSE RowForm[At(d, p)]
  BY <1>1 DEF AfterPairs
<1>3. CASE p = 6
  <2>1. At(d, p) \in Coord /\ sig[At(d, p)] = At(d, p)
    BY <1>3 DEF Eleven, RhoPos
  <2>2. RowForm[At(d, p)] = Half[At(d, p)]
    BY <2>1, RowValue
  <2> QED
    BY <1>2, <2>2
<1>4. CASE p # 6
  <2>1. RhoTurn(p) <= 10
    BY <1>4 DEF RhoTurn, Position, LMAX
  <2>2. ~(10 < RhoTurn(p))
    BY <1>1, <2>1
  <2> QED
    BY <1>2, <2>2
<1> QED
  BY <1>3, <1>4

\* A pair turns two features by what the row form says, and no other.
LEMMA AfterTurn ==
  ASSUME NEW d, Eleven(d), tau \in [Coord -> Coord], NEW k \in 1 .. 10
  PROVE  AfterPairs(d, k) = PairTurn(AfterPairs(d, k - 1), d, Layer(k), Pair(k)[1], Pair(k)[2])
<1>1. PICK a, b : a = Pair(k)[1] /\ b = Pair(k)[2]
  OBVIOUS
<1>2. a \in Position /\ b \in Position /\ a # b
  BY <1>1, PairIsPlane
<1>3. PICK fa, fb : fa = At(d, a) /\ fb = At(d, b)
  OBVIOUS
<1>4. fa \in Coord /\ fb \in Coord /\ fa # fb
  BY <1>2, <1>3 DEF Eleven
<1> DEFINE v == AfterPairs(d, k - 1)
           w == AfterPairs(d, k)
<1>5. /\ w[a] = Turned(Layer(k), fa, fb, v[a], v[b])
      /\ w[b] = Turned(Layer(k), fb, fa, v[b], v[a])
      /\ \A p \in Position : p # a /\ p # b => w[p] = v[p]
  <2>1. CASE k <= 5
    <3>1. \A p \in Position : /\ TauTurn(p) \in 0 .. 5 /\ RhoTurn(p) \in 6 .. 11
                              /\ (TauTurn(p) = k <=> p = a \/ p = b)
      BY <1>1, <2>1, TurnOf
    <3>2. /\ v[a] = Input(fa) /\ v[b] = Input(fb)
          /\ w[a] = Half[fa] /\ w[b] = Half[fb]
      <4>1. \A p \in {a, b} : /\ k - 1 < TauTurn(p) /\ ~(k < TauTurn(p)) /\ k < RhoTurn(p)
        BY <1>2, <2>1, <3>1
      <4> QED
        BY <1>2, <1>3, <4>1 DEF AfterPairs
    <3>3. ASSUME NEW p \in Position, p # a, p # b PROVE w[p] = v[p]
      <4>1. (k - 1 < TauTurn(p) <=> k < TauTurn(p)) /\ k - 1 < RhoTurn(p) /\ k < RhoTurn(p)
        BY <2>1, <3>1, <3>3
      <4> QED
        BY <4>1 DEF AfterPairs
    <3>4. tau[fa] = fb /\ tau[fb] = fa
      BY <1>1, <1>2, <1>3, <2>1, PairIsPlane DEF Eleven
    <3>5. /\ Half[fa] = Turned("tau", fa, fb, Input(fa), Input(fb))
          /\ Half[fb] = Turned("tau", fb, fa, Input(fb), Input(fa))
      BY <1>4, <3>4, RowValue
    <3>6. Layer(k) = "tau"
      BY <2>1 DEF Layer
    <3> QED
      BY <3>2, <3>3, <3>5, <3>6
  <2>2. CASE k > 5
    <3>1. \A p \in Position : /\ TauTurn(p) \in 0 .. 5 /\ RhoTurn(p) \in 6 .. 11
                              /\ (RhoTurn(p) = k <=> p = a \/ p = b)
      BY <1>1, <2>2, TurnOf
    <3>2. /\ v[a] = Half[fa] /\ v[b] = Half[fb]
          /\ w[a] = RowForm[fa] /\ w[b] = RowForm[fb]
      <4>1. \A p \in {a, b} : /\ ~(k - 1 < TauTurn(p)) /\ ~(k < TauTurn(p))
                              /\ k - 1 < RhoTurn(p) /\ ~(k < RhoTurn(p))
        BY <1>2, <2>2, <3>1
      <4> QED
        BY <1>2, <1>3, <4>1 DEF AfterPairs
    <3>3. ASSUME NEW p \in Position, p # a, p # b PROVE w[p] = v[p]
      <4>1. /\ ~(k - 1 < TauTurn(p)) /\ ~(k < TauTurn(p))
            /\ (k - 1 < RhoTurn(p) <=> k < RhoTurn(p))
        BY <2>2, <3>1, <3>3
      <4> QED
        BY <4>1 DEF AfterPairs
    <3>4. sig[fa] = fb /\ sig[fb] = fa
      BY <1>1, <1>2, <1>3, <2>2, PairIsPlane DEF Eleven
    <3>5. /\ RowForm[fa] = Turned("rho", fa, fb, Half[fa], Half[fb])
          /\ RowForm[fb] = Turned("rho", fb, fa, Half[fb], Half[fa])
      BY <1>4, <3>4, RowValue
    <3>6. Layer(k) = "rho"
      BY <2>2 DEF Layer
    <3> QED
      BY <3>2, <3>3, <3>5, <3>6
  <2> QED
    BY <2>1, <2>2
<1>6. w = [p \in Position |-> w[p]]
  BY DEF AfterPairs
<1> HIDE DEF v, w
<1>7. w = [p \in Position |-> IF p = a THEN Turned(Layer(k), fa, fb, v[a], v[b])
                              ELSE IF p = b THEN Turned(Layer(k), fb, fa, v[b], v[a])
                              ELSE v[p]]
  BY <1>5, <1>6
<1> QED
  BY <1>1, <1>3, <1>7 DEF PairTurn, v, w

\* A form that starts from the inputs and does one pair after another.
LEMMA TenPairs ==
  ASSUME NEW d, NEW F, F[0] = AfterPairs(d, 0),
         \A k \in 1 .. 10 : F[k - 1] = AfterPairs(d, k - 1) => F[k] = AfterPairs(d, k)
  PROVE  F[10] = AfterPairs(d, 10)
<1> DEFINE Ok(k) == F[k] = AfterPairs(d, k)
<1>1. Ok(0) /\ \A k \in 1 .. 10 : Ok(k - 1) => Ok(k)
  OBVIOUS
<1> HIDE DEF Ok
<1>2. /\ (Ok(0) => Ok(1)) /\ (Ok(1) => Ok(2)) /\ (Ok(2) => Ok(3)) /\ (Ok(3) => Ok(4)) /\ (Ok(4) => Ok(5))
      /\ (Ok(5) => Ok(6)) /\ (Ok(6) => Ok(7)) /\ (Ok(7) => Ok(8)) /\ (Ok(8) => Ok(9)) /\ (Ok(9) => Ok(10))
  <2>1. ASSUME NEW k \in 1 .. 10, NEW l, l = k - 1 PROVE Ok(l) => Ok(k)
    BY <1>1, <2>1
  <2>2. /\ 0 = 1 - 1 /\ 1 = 2 - 1 /\ 2 = 3 - 1 /\ 3 = 4 - 1 /\ 4 = 5 - 1
        /\ 5 = 6 - 1 /\ 6 = 7 - 1 /\ 7 = 8 - 1 /\ 8 = 9 - 1 /\ 9 = 10 - 1
    OBVIOUS
  <2> QED
    BY <2>1, <2>2
<1> QED
  BY <1>1, <1>2 DEF Ok

\* The swap form: its entries exist, and after k of them the values are AfterPairs.
LEMMA SwapFormIs ==
  ASSUME NEW i, NEW d, d = cyc_feat[i], Eleven(d), tau \in [Coord -> Coord], swap[i] = SwapTable(d)
  PROVE  SwapForm(i) = AfterPairs(d, 10)
<1> DEFINE T == swap[i]
           Rec(y) == [k \in 0 .. Len(T) |->
                        IF k = 0 THEN Loaded(d)
                        ELSE LET e == T[k] IN Turn(y[k - 1], e.lo, e.hi, e.cs, e.sn, 1)]
           G == [k \in 0 .. 10 |-> AfterPairs(d, k)]
           S == CHOOSE y : y = Rec(y)
<1>1. SwapForm(i) = S[Len(T)]
  BY DEF SwapForm
<1>2. Len(T) = 10 /\ \A k \in 1 .. 10 : T[k] = SwapEntry(d, Layer(k), Pair(k))
  BY PairsAre DEF SwapTable
<1> HIDE DEF T
<1>3. ASSUME NEW k \in 1 .. 10, NEW v, v = AfterPairs(d, k - 1), NEW e, e = T[k]
      PROVE  Turn(v, e.lo, e.hi, e.cs, e.sn, 1) = AfterPairs(d, k)
  <2>1. v = [p \in Position |-> v[p]]
    BY <1>3 DEF AfterPairs
  <2>2. e = SwapEntry(d, Layer(k), Pair(k))
    BY <1>2, <1>3
  <2> QED
    BY <1>3, <2>1, <2>2, SwapTurn, AfterTurn
<1>4. AfterPairs(d, 0) = Loaded(d)
  BY AfterStart
<1>5. G = Rec(G)
  <2>1. ASSUME NEW k \in 0 .. 10
        PROVE  AfterPairs(d, k) = IF k = 0 THEN Loaded(d)
                                  ELSE LET e == T[k] IN Turn(G[k - 1], e.lo, e.hi, e.cs, e.sn, 1)
    <3>1. CASE k = 0
      BY <1>4, <3>1
    <3>2. CASE k # 0
      <4>1. k \in 1 .. 10 /\ k - 1 \in 0 .. 10
        BY <3>2
      <4>2. G[k - 1] = AfterPairs(d, k - 1)
        BY <4>1
      <4> QED
        BY <1>3, <3>2, <4>1, <4>2
    <3> QED
      BY <3>1, <3>2
  <2> QED
    BY <1>2, <2>1
<1> HIDE DEF Rec, G
<1>6. S = Rec(S)
  BY <1>5
<1> HIDE DEF S
<1>7. /\ S[0] = Loaded(d)
      /\ \A k \in 1 .. 10 : S[k] = LET e == T[k] IN Turn(S[k - 1], e.lo, e.hi, e.cs, e.sn, 1)
  BY <1>2, <1>6 DEF Rec
<1>8. S[10] = AfterPairs(d, 10)
  BY <1>3, <1>4, <1>7, TenPairs
<1> QED
  BY <1>1, <1>2, <1>8

LEMMA FxFormIs ==
  ASSUME NEW i, NEW d, d = cyc_feat[i], Eleven(d), tau \in [Coord -> Coord], fx[i] = FxTable(d)
  PROVE  FxForm(i) = AfterPairs(d, 10)
<1> DEFINE T == fx[i]
           Rec(y) == [k \in 0 .. Len(RP) |->
                        IF k = 0 THEN Loaded(d)
                        ELSE LET e == T[k]
                             IN  Turn(y[k - 1], RP[k][1], RP[k][2], e.cs, e.sn, e.sign)]
           G == [k \in 0 .. 10 |-> AfterPairs(d, k)]
           S == CHOOSE y : y = Rec(y)
<1>1. FxForm(i) = S[Len(RP)]
  BY DEF FxForm
<1>2. Len(RP) = 10 /\ \A k \in 1 .. 10 : T[k] = FxEntry(d, Layer(k), Pair(k)) /\ RP[k] = Pair(k)
  BY PairsAre DEF FxTable
<1> HIDE DEF T
<1>3. ASSUME NEW k \in 1 .. 10, NEW v, v = AfterPairs(d, k - 1), NEW e, e = T[k]
      PROVE  Turn(v, RP[k][1], RP[k][2], e.cs, e.sn, e.sign) = AfterPairs(d, k)
  <2>1. v = [p \in Position |-> v[p]]
    BY <1>3 DEF AfterPairs
  <2>2. e = FxEntry(d, Layer(k), Pair(k)) /\ RP[k] = Pair(k)
    BY <1>2, <1>3
  <2> QED
    BY <1>3, <2>1, <2>2, FxTurn, AfterTurn
<1>4. AfterPairs(d, 0) = Loaded(d)
  BY AfterStart
<1>5. G = Rec(G)
  <2>1. ASSUME NEW k \in 0 .. 10
        PROVE  AfterPairs(d, k) = IF k = 0 THEN Loaded(d)
                                  ELSE LET e == T[k]
                                       IN  Turn(G[k - 1], RP[k][1], RP[k][2], e.cs, e.sn, e.sign)
    <3>1. CASE k = 0
      BY <1>4, <3>1
    <3>2. CASE k # 0
      <4>1. k \in 1 .. 10 /\ k - 1 \in 0 .. 10
        BY <3>2
      <4>2. G[k - 1] = AfterPairs(d, k - 1)
        BY <4>1
      <4> QED
        BY <1>3, <3>2, <4>1, <4>2
    <3> QED
      BY <3>1, <3>2
  <2> QED
    BY <1>2, <2>1
<1> HIDE DEF Rec, G
<1>6. S = Rec(S)
  BY <1>5
<1> HIDE DEF S
<1>7. /\ S[0] = Loaded(d)
      /\ \A k \in 1 .. 10 : S[k] = LET e == T[k]
                                   IN  Turn(S[k - 1], RP[k][1], RP[k][2], e.cs, e.sn, e.sign)
  BY <1>2, <1>6 DEF Rec
<1>8. S[10] = AfterPairs(d, 10)
  BY <1>3, <1>4, <1>7, TenPairs
<1> QED
  BY <1>1, <1>2, <1>8

\* A list with tables is an 11-cycle, and its tables are those of the list.
LEMMA TablesOf ==
  ASSUME BuildInv, pc = "built", NEW i \in 1 .. Len(cyc_feat)
  PROVE  /\ Eleven(cyc_feat[i]) /\ tau \in [Coord -> Coord]
         /\ swap[i] = SwapTable(cyc_feat[i]) /\ fx[i] = FxTable(cyc_feat[i])
<1>1. CyclesInv /\ LayersInv /\ StageInv /\ h = Len(cycles)
  BY DEF BuildInv, Walking, Staging
<1>2. PICK j \in 1 .. Len(cycles) : cyc_feat[i] = cycles[j] /\ Len(cycles[j]) = LMAX
  BY <1>1 DEF StageInv
<1>3. Eleven(cyc_feat[i])
  BY <1>1, <1>2, Reflected DEF StageInv
<1>4. swap[i] = SwapTable(cyc_feat[i]) /\ fx[i] = FxTable(cyc_feat[i])
  BY <1>1 DEF StageInv
<1> QED
  BY <1>1, <1>3, <1>4 DEF LayersInv

LEMMA AgreeLemma ==
  ASSUME BuildInv
  PROVE  FormsAgree
<1>1. ASSUME pc = "built", NEW i \in 1 .. Len(cyc_feat), NEW p \in 0 .. LMAX - 1
      PROVE  SwapForm(i)[p] = RowForm[At(cyc_feat[i], p)] /\ FxForm(i)[p] = SwapForm(i)[p]
  <2>1. PICK d : d = cyc_feat[i]
    OBVIOUS
  <2>2. /\ Eleven(d) /\ tau \in [Coord -> Coord]
        /\ swap[i] = SwapTable(d) /\ fx[i] = FxTable(d)
    BY <1>1, <2>1, TablesOf
  <2>3. SwapForm(i) = AfterPairs(d, 10) /\ FxForm(i) = AfterPairs(d, 10)
    BY <2>1, <2>2, SwapFormIs, FxFormIs
  <2>4. AfterPairs(d, 10)[p] = RowForm[At(d, p)]
    BY <2>2, AfterEnd DEF Position
  <2> QED
    BY <2>1, <2>3, <2>4
<1> QED
  BY <1>1 DEF FormsAgree

\* Rotating by the row tables, by the swap tables and by the literal pairs
\* gives the same values: for every permutation of any number of features,
\* and whatever the angles.
THEOREM FormsCompute == BuildSpec => []FormsAgree
BY AgreeLemma, BuildInvariant, PTL

\* One step of a value that is swapped, and not scaled.
LEMMA Swapped ==
  ASSUME NEW layer, NEW y, NEW g, NEW vf, NEW vg, NEW t \in vg, \A k \in t[2] : k[1] = "sin"
  PROVE  \E u \in Turned(layer, y, g, vf, vg) : u[3] = t[3] /\ \A k \in u[2] : k[1] = "sin"
<1>1. PICK sn : sn = Sin(layer, Plane(y, g))
  OBVIOUS
<1>2. sn[1] = "sin"
  BY <1>1 DEF Sin
<1>3. ASSUME NEW sign
      PROVE  \E u \in Times(sign, sn, vg) : u[3] = t[3] /\ \A k \in u[2] : k[1] = "sin"
  <2>1. PICK u : u = <<sign * t[1], t[2] \cup {sn}, t[3]>>
    OBVIOUS
  <2>2. u \in Times(sign, sn, vg)
    BY <2>1 DEF Times
  <2>3. u[3] = t[3] /\ u[2] = t[2] \cup {sn}
    BY <2>1
  <2> QED
    BY <1>2, <2>2, <2>3
<1>4. \E sign : Times(sign, sn, vg) \subseteq Turned(layer, y, g, vf, vg)
  <2>1. CASE y < g
    BY <1>1, <2>1 DEF Turned, TurnedLo
  <2>2. CASE ~(y < g)
    BY <1>1, <2>2 DEF Turned, TurnedHi
  <2> QED
    BY <2>1, <2>2
<1> QED
  BY <1>3, <1>4

LEMMA FollowLemma ==
  ASSUME BuildInv
  PROVE  SwapsFollowPerm
<1> DEFINE Arrives(v, y) == \E t \in v : t[3] = y /\ \A k \in t[2] : k[1] = "sin"
<1>1. ASSUME pc = "built", NEW i \in 1 .. Len(cyc_feat), NEW p \in 0 .. LMAX - 1,
             NEW q, q = CHOOSE r \in 0 .. LMAX - 1 : At(cyc_feat[i], r) = perm[At(cyc_feat[i], p)]
      PROVE  Arrives(FxForm(i)[q], At(cyc_feat[i], p))
  <2>1. PICK d : d = cyc_feat[i]
    OBVIOUS
  <2>2. Eleven(d) /\ tau \in [Coord -> Coord] /\ fx[i] = FxTable(d)
    BY <1>1, <2>1, TablesOf
  <2>3. PICK y, g, t, r : /\ y = At(d, p) /\ t = TauPos(p) /\ g = At(d, t)
                          /\ r = (IF p = 10 THEN 0 ELSE p + 1)
    OBVIOUS
  <2>4. p \in Position /\ t \in Position /\ r \in Position /\ RhoPos(t) = r
    BY <2>3, MirrorEleven DEF Position, LMAX
  <2>5. /\ y \in Coord /\ g \in Coord /\ tau[y] = g /\ tau[g] = y
        /\ sig[g] = At(d, r) /\ perm[y] = At(d, r)
        /\ At(d, r) \in Coord /\ sig[At(d, r)] = g
    <3>1. TauPos(t) = p /\ RhoPos(r) = t
      BY <2>3, <2>4 DEF TauPos, RhoPos, Position, LMAX
    <3> QED
      BY <2>2, <2>3, <2>4, <3>1 DEF Eleven
  <2>6. q = r
    <3>1. q \in Position /\ At(d, q) = At(d, r)
      BY <1>1, <2>1, <2>3, <2>4, <2>5 DEF Position
    <3> QED
      BY <2>2, <2>4, <3>1 DEF Eleven
  <2>7. Arrives(Input(y), y)
    <3>1. <<1, {}, y>> \in Input(y)
      BY DEF Input
    <3> QED
      BY <3>1
  <2>8. Arrives(Half[g], y)
    <3>1. Half[g] = IF y = g THEN Input(g) ELSE Turned("tau", g, y, Input(g), Input(y))
      BY <2>2, <2>5, RowValue
    <3> QED
      BY <2>7, <3>1, Swapped
  <2>9. Arrives(RowForm[At(d, r)], y)
    <3>1. RowForm[At(d, r)] = IF g = At(d, r) THEN Half[g]
                                ELSE Turned("rho", At(d, r), g, Half[At(d, r)], Half[g])
      BY <2>2, <2>5, RowValue
    <3> QED
      BY <2>8, <3>1, Swapped
  <2>10. FxForm(i)[q] = RowForm[At(d, r)]
    BY <2>1, <2>2, <2>4, <2>6, FxFormIs, AfterEnd
  <2> QED
    BY <2>1, <2>3, <2>9, <2>10
<1> QED
  BY <1>1 DEF SwapsFollowPerm

\* In every feature with tables, the value that only sines scale is the one
\* that the permutation sends there: the stage is built around the permutation.
THEOREM StageFollows == BuildSpec => []SwapsFollowPerm
BY FollowLemma, BuildInvariant, PTL
=============================================================================
