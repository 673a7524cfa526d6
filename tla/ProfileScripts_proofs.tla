----------------------- MODULE ProfileScripts_proofs -----------------------
(***************************************************************************)
(* The measurement loops proved correct for any number of turns: whatever  *)
(* the host's lead over the device and the pace of the streams, kernels    *)
(* that share a buffer run in the order of the script, and the times taken *)
(* are those of whole arms.  First what the scripts are made of, then what *)
(* the device makes of any script of that kind.                            *)
(***************************************************************************)
EXTENDS ProfileScripts, DivisionLemmas

\* Every event has a stream on which alone it is recorded.
Home(ev) == CASE ev \in {"e0", "e1", "ev0"} -> "cur"
              [] ev \in {"ev1", "ev2"}      -> "s_prod"
              [] ev \in {"ev3", "ev4"}      -> "s_cons"

Buffer == {"X", "W", "Y", "interA", "interB", "x", "y", "W1", "W2", "i1", "i2"}

\* The commands of the scripts.  The side streams run one kernel each.
Records  == {cmd \in [do : {"record"}, on : Stream, ev : Event] : cmd.on = Home(cmd.ev)}
Kernels  == {cmd \in [do : {"launch"}, on : Stream, reads : SUBSET Buffer, writes : Buffer] :
               /\ cmd.on = "s_prod" => cmd = bdmm("s_prod")
               /\ cmd.on = "s_cons" => cmd = rot_persist("s_cons")}
Waits    == [do : {"wait"}, on : Stream, for : Stream]
Syncs    == [do : {"synchronize"}, on : {"cur"}]
Elapseds == [do : {"elapsed"}, on : {"cur"}, first : Event, last : Event]
Command  == Records \cup Kernels \cup Waits \cup Syncs \cup Elapseds

OnCur(cmd)     == cmd.on = "cur" /\ cmd.do \in {"record", "launch"}
RecordOf(cmd, ev) == cmd.do = "record" /\ cmd.ev = ev

\* A kernel of a side stream starts after all that the current stream was given
\* before, and what the current stream is given later comes after it.
Forked(p, j) == \E k \in 1 .. j : /\ p[k] = WaitStream(p[j].on, "cur")
                                  /\ \A i \in k .. j : ~OnCur(p[i])
Joined(p, j) == \E k \in j .. Len(p) : /\ p[k] = WaitStream("cur", p[j].on)
                                       /\ \A i \in j .. k : ~OnCur(p[i])
Fenced(p) ==
  \A j \in 1 .. Len(p) :
    p[j].do = "launch" /\ p[j].on # "cur" => Forked(p, j) /\ Joined(p, j)

\* Before place j the event was recorded, the host has waited for the device
\* since, and the event was not recorded again.
Settled(p, ev, j) ==
  \E k \in 1 .. j : /\ p[k].do = "synchronize"
                    /\ \E r \in 1 .. k : RecordOf(p[r], ev)
                    /\ \A i \in k .. j : ~RecordOf(p[i], ev)
Taken(p) ==
  \A j \in 1 .. Len(p) :
    p[j].do = "elapsed" => Settled(p, p[j].first, j) /\ Settled(p, p[j].last, j)

\* The lists of commands with these properties.
Good == {p \in Seq(Command) : Fenced(p) /\ Taken(p)}

-----------------------------------------------------------------------------
\* The elements of two lists one after the other.
LEMMA ConcatProps ==
  ASSUME NEW S, NEW p \in Seq(S), NEW q \in Seq(S)
  PROVE  /\ p \o q \in Seq(S)
         /\ Len(p) \in Nat /\ Len(q) \in Nat /\ Len(p \o q) = Len(p) + Len(q)
         /\ \A i \in 1 .. Len(p) : (p \o q)[i] = p[i]
         /\ \A i \in 1 .. Len(q) : (p \o q)[Len(p) + i] = q[i]
OBVIOUS

\* A part of a list keeps its fences.
LEMMA ForkedPart ==
  ASSUME NEW p, NEW u, NEW d \in Nat, NEW L \in Nat, NEW j \in 1 .. L,
         \A i \in 1 .. L : u[d + i] = p[i], Forked(p, j)
  PROVE  Forked(u, d + j)
<1>1. PICK k \in 1 .. j : p[k] = WaitStream(p[j].on, "cur") /\ \A i \in k .. j : ~OnCur(p[i])
  BY DEF Forked
<1>2. d + k \in 1 .. d + j /\ u[d + k] = p[k] /\ u[d + j] = p[j]
  OBVIOUS
<1>3. ASSUME NEW i \in d + k .. d + j PROVE ~OnCur(u[i])
  <2>1. i - d \in k .. j /\ i - d \in 1 .. L /\ d + (i - d) = i
    OBVIOUS
  <2>2. u[i] = p[i - d]
    BY <2>1
  <2> QED
    BY <1>1, <2>1, <2>2
<1> QED
  BY <1>1, <1>2, <1>3 DEF Forked

LEMMA JoinedPart ==
  ASSUME NEW p, NEW u, NEW d \in Nat, Len(p) \in Nat, NEW j \in 1 .. Len(p),
         Len(u) \in Nat, d + Len(p) <= Len(u),
         \A i \in 1 .. Len(p) : u[d + i] = p[i], Joined(p, j)
  PROVE  Joined(u, d + j)
<1>1. PICK k \in j .. Len(p) : p[k] = WaitStream("cur", p[j].on) /\ \A i \in j .. k : ~OnCur(p[i])
  BY DEF Joined
<1>2. d + k \in d + j .. Len(u) /\ u[d + k] = p[k] /\ u[d + j] = p[j]
  OBVIOUS
<1>3. ASSUME NEW i \in d + j .. d + k PROVE ~OnCur(u[i])
  <2>1. i - d \in j .. k /\ i - d \in 1 .. Len(p) /\ d + (i - d) = i
    OBVIOUS
  <2>2. u[i] = p[i - d]
    BY <2>1
  <2> QED
    BY <1>1, <2>1, <2>2
<1> QED
  BY <1>1, <1>2, <1>3 DEF Joined

LEMMA SettledPart ==
  ASSUME NEW p, NEW u, NEW ev, NEW d \in Nat, NEW L \in Nat, NEW j \in 1 .. L,
         \A i \in 1 .. L : u[d + i] = p[i], Settled(p, ev, j)
  PROVE  Settled(u, ev, d + j)
<1>1. PICK k \in 1 .. j : /\ p[k].do = "synchronize"
                          /\ \E r \in 1 .. k : RecordOf(p[r], ev)
                          /\ \A i \in k .. j : ~RecordOf(p[i], ev)
  BY DEF Settled
<1>2. PICK r \in 1 .. k : RecordOf(p[r], ev)
  BY <1>1
<1>3. /\ d + k \in 1 .. d + j /\ u[d + k] = p[k]
      /\ d + r \in 1 .. d + k /\ u[d + r] = p[r]
  OBVIOUS
<1>4. ASSUME NEW i \in d + k .. d + j PROVE ~RecordOf(u[i], ev)
  <2>1. i - d \in k .. j /\ i - d \in 1 .. L /\ d + (i - d) = i
    OBVIOUS
  <2>2. u[i] = p[i - d]
    BY <2>1
  <2> QED
    BY <1>1, <2>1, <2>2
<1> QED
  BY <1>1, <1>2, <1>3, <1>4 DEF Settled

\* A good list can be continued by a list that is good in the light of it.
LEMMA GoodAppend ==
  ASSUME NEW p \in Good, NEW q \in Seq(Command), NEW u, u = p \o q,
         \A j \in 1 .. Len(q) :
           /\ q[j].do = "launch" /\ q[j].on # "cur" =>
                Forked(u, Len(p) + j) /\ Joined(u, Len(p) + j)
           /\ q[j].do = "elapsed" =>
                Settled(u, q[j].first, Len(p) + j) /\ Settled(u, q[j].last, Len(p) + j)
  PROVE  u \in Good
<1>1. /\ u \in Seq(Command) /\ Len(p) \in Nat /\ Len(q) \in Nat /\ Len(u) = Len(p) + Len(q)
      /\ \A i \in 1 .. Len(p) : u[i] = p[i]
      /\ \A i \in 1 .. Len(q) : u[Len(p) + i] = q[i]
  BY ConcatProps DEF Good
<1>2. Fenced(p) /\ Taken(p)
  BY DEF Good
<1>3. PICK zero : zero = 0
  OBVIOUS
<1>4. \A i \in 1 .. Len(p) : u[zero + i] = p[i] /\ zero + i = i
  BY <1>1, <1>3
<1>5. ASSUME NEW j \in 1 .. Len(p)
      PROVE  /\ p[j].do = "launch" /\ p[j].on # "cur" => Forked(u, j) /\ Joined(u, j)
             /\ p[j].do = "elapsed" => Settled(u, p[j].first, j) /\ Settled(u, p[j].last, j)
  <2>1. zero \in Nat /\ zero + Len(p) <= Len(u) /\ Len(u) \in Nat /\ zero + j = j
    BY <1>1, <1>3
  <2>2. ASSUME p[j].do = "launch", p[j].on # "cur" PROVE Forked(u, zero + j)
    <3>1. Forked(p, j)
      BY <1>2, <2>2 DEF Fenced
    <3> QED
      BY <1>1, <1>4, <2>1, <3>1, ForkedPart
  <2>3. p[j].do = "launch" /\ p[j].on # "cur" => Joined(u, zero + j)
    BY <1>1, <1>2, <1>4, <2>1, JoinedPart DEF Fenced
  <2>4. ASSUME p[j].do = "elapsed"
        PROVE  Settled(u, p[j].first, zero + j) /\ Settled(u, p[j].last, zero + j)
    <3>1. Settled(p, p[j].first, j) /\ Settled(p, p[j].last, j)
      BY <1>2, <2>4 DEF Taken
    <3>2. ASSUME NEW ev, Settled(p, ev, j) PROVE Settled(u, ev, zero + j)
      BY <1>1, <1>4, <2>1, <3>2, SettledPart
    <3> QED
      BY <3>1, <3>2
  <2> QED
    BY <2>1, <2>2, <2>3, <2>4
<1>6. ASSUME NEW j \in 1 .. Len(u)
      PROVE  /\ u[j].do = "launch" /\ u[j].on # "cur" => Forked(u, j) /\ Joined(u, j)
             /\ u[j].do = "elapsed" => Settled(u, u[j].first, j) /\ Settled(u, u[j].last, j)
  <2>1. CASE j <= Len(p)
    <3>1. j \in 1 .. Len(p) /\ u[j] = p[j]
      BY <1>1, <2>1
    <3> QED
      BY <1>5, <3>1
  <2>2. CASE ~(j <= Len(p))
    <3>1. PICK i \in 1 .. Len(q) : j = Len(p) + i
      <4>1. j - Len(p) \in 1 .. Len(q) /\ j = Len(p) + (j - Len(p))
        BY <1>1, <2>2
      <4> QED
        BY <4>1
    <3>2. u[j] = q[i]
      BY <1>1, <3>1
    <3> QED
      BY <3>1, <3>2
  <2> QED
    BY <2>1, <2>2
<1>7. Fenced(u) /\ Taken(u)
  BY <1>6 DEF Fenced, Taken
<1> QED
  BY <1>1, <1>7 DEF Good

\* Good lists can be put together.
LEMMA GoodConcat ==
  ASSUME NEW p \in Good, NEW q \in Good
  PROVE  p \o q \in Good
<1>1. PICK u : u = p \o q
  OBVIOUS
<1>2. /\ p \in Seq(Command) /\ q \in Seq(Command) /\ u \in Seq(Command)
      /\ Len(p) \in Nat /\ Len(q) \in Nat /\ Len(u) = Len(p) + Len(q)
      /\ \A i \in 1 .. Len(q) : u[Len(p) + i] = q[i]
  BY <1>1, ConcatProps DEF Good
<1>3. Fenced(q) /\ Taken(q)
  BY DEF Good
<1>4. ASSUME NEW j \in 1 .. Len(q)
      PROVE  /\ q[j].do = "launch" /\ q[j].on # "cur" => Forked(u, Len(p) + j) /\ Joined(u, Len(p) + j)
             /\ q[j].do = "elapsed" => /\ Settled(u, q[j].first, Len(p) + j)
                                       /\ Settled(u, q[j].last, Len(p) + j)
  <2>1. Len(p) + Len(q) <= Len(u) /\ Len(u) \in Nat
    BY <1>2
  <2>2. q[j].do = "launch" /\ q[j].on # "cur" => Forked(u, Len(p) + j)
    BY <1>2, <1>3, <2>1, ForkedPart DEF Fenced
  <2>3. q[j].do = "launch" /\ q[j].on # "cur" => Joined(u, Len(p) + j)
    BY <1>2, <1>3, <2>1, JoinedPart DEF Fenced
  <2>4. q[j].do = "elapsed" => Settled(u, q[j].first, Len(p) + j) /\ Settled(u, q[j].last, Len(p) + j)
    BY <1>2, <1>3, <2>1, SettledPart DEF Taken
  <2> QED
    BY <2>2, <2>3, <2>4
<1>5. u \in Good
  BY <1>1, <1>2, <1>4, GoodAppend
<1> QED
  BY <1>1, <1>5

LEMMA GoodEmpty == <<>> \in Good
<1>1. <<>> \in Seq(Command) /\ Len(<<>>) = 0
  OBVIOUS
<1>2. 1 .. Len(<<>>) = {}
  BY <1>1
<1> QED
  BY <1>1, <1>2 DEF Good, Fenced, Taken

\* FlattenSeq of a list of lists, from a set that is closed under concatenation,
\* is in that set too.
LEMMA FlattenIs ==
  ASSUME NEW G, \A p, q \in G : p \o q \in G, NEW lists \in Seq(G), Len(lists) # 0
  PROVE  \E fl : /\ FlattenSeq(lists) = fl[Len(lists)]
                 /\ \A i \in 1 .. Len(lists) :
                      fl[i] = IF i = 1 THEN lists[i] ELSE fl[i - 1] \o lists[i]
<1> DEFINE L == Len(lists)
           Is(h) == h = [i \in 1 .. L |-> IF i = 1 THEN lists[i] ELSE h[i - 1] \o lists[i]]
           Upto(h, k) == /\ h \in [1 .. L -> G]
                         /\ \A i \in 1 .. L : i <= k => h[i] = IF i = 1 THEN lists[i] ELSE h[i - 1] \o lists[i]
<1>1. L \in Nat /\ \A i \in 1 .. L : lists[i] \in G
  OBVIOUS
<1>2. Upto(lists, 0)
  <2>1. lists \in [1 .. L -> G]
    OBVIOUS
  <2> QED
    BY <1>1, <2>1
<1>3. ASSUME NEW k \in Nat, NEW h, Upto(h, k) PROVE \E g : Upto(g, k + 1)
  <2> DEFINE new == IF k + 1 = 1 THEN lists[k + 1] ELSE h[k] \o lists[k + 1]
             g == [i \in 1 .. L |-> IF i = k + 1 THEN new ELSE h[i]]
  <2>1. k + 1 \in 1 .. L => new \in G
    <3>1. k + 1 = 1 \/ k \in 1 .. L \/ k + 1 \notin 1 .. L
      BY <1>1, <1>3
    <3> QED
      BY <1>1, <1>3, <3>1
  <2>2. g \in [1 .. L -> G]
    BY <1>3, <2>1
  <2>3. ASSUME NEW i \in 1 .. L, i <= k + 1
        PROVE  g[i] = IF i = 1 THEN lists[i] ELSE g[i - 1] \o lists[i]
    <3>1. i \in Nat /\ i - 1 \in Int /\ (i # 1 => i - 1 \in 1 .. L /\ i - 1 # k + 1)
      BY <2>3
    <3>2. i # 1 => g[i - 1] = h[i - 1]
      BY <3>1
    <3>3. CASE i = k + 1
      <4>1. g[i] = new /\ i - 1 = k
        BY <3>3
      <4> HIDE DEF g
      <4> QED
        BY <3>2, <3>3, <4>1
    <3>4. CASE i # k + 1
      <4>1. g[i] = h[i] /\ i <= k
        BY <2>3, <3>4
      <4> HIDE DEF g
      <4> QED
        BY <1>3, <3>2, <4>1
    <3> QED
      BY <3>3, <3>4
  <2> HIDE DEF g
  <2> QED
    BY <2>2, <2>3
<1> DEFINE Bad == {k \in Nat : ~ \E h : Upto(h, k)}
<1> HIDE DEF Upto
<1>4. Bad = {}
  <2> SUFFICES ASSUME Bad # {} PROVE FALSE
    OBVIOUS
  <2>1. PICK k \in Bad : \A j \in Bad : k <= j
    BY LeastElement
  <2>2. k # 0
    BY <1>2, <2>1
  <2>3. k \in Nat
    BY <2>1
  <2>4. k - 1 \in Nat /\ (k - 1) + 1 = k /\ ~(k <= k - 1)
    BY <2>2, <2>3
  <2>5. k - 1 \in Nat /\ (k - 1) + 1 = k /\ k - 1 \notin Bad
    <3> HIDE DEF Bad
    <3> QED
      BY <2>1, <2>4
  <2> QED
    BY <1>3, <2>1, <2>5
<1>5. PICK h : Upto(h, L)
  BY <1>1, <1>4
<1>6. h \in [1 .. L -> G]
      /\ \A i \in 1 .. L : h[i] = IF i = 1 THEN lists[i] ELSE h[i - 1] \o lists[i]
  <2>1. \A i \in 1 .. L : i <= L
    BY <1>1
  <2> QED
    BY <1>5, <2>1 DEF Upto
<1>7. Is(h)
  BY <1>6
<1> DEFINE fl == CHOOSE g : Is(g)
<1>8. Is(fl)
  <2> HIDE DEF Is
  <2> QED
    BY <1>7
<1>9. FlattenSeq(lists) = fl[L]
  BY DEF FlattenSeq
<1> HIDE DEF fl
<1>10. \A i \in 1 .. L : fl[i] = IF i = 1 THEN lists[i] ELSE fl[i - 1] \o lists[i]
  BY <1>8
<1> QED
  BY <1>9, <1>10

LEMMA FlattenKeeps ==
  ASSUME NEW G, <<>> \in G, \A p, q \in G : p \o q \in G, NEW lists \in Seq(G)
  PROVE  FlattenSeq(lists) \in G
<1> DEFINE L == Len(lists)
<1>1. L \in Nat /\ \A i \in 1 .. L : lists[i] \in G
  OBVIOUS
<1>2. CASE L = 0
  <2>1. lists = <<>>
    BY <1>2
  <2> QED
    BY <1>2, <2>1 DEF FlattenSeq
<1>3. CASE L # 0
  <2>1. PICK fl : /\ FlattenSeq(lists) = fl[L]
                  /\ \A i \in 1 .. L : fl[i] = IF i = 1 THEN lists[i] ELSE fl[i - 1] \o lists[i]
    BY <1>3, FlattenIs
  <2> DEFINE Off == {i \in Nat : i \in 1 .. L /\ fl[i] \notin G}
  <2>2. Off = {}
    <3> SUFFICES ASSUME Off # {} PROVE FALSE
      OBVIOUS
    <3>1. PICK i \in Off : \A j \in Off : i <= j
      BY LeastElement
    <3>2. CASE i = 1
      BY <1>1, <2>1, <3>1, <3>2
    <3>3. CASE i # 1
      <4>1. i - 1 \in 1 .. L /\ i - 1 \in Nat /\ i - 1 \notin Off /\ i \in 1 .. L
        BY <1>1, <3>1, <3>3
      <4>2. fl[i - 1] \in G /\ fl[i] = fl[i - 1] \o lists[i] /\ lists[i] \in G
        BY <1>1, <2>1, <3>3, <4>1
      <4> QED
        BY <3>1, <4>2
    <3> QED
      BY <3>2, <3>3
  <2>3. L \in 1 .. L /\ L \in Nat
    BY <1>1, <1>3
  <2>4. fl[L] \in G
    BY <2>2, <2>3
  <2> QED
    BY <2>1, <2>4
<1> QED
  BY <1>2, <1>3

-----------------------------------------------------------------------------
\* The parts of the scripts, by what can be seen of each.
Has(p, cmd) == \E i \in 1 .. Len(p) : p[i] = cmd
\* Its last commands are a synchronisation and the taking of a time.
Closing(p) ==
  \E k \in Nat : /\ k > 0 /\ Len(p) = k + 1
                 /\ p[k].do = "synchronize" /\ p[Len(p)].do = "elapsed"

LEMMA HasConcat ==
  ASSUME NEW p \in Seq(Command), NEW q \in Seq(Command), NEW cmd, Has(p, cmd) \/ Has(q, cmd)
  PROVE  Has(p \o q, cmd)
<1> DEFINE u == p \o q
<1>1. /\ Len(p) \in Nat /\ Len(q) \in Nat /\ Len(u) = Len(p) + Len(q)
      /\ \A i \in 1 .. Len(p) : u[i] = p[i]
      /\ \A i \in 1 .. Len(q) : u[Len(p) + i] = q[i]
  BY ConcatProps
<1> HIDE DEF u
<1>2. CASE Has(p, cmd)
  <2>1. PICK i \in 1 .. Len(p) : p[i] = cmd
    BY <1>2 DEF Has
  <2>2. i \in 1 .. Len(u) /\ u[i] = cmd
    BY <1>1, <2>1
  <2>3. Has(u, cmd)
    BY <2>2 DEF Has
  <2> QED
    BY <2>3 DEF u
<1>3. CASE Has(q, cmd)
  <2>1. PICK i \in 1 .. Len(q) : q[i] = cmd
    BY <1>3 DEF Has
  <2>2. Len(p) + i \in 1 .. Len(u) /\ u[Len(p) + i] = cmd
    BY <1>1, <2>1
  <2>3. Has(u, cmd)
    BY <2>2 DEF Has
  <2> QED
    BY <2>3 DEF u
<1> QED
  BY <1>2, <1>3

LEMMA ClosingConcat ==
  ASSUME NEW p \in Seq(Command), NEW q \in Seq(Command), Closing(q)
  PROVE  Closing(p \o q)
<1> DEFINE u == p \o q
<1>1. /\ Len(p) \in Nat /\ Len(q) \in Nat /\ Len(u) = Len(p) + Len(q)
      /\ \A i \in 1 .. Len(q) : u[Len(p) + i] = q[i]
  BY ConcatProps
<1> HIDE DEF u
<1>2. PICK k \in Nat : /\ k > 0 /\ Len(q) = k + 1
                       /\ q[k].do = "synchronize" /\ q[Len(q)].do = "elapsed"
  BY DEF Closing
<1>3. /\ Len(p) + k \in Nat /\ Len(p) + k > 0 /\ Len(u) = (Len(p) + k) + 1
      /\ u[Len(p) + k] = q[k] /\ u[Len(u)] = q[Len(q)]
  BY <1>1, <1>2
<1>4. Closing(u)
  BY <1>2, <1>3 DEF Closing
<1> QED
  BY <1>4 DEF u

\* What runs on the current stream alone, and takes no time, is good.
LEMMA PlainGood ==
  ASSUME NEW p \in Seq(Command), \A j \in 1 .. Len(p) : p[j].on = "cur" /\ p[j].do # "elapsed"
  PROVE  p \in Good
BY DEF Good, Fenced, Taken

\* The commands of the scripts are commands.
LEMMA CommandsAre ==
  /\ \A ev \in {"e0", "e1", "ev0"} : Record(ev, "cur") \in Command
  /\ \A ev \in {"ev1", "ev2"} : Record(ev, "s_prod") \in Command
  /\ \A ev \in {"ev3", "ev4"} : Record(ev, "s_cons") \in Command
  /\ \A r \in SUBSET Buffer, w \in Buffer : Launch("cur", r, w) \in Command
  /\ bdmm("s_prod") \in Command /\ rot_persist("s_cons") \in Command
  /\ \A q, t \in Stream : WaitStream(q, t) \in Command
  /\ Synchronize \in Command
  /\ \A ev, ew \in Event : Elapsed(ev, ew) \in Command
<1>1. \A ev \in {"e0", "e1", "ev0"} : Record(ev, "cur") \in Records
  BY DEF Records, Record, Stream, Event, Home
<1>2. /\ \A ev \in {"ev1", "ev2"} : Record(ev, "s_prod") \in Records
      /\ \A ev \in {"ev3", "ev4"} : Record(ev, "s_cons") \in Records
  BY DEF Records, Record, Stream, Event, Home
<1>3. \A r \in SUBSET Buffer, w \in Buffer : Launch("cur", r, w) \in Kernels
  BY DEF Kernels, Launch, Stream
<1>4. bdmm("s_prod") \in Kernels /\ rot_persist("s_cons") \in Kernels
  BY DEF Kernels, bdmm, rot_persist, Launch, Stream, Buffer
<1>5. \A q, t \in Stream : WaitStream(q, t) \in Waits
  BY DEF Waits, WaitStream
<1>6. Synchronize \in Syncs /\ \A ev, ew \in Event : Elapsed(ev, ew) \in Elapseds
  BY DEF Synchronize, Elapsed, Syncs, Elapseds
<1> QED
  BY <1>1, <1>2, <1>3, <1>4, <1>5, <1>6 DEF Command

\* A list of kernels on the current stream.
Plain(p) ==
  /\ p \in Seq(Command)
  /\ \A j \in 1 .. Len(p) : p[j].on = "cur" /\ p[j].do = "launch"

LEMMA PlainArms ==
  /\ Plain(seq) /\ Plain(prod_base) /\ Plain(cons_base)
  /\ Plain(two_stage_swz) /\ Plain(dense) /\ Plain(fused) /\ Plain(swz2k)
  /\ Plain(<<Launch("cur", {"X", "W"}, "Y")>>)
<1> DEFINE Cur == {cmd \in Command : cmd.on = "cur" /\ cmd.do = "launch"}
<1>1. \A r \in SUBSET Buffer, w \in Buffer : Launch("cur", r, w) \in Cur
  BY CommandsAre DEF Launch
<1>2. ASSUME NEW p \in Seq(Cur) PROVE Plain(p)
  <2>1. p \in Seq(Command)
    OBVIOUS
  <2>2. \A j \in 1 .. Len(p) : p[j] \in Cur
    OBVIOUS
  <2> QED
    BY <2>1, <2>2 DEF Plain
<1>3. /\ bdmm("cur") \in Cur /\ rot_fixed("cur") \in Cur
  BY <1>1 DEF bdmm, rot_fixed, Buffer
<1>4. /\ Launch("cur", {"X", "W"}, "Y") \in Cur
      /\ Launch("cur", {"x", "W1"}, "i1") \in Cur
      /\ Launch("cur", {}, "i1") \in Cur
      /\ Launch("cur", {"i1", "W2"}, "i2") \in Cur
      /\ Launch("cur", {}, "i2") \in Cur
      /\ Launch("cur", {"x"}, "y") \in Cur
      /\ Launch("cur", {"x", "W1"}, "Y") \in Cur
  BY <1>1 DEF Buffer
<1> HIDE DEF Cur
<1>5. /\ seq \in Seq(Cur) /\ prod_base \in Seq(Cur) /\ cons_base \in Seq(Cur)
  BY <1>3 DEF seq, prod_base, cons_base
<1>6. /\ two_stage_swz \in Seq(Cur) /\ dense \in Seq(Cur) /\ fused \in Seq(Cur)
      /\ swz2k \in Seq(Cur) /\ <<Launch("cur", {"X", "W"}, "Y")>> \in Seq(Cur)
  BY <1>4 DEF two_stage_swz, dense, fused, swz2k
<1> QED
  BY <1>2, <1>5, <1>6

LEMMA PlainIsGood ==
  ASSUME NEW p, Plain(p)
  PROVE  p \in Good
BY PlainGood DEF Plain

\* An arm with its events around it: its times are those of records that the
\* host has waited for.
LEMMA TimedGood ==
  ASSUME NEW arm \in Good
  PROVE  /\ Timed(arm) \in Good /\ Closing(Timed(arm))
         /\ \A cmd : Has(arm, cmd) => Has(Timed(arm), cmd)
<1> DEFINE first == <<Record("e0", "cur")>>
           last  == <<Record("e1", "cur"), Synchronize, Elapsed("e0", "e1")>>
<1>1. /\ Record("e0", "cur") \in Command /\ Record("e1", "cur") \in Command
      /\ Synchronize \in Command /\ Elapsed("e0", "e1") \in Command
  BY CommandsAre DEF Event
<1>2. /\ first \in Seq(Command) /\ Len(first) = 1 /\ first[1] = Record("e0", "cur")
      /\ last \in Seq(Command) /\ Len(last) = 3 /\ last[1] = Record("e1", "cur")
      /\ last[2] = Synchronize /\ last[3] = Elapsed("e0", "e1")
  BY <1>1
<1> HIDE DEF first, last
<1>3. first \in Good
  BY <1>2, PlainGood DEF Record
<1> DEFINE w == first \o arm
           u == w \o last
<1>4. w \in Good
  BY <1>3, GoodConcat
<1>5. arm \in Seq(Command) /\ w \in Seq(Command)
  BY <1>4 DEF Good
<1>6. Has(w, Record("e0", "cur"))
  <2>1. Has(first, Record("e0", "cur"))
    BY <1>2 DEF Has
  <2> QED
    BY <1>2, <1>5, <2>1, HasConcat
<1>7. \A cmd : Has(arm, cmd) => Has(w, cmd)
  BY <1>2, <1>5, HasConcat
<1> HIDE DEF w
<1>8. /\ u \in Seq(Command) /\ Len(w) \in Nat /\ Len(u) = Len(w) + 3
      /\ \A i \in 1 .. Len(w) : u[i] = w[i]
      /\ \A i \in 1 .. 3 : u[Len(w) + i] = last[i]
  <2>1. /\ u \in Seq(Command) /\ Len(w) \in Nat /\ Len(u) = Len(w) + Len(last)
        /\ \A i \in 1 .. Len(w) : u[i] = w[i]
        /\ \A i \in 1 .. Len(last) : u[Len(w) + i] = last[i]
    <3>1. w \in Seq(Command) /\ last \in Seq(Command)
      BY <1>2, <1>5
    <3> QED
      BY <3>1, ConcatProps
  <2> HIDE DEF u
  <2> QED
    BY <1>2, <2>1
<1>9. \A cmd : Has(arm, cmd) => Has(u, cmd)
  BY <1>2, <1>5, <1>7, HasConcat
<1> HIDE DEF u
<1>10. /\ u[Len(w) + 1] = Record("e1", "cur") /\ u[Len(w) + 2] = Synchronize
       /\ u[Len(w) + 3] = Elapsed("e0", "e1")
  BY <1>2, <1>8
<1>11. PICK k \in Nat : k = Len(w) + 2
  BY <1>8
<1>12. /\ k > 0 /\ Len(u) = k + 1 /\ k \in 1 .. k + 1
       /\ u[k] = Synchronize /\ u[k + 1] = Elapsed("e0", "e1")
  BY <1>8, <1>10, <1>11
<1>13. u[k].do = "synchronize" /\ u[k + 1].do = "elapsed"
  BY <1>12 DEF Synchronize, Elapsed
<1>14. \A ev, i : i \in k .. k + 1 => ~RecordOf(u[i], ev)
  <2>1. \A i \in k .. k + 1 : i = k \/ i = k + 1
    BY <1>11
  <2> QED
    BY <1>13, <2>1 DEF RecordOf
<1>15. \E r \in 1 .. k : RecordOf(u[r], "e0")
  <2>1. PICK r \in 1 .. Len(w) : w[r] = Record("e0", "cur")
    BY <1>6 DEF Has
  <2>2. r \in 1 .. k /\ u[r] = Record("e0", "cur")
    BY <1>8, <1>11, <2>1
  <2> QED
    BY <2>2 DEF RecordOf, Record
<1>16. \E r \in 1 .. k : RecordOf(u[r], "e1")
  <2>1. Len(w) + 1 \in 1 .. k /\ u[Len(w) + 1] = Record("e1", "cur")
    BY <1>8, <1>10, <1>11
  <2> QED
    BY <2>1 DEF RecordOf, Record
<1>17. Settled(u, "e0", k + 1) /\ Settled(u, "e1", k + 1)
  BY <1>12, <1>13, <1>14, <1>15, <1>16 DEF Settled
<1>18. ASSUME NEW j \in 1 .. Len(last)
       PROVE  /\ last[j].do = "launch" /\ last[j].on # "cur" =>
                   Forked(u, Len(w) + j) /\ Joined(u, Len(w) + j)
              /\ last[j].do = "elapsed" =>
                   Settled(u, last[j].first, Len(w) + j) /\ Settled(u, last[j].last, Len(w) + j)
  <2>1. j = 1 \/ j = 2 \/ j = 3
    BY <1>2
  <2>2. CASE j = 3
    <3>1. /\ last[j].do = "elapsed" /\ last[j].first = "e0" /\ last[j].last = "e1"
          /\ Len(w) + j = k + 1
      BY <1>2, <1>8, <1>11, <2>2 DEF Elapsed
    <3> QED
      BY <1>17, <3>1
  <2>3. CASE j # 3
    <3>1. last[j].do \in {"record", "synchronize"}
      BY <1>2, <2>1, <2>3 DEF Record, Synchronize
    <3> QED
      BY <3>1
  <2> QED
    BY <2>2, <2>3
<1>19. u = w \o last
  BY DEF u
<1>20. u \in Good
  BY <1>2, <1>4, <1>18, <1>19, GoodAppend
<1>21. Closing(u)
  BY <1>12, <1>13 DEF Closing
<1>22. Timed(arm) = u
  BY DEF Timed, u, w, first, last
<1> QED
  BY <1>9, <1>20, <1>21, <1>22

\* Further times may be taken after a turn, of events recorded in it.
LEMMA MoreGood ==
  ASSUME NEW p \in Good, Closing(p), NEW q \in Seq(Command),
         \A j \in 1 .. Len(q) :
           /\ q[j].do = "elapsed"
           /\ \E cmd : Has(p, cmd) /\ RecordOf(cmd, q[j].first)
           /\ \E cmd : Has(p, cmd) /\ RecordOf(cmd, q[j].last)
  PROVE  p \o q \in Good
<1>1. PICK u : u = p \o q
  OBVIOUS
<1>2. /\ p \in Seq(Command) /\ Len(p) \in Nat /\ Len(q) \in Nat /\ Len(u) = Len(p) + Len(q)
      /\ \A i \in 1 .. Len(p) : u[i] = p[i]
      /\ \A i \in 1 .. Len(q) : u[Len(p) + i] = q[i]
  BY <1>1, ConcatProps DEF Good
<1>3. PICK k \in Nat : /\ k > 0 /\ Len(p) = k + 1
                       /\ p[k].do = "synchronize" /\ p[Len(p)].do = "elapsed"
  BY DEF Closing
<1>4. ASSUME NEW ev, NEW cmd, Has(p, cmd), RecordOf(cmd, ev), NEW j \in 1 .. Len(q)
      PROVE  Settled(u, ev, Len(p) + j)
  <2>1. PICK r \in 1 .. Len(p) : p[r] = cmd
    BY <1>4 DEF Has
  <2>2. r \in 1 .. k
    <3>1. r # Len(p)
      BY <1>3, <1>4, <2>1 DEF RecordOf
    <3> QED
      BY <1>3, <3>1
  <2>3. RecordOf(u[r], ev)
    BY <1>2, <1>4, <2>1
  <2>4. k \in 1 .. Len(p) + j /\ u[k].do = "synchronize"
    BY <1>2, <1>3
  <2>5. ASSUME NEW i \in k .. Len(p) + j PROVE ~RecordOf(u[i], ev)
    <3>1. CASE i > Len(p)
      <4>1. i - Len(p) \in 1 .. Len(q) /\ Len(p) + (i - Len(p)) = i
        BY <1>2, <1>3, <3>1
      <4>2. u[i] = q[i - Len(p)]
        BY <1>2, <4>1
      <4> QED
        BY <4>1, <4>2 DEF RecordOf
    <3>2. CASE ~(i > Len(p))
      <4>1. i \in 1 .. Len(p) /\ (i = k \/ i = Len(p))
        BY <1>2, <1>3, <3>2
      <4>2. u[i] = p[i]
        BY <1>2, <4>1
      <4> QED
        BY <1>3, <4>1, <4>2 DEF RecordOf
    <3> QED
      BY <3>1, <3>2
  <2> QED
    BY <2>2, <2>3, <2>4, <2>5 DEF Settled
<1>5. ASSUME NEW j \in 1 .. Len(q)
      PROVE  /\ q[j].do = "elapsed"
             /\ Settled(u, q[j].first, Len(p) + j) /\ Settled(u, q[j].last, Len(p) + j)
  <2>1. PICK cmd : Has(p, cmd) /\ RecordOf(cmd, q[j].first)
    OBVIOUS
  <2>2. PICK other : Has(p, other) /\ RecordOf(other, q[j].last)
    OBVIOUS
  <2> QED
    BY <1>4, <2>1, <2>2
<1>6. u \in Good
  BY <1>1, <1>5, GoodAppend
<1> QED
  BY <1>1, <1>6

\* The commands of race, one by one.
LEMMA RaceIs ==
  /\ race \in Seq(Command) /\ Len(race) = 11
  /\ race[1] = Record("ev0", "cur")
  /\ race[2] = WaitStream("s_prod", "cur") /\ race[3] = WaitStream("s_cons", "cur")
  /\ race[4] = Record("ev1", "s_prod") /\ race[5] = bdmm("s_prod")
  /\ race[6] = Record("ev2", "s_prod")
  /\ race[7] = Record("ev3", "s_cons") /\ race[8] = rot_persist("s_cons")
  /\ race[9] = Record("ev4", "s_cons")
  /\ race[10] = WaitStream("cur", "s_prod") /\ race[11] = WaitStream("cur", "s_cons")
<1>1. /\ Record("ev0", "cur") \in Command /\ WaitStream("s_prod", "cur") \in Command
      /\ WaitStream("s_cons", "cur") \in Command
      /\ Record("ev1", "s_prod") \in Command /\ bdmm("s_prod") \in Command
      /\ Record("ev2", "s_prod") \in Command
      /\ Record("ev3", "s_cons") \in Command /\ rot_persist("s_cons") \in Command
      /\ Record("ev4", "s_cons") \in Command
      /\ WaitStream("cur", "s_prod") \in Command /\ WaitStream("cur", "s_cons") \in Command
  BY CommandsAre DEF Stream
<1>2. /\ Fork \in Seq(Command) /\ Len(Fork) = 3 /\ Fork[1] = Record("ev0", "cur")
      /\ Fork[2] = WaitStream("s_prod", "cur") /\ Fork[3] = WaitStream("s_cons", "cur")
  BY <1>1 DEF Fork
<1>3. /\ OnProd \in Seq(Command) /\ Len(OnProd) = 3 /\ OnProd[1] = Record("ev1", "s_prod")
      /\ OnProd[2] = bdmm("s_prod") /\ OnProd[3] = Record("ev2", "s_prod")
  BY <1>1 DEF OnProd
<1>4. /\ OnCons \in Seq(Command) /\ Len(OnCons) = 3 /\ OnCons[1] = Record("ev3", "s_cons")
      /\ OnCons[2] = rot_persist("s_cons") /\ OnCons[3] = Record("ev4", "s_cons")
  BY <1>1 DEF OnCons
<1>5. /\ Join \in Seq(Command) /\ Len(Join) = 2
      /\ Join[1] = WaitStream("cur", "s_prod") /\ Join[2] = WaitStream("cur", "s_cons")
  BY <1>1 DEF Join
<1>6. PICK u : u = Fork \o OnProd
  OBVIOUS
<1>7. /\ u \in Seq(Command) /\ Len(u) = 6
      /\ u[1] = Fork[1] /\ u[2] = Fork[2] /\ u[3] = Fork[3]
      /\ u[4] = OnProd[1] /\ u[5] = OnProd[2] /\ u[6] = OnProd[3]
  <2>1. /\ u \in Seq(Command) /\ Len(u) = Len(Fork) + Len(OnProd)
        /\ \A i \in 1 .. Len(Fork) : u[i] = Fork[i]
        /\ \A i \in 1 .. Len(OnProd) : u[Len(Fork) + i] = OnProd[i]
    <3>1. Fork \in Seq(Command) /\ OnProd \in Seq(Command)
      BY <1>2, <1>3
    <3> QED
      BY <1>6, <3>1, ConcatProps
  <2>2. Len(Fork) = 3 /\ Len(OnProd) = 3
    BY <1>2, <1>3
  <2> QED
    BY <2>1, <2>2
<1>8. PICK v : v = u \o OnCons
  OBVIOUS
<1>9. /\ v \in Seq(Command) /\ Len(v) = 9
      /\ \A i \in 1 .. 6 : v[i] = u[i]
      /\ v[7] = OnCons[1] /\ v[8] = OnCons[2] /\ v[9] = OnCons[3]
  <2>1. /\ v \in Seq(Command) /\ Len(v) = Len(u) + Len(OnCons)
        /\ \A i \in 1 .. Len(u) : v[i] = u[i]
        /\ \A i \in 1 .. Len(OnCons) : v[Len(u) + i] = OnCons[i]
    <3>1. u \in Seq(Command) /\ OnCons \in Seq(Command)
      BY <1>4, <1>7
    <3> QED
      BY <1>8, <3>1, ConcatProps
  <2>2. Len(u) = 6 /\ Len(OnCons) = 3
    BY <1>4, <1>7
  <2> QED
    BY <2>1, <2>2
<1>10. PICK w : w = v \o Join
  OBVIOUS
<1>11. /\ w \in Seq(Command) /\ Len(w) = 11
       /\ \A i \in 1 .. 9 : w[i] = v[i]
       /\ w[10] = Join[1] /\ w[11] = Join[2]
  <2>1. /\ w \in Seq(Command) /\ Len(w) = Len(v) + Len(Join)
        /\ \A i \in 1 .. Len(v) : w[i] = v[i]
        /\ \A i \in 1 .. Len(Join) : w[Len(v) + i] = Join[i]
    <3>1. v \in Seq(Command) /\ Join \in Seq(Command)
      BY <1>5, <1>9
    <3> QED
      BY <1>10, <3>1, ConcatProps
  <2>2. Len(v) = 9 /\ Len(Join) = 2
    BY <1>5, <1>9
  <2> QED
    BY <2>1, <2>2
<1>12. race = w
  BY <1>6, <1>8, <1>10 DEF race
<1>13. \A i \in 1 .. 6 : w[i] = u[i]
  BY <1>9, <1>11
<1>14. w[7] = v[7] /\ w[8] = v[8] /\ w[9] = v[9]
  BY <1>11
<1>15. /\ w[1] = u[1] /\ w[2] = u[2] /\ w[3] = u[3]
       /\ w[4] = u[4] /\ w[5] = u[5] /\ w[6] = u[6]
  BY <1>13
<1> QED
  BY <1>2, <1>3, <1>4, <1>5, <1>7, <1>9, <1>11, <1>12, <1>14, <1>15

\* Both kernels of a race are fenced.
LEMMA RaceGood ==
  /\ race \in Good
  /\ Has(race, Record("ev0", "cur")) /\ Has(race, Record("ev2", "s_prod"))
  /\ Has(race, Record("ev4", "s_cons"))
<1>1. \A j \in 1 .. 11 : j \in {1, 2, 3, 4, 5, 6, 7, 8, 9, 10, 11}
  OBVIOUS
<1>2. \A j \in 1 .. 11 : race[j].do = "launch" => j = 5 \/ j = 8
  BY <1>1, RaceIs DEF Record, WaitStream, Launch, bdmm, rot_persist
<1>3. \A j \in 1 .. 11 : race[j].do # "elapsed"
  BY <1>1, RaceIs DEF Record, WaitStream, Launch, bdmm, rot_persist
<1>4. \A j \in 2 .. 11 : ~OnCur(race[j])
  <2>1. \A j \in 2 .. 11 : j \in {2, 3, 4, 5, 6, 7, 8, 9, 10, 11}
    OBVIOUS
  <2> QED
    BY <2>1, RaceIs DEF Record, WaitStream, Launch, bdmm, rot_persist, OnCur
<1>5. race[5].on = "s_prod" /\ race[8].on = "s_cons"
  BY RaceIs DEF bdmm, rot_persist, Launch
<1>6. Forked(race, 5)
  <2>1. 2 \in 1 .. 5 /\ \A i \in 2 .. 5 : i \in 2 .. 11
    OBVIOUS
  <2> QED
    BY <1>4, <1>5, <2>1, RaceIs DEF Forked
<1>7. Forked(race, 8)
  <2>1. 3 \in 1 .. 8 /\ \A i \in 3 .. 8 : i \in 2 .. 11
    OBVIOUS
  <2> QED
    BY <1>4, <1>5, <2>1, RaceIs DEF Forked
<1>8. Joined(race, 5)
  <2>1. 10 \in 5 .. 11 /\ \A i \in 5 .. 10 : i \in 2 .. 11
    OBVIOUS
  <2> QED
    BY <1>4, <1>5, <2>1, RaceIs DEF Joined
<1>9. Joined(race, 8)
  <2>1. 11 \in 8 .. 11 /\ \A i \in 8 .. 11 : i \in 2 .. 11
    OBVIOUS
  <2> QED
    BY <1>4, <1>5, <2>1, RaceIs DEF Joined
<1>10. Fenced(race) /\ Taken(race)
  BY <1>2, <1>3, <1>6, <1>7, <1>8, <1>9, RaceIs DEF Fenced, Taken
<1>11. race \in Good
  BY <1>10, RaceIs DEF Good
<1>12. 1 \in 1 .. 11 /\ 6 \in 1 .. 11 /\ 9 \in 1 .. 11
  OBVIOUS
<1> QED
  BY <1>11, <1>12, RaceIs DEF Has

\* The loops over good arms are good, however often they turn.
LEMMA RepeatGood ==
  ASSUME NEW p \in Good, NEW k \in Nat
  PROVE  FlattenSeq([i \in 1 .. k |-> p]) \in Good
<1>1. [i \in 1 .. k |-> p] \in Seq(Good)
  OBVIOUS
<1> QED
  BY <1>1, GoodEmpty, GoodConcat, FlattenKeeps

LEMMA MeasureGood ==
  ASSUME NEW arms, NEW more, FlattenSeq(arms) \in Good,
         FlattenSeq([i \in DOMAIN arms |-> Timed(arms[i])]) \o more \in Good
  PROVE  Measure(arms, more) \in Good
<1> DEFINE turn  == FlattenSeq(arms)
           timed == FlattenSeq([i \in DOMAIN arms |-> Timed(arms[i])]) \o more
           warm  == FlattenSeq([i \in 1 .. warmup |-> turn])
           meas  == FlattenSeq([i \in 1 .. iters |-> timed])
<1>1. turn \in Good /\ timed \in Good
  OBVIOUS
<1> HIDE DEF turn, timed
<1>2. warm \in Good /\ meas \in Good
  BY <1>1, RepeatGood, TurnAssumption
<1>3. <<Synchronize>> \in Good
  <2>1. <<Synchronize>> \in Seq(Command) /\ Len(<<Synchronize>>) = 1 /\ <<Synchronize>>[1] = Synchronize
    BY CommandsAre
  <2>2. \A j \in 1 .. Len(<<Synchronize>>) : j = 1
    BY <2>1
  <2>3. Synchronize.on = "cur" /\ Synchronize.do # "elapsed"
    BY DEF Synchronize
  <2> QED
    BY <2>1, <2>2, <2>3, PlainGood
<1>4. Measure(arms, more) = (warm \o <<Synchronize>>) \o meas
  BY DEF Measure, turn, timed
<1> HIDE DEF warm, meas
<1>5. warm \o <<Synchronize>> \in Good
  BY <1>2, <1>3, GoodConcat
<1>6. (warm \o <<Synchronize>>) \o meas \in Good
  BY <1>2, <1>5, GoodConcat
<1> QED
  BY <1>4, <1>6

\* One arm, and three.
LEMMA FlattenOne ==
  ASSUME NEW p \in Good
  PROVE  FlattenSeq(<<p>>) = p
<1>1. <<p>> \in Seq(Good) /\ Len(<<p>>) = 1
  OBVIOUS
<1>2. PICK fl : /\ FlattenSeq(<<p>>) = fl[Len(<<p>>)]
                /\ \A i \in 1 .. Len(<<p>>) :
                     fl[i] = IF i = 1 THEN <<p>>[i] ELSE fl[i - 1] \o <<p>>[i]
  <2>1. \A g, k \in Good : g \o k \in Good
    BY GoodConcat
  <2>2. <<p>> \in Seq(Good) /\ Len(<<p>>) # 0
    BY <1>1
  <2> QED
    BY <2>1, <2>2, FlattenIs
<1> QED
  BY <1>1, <1>2

LEMMA FlattenThree ==
  ASSUME NEW lists \in Seq(Good), Len(lists) = 3
  PROVE  FlattenSeq(lists) = (lists[1] \o lists[2]) \o lists[3]
<1>1. PICK fl : /\ FlattenSeq(lists) = fl[Len(lists)]
                /\ \A i \in 1 .. Len(lists) :
                     fl[i] = IF i = 1 THEN lists[i] ELSE fl[i - 1] \o lists[i]
  <2>1. \A g, k \in Good : g \o k \in Good
    BY GoodConcat
  <2>2. Len(lists) # 0
    OBVIOUS
  <2> QED
    BY <2>1, <2>2, FlattenIs
<1>2. fl[1] = lists[1]
  BY <1>1
<1>3. fl[2] = fl[1] \o lists[2]
  <2>1. 2 \in 1 .. Len(lists) /\ 2 # 1 /\ 2 - 1 = 1
    OBVIOUS
  <2>2. fl[2] = fl[2 - 1] \o lists[2]
    BY <1>1, <2>1
  <2> QED
    BY <2>1, <2>2
<1>4. fl[3] = fl[2] \o lists[3]
  <2>1. 3 \in 1 .. Len(lists) /\ 3 # 1 /\ 3 - 1 = 2
    OBVIOUS
  <2>2. fl[3] = fl[3 - 1] \o lists[3]
    BY <1>1, <2>1
  <2> QED
    BY <2>1, <2>2
<1> QED
  BY <1>1, <1>2, <1>3, <1>4

\* A measurement of one arm, of three arms, and of three with further times.
LEMMA MeasureOne ==
  ASSUME NEW p \in Good
  PROVE  Measure(<<p>>, <<>>) \in Good
<1>1. FlattenSeq(<<p>>) \in Good
  BY FlattenOne
<1>2. [i \in DOMAIN <<p>> |-> Timed(<<p>>[i])] = <<Timed(p)>>
  OBVIOUS
<1>3. Timed(p) \in Good
  BY TimedGood
<1>4. FlattenSeq(<<Timed(p)>>) = Timed(p)
  BY <1>3, FlattenOne
<1>5. FlattenSeq([i \in DOMAIN <<p>> |-> Timed(<<p>>[i])]) \o <<>> \in Good
  BY <1>2, <1>3, <1>4, GoodEmpty, GoodConcat
<1> QED
  BY <1>1, <1>5, MeasureGood

LEMMA MeasureThree ==
  ASSUME NEW p \in Good, NEW q \in Good, NEW r \in Good, NEW more \in Seq(Command),
         \A j \in 1 .. Len(more) :
           /\ more[j].do = "elapsed"
           /\ \E cmd : Has(q, cmd) /\ RecordOf(cmd, more[j].first)
           /\ \E cmd : Has(q, cmd) /\ RecordOf(cmd, more[j].last)
  PROVE  Measure(<<p, q, r>>, more) \in Good
<1> DEFINE arms  == <<p, q, r>>
           timed == [i \in DOMAIN arms |-> Timed(arms[i])]
<1>1. arms \in Seq(Good) /\ Len(arms) = 3 /\ arms[1] = p /\ arms[2] = q /\ arms[3] = r
  OBVIOUS
<1>2. Timed(p) \in Good /\ Timed(q) \in Good /\ Timed(r) \in Good
  BY TimedGood
<1>3. /\ timed = <<Timed(p), Timed(q), Timed(r)>>
  OBVIOUS
<1>4. /\ timed \in Seq(Good) /\ Len(timed) = 3
      /\ timed[1] = Timed(p) /\ timed[2] = Timed(q) /\ timed[3] = Timed(r)
  <2> HIDE DEF timed
  <2> QED
    BY <1>2, <1>3
<1> HIDE DEF arms, timed
<1>5. FlattenSeq(arms) \in Good
  BY <1>1, GoodEmpty, GoodConcat, FlattenKeeps
<1>6. PICK u : u = FlattenSeq(timed)
  OBVIOUS
<1>7. u = (Timed(p) \o Timed(q)) \o Timed(r)
  BY <1>4, <1>6, FlattenThree
<1>8. Timed(p) \o Timed(q) \in Good /\ u \in Good
  BY <1>2, <1>7, GoodConcat
<1>9. /\ Timed(p) \in Seq(Command) /\ Timed(q) \in Seq(Command)
      /\ Timed(r) \in Seq(Command) /\ Timed(p) \o Timed(q) \in Seq(Command)
  BY <1>2, <1>8 DEF Good
<1>10. Closing(u)
  <2>1. Closing(Timed(r))
    BY TimedGood
  <2> QED
    BY <1>7, <1>9, <2>1, ClosingConcat
<1>11. ASSUME NEW cmd, Has(q, cmd) PROVE Has(u, cmd)
  <2>1. Has(Timed(q), cmd)
    BY <1>11, TimedGood
  <2>2. Has(Timed(p) \o Timed(q), cmd)
    BY <1>9, <2>1, HasConcat
  <2> QED
    BY <1>7, <1>9, <2>2, HasConcat
<1>12. \A j \in 1 .. Len(more) :
         /\ more[j].do = "elapsed"
         /\ \E cmd : Has(u, cmd) /\ RecordOf(cmd, more[j].first)
         /\ \E cmd : Has(u, cmd) /\ RecordOf(cmd, more[j].last)
  BY <1>11
<1>13. u \o more \in Good
  BY <1>8, <1>10, <1>12, MoreGood
<1>14. FlattenSeq([i \in DOMAIN arms |-> Timed(arms[i])]) \o more \in Good
  BY <1>6, <1>13 DEF timed
<1>15. Measure(arms, more) \in Good
  BY <1>5, <1>14, MeasureGood
<1> QED
  BY <1>15 DEF arms

\* All scripts are good.
LEMMA ProgramGood ==
  ASSUME script \in Scripts
  PROVE  Program \in Good
<1>1. /\ seq \in Good /\ prod_base \in Good /\ cons_base \in Good
      /\ two_stage_swz \in Good /\ dense \in Good /\ fused \in Good /\ swz2k \in Good
      /\ <<Launch("cur", {"X", "W"}, "Y")>> \in Good
  BY PlainArms, PlainIsGood
<1>2. parallel_stage \in Good
  <2> DEFINE more == <<Elapsed("ev0", "ev2"), Elapsed("ev0", "ev4")>>
  <2>1. Measure(<<seq, prod_base, cons_base>>, <<>>) \in Good
    <3>1. <<>> \in Seq(Command) /\ Len(<<>>) = 0
      OBVIOUS
    <3>2. \A j \in 1 .. Len(<<>>) : FALSE
      BY <3>1
    <3> QED
      BY <1>1, <3>1, <3>2, MeasureThree
  <2>2. /\ more \in Seq(Command) /\ Len(more) = 2
        /\ more[1] = Elapsed("ev0", "ev2") /\ more[2] = Elapsed("ev0", "ev4")
    <3>1. Elapsed("ev0", "ev2") \in Command /\ Elapsed("ev0", "ev4") \in Command
      BY CommandsAre DEF Event
    <3> QED
      BY <3>1
  <2> HIDE DEF more
  <2>3. /\ more[1].do = "elapsed" /\ more[1].first = "ev0" /\ more[1].last = "ev2"
        /\ more[2].do = "elapsed" /\ more[2].first = "ev0" /\ more[2].last = "ev4"
    BY <2>2 DEF Elapsed
  <2>4. /\ RecordOf(Record("ev0", "cur"), "ev0") /\ RecordOf(Record("ev2", "s_prod"), "ev2")
        /\ RecordOf(Record("ev4", "s_cons"), "ev4")
    BY DEF RecordOf, Record
  <2>5. ASSUME NEW j \in 1 .. Len(more)
        PROVE  /\ more[j].do = "elapsed"
               /\ \E cmd : Has(race, cmd) /\ RecordOf(cmd, more[j].first)
               /\ \E cmd : Has(race, cmd) /\ RecordOf(cmd, more[j].last)
    <3>1. j = 1 \/ j = 2
      BY <2>2
    <3> QED
      BY <2>3, <2>4, <3>1, RaceGood
  <2>6. Measure(<<seq, race, prod_base>>, more) \in Good
    BY <1>1, <2>2, <2>5, RaceGood, MeasureThree
  <2>7. parallel_stage = (Measure(<<seq, prod_base, cons_base>>, <<>>)
                            \o <<Launch("cur", {"X", "W"}, "Y")>>)
                           \o Measure(<<seq, race, prod_base>>, more)
    BY DEF parallel_stage, more
  <2>8. Measure(<<seq, prod_base, cons_base>>, <<>>) \o <<Launch("cur", {"X", "W"}, "Y")>> \in Good
    BY <1>1, <2>1, GoodConcat
  <2> QED
    BY <2>6, <2>7, <2>8, GoodConcat
<1>3. two_stage \in Good
  BY <1>1, MeasureOne, GoodConcat DEF two_stage
<1>4. fused_stage \in Good
  <2>1. /\ Measure(<<swz2k>>, <<>>) \in Good /\ Measure(<<fused>>, <<>>) \in Good
        /\ Measure(<<fr_ceil>>, <<>>) \in Good
    BY <1>1, MeasureOne DEF fr_ceil
  <2>2. Measure(<<swz2k>>, <<>>) \o Measure(<<fused>>, <<>>) \in Good
    BY <2>1, GoodConcat
  <2>3. fused_stage = (Measure(<<swz2k>>, <<>>) \o Measure(<<fused>>, <<>>)) \o Measure(<<fr_ceil>>, <<>>)
    BY DEF fused_stage
  <2> QED
    BY <2>1, <2>2, <2>3, GoodConcat
<1>5. script \in {"parallel_stage", "two_stage", "fused_stage"}
  BY ScriptAssumption DEF ProgramOf
<1> QED
  BY <1>2, <1>3, <1>4, <1>5 DEF Program, ProgramOf

-----------------------------------------------------------------------------
\* What the device makes of a good list.  Commands that give a stream something
\* to do, and whether the device has done it.
IsOp(j) == Program[j].do \in {"record", "launch", "wait"}
Done(j) == \E i \in 1 .. done[Program[j].on] : given[Program[j].on][i].by = j

Op == [op : {"record"}, ev : Event, by : Nat] \cup [op : {"kernel"}, by : Nat]
        \cup [op : {"wait"}, for : Stream, upto : Nat, by : Nat]

ShapeInv ==
  /\ script \in Scripts
  /\ at \in Nat /\ at <= Len(Program)
  /\ given \in [Stream -> Seq(Op)]
  /\ done \in [Stream -> Nat]
  /\ \A s \in Stream : done[s] <= Len(given[s])
  /\ running \in [Stream -> BOOLEAN]
  /\ \A s \in Stream : running[s] => Pending(s, "kernel")
  /\ recorded \in [Event -> Nat] /\ fired \in [Event -> Nat]

\* A stream has been given the commands so far that are for it, in their order.
Matches(o, s) ==
  /\ o.by \in 1 .. at /\ Program[o.by].on = s
  /\ o.op = "record" => Program[o.by].do = "record" /\ o.ev = Program[o.by].ev
  /\ o.op = "kernel" => Program[o.by].do = "launch"
  /\ o.op = "wait" => Program[o.by].do = "wait" /\ o.for = Program[o.by].for
GivenInv ==
  /\ \A s \in Stream : \A i \in 1 .. Len(given[s]) : Matches(given[s][i], s)
  /\ \A s \in Stream : \A i, k \in 1 .. Len(given[s]) : i < k => given[s][i].by < given[s][k].by
  /\ \A j \in 1 .. at : IsOp(j) =>
       \E i \in 1 .. Len(given[Program[j].on]) : given[Program[j].on][i].by = j

\* A wait is for all that the other stream had been given, and is not passed
\* before that is done.
WaitInv ==
  \A s \in Stream : \A i \in 1 .. Len(given[s]) : given[s][i].op = "wait" =>
    /\ \A l \in 1 .. Len(given[given[s][i].for]) :
         given[given[s][i].for][l].by < given[s][i].by => l <= given[s][i].upto
    /\ i <= done[s] => given[s][i].upto <= done[given[s][i].for]

\* What was given before the host waited for the device is done.
SyncInv ==
  \A k \in 1 .. at : Program[k].do = "synchronize" =>
    \A j \in 1 .. k : IsOp(j) => Done(j)

\* The latest records of an event, given and done.
RecordInv ==
  \A ev \in Event :
    /\ recorded[ev] # 0 => recorded[ev] \in 1 .. at /\ RecordOf(Program[recorded[ev]], ev)
    /\ \A j \in 1 .. at : RecordOf(Program[j], ev) => j <= recorded[ev]
FiredInv ==
  \A ev \in Event :
    /\ fired[ev] # 0 => /\ fired[ev] \in 1 .. at
                        /\ RecordOf(Program[fired[ev]], ev) /\ Done(fired[ev])
    /\ \A j \in 1 .. at : RecordOf(Program[j], ev) /\ Done(j) => j <= fired[ev]

IInv == ShapeInv /\ GivenInv /\ WaitInv /\ SyncInv /\ RecordInv /\ FiredInv

LEMMA CommandIs ==
  ASSUME NEW cmd \in Command
  PROVE  /\ cmd.on \in Stream
         /\ cmd.do \in {"record", "launch", "wait", "synchronize", "elapsed"}
         /\ cmd.do = "record" => cmd.ev \in Event /\ cmd.on = Home(cmd.ev)
         /\ cmd.do = "wait" => cmd.for \in Stream
         /\ cmd.do = "launch" /\ cmd.on = "s_prod" => cmd = bdmm("s_prod")
         /\ cmd.do = "launch" /\ cmd.on = "s_cons" => cmd = rot_persist("s_cons")
         /\ cmd.do = "elapsed" => cmd.first \in Event /\ cmd.last \in Event
BY DEF Command, Records, Kernels, Waits, Syncs, Elapseds, Stream

LEMMA ProgramIs ==
  ASSUME script \in Scripts
  PROVE  /\ Len(Program) \in Nat
         /\ \A j \in 1 .. Len(Program) : Program[j] \in Command
         /\ Fenced(Program) /\ Taken(Program)
<1>1. Program \in Seq(Command) /\ Fenced(Program) /\ Taken(Program)
  BY ProgramGood DEF Good
<1> QED
  BY <1>1

LEMMA InitInv == Init => IInv
<1> SUFFICES ASSUME Init PROVE IInv
  OBVIOUS
<1>1. at = 0 /\ 1 .. at = {} /\ \A s \in Stream : given[s] = <<>> /\ Len(given[s]) = 0 /\ 1 .. Len(given[s]) = {}
  BY DEF Init
<1>2. ShapeInv
  <2>1. script \in Scripts /\ Len(Program) \in Nat
    BY ProgramIs DEF Init
  <2>2. given \in [Stream -> Seq(Op)]
    BY DEF Init
  <2> QED
    BY <1>1, <2>1, <2>2 DEF Init, ShapeInv
<1>3. GivenInv /\ WaitInv /\ SyncInv
  BY <1>1 DEF GivenInv, WaitInv, SyncInv
<1>4. RecordInv /\ FiredInv
  BY <1>1 DEF Init, RecordInv, FiredInv
<1> QED
  BY <1>2, <1>3, <1>4 DEF IInv

\* A stream is worked off in the order of the commands.
LEMMA DoneBefore ==
  ASSUME ShapeInv, GivenInv, NEW j \in 1 .. at, NEW k \in 1 .. at, IsOp(j), Program[j].on = Program[k].on,
         j < k, Done(k)
  PROVE  Done(j)
<1> DEFINE s == Program[k].on
<1>1. s \in Stream
  BY ProgramIs, CommandIs DEF ShapeInv
<1> HIDE DEF s
<1>2. PICK i \in 1 .. done[s] : given[s][i].by = k
  BY DEF Done, s
<1>3. PICK l \in 1 .. Len(given[s]) : given[s][l].by = j
  BY DEF GivenInv, s
<1>4. Len(given[s]) \in Nat /\ done[s] \in Nat /\ done[s] <= Len(given[s])
  BY <1>1 DEF ShapeInv
<1>5. i \in 1 .. Len(given[s])
  BY <1>2, <1>4
<1>6. l < i
  <2> SUFFICES ASSUME i < l \/ i = l PROVE FALSE
    BY <1>3, <1>4, <1>5
  <2>1. i < l => given[s][i].by < given[s][l].by
    BY <1>1, <1>3, <1>5 DEF GivenInv
  <2> QED
    BY <1>2, <1>3, <2>1
<1>7. l \in 1 .. done[s]
  BY <1>2, <1>3, <1>4, <1>6
<1> QED
  BY <1>3, <1>7 DEF Done, s

\* When a wait has been passed, what it is for is done.
LEMMA DoneByWait ==
  ASSUME ShapeInv, GivenInv, WaitInv, NEW j \in 1 .. at, NEW k \in 1 .. at, IsOp(j),
         Program[k].do = "wait", Program[k].for = Program[j].on, j < k, Done(k)
  PROVE  Done(j)
<1> DEFINE s == Program[k].on
           t == Program[j].on
<1>1. s \in Stream /\ t \in Stream
  BY ProgramIs, CommandIs DEF ShapeInv
<1> HIDE DEF s, t
<1>2. PICK i \in 1 .. done[s] : given[s][i].by = k
  BY DEF Done, s
<1>3. PICK l \in 1 .. Len(given[t]) : given[t][l].by = j
  BY DEF GivenInv, t
<1>4. Len(given[s]) \in Nat /\ done[s] \in Nat /\ done[s] <= Len(given[s]) /\ done[t] \in Nat
  BY <1>1 DEF ShapeInv
<1>5. i \in 1 .. Len(given[s]) /\ i <= done[s]
  BY <1>2, <1>4
<1>6. given[s][i] \in Op
  BY <1>1, <1>5 DEF ShapeInv
<1>7. Matches(given[s][i], s)
  BY <1>1, <1>5 DEF GivenInv
<1>8. given[s][i].op = "wait" /\ given[s][i].for = t /\ given[s][i].upto \in Nat
  BY <1>2, <1>6, <1>7 DEF Op, Matches, t
<1>9. l <= given[s][i].upto /\ given[s][i].upto <= done[t]
  BY <1>1, <1>2, <1>3, <1>5, <1>8 DEF WaitInv
<1>10. l \in 1 .. done[t]
  BY <1>3, <1>4, <1>8, <1>9
<1> QED
  BY <1>3, <1>10 DEF Done, t

\* What the host does: it puts an operation behind those of a stream.
LEMMA EnqueueEffect ==
  ASSUME ShapeInv, at < Len(Program), NEW op \in Op, Enqueue(op)
  PROVE  /\ Program' = Program /\ at' = at + 1 /\ at' \in Nat /\ at' <= Len(Program)
         /\ done' = done /\ running' = running /\ fired' = fired
         /\ command \in Command /\ command = Program[at + 1] /\ command.on \in Stream
         /\ given' \in [Stream -> Seq(Op)]
         /\ \A s \in Stream :
              /\ Len(given[s]) \in Nat
              /\ Len(given'[s]) = IF s = command.on THEN Len(given[s]) + 1 ELSE Len(given[s])
              /\ \A i \in 1 .. Len(given[s]) : given'[s][i] = given[s][i]
              /\ \A i \in 1 .. Len(given'[s]) :
                   i \in 1 .. Len(given[s]) \/ (s = command.on /\ i = Len(given[s]) + 1)
         /\ given'[command.on][Len(given[command.on]) + 1] = op
<1>1. Program' = Program
  BY DEF Enqueue, Program
<1>2. Len(Program) \in Nat /\ at \in Nat /\ at + 1 \in 1 .. Len(Program)
  BY ProgramIs DEF ShapeInv
<1>3. command \in Command /\ command = Program[at + 1] /\ command.on \in Stream
  BY <1>2, ProgramIs, CommandIs DEF ShapeInv, command
<1>4. /\ at' = at + 1 /\ done' = done /\ running' = running /\ fired' = fired
      /\ given' = [given EXCEPT ![command.on] = Append(@, op)]
  BY DEF Enqueue
<1>5. given \in [Stream -> Seq(Op)]
  BY DEF ShapeInv
<1>6. given' \in [Stream -> Seq(Op)]
  BY <1>3, <1>4, <1>5
<1>7. ASSUME NEW s \in Stream
      PROVE  /\ Len(given[s]) \in Nat
             /\ Len(given'[s]) = IF s = command.on THEN Len(given[s]) + 1 ELSE Len(given[s])
             /\ \A i \in 1 .. Len(given[s]) : given'[s][i] = given[s][i]
             /\ s = command.on => given'[s][Len(given[s]) + 1] = op
  <2>1. given[s] \in Seq(Op)
    BY <1>5
  <2>2. given'[s] = IF s = command.on THEN Append(given[s], op) ELSE given[s]
    BY <1>4, <1>5
  <2> QED
    BY <2>1, <2>2
<1>8. ASSUME NEW s \in Stream, NEW i \in 1 .. Len(given'[s])
      PROVE  i \in 1 .. Len(given[s]) \/ (s = command.on /\ i = Len(given[s]) + 1)
  BY <1>7
<1> QED
  BY <1>1, <1>2, <1>3, <1>4, <1>6, <1>7, <1>8

\* What is done stays done, and what has just been given is not done.
LEMMA EnqueueDone ==
  ASSUME IInv, at < Len(Program), NEW op \in Op, Enqueue(op)
  PROVE  /\ \A j \in 1 .. at : (IsOp(j)' <=> IsOp(j)) /\ (Done(j)' <=> Done(j))
         /\ \A j : j = at + 1 => ~Done(j)'
<1>1. ShapeInv /\ GivenInv
  BY DEF IInv
<1>2. \A s \in Stream : done[s] \in Nat /\ done[s] <= Len(given[s]) /\ Len(given[s]) \in Nat
  BY <1>1 DEF ShapeInv
<1>3. \A s \in Stream : \A i \in 1 .. done[s] : i \in 1 .. Len(given[s])
  BY <1>2
<1>4. \A s \in Stream : \A i \in 1 .. done[s] : given'[s][i] = given[s][i]
  BY <1>1, <1>3, EnqueueEffect
<1>5. ASSUME NEW j \in 1 .. at PROVE (IsOp(j)' <=> IsOp(j)) /\ (Done(j)' <=> Done(j))
  <2>1. Program' = Program /\ done' = done
    BY <1>1, EnqueueEffect
  <2>2. Program[j].on \in Stream
    BY <1>1, ProgramIs, CommandIs DEF ShapeInv
  <2>3. IsOp(j)' <=> IsOp(j)
    BY <2>1 DEF IsOp
  <2>4. Done(j)' <=> \E i \in 1 .. done[Program[j].on] : given'[Program[j].on][i].by = j
    <3>1. Done(j)' <=> \E i \in 1 .. done'[Program'[j].on] : given'[Program'[j].on][i].by = j
      BY DEF Done
    <3> QED
      BY <2>1, <3>1
  <2>5. Done(j)' <=> Done(j)
    BY <1>4, <2>2, <2>4 DEF Done
  <2> QED
    BY <2>3, <2>5
<1>6. ASSUME NEW j, j = at + 1, Done(j)' PROVE FALSE
  <2>1. /\ Program'[j] = command /\ done' = done /\ command.on \in Stream /\ at \in Nat
    BY <1>1, <1>6, EnqueueEffect DEF ShapeInv
  <2>2. PICK i \in 1 .. done[command.on] : given'[command.on][i].by = j
    <3>1. \E i \in 1 .. done'[Program'[j].on] : given'[Program'[j].on][i].by = j
      BY <1>6 DEF Done
    <3> QED
      BY <2>1, <3>1
  <2>3. given[command.on][i].by = j /\ i \in 1 .. Len(given[command.on])
    BY <1>3, <1>4, <2>1, <2>2
  <2>4. Matches(given[command.on][i], command.on)
    BY <1>1, <2>1, <2>3 DEF GivenInv
  <2> QED
    BY <1>6, <2>1, <2>3, <2>4 DEF Matches
<1> QED
  BY <1>5, <1>6

LEMMA EnqueueGiven ==
  ASSUME IInv, at < Len(Program), IsOp(at + 1), NEW op \in Op, Enqueue(op), op.by = at + 1,
         op.op = "record" => command.do = "record" /\ op.ev = command.ev,
         op.op = "kernel" => command.do = "launch",
         op.op = "wait" => command.do = "wait" /\ op.for = command.for
                           /\ op.upto = Len(given[command.for])
  PROVE  GivenInv' /\ WaitInv' /\ SyncInv'
<1>1. ShapeInv /\ GivenInv /\ WaitInv /\ SyncInv /\ at \in Nat
  BY DEF IInv, ShapeInv
<1> DEFINE c == command.on
           last == Len(given[c]) + 1
<1>2. /\ Program' = Program /\ at' = at + 1 /\ done' = done
      /\ command \in Command /\ command = Program[at + 1] /\ c \in Stream
      /\ \A s \in Stream :
              /\ Len(given[s]) \in Nat
              /\ Len(given'[s]) = IF s = c THEN Len(given[s]) + 1 ELSE Len(given[s])
              /\ \A i \in 1 .. Len(given[s]) : given'[s][i] = given[s][i]
              /\ \A i \in 1 .. Len(given'[s]) : i \in 1 .. Len(given[s]) \/ (s = c /\ i = last)
      /\ given'[c][last] = op
  BY <1>1, EnqueueEffect
<1> HIDE DEF c, last
<1>3. last = Len(given[c]) + 1 /\ c = command.on
  BY DEF last, c
<1>4. ASSUME NEW s \in Stream, NEW i \in 1 .. Len(given'[s])
      PROVE  \/ /\ i \in 1 .. Len(given[s]) /\ given'[s][i] = given[s][i]
                /\ Matches(given[s][i], s)
             \/ s = c /\ i = last /\ given'[s][i] = op
  BY <1>1, <1>2 DEF GivenInv
<1>5. GivenInv'
  <2>1. ASSUME NEW s \in Stream, NEW i \in 1 .. Len(given'[s])
        PROVE  Matches(given[s][i], s)'
    <3>1. CASE i \in 1 .. Len(given[s]) /\ given'[s][i] = given[s][i] /\ Matches(given[s][i], s)
      <4>1. given[s][i].by \in 1 .. at'
        BY <1>1, <1>2, <3>1 DEF Matches
      <4> QED
        BY <1>2, <3>1, <4>1 DEF Matches
    <3>2. CASE s = c /\ i = last /\ given'[s][i] = op
      <4>1. op.by \in 1 .. at' /\ Program'[op.by] = command
        BY <1>1, <1>2
      <4> QED
        BY <1>3, <3>2, <4>1 DEF Matches
    <3> QED
      BY <1>4, <3>1, <3>2
  <2>2. ASSUME NEW s \in Stream, NEW i \in 1 .. Len(given'[s]), NEW k \in 1 .. Len(given'[s]), i < k
        PROVE  given'[s][i].by < given'[s][k].by
    <3>1. i \in 1 .. Len(given[s]) /\ given'[s][i] = given[s][i] /\ Matches(given[s][i], s)
      BY <1>2, <1>3, <1>4, <2>2
    <3>2. CASE k \in 1 .. Len(given[s]) /\ given'[s][k] = given[s][k]
      BY <1>1, <2>2, <3>1, <3>2 DEF GivenInv
    <3>3. CASE given'[s][k] = op
      BY <1>1, <3>1, <3>3 DEF Matches
    <3> QED
      BY <1>4, <3>2, <3>3
  <2>3. ASSUME NEW j \in 1 .. at', IsOp(j)'
        PROVE  \E i \in 1 .. Len(given'[Program'[j].on]) : given'[Program'[j].on][i].by = j
    <3>1. CASE j = at + 1
      <4>1. last \in 1 .. Len(given'[c]) /\ Program'[j].on = c
        BY <1>2, <1>3, <3>1
      <4> QED
        BY <1>2, <3>1, <4>1
    <3>2. CASE j # at + 1
      <4>1. j \in 1 .. at /\ IsOp(j)
        BY <1>1, <1>2, <2>3, <3>2 DEF IsOp
      <4>2. PICK t \in Stream : t = Program[j].on
        BY <1>1, <4>1, ProgramIs, CommandIs DEF ShapeInv
      <4>3. PICK i \in 1 .. Len(given[t]) : given[t][i].by = j
        BY <1>1, <4>1, <4>2 DEF GivenInv
      <4>4. /\ Len(given[t]) \in Nat /\ given'[t][i] = given[t][i]
            /\ Len(given'[t]) = Len(given[t]) + 1 \/ Len(given'[t]) = Len(given[t])
        BY <1>2
      <4>5. i \in 1 .. Len(given'[t]) /\ given'[t][i].by = j
        BY <4>3, <4>4
      <4> QED
        BY <1>2, <4>2, <4>5
    <3> QED
      BY <3>1, <3>2
  <2> QED
    BY <2>1, <2>2, <2>3 DEF GivenInv
<1>6. WaitInv'
  <2> SUFFICES ASSUME NEW s \in Stream, NEW i \in 1 .. Len(given'[s]), given'[s][i].op = "wait"
               PROVE  LET o == given'[s][i]
                      IN  /\ \A l \in 1 .. Len(given'[o.for]) :
                               given'[o.for][l].by < o.by => l <= o.upto
                          /\ i <= done'[s] => o.upto <= done'[o.for]
    BY DEF WaitInv
  <2>1. CASE i \in 1 .. Len(given[s]) /\ given'[s][i] = given[s][i] /\ Matches(given[s][i], s)
    <3>1. PICK o : o = given[s][i]
      OBVIOUS
    <3>2. /\ o \in Op /\ o.op = "wait" /\ o.for \in Stream /\ o.by \in 1 .. at
          /\ \A l \in 1 .. Len(given[o.for]) : given[o.for][l].by < o.by => l <= o.upto
          /\ i <= done[s] => o.upto <= done[o.for]
      <4>1. o \in Op
        BY <2>1, <3>1 DEF IInv, ShapeInv
      <4>2. o.op = "wait" /\ o.for \in Stream
        BY <2>1, <3>1, <4>1 DEF Op
      <4>3. o.by \in 1 .. at
        BY <2>1, <3>1 DEF Matches
      <4> QED
        BY <1>1, <2>1, <3>1, <4>1, <4>2, <4>3 DEF WaitInv
    <3>3. ASSUME NEW l \in 1 .. Len(given'[o.for]), given'[o.for][l].by < o.by
          PROVE  l <= o.upto
      <4>1. given'[o.for][l] # op
        BY <1>1, <3>2, <3>3
      <4>2. l \in 1 .. Len(given[o.for]) /\ given'[o.for][l] = given[o.for][l]
        BY <1>4, <3>2, <4>1
      <4> QED
        BY <3>2, <3>3, <4>2
    <3> QED
      BY <1>2, <2>1, <3>1, <3>2, <3>3
  <2>2. CASE s = c /\ i = last /\ given'[s][i] = op
    <3>1. /\ op.op = "wait" /\ op.for = command.for /\ op.upto = Len(given[command.for])
          /\ command.for \in Stream
      BY <1>2, <2>2, CommandIs
    <3>2. ASSUME NEW l \in 1 .. Len(given'[op.for]), given'[op.for][l].by < op.by
          PROVE  l <= op.upto
      <4>1. given'[op.for][l] # op
        BY <1>1, <3>2
      <4>2. l \in 1 .. Len(given[op.for])
        BY <1>4, <3>1, <4>1
      <4> QED
        BY <1>2, <3>1, <4>2
    <3>3. ~(i <= done'[s])
      <4>1. done[c] \in Nat /\ done[c] <= Len(given[c]) /\ Len(given[c]) \in Nat
        BY <1>1, <1>2 DEF ShapeInv
      <4> QED
        BY <1>2, <1>3, <2>2, <4>1
    <3> QED
      BY <2>2, <3>2, <3>3
  <2> QED
    BY <1>4, <2>1, <2>2
<1>7. SyncInv'
  <2> SUFFICES ASSUME NEW k \in 1 .. at', Program'[k].do = "synchronize",
                      NEW j \in 1 .. k, IsOp(j)'
               PROVE  Done(j)'
    BY DEF SyncInv
  <2>1. k # at + 1
    BY <1>2 DEF IsOp
  <2>2. k \in 1 .. at /\ j \in 1 .. at
    BY <1>1, <1>2, <2>1
  <2>3. IsOp(j) /\ Program[k].do = "synchronize"
    BY <1>2, <2>2, EnqueueDone
  <2>4. Done(j)
    BY <1>1, <2>2, <2>3 DEF SyncInv
  <2> QED
    BY <2>2, <2>4, EnqueueDone
<1> QED
  BY <1>5, <1>6, <1>7

LEMMA EnqueueShape ==
  ASSUME IInv, at < Len(Program), NEW op \in Op, Enqueue(op), recorded' \in [Event -> Nat]
  PROVE  ShapeInv' /\ FiredInv'
<1>1. ShapeInv /\ FiredInv
  BY DEF IInv
<1>2. /\ Program' = Program /\ at' = at + 1 /\ at' \in Nat /\ at' <= Len(Program)
      /\ done' = done /\ running' = running /\ fired' = fired /\ script' = script
      /\ given' \in [Stream -> Seq(Op)]
      /\ \A s \in Stream :
              /\ Len(given[s]) \in Nat
              /\ Len(given'[s]) = IF s = command.on THEN Len(given[s]) + 1 ELSE Len(given[s])
              /\ \A i \in 1 .. Len(given[s]) : given'[s][i] = given[s][i]
  BY <1>1, EnqueueEffect DEF Enqueue
<1>3. ShapeInv'
  <2>1. ASSUME NEW s \in Stream
        PROVE  done[s] <= Len(given'[s]) /\ (running[s] => Pending(s, "kernel")')
    <3>1. /\ Len(given[s]) \in Nat /\ done[s] \in Nat /\ done[s] <= Len(given[s])
          /\ Len(given'[s]) \in Nat /\ Len(given'[s]) >= Len(given[s])
      BY <1>1, <1>2 DEF ShapeInv
    <3>2. ASSUME running[s] PROVE Pending(s, "kernel")'
      <4>1. done[s] < Len(given[s]) /\ given[s][done[s] + 1].op = "kernel"
        BY <1>1, <3>2 DEF ShapeInv, Pending
      <4>2. done[s] + 1 \in 1 .. Len(given[s])
        BY <3>1, <4>1
      <4>3. done[s] < Len(given'[s]) /\ given'[s][done[s] + 1].op = "kernel"
        BY <1>2, <3>1, <4>1, <4>2
      <4> QED
        BY <1>2, <4>3 DEF Pending
    <3> QED
      BY <3>1, <3>2
  <2>2. /\ script \in Scripts /\ done \in [Stream -> Nat] /\ running \in [Stream -> BOOLEAN]
        /\ fired \in [Event -> Nat]
    BY <1>1 DEF ShapeInv
  <2> QED
    BY <1>2, <2>1, <2>2 DEF ShapeInv
<1>4. FiredInv'
  <2> SUFFICES ASSUME NEW ev \in Event
               PROVE  /\ fired[ev] # 0 => /\ fired[ev] \in 1 .. at'
                                          /\ RecordOf(Program'[fired[ev]], ev)
                                          /\ Done(fired[ev])'
                      /\ \A j \in 1 .. at' : RecordOf(Program'[j], ev) /\ Done(j)' => j <= fired[ev]
    BY <1>2 DEF FiredInv, RecordOf
  <2>1. at \in Nat
    BY <1>1 DEF ShapeInv
  <2>2. ASSUME fired[ev] # 0
        PROVE  /\ fired[ev] \in 1 .. at' /\ RecordOf(Program'[fired[ev]], ev)
               /\ Done(fired[ev])'
    <3>1. PICK j : j = fired[ev]
      OBVIOUS
    <3>2. j \in 1 .. at /\ RecordOf(Program[j], ev) /\ Done(j)
      BY <1>1, <2>2, <3>1 DEF FiredInv
    <3>3. Done(j)'
      BY <3>2, EnqueueDone
    <3>4. Done(fired[ev])'
      BY <1>2, <3>1, <3>3 DEF Done
    <3> QED
      BY <1>2, <2>1, <3>1, <3>2, <3>4
  <2>3. ASSUME NEW j \in 1 .. at', RecordOf(Program'[j], ev), Done(j)' PROVE j <= fired[ev]
    <3>1. j \in 1 .. at
      BY <1>2, <2>1, <2>3, EnqueueDone
    <3>2. Done(j) /\ RecordOf(Program[j], ev)
      BY <1>2, <2>3, <3>1, EnqueueDone
    <3> QED
      BY <1>1, <3>1, <3>2 DEF FiredInv
  <2> QED
    BY <2>2, <2>3
<1> QED
  BY <1>3, <1>4

\* The latest records, when the host has got through one more command.
LEMMA RecordStep ==
  ASSUME ShapeInv, RecordInv, at < Len(Program), at' = at + 1, UNCHANGED script,
         recorded' = IF command.do = "record" THEN [recorded EXCEPT ![command.ev] = at + 1]
                     ELSE recorded
  PROVE  recorded' \in [Event -> Nat] /\ RecordInv'
<1>1. Program' = Program /\ command = Program[at + 1] /\ at \in Nat
  BY DEF Program, ShapeInv, command
<1>2. Len(Program) \in Nat /\ recorded \in [Event -> Nat]
  BY ProgramIs DEF ShapeInv
<1>3. at + 1 \in 1 .. Len(Program)
  BY <1>1, <1>2
<1>4. command.do = "record" => command.ev \in Event
  BY <1>1, <1>3, ProgramIs, CommandIs DEF ShapeInv
<1>5. recorded' \in [Event -> Nat]
  BY <1>1, <1>2, <1>4
<1>6. ASSUME NEW ev \in Event
      PROVE  /\ recorded'[ev] # 0 => recorded'[ev] \in 1 .. at' /\ RecordOf(Program'[recorded'[ev]], ev)
             /\ \A j \in 1 .. at' : RecordOf(Program'[j], ev) => j <= recorded'[ev]
  <2>1. /\ recorded[ev] # 0 => recorded[ev] \in 1 .. at /\ RecordOf(Program[recorded[ev]], ev)
        /\ \A j \in 1 .. at : RecordOf(Program[j], ev) => j <= recorded[ev]
    BY DEF RecordInv
  <2>2. CASE RecordOf(command, ev)
    <3>1. recorded'[ev] = at + 1
      BY <1>2, <2>2 DEF RecordOf
    <3> QED
      BY <1>1, <2>2, <3>1
  <2>3. CASE ~RecordOf(command, ev)
    <3>1. recorded'[ev] = recorded[ev]
      BY <1>2, <2>3 DEF RecordOf
    <3>2. ASSUME NEW j \in 1 .. at', RecordOf(Program'[j], ev) PROVE j \in 1 .. at
      BY <1>1, <2>3, <3>2
    <3> QED
      BY <1>1, <2>1, <3>1, <3>2
  <2> QED
    BY <2>2, <2>3
<1> QED
  BY <1>5, <1>6 DEF RecordInv, RecordOf

LEMMA HostEnqueues ==
  ASSUME IInv, HostRecord \/ HostLaunch \/ HostWait
  PROVE  IInv'
<1>1. ShapeInv /\ RecordInv /\ at \in Nat /\ at < Len(Program)
  BY DEF IInv, ShapeInv, HostRecord, HostLaunch, HostWait
<1>2. command = Program[at + 1] /\ command \in Command
  <2>1. Len(Program) \in Nat
    BY <1>1, ProgramIs DEF ShapeInv
  <2>2. at + 1 \in 1 .. Len(Program)
    BY <1>1, <2>1
  <2> QED
    BY <1>1, <2>2, ProgramIs DEF ShapeInv, command
<1>3. PICK op \in Op : /\ Enqueue(op) /\ op.by = at + 1
                       /\ op.op = "record" => command.do = "record" /\ op.ev = command.ev
                       /\ op.op = "kernel" => command.do = "launch"
                       /\ op.op = "wait" => command.do = "wait" /\ op.for = command.for
                                            /\ op.upto = Len(given[command.for])
  <2>1. CASE HostRecord
    <3>1. command.ev \in Event
      BY <1>2, <2>1, CommandIs DEF HostRecord
    <3>2. [op |-> "record", ev |-> command.ev, by |-> at + 1] \in Op
      BY <1>1, <3>1 DEF Op
    <3> QED
      BY <2>1, <3>2 DEF HostRecord
  <2>2. CASE HostLaunch
    <3>1. [op |-> "kernel", by |-> at + 1] \in Op
      BY <1>1 DEF Op
    <3> QED
      BY <2>2, <3>1 DEF HostLaunch
  <2>3. CASE HostWait
    <3>1. command.for \in Stream
      BY <1>2, <2>3, CommandIs DEF HostWait
    <3>2. given[command.for] \in Seq(Op)
      BY <1>1, <3>1 DEF ShapeInv
    <3>3. Len(given[command.for]) \in Nat
      BY <3>2
    <3>4. [op |-> "wait", for |-> command.for, upto |-> Len(given[command.for]), by |-> at + 1] \in Op
      BY <1>1, <3>1, <3>3 DEF Op
    <3> QED
      BY <2>3, <3>4 DEF HostWait
  <2> QED
    BY <2>1, <2>2, <2>3
<1>4. IsOp(at + 1)
  BY <1>2 DEF IsOp, HostRecord, HostLaunch, HostWait
<1>5. recorded' = IF command.do = "record" THEN [recorded EXCEPT ![command.ev] = at + 1]
                  ELSE recorded
  BY DEF HostRecord, HostLaunch, HostWait
<1>6. at' = at + 1 /\ UNCHANGED script
  BY <1>3 DEF Enqueue
<1>7. recorded' \in [Event -> Nat] /\ RecordInv'
  BY <1>1, <1>5, <1>6, RecordStep
<1>8. ShapeInv' /\ FiredInv'
  BY <1>1, <1>3, <1>7, EnqueueShape
<1>9. GivenInv' /\ WaitInv' /\ SyncInv'
  BY <1>1, <1>3, <1>4, EnqueueGiven
<1> QED
  BY <1>7, <1>8, <1>9 DEF IInv

\* The host waits for the device, or takes a time: the streams are given nothing.
LEMMA HostGoesOn ==
  ASSUME IInv, HostSynchronize \/ HostElapsed
  PROVE  IInv'
<1>1. ShapeInv /\ GivenInv /\ WaitInv /\ SyncInv /\ RecordInv /\ FiredInv /\ at \in Nat
  BY DEF IInv, ShapeInv
<1>2. /\ at < Len(Program) /\ at' = at + 1 /\ command.do \in {"synchronize", "elapsed"}
      /\ UNCHANGED <<script, given, done, running, recorded, fired>>
  BY DEF HostSynchronize, HostElapsed
<1>3. Program' = Program /\ command = Program[at + 1] /\ Len(Program) \in Nat
  BY <1>1, <1>2, ProgramIs DEF Program, command, ShapeInv
<1>4. ~IsOp(at + 1) /\ \A ev : ~RecordOf(Program[at + 1], ev)
  BY <1>2, <1>3 DEF IsOp, RecordOf
<1>5. \A j : (IsOp(j)' <=> IsOp(j)) /\ (Done(j)' <=> Done(j))
  BY <1>2, <1>3 DEF IsOp, Done
<1>6. \A j \in 1 .. at' : j = at + 1 \/ j \in 1 .. at
  BY <1>1, <1>2
<1>7. \A j \in 1 .. at : j \in 1 .. at'
  BY <1>1, <1>2
<1>8. RecordInv'
  <2>1. recorded' = IF command.do = "record" THEN [recorded EXCEPT ![command.ev] = at + 1]
                    ELSE recorded
    BY <1>2
  <2> QED
    BY <1>1, <1>2, <2>1, RecordStep
<1>9. ShapeInv'
  <2>1. at' \in Nat /\ at' <= Len(Program)
    BY <1>1, <1>2, <1>3
  <2>2. \A s : Pending(s, "kernel")' <=> Pending(s, "kernel")
    BY <1>2 DEF Pending
  <2> QED
    BY <1>1, <1>2, <1>3, <2>1, <2>2 DEF ShapeInv
<1>10. GivenInv'
  <2>1. ASSUME NEW s \in Stream, NEW i \in 1 .. Len(given[s]) PROVE Matches(given[s][i], s)'
    <3>1. Matches(given[s][i], s)
      BY <1>1 DEF GivenInv
    <3> QED
      BY <1>2, <1>3, <1>7, <3>1 DEF Matches
  <2>2. ASSUME NEW j \in 1 .. at', IsOp(j)
        PROVE  \E i \in 1 .. Len(given[Program[j].on]) : given[Program[j].on][i].by = j
    BY <1>1, <1>4, <1>6, <2>2 DEF GivenInv
  <2>3. \A s \in Stream : \A i, k \in 1 .. Len(given[s]) : i < k => given[s][i].by < given[s][k].by
    BY <1>1 DEF GivenInv
  <2> QED
    BY <1>2, <1>3, <1>5, <2>1, <2>2, <2>3 DEF GivenInv
<1>11. WaitInv'
  BY <1>1, <1>2 DEF WaitInv
<1>12. SyncInv'
  <2> SUFFICES ASSUME NEW k \in 1 .. at', Program[k].do = "synchronize", NEW j \in 1 .. k, IsOp(j)
               PROVE  Done(j)
    BY <1>3, <1>5 DEF SyncInv
  <2>1. CASE k \in 1 .. at
    BY <1>1, <2>1 DEF SyncInv
  <2>2. CASE k = at + 1
    <3>1. j \in 1 .. at
      BY <1>1, <1>4, <2>2
    <3>2. \A s \in Stream : done[s] = Len(given[s])
      BY <1>3, <2>2 DEF HostSynchronize, HostElapsed
    <3>3. Program[j].on \in Stream
      BY <1>1, <3>1, ProgramIs, CommandIs DEF ShapeInv
    <3> QED
      BY <1>1, <3>1, <3>2, <3>3 DEF GivenInv, Done
  <2> QED
    BY <1>6, <2>1, <2>2
<1>13. FiredInv'
  <2>1. ASSUME NEW ev \in Event
        PROVE  /\ fired[ev] # 0 => /\ fired[ev] \in 1 .. at'
                                   /\ RecordOf(Program[fired[ev]], ev) /\ Done(fired[ev])
               /\ \A j \in 1 .. at' : RecordOf(Program[j], ev) /\ Done(j) => j <= fired[ev]
    BY <1>1, <1>4, <1>6, <1>7 DEF FiredInv
  <2>2. \A j, ev : RecordOf(Program'[j], ev) <=> RecordOf(Program[j], ev)
    BY <1>3
  <2> QED
    BY <1>2, <1>3, <1>5, <2>1, <2>2 DEF FiredInv, Done, RecordOf
<1> QED
  BY <1>8, <1>9, <1>10, <1>11, <1>12, <1>13 DEF IInv

\* A stream gets through its next operation, o.
Advances(s) ==
  /\ done[s] < Len(given[s])
  /\ done' = [done EXCEPT ![s] = @ + 1]
  /\ UNCHANGED <<script, at, given, recorded>>

LEMMA AdvanceEffect ==
  ASSUME IInv, NEW s \in Stream, Advances(s)
  PROVE  /\ Program' = Program
         /\ Current(s) \in Op /\ Matches(Current(s), s) /\ Current(s).by \in 1 .. at
         /\ done[s] + 1 \in 1 .. Len(given[s])
         /\ \A j : IsOp(j)' <=> IsOp(j)
         /\ \A j \in 1 .. at : Done(j)' <=> Done(j) \/ j = Current(s).by
<1>1. ShapeInv /\ GivenInv /\ Program' = Program
  BY DEF IInv, Advances, Program
<1>2. done[s] \in Nat /\ Len(given[s]) \in Nat /\ done[s] < Len(given[s])
  BY <1>1 DEF ShapeInv, Advances
<1>3. done[s] + 1 \in 1 .. Len(given[s])
  BY <1>2
<1>4. Current(s) = given[s][done[s] + 1]
  BY DEF Current
<1>5. Current(s) \in Op /\ Matches(Current(s), s)
  BY <1>1, <1>3, <1>4 DEF ShapeInv, GivenInv
<1>6. Current(s).by \in 1 .. at /\ Program[Current(s).by].on = s
  BY <1>5 DEF Matches
<1>7. ASSUME NEW j \in 1 .. at PROVE Done(j)' <=> Done(j) \/ j = Current(s).by
  <2>1. PICK t \in Stream : t = Program[j].on
    BY <1>1, ProgramIs, CommandIs DEF ShapeInv
  <2>2. Done(j)' <=> \E i \in 1 .. done'[t] : given[t][i].by = j
    BY <1>1, <2>1 DEF Done, Advances
  <2>3. Done(j) <=> \E i \in 1 .. done[t] : given[t][i].by = j
    BY <2>1 DEF Done
  <2>4. CASE t = s
    <3>1. done'[t] = done[s] + 1
      BY <1>1, <2>4 DEF ShapeInv, Advances
    <3>2. \A i : i \in 1 .. done[s] + 1 <=> i \in 1 .. done[s] \/ i = done[s] + 1
      BY <1>2
    <3> QED
      BY <1>4, <2>2, <2>3, <2>4, <3>1, <3>2
  <2>5. CASE t # s
    <3>1. done'[t] = done[t]
      BY <1>1, <2>5 DEF ShapeInv, Advances
    <3>2. j # Current(s).by
      BY <1>6, <2>1, <2>5
    <3> QED
      BY <2>2, <2>3, <3>1, <3>2
  <2> QED
    BY <2>4, <2>5
<1>8. \A j : IsOp(j)' <=> IsOp(j)
  BY <1>1 DEF IsOp
<1> QED
  BY <1>1, <1>3, <1>5, <1>6, <1>7, <1>8

LEMMA AdvanceKeeps ==
  ASSUME IInv, NEW s \in Stream, Advances(s),
         Current(s).op = "wait" => done[Current(s).for] >= Current(s).upto,
         running' \in [Stream -> BOOLEAN], ~running'[s],
         \A t \in Stream : t # s => running'[t] = running[t],
         fired' \in [Event -> Nat]
  PROVE  ShapeInv' /\ GivenInv' /\ WaitInv' /\ SyncInv' /\ RecordInv'
<1>1. ShapeInv /\ GivenInv /\ WaitInv /\ SyncInv /\ RecordInv
  BY DEF IInv
<1>2. /\ Program' = Program /\ at' = at /\ given' = given /\ recorded' = recorded
      /\ script' = script /\ done' = [done EXCEPT ![s] = @ + 1] /\ done[s] < Len(given[s])
      /\ done \in [Stream -> Nat] /\ at \in Nat
      /\ \A t \in Stream : Len(given[t]) \in Nat
  <2>1. given \in [Stream -> Seq(Op)] /\ done \in [Stream -> Nat] /\ at \in Nat
    BY <1>1 DEF ShapeInv
  <2>2. \A t \in Stream : Len(given[t]) \in Nat
    BY <2>1
  <2> QED
    BY <2>1, <2>2, AdvanceEffect DEF Advances
<1>3. \A t \in Stream : done'[t] = (IF t = s THEN done[s] + 1 ELSE done[t])
  BY <1>2
<1>4. done' \in [Stream -> Nat]
  BY <1>2
<1>5. ShapeInv'
  <2>1. ASSUME NEW t \in Stream
        PROVE  done'[t] <= Len(given[t]) /\ (running'[t] => Pending(t, "kernel")')
    <3>1. done[t] <= Len(given[t]) /\ (running[t] => Pending(t, "kernel"))
      BY <1>1 DEF ShapeInv
    <3>2. CASE t = s
      <4>1. done'[s] = done[s] + 1 /\ done[s] \in Nat /\ Len(given[s]) \in Nat
        BY <1>2, <1>3
      <4> QED
        BY <1>2, <3>2, <4>1
    <3>3. CASE t # s
      <4>1. done'[t] = done[t]
        BY <1>3, <3>3
      <4>2. Pending(t, "kernel")' <=> Pending(t, "kernel")
        BY <1>2, <4>1 DEF Pending
      <4> QED
        BY <3>1, <3>3, <4>1, <4>2
    <3> QED
      BY <3>2, <3>3
  <2> QED
    BY <1>1, <1>2, <1>4, <2>1 DEF ShapeInv
<1>6. GivenInv'
  <2>1. \A t, i : Matches(given[t][i], t)' <=> Matches(given[t][i], t)
    BY <1>2 DEF Matches
  <2>2. \A j : IsOp(j)' <=> IsOp(j)
    BY AdvanceEffect
  <2> QED
    BY <1>1, <1>2, <2>1, <2>2 DEF GivenInv
<1>7. WaitInv'
  <2>1. ASSUME NEW t \in Stream, NEW i \in 1 .. Len(given[t]), given[t][i].op = "wait", i <= done'[t]
        PROVE  given[t][i].upto <= done'[given[t][i].for]
    <3>1. PICK o \in Op : o = given[t][i]
      BY <1>1 DEF ShapeInv
    <3>2. o.for \in Stream /\ o.upto \in Nat
      BY <2>1, <3>1 DEF Op
    <3>3. o.upto <= done[o.for]
      <4>1. CASE i <= done[t]
        BY <1>1, <2>1, <3>1, <4>1 DEF WaitInv
      <4>2. CASE ~(i <= done[t])
        <5>1. t = s /\ i = done[s] + 1
          BY <1>2, <1>3, <2>1, <4>2
        <5>2. o = Current(s)
          BY <3>1, <5>1 DEF Current
        <5>3. done[o.for] >= o.upto
          BY <2>1, <3>1, <5>2
        <5> QED
          BY <1>2, <3>2, <5>3
      <4> QED
        BY <4>1, <4>2
    <3>4. done[o.for] <= done'[o.for]
      BY <1>2, <1>3, <3>2
    <3>5. o.upto <= done'[o.for]
      BY <1>2, <1>4, <3>2, <3>3, <3>4
    <3> QED
      BY <3>1, <3>5
  <2>2. ASSUME NEW t \in Stream, NEW i \in 1 .. Len(given[t]), given[t][i].op = "wait",
               NEW l \in 1 .. Len(given[given[t][i].for]),
               given[given[t][i].for][l].by < given[t][i].by
        PROVE  l <= given[t][i].upto
    BY <1>1, <2>2 DEF WaitInv
  <2> QED
    BY <1>2, <2>1, <2>2 DEF WaitInv
<1>8. SyncInv'
  <2> SUFFICES ASSUME NEW k \in 1 .. at, Program[k].do = "synchronize", NEW j \in 1 .. k, IsOp(j)
               PROVE  Done(j)'
    BY <1>2, AdvanceEffect DEF SyncInv
  <2>1. Done(j) /\ j \in 1 .. at
    BY <1>1, <1>2 DEF SyncInv
  <2> QED
    BY <2>1, AdvanceEffect
<1>9. RecordInv'
  BY <1>1, <1>2 DEF RecordInv, RecordOf
<1> QED
  BY <1>5, <1>6, <1>7, <1>8, <1>9

\* A stream passes a wait or ends a kernel: no event is reached.
LEMMA NotFired ==
  ASSUME IInv, NEW s \in Stream, Advances(s), Current(s).op # "record", UNCHANGED fired
  PROVE  FiredInv'
<1>1. FiredInv /\ at' = at /\ Program' = Program /\ fired \in [Event -> Nat]
  BY AdvanceEffect DEF IInv, ShapeInv, Advances
<1>2. Program[Current(s).by].do # "record"
  <2>1. Current(s).op \in {"kernel", "wait"}
    BY AdvanceEffect DEF Op
  <2> QED
    BY <2>1, AdvanceEffect DEF Matches
<1>3. ASSUME NEW ev \in Event, NEW j \in 1 .. at, RecordOf(Program[j], ev), Done(j)'
      PROVE  j <= fired[ev]
  <2>1. j # Current(s).by
    BY <1>2, <1>3 DEF RecordOf
  <2> QED
    BY <1>1, <1>3, <2>1, AdvanceEffect DEF FiredInv
<1>4. ASSUME NEW ev \in Event, fired[ev] # 0
      PROVE  fired[ev] \in 1 .. at /\ RecordOf(Program[fired[ev]], ev) /\ Done(fired[ev])'
  <2>1. PICK j : j = fired[ev]
    OBVIOUS
  <2>2. j \in 1 .. at /\ RecordOf(Program[j], ev) /\ Done(j)
    BY <1>1, <1>4, <2>1 DEF FiredInv
  <2>3. Done(j)'
    BY <2>2, AdvanceEffect
  <2>4. Done(fired[ev])'
    BY <2>1, <2>3 DEF Done
  <2> QED
    BY <2>1, <2>2, <2>4
<1> QED
  BY <1>1, <1>3, <1>4 DEF FiredInv, RecordOf

LEMMA FireStep ==
  ASSUME IInv, NEW s \in Stream, Fire(s)
  PROVE  IInv'
<1>1. /\ Advances(s) /\ Current(s).op = "record" /\ running' = running
      /\ fired' = [fired EXCEPT ![Current(s).ev] = Current(s).by]
  BY DEF Fire, Pending, Current, Advances
<1>2. /\ Current(s) \in Op /\ Matches(Current(s), s) /\ Current(s).by \in 1 .. at
      /\ Program' = Program
  BY <1>1, AdvanceEffect
<1>3. ShapeInv /\ GivenInv /\ FiredInv /\ at' = at /\ at \in Nat
  BY <1>1 DEF IInv, ShapeInv, Advances
<1>4. fired \in [Event -> Nat] /\ running \in [Stream -> BOOLEAN]
  BY <1>3 DEF ShapeInv
<1> DEFINE j0 == Current(s).by
           e0 == Current(s).ev
<1>5. /\ e0 \in Event /\ j0 \in 1 .. at /\ RecordOf(Program[j0], e0) /\ Program[j0].on = s
  BY <1>1, <1>2 DEF Op, Matches, RecordOf
<1>6. /\ fired' \in [Event -> Nat] /\ fired'[e0] = j0
      /\ \A ev \in Event : ev # e0 => fired'[ev] = fired[ev]
  BY <1>1, <1>3, <1>4, <1>5
<1>7. ~running[s]
  BY <1>1, <1>3 DEF ShapeInv, Pending, Current
<1>8. ShapeInv' /\ GivenInv' /\ WaitInv' /\ SyncInv' /\ RecordInv'
  BY <1>1, <1>4, <1>6, <1>7, AdvanceKeeps
<1> HIDE DEF j0, e0
<1>9. \A j \in 1 .. at : Done(j)' <=> Done(j) \/ j = j0
  BY <1>1, AdvanceEffect DEF j0
<1>10. ASSUME NEW j \in 1 .. at, RecordOf(Program[j], e0), Done(j)
       PROVE  j <= j0
  <2> SUFFICES ASSUME j0 < j PROVE FALSE
    BY <1>3, <1>5
  <2>1. Program[j].on = s
    <3>1. Program[j] \in Command /\ Program[j0] \in Command
      BY <1>3, <1>5, ProgramIs DEF ShapeInv
    <3>2. Program[j].on = Home(e0) /\ Program[j0].on = Home(e0)
      BY <1>5, <1>10, <3>1, CommandIs DEF RecordOf
    <3> QED
      BY <1>5, <3>2
  <2>2. PICK i \in 1 .. done[s] : given[s][i].by = j
    BY <1>10, <2>1 DEF Done
  <2>3. /\ done[s] \in Nat /\ done[s] + 1 \in 1 .. Len(given[s]) /\ given[s][done[s] + 1].by = j0
        /\ Len(given[s]) \in Nat
    BY <1>1, <1>3, AdvanceEffect DEF ShapeInv, Current, j0
  <2>4. i \in 1 .. Len(given[s]) /\ i < done[s] + 1
    BY <2>2, <2>3
  <2>5. j < j0
    BY <1>3, <2>2, <2>3, <2>4 DEF GivenInv
  <2> QED
    BY <1>3, <1>5, <2>5
<1>11. ASSUME NEW ev \in Event, NEW j \in 1 .. at, RecordOf(Program[j], ev), Done(j)'
       PROVE  j <= fired'[ev]
  <2>1. Done(j) \/ j = j0
    BY <1>9, <1>11
  <2>2. CASE ev = e0
    <3>1. j = j0 => j <= j0
      BY <1>3
    <3> QED
      BY <1>6, <1>10, <1>11, <2>1, <2>2, <3>1
  <2>3. CASE ev # e0
    <3>1. j # j0
      BY <1>5, <1>11, <2>3 DEF RecordOf
    <3> QED
      BY <1>3, <1>6, <1>11, <2>1, <2>3, <3>1 DEF FiredInv
  <2> QED
    BY <2>2, <2>3
<1>12. ASSUME NEW ev \in Event, fired'[ev] # 0
       PROVE  fired'[ev] \in 1 .. at /\ RecordOf(Program[fired'[ev]], ev) /\ Done(fired[ev])'
  <2>1. PICK j : j = fired'[ev]
    OBVIOUS
  <2>2. j \in 1 .. at /\ RecordOf(Program[j], ev) /\ (Done(j) \/ j = j0)
    BY <1>3, <1>5, <1>6, <1>12, <2>1 DEF FiredInv
  <2>3. Done(j)'
    BY <1>9, <2>2
  <2>4. Done(fired[ev])'
    BY <2>1, <2>3 DEF Done
  <2> QED
    BY <2>1, <2>2, <2>4
<1>13. FiredInv'
  BY <1>2, <1>3, <1>11, <1>12 DEF FiredInv, RecordOf
<1> QED
  BY <1>8, <1>13 DEF IInv

LEMMA DeviceKeeps ==
  ASSUME IInv, NEW s \in Stream, DeviceStep(s)
  PROVE  IInv'
<1>1. /\ ShapeInv /\ GivenInv /\ WaitInv /\ SyncInv /\ RecordInv /\ FiredInv
      /\ fired \in [Event -> Nat] /\ running \in [Stream -> BOOLEAN]
  BY DEF IInv, ShapeInv
<1>2. CASE PassWait(s)
  <2>1. /\ Advances(s) /\ Current(s).op = "wait" /\ done[Current(s).for] >= Current(s).upto
        /\ running' = running /\ fired' = fired
    BY <1>2 DEF PassWait, Pending, Current, Advances
  <2>2. ~running[s]
    BY <1>1, <2>1 DEF ShapeInv, Pending, Current
  <2>3. ShapeInv' /\ GivenInv' /\ WaitInv' /\ SyncInv' /\ RecordInv'
    BY <1>1, <2>1, <2>2, AdvanceKeeps
  <2>4. FiredInv'
    BY <2>1, NotFired
  <2> QED
    BY <2>3, <2>4 DEF IInv
<1>3. CASE EndKernel(s)
  <2>1. /\ Advances(s) /\ Current(s).op = "kernel" /\ fired' = fired
        /\ running' = [running EXCEPT ![s] = FALSE]
    BY <1>3 DEF EndKernel, Pending, Current, Advances
  <2>2. /\ running' \in [Stream -> BOOLEAN] /\ ~running'[s]
        /\ \A t \in Stream : t # s => running'[t] = running[t]
    BY <1>1, <2>1
  <2>3. ShapeInv' /\ GivenInv' /\ WaitInv' /\ SyncInv' /\ RecordInv'
    BY <1>1, <2>1, <2>2, AdvanceKeeps
  <2>4. FiredInv'
    BY <2>1, NotFired
  <2> QED
    BY <2>3, <2>4 DEF IInv
<1>4. CASE Begin(s)
  <2>1. /\ UNCHANGED <<script, at, given, done, recorded, fired>> /\ Pending(s, "kernel")
        /\ running' = [running EXCEPT ![s] = TRUE]
    BY <1>4 DEF Begin
  <2>2. running' \in [Stream -> BOOLEAN] /\ \A t \in Stream : running'[t] => running[t] \/ t = s
    BY <1>1, <2>1
  <2>3. Program' = Program /\ \A t : Pending(t, "kernel")' <=> Pending(t, "kernel")
    BY <2>1 DEF Program, Pending
  <2>4. ShapeInv'
    BY <1>1, <2>1, <2>2, <2>3 DEF ShapeInv
  <2>5. \A j : (IsOp(j)' <=> IsOp(j)) /\ (Done(j)' <=> Done(j))
    BY <2>1, <2>3 DEF IsOp, Done
  <2>6. \A t, i : Matches(given[t][i], t)' <=> Matches(given[t][i], t)
    BY <2>1, <2>3 DEF Matches
  <2>7. GivenInv' /\ WaitInv' /\ SyncInv' /\ RecordInv'
    BY <1>1, <2>1, <2>3, <2>5, <2>6 DEF GivenInv, WaitInv, SyncInv, RecordInv, RecordOf
  <2>8. FiredInv'
    <3>1. \A ev \in Event : Done(fired[ev])' <=> Done(fired[ev])
      BY <2>1, <2>3 DEF Done
    <3> QED
      BY <1>1, <2>1, <2>3, <2>5, <3>1 DEF FiredInv, RecordOf
  <2> QED
    BY <2>4, <2>7, <2>8 DEF IInv
<1> QED
  BY <1>2, <1>3, <1>4, FireStep DEF DeviceStep

LEMMA IInvStep == IInv /\ [Next]_vars => IInv'
<1> SUFFICES ASSUME IInv, [Next]_vars PROVE IInv'
  OBVIOUS
<1>1. CASE HostStep
  BY <1>1, HostEnqueues, HostGoesOn DEF HostStep
<1>2. CASE \E s \in Stream : DeviceStep(s)
  BY <1>2, DeviceKeeps
<1>3. CASE UNCHANGED vars
  <2>1. Program' = Program /\ UNCHANGED <<script, at, given, done, running, recorded, fired>>
    BY <1>3 DEF vars, Program
  <2>2. \A j : (IsOp(j)' <=> IsOp(j)) /\ (Done(j)' <=> Done(j))
    BY <2>1 DEF IsOp, Done
  <2>3. /\ \A t, i : Matches(given[t][i], t)' <=> Matches(given[t][i], t)
        /\ \A t : Pending(t, "kernel")' <=> Pending(t, "kernel")
        /\ \A ev \in Event : Done(fired[ev])' <=> Done(fired[ev])
    BY <2>1 DEF Matches, Pending, Done
  <2>4. ShapeInv' /\ GivenInv' /\ WaitInv'
    BY <2>1, <2>2, <2>3 DEF IInv, ShapeInv, GivenInv, WaitInv
  <2>5. SyncInv' /\ RecordInv' /\ FiredInv'
    BY <2>1, <2>2, <2>3 DEF IInv, SyncInv, RecordInv, FiredInv, RecordOf
  <2> QED
    BY <2>4, <2>5 DEF IInv
<1> QED
  BY <1>1, <1>2, <1>3 DEF Next

\* The streams hold the commands that have been given out, in order; waits are
\* passed and events reached accordingly.
THEOREM Invariant == Spec => []IInv
<1> QED
  BY InitInv, IInvStep, PTL DEF Spec

-----------------------------------------------------------------------------
LEMMA CommandAt ==
  ASSUME IInv, NEW j \in 1 .. at
  PROVE  /\ j \in 1 .. Len(Program) /\ Program[j] \in Command /\ Program[j].on \in Stream
         /\ Program[j].do = "record" => Program[j].ev \in Event /\ Program[j].on = Home(Program[j].ev)
<1>1. Len(Program) \in Nat /\ at \in Nat /\ at <= Len(Program)
  BY ProgramIs DEF IInv, ShapeInv
<1>2. j \in 1 .. Len(Program)
  BY <1>1
<1> QED
  BY <1>2, ProgramIs, CommandIs DEF IInv, ShapeInv

LEMMA DoneIsCompleted ==
  ASSUME IInv, NEW j \in 1 .. at, Program[j].do = "launch", Done(j)
  PROVE  j \in Completed
<1>1. PICK s \in Stream : s = Program[j].on
  BY CommandAt
<1>2. PICK i \in 1 .. done[s] : given[s][i].by = j
  BY <1>1 DEF Done
<1>3. i \in 1 .. Len(given[s])
  <2>1. done[s] \in Nat /\ Len(given[s]) \in Nat /\ done[s] <= Len(given[s])
    BY DEF IInv, ShapeInv
  <2> QED
    BY <2>1
<1>4. given[s][i] \in Op /\ Matches(given[s][i], s)
  BY <1>3 DEF IInv, ShapeInv, GivenInv
<1>5. given[s][i].op = "kernel"
  BY <1>2, <1>4 DEF Op, Matches
<1> QED
  BY <1>2, <1>5 DEF Completed

\* A command that its stream has come to: all before it on that stream is done.
Reached(k) ==
  k \in 1 .. at /\ \A j \in 1 .. at : j < k /\ IsOp(j) /\ Program[j].on = Program[k].on => Done(j)

LEMMA DoneIsReached ==
  ASSUME IInv, NEW k \in 1 .. at, Done(k)
  PROVE  Reached(k)
<1>1. ASSUME NEW j \in 1 .. at, j < k, IsOp(j), Program[j].on = Program[k].on PROVE Done(j)
  BY <1>1, DoneBefore DEF IInv
<1> QED
  BY <1>1 DEF Reached

LEMMA RunningIsReached ==
  ASSUME IInv, NEW s \in Stream, running[s]
  PROVE  /\ Reached(Current(s).by)
         /\ Program[Current(s).by].do = "launch" /\ Program[Current(s).by].on = s
<1>1. Pending(s, "kernel") /\ ShapeInv /\ GivenInv
  BY DEF IInv, ShapeInv
<1>2. /\ done[s] \in Nat /\ Len(given[s]) \in Nat /\ done[s] < Len(given[s])
      /\ Current(s) = given[s][done[s] + 1] /\ Current(s).op = "kernel"
  BY <1>1 DEF ShapeInv, Pending, Current
<1>3. done[s] + 1 \in 1 .. Len(given[s])
  BY <1>2
<1>4. Matches(Current(s), s)
  BY <1>1, <1>2, <1>3 DEF GivenInv
<1>5. PICK k \in 1 .. at : k = Current(s).by
  BY <1>4 DEF Matches
<1>6. Program[k].do = "launch" /\ Program[k].on = s
  BY <1>2, <1>4, <1>5 DEF Matches
<1>7. ASSUME NEW j \in 1 .. at, j < k, IsOp(j), Program[j].on = s PROVE Done(j)
  <2>1. PICK l \in 1 .. Len(given[s]) : given[s][l].by = j
    BY <1>1, <1>7 DEF GivenInv
  <2>2. l < done[s] + 1
    <3> SUFFICES ASSUME done[s] + 1 < l \/ done[s] + 1 = l PROVE FALSE
      BY <1>2, <2>1
    <3>1. done[s] + 1 < l => k < j
      BY <1>1, <1>2, <1>3, <1>5, <2>1 DEF GivenInv
    <3> QED
      BY <1>2, <1>5, <1>7, <2>1, <3>1
  <2>3. l \in 1 .. done[s]
    BY <1>2, <2>1, <2>2
  <2> QED
    BY <1>7, <2>1, <2>3 DEF Done
<1> QED
  BY <1>5, <1>6, <1>7 DEF Reached

\* A wait on the stream, before a command that it has come to, has been passed.
LEMMA ReachedByWait ==
  ASSUME IInv, NEW k \in 1 .. at, Reached(k), NEW w \in 1 .. at, w < k,
         Program[w].do = "wait", Program[w].on = Program[k].on,
         NEW j \in 1 .. at, j < w, IsOp(j), Program[w].for = Program[j].on
  PROVE  Done(j)
<1>1. Done(w)
  BY DEF Reached, IsOp
<1> QED
  BY <1>1, DoneByWait DEF IInv

\* When the current stream has come to a command, all kernels launched before
\* have ended, those of the side streams too.
LEMMA CurrentAfterAll ==
  ASSUME IInv, NEW k \in 1 .. at, Reached(k), OnCur(Program[k]),
         NEW i \in 1 .. at, i < k, Program[i].do = "launch"
  PROVE  Done(i)
<1>1. IsOp(i)
  BY DEF IsOp
<1>2. CASE Program[i].on = "cur"
  BY <1>1, <1>2 DEF Reached, OnCur
<1>3. CASE Program[i].on # "cur"
  <2>1. Joined(Program, i)
    BY <1>3, CommandAt, ProgramIs DEF Fenced, IInv, ShapeInv
  <2>2. PICK w \in i .. Len(Program) : /\ Program[w] = WaitStream("cur", Program[i].on)
                                       /\ \A l \in i .. w : ~OnCur(Program[l])
    BY <2>1 DEF Joined
  <2>3. w < k
    <3>1. k \notin i .. w
      BY <2>2
    <3>2. Len(Program) \in Nat
      BY ProgramIs DEF IInv, ShapeInv
    <3> QED
      BY <2>2, <3>1, <3>2
  <2>4. Program[w].do = "wait" /\ Program[w].on = "cur" /\ Program[w].for = Program[i].on
    BY <2>2 DEF WaitStream
  <2>5. i < w
    <3>1. w # i
      BY <2>4
    <3> QED
      BY <2>2, <3>1
  <2>6. w \in 1 .. at
    <3>1. at \in Nat /\ Len(Program) \in Nat
      BY ProgramIs DEF IInv, ShapeInv
    <3> QED
      BY <2>3, <3>1
  <2> QED
    BY <1>1, <2>3, <2>4, <2>5, <2>6, ReachedByWait DEF OnCur
<1> QED
  BY <1>2, <1>3

\* When a side stream has come to its kernel, what the current stream was given
\* before is done.
LEMMA SideAfterCurrent ==
  ASSUME IInv, NEW k \in 1 .. at, Reached(k), Program[k].do = "launch", Program[k].on # "cur",
         NEW j \in 1 .. at, j < k, OnCur(Program[j])
  PROVE  Done(j)
<1>1. IsOp(j)
  BY DEF IsOp, OnCur
<1>2. Forked(Program, k)
  BY CommandAt, ProgramIs DEF Fenced, IInv, ShapeInv
<1>3. PICK w \in 1 .. k : /\ Program[w] = WaitStream(Program[k].on, "cur")
                          /\ \A l \in w .. k : ~OnCur(Program[l])
  BY <1>2 DEF Forked
<1>4. Program[w].do = "wait" /\ Program[w].on = Program[k].on /\ Program[w].for = "cur"
  BY <1>3 DEF WaitStream
<1>5. j < w
  <2>1. j \notin w .. k
    BY <1>3
  <2> QED
    BY <1>3, <2>1
<1>6. w < k /\ w \in 1 .. at
  <2>1. w # k
    BY <1>4
  <2>2. at \in Nat
    BY DEF IInv, ShapeInv
  <2> QED
    BY <1>3, <2>1, <2>2
<1> QED
  BY <1>1, <1>4, <1>5, <1>6, ReachedByWait DEF OnCur

\* The kernels that race share no buffer.
LEMMA RaceApart ==
  ASSUME IInv, NEW i \in 1 .. at, NEW k \in 1 .. at, Program[i].do = "launch", Program[k].do = "launch",
         Program[i].on # "cur", Program[k].on # "cur", Program[i].on # Program[k].on
  PROVE  ~Conflict(i, k)
<1>1. Program[i] \in Command /\ Program[k] \in Command
  BY CommandAt
<1>2. \/ Program[i] = bdmm("s_prod") /\ Program[k] = rot_persist("s_cons")
      \/ Program[i] = rot_persist("s_cons") /\ Program[k] = bdmm("s_prod")
  BY <1>1, CommandIs DEF Stream
<1> QED
  BY <1>2 DEF Conflict, bdmm, rot_persist, Launch

-----------------------------------------------------------------------------
\* The three streams run side by side and the host never waits in the warm-up:
\* still no kernel begins before all earlier ones that share a buffer with it
\* have ended, as every race is forked from the current stream and joined to it.
THEOREM KernelsInOrder == Spec => []ConflictsInOrder
<1>1. ASSUME IInv PROVE ConflictsInOrder
  <2> SUFFICES ASSUME NEW s \in Running, NEW i \in 1 .. Current(s).by - 1, Conflict(i, Current(s).by)
               PROVE  i \in Completed
    BY DEF ConflictsInOrder
  <2>1. s \in Stream /\ running[s]
    BY DEF Running
  <2>2. PICK k : k = Current(s).by
    OBVIOUS
  <2>3. /\ k \in 1 .. at /\ Reached(k) /\ Program[k].do = "launch" /\ Program[k].on = s
    BY <1>1, <2>1, <2>2, RunningIsReached DEF Reached
  <2>4. i \in 1 .. at /\ i < k /\ Program[i].do = "launch" /\ Conflict(i, k)
    <3>1. at \in Nat
      BY <1>1 DEF IInv, ShapeInv
    <3>2. i \in 1 .. k - 1
      BY <2>2
    <3>3. i \in 1 .. at /\ i < k
      BY <2>3, <3>1, <3>2
    <3> QED
      BY <2>2, <3>3 DEF Conflict
  <2>5. CASE Program[i].on = s
    BY <1>1, <2>3, <2>4, <2>5, DoneIsCompleted DEF Reached, IsOp
  <2>6. CASE Program[i].on # s /\ s = "cur"
    <3>1. Done(i)
      BY <1>1, <2>3, <2>4, <2>6, CurrentAfterAll DEF OnCur
    <3> QED
      BY <1>1, <2>4, <3>1, DoneIsCompleted
  <2>7. CASE Program[i].on # s /\ s # "cur"
    <3>1. Program[i].on = "cur"
      BY <1>1, <2>3, <2>4, <2>7, RaceApart
    <3>2. Done(i)
      BY <1>1, <2>3, <2>4, <2>7, <3>1, SideAfterCurrent DEF OnCur
    <3> QED
      BY <1>1, <2>4, <3>2, DoneIsCompleted
  <2> QED
    BY <2>5, <2>6, <2>7
<1> QED
  BY <1>1, Invariant, PTL

\* When the latest record of an event has been reached, it is the last reached.
LEMMA LatestFired ==
  ASSUME IInv, NEW ev \in Event, recorded[ev] # 0 => Done(recorded[ev])
  PROVE  fired[ev] = recorded[ev]
<1>1. /\ recorded[ev] \in Nat /\ fired[ev] \in Nat /\ at \in Nat
      /\ recorded[ev] # 0 => recorded[ev] \in 1 .. at /\ RecordOf(Program[recorded[ev]], ev)
      /\ fired[ev] # 0 => fired[ev] \in 1 .. at /\ RecordOf(Program[fired[ev]], ev)
  BY DEF IInv, ShapeInv, RecordInv, FiredInv
<1>2. recorded[ev] # 0 => recorded[ev] <= fired[ev]
  BY <1>1 DEF IInv, FiredInv
<1>3. fired[ev] # 0 => fired[ev] <= recorded[ev]
  BY <1>1 DEF IInv, RecordInv
<1> QED
  BY <1>1, <1>2, <1>3

\* Events are recorded again in every turn, and the host runs ahead; but the
\* times it takes are between records that the device has reached.
THEOREM TimesOfTheTurn == Spec => []TimesAreFinal
<1>1. ASSUME IInv PROVE TimesAreFinal
  <2> SUFFICES ASSUME at < Len(Program), command.do = "elapsed",
                      NEW ev \in {command.first, command.last}
               PROVE  fired[ev] = recorded[ev] /\ fired[ev] # 0
    BY DEF TimesAreFinal
  <2>1. at \in Nat /\ Len(Program) \in Nat /\ script \in Scripts
    BY <1>1, ProgramIs DEF IInv, ShapeInv
  <2>2. PICK k : k = at + 1
    OBVIOUS
  <2>3. k \in 1 .. Len(Program) /\ command = Program[k]
    BY <2>1, <2>2 DEF command
  <2>4. ev \in Event
    BY <2>1, <2>3, ProgramIs, CommandIs
  <2>5. Settled(Program, ev, k)
    BY <2>1, <2>3, ProgramIs DEF Taken
  <2>6. PICK w \in 1 .. k : /\ Program[w].do = "synchronize"
                            /\ \E r \in 1 .. w : RecordOf(Program[r], ev)
                            /\ \A i \in w .. k : ~RecordOf(Program[i], ev)
    BY <2>5 DEF Settled
  <2>7. w \in 1 .. at
    <3>1. w # k
      BY <2>3, <2>6
    <3> QED
      BY <2>1, <2>2, <3>1
  <2>8. PICK r \in 1 .. w : RecordOf(Program[r], ev)
    BY <2>6
  <2>9. PICK R : R = recorded[ev]
    OBVIOUS
  <2>10. R \in Nat /\ R # 0 /\ R \in 1 .. at /\ RecordOf(Program[R], ev)
    <3>1. /\ R \in Nat
          /\ R # 0 => R \in 1 .. at /\ RecordOf(Program[R], ev)
          /\ \A j \in 1 .. at : RecordOf(Program[j], ev) => j <= R
      BY <1>1, <2>4, <2>9 DEF IInv, ShapeInv, RecordInv
    <3>2. r \in 1 .. at
      BY <2>1, <2>7, <2>8
    <3>3. r <= R /\ r \in Nat /\ r # 0
      BY <2>8, <3>1, <3>2
    <3>4. R # 0
      BY <3>1, <3>3
    <3> QED
      BY <3>1, <3>4
  <2>11. R \in 1 .. w
    <3>1. R \notin w .. k
      BY <2>6, <2>10
    <3> QED
      BY <2>1, <2>2, <2>7, <2>10, <3>1
  <2>12. Done(R)
    BY <1>1, <2>6, <2>7, <2>10, <2>11 DEF IInv, SyncInv, IsOp, RecordOf
  <2>13. fired[ev] = R
    BY <1>1, <2>4, <2>9, <2>12, LatestFired
  <2> QED
    BY <2>9, <2>10, <2>13
<1> QED
  BY <1>1, Invariant, PTL

\* What lies between the events around an arm is the whole arm: its kernels on
\* the side streams have ended when the second is reached, and none of any
\* stream begins before the first is.
THEOREM ArmsTimedWhole == Spec => []ArmTimedWhole
<1>1. ASSUME IInv PROVE ArmTimedWhole
  <2>1. "e0" \in Event /\ "e1" \in Event /\ Home("e0") = "cur" /\ Home("e1") = "cur"
    BY DEF Event, Home
  <2>2. \A j \in 1 .. at : RecordOf(Program[j], "e0") \/ RecordOf(Program[j], "e1") => OnCur(Program[j])
    BY <1>1, <2>1, CommandAt DEF RecordOf, OnCur
  <2>3. ASSUME fired["e1"] # 0, NEW i \in Launches(fired["e0"], fired["e1"])
        PROVE  i \in Completed
    <3>1. PICK r : r = fired["e1"]
      OBVIOUS
    <3>2. r \in 1 .. at /\ RecordOf(Program[r], "e1") /\ Done(r)
      BY <1>1, <2>1, <2>3, <3>1 DEF IInv, FiredInv
    <3>3. fired["e0"] \in Nat
      BY <1>1, <2>1 DEF IInv, ShapeInv
    <3>4. i \in 1 .. r /\ Program[i].do = "launch"
      BY <2>3, <3>1, <3>2, <3>3 DEF Launches
    <3>5. i # r
      BY <3>2, <3>4 DEF RecordOf
    <3>6. i \in 1 .. at /\ i < r
      <4>1. at \in Nat
        BY <1>1 DEF IInv, ShapeInv
      <4> QED
        BY <3>2, <3>4, <3>5, <4>1
    <3>7. Reached(r) /\ OnCur(Program[r])
      BY <1>1, <2>2, <3>2, DoneIsReached
    <3>8. Done(i)
      BY <1>1, <3>2, <3>4, <3>6, <3>7, CurrentAfterAll
    <3> QED
      BY <1>1, <3>4, <3>6, <3>8, DoneIsCompleted
  <2>4. ASSUME NEW s \in Running, Current(s).by > recorded["e0"]
        PROVE  fired["e0"] = recorded["e0"]
    <3>1. s \in Stream /\ running[s]
      BY DEF Running
    <3>2. PICK k : k = Current(s).by
      OBVIOUS
    <3>3. /\ k \in 1 .. at /\ Reached(k) /\ Program[k].do = "launch" /\ Program[k].on = s
      BY <1>1, <3>1, <3>2, RunningIsReached DEF Reached
    <3>4. ASSUME recorded["e0"] # 0 PROVE Done(recorded["e0"])
      <4>1. PICK r : r = recorded["e0"]
        OBVIOUS
      <4>2. r \in 1 .. at /\ RecordOf(Program[r], "e0") /\ r < k
        BY <1>1, <2>1, <2>4, <3>2, <3>3, <3>4, <4>1 DEF IInv, RecordInv
      <4>3. OnCur(Program[r]) /\ IsOp(r)
        BY <2>2, <4>2 DEF RecordOf, IsOp
      <4>4. Done(r)
        <5>1. CASE s = "cur"
          BY <3>3, <4>2, <4>3, <5>1 DEF Reached, OnCur
        <5>2. CASE s # "cur"
          BY <1>1, <3>3, <4>2, <4>3, <5>2, SideAfterCurrent
        <5> QED
          BY <5>1, <5>2
      <4> QED
        BY <4>1, <4>4
    <3> QED
      BY <1>1, <2>1, <3>4, LatestFired
  <2> QED
    BY <2>3, <2>4 DEF ArmTimedWhole
<1> QED
  BY <1>1, Invariant, PTL

=============================================================================
