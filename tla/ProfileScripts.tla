-------------------------- MODULE ProfileScripts --------------------------
(***************************************************************************)
(* The measurement loops of the three profiling scripts.  The host         *)
(* enqueues kernels and events on CUDA streams and runs ahead of the       *)
(* device; the device works every stream off in order, and different       *)
(* streams side by side.  profile_two_stage_swz.py and                     *)
(* profile_fused_stage.py measure on the current stream;                   *)
(* profile_parallel_stage.py races two kernels on streams of their own.    *)
(* All turns of a loop use the same buffers, those of a tensor that lives  *)
(* for one turn included: the allocator hands its memory out again while   *)
(* the kernels of the last turn are still queued.                          *)
(*                                                                         *)
(* A script is a list of commands; a step is one command of the host, or   *)
(* the begin or end of an operation on the device.                         *)
(***************************************************************************)
EXTENDS Integers, Sequences, SequencesExt

CONSTANTS
  warmup,       \* turns of the warm-up, which never waits for the device
  iters,        \* turns that are timed
  Scripts       \* of those below

ASSUME TurnAssumption == warmup \in Nat /\ iters \in Nat

Stream == {"cur", "s_prod", "s_cons"}

\* Events: those made anew around every timed arm, and race's own, which are
\* recorded again by every call.
Event == {"e0", "e1", "ev0", "ev1", "ev2", "ev3", "ev4"}

Record(ev, s) == [do |-> "record", on |-> s, ev |-> ev]
\* A kernel, the buffers that it reads only, and the one that it writes.
Launch(s, reads, writes) == [do |-> "launch", on |-> s, reads |-> reads, writes |-> writes]
\* s.wait_stream(t): what s does from now on comes after what t was given so far.
WaitStream(s, t) == [do |-> "wait", on |-> s, for |-> t]
Synchronize      == [do |-> "synchronize", on |-> "cur"]
\* elapsed_time(first, last)
Elapsed(first, last) == [do |-> "elapsed", on |-> "cur", first |-> first, last |-> last]

\* Slip: the times are read without waiting for the device.
TimedNoSync(arm) ==
  <<Record("e0", "cur")>> \o arm \o <<Record("e1", "cur"), Elapsed("e0", "e1")>>
Timed(arm) ==
  <<Record("e0", "cur")>> \o arm \o <<Record("e1", "cur"), Synchronize, Elapsed("e0", "e1")>>

\* All arms in turn, first untimed, then timed; at the end of a turn more times
\* may be taken.
Measure(arms, more) ==
  LET turn  == FlattenSeq(arms)
      timed == FlattenSeq([i \in DOMAIN arms |-> Timed(arms[i])]) \o more
  IN  FlattenSeq([i \in 1 .. warmup |-> turn]) \o <<Synchronize>>
        \o FlattenSeq([i \in 1 .. iters |-> timed])

-----------------------------------------------------------------------------
\* profile_parallel_stage.py

bdmm(s)        == Launch(s, {"X", "W"}, "interA")
rot_fixed(s)   == Launch(s, {}, "interB")
rot_persist(s) == Launch(s, {}, "interB")

seq       == <<bdmm("cur"), rot_fixed("cur")>>
prod_base == <<bdmm("cur")>>
cons_base == <<rot_fixed("cur")>>

\* race(): both side streams start after the current one, each runs its kernel,
\* and the current stream goes on after them.
Fork   == <<Record("ev0", "cur"), WaitStream("s_prod", "cur"), WaitStream("s_cons", "cur")>>
OnProd == <<Record("ev1", "s_prod"), bdmm("s_prod"), Record("ev2", "s_prod")>>
OnCons == <<Record("ev3", "s_cons"), rot_persist("s_cons"), Record("ev4", "s_cons")>>
Join   == <<WaitStream("cur", "s_prod"), WaitStream("cur", "s_cons")>>

\* Slips: the current stream does not wait for the race to end; it waits before
\* the second kernel is given out.
raceUnjoined    == Fork \o OnProd \o OnCons
raceJoinedEarly == Fork \o OnProd \o Join \o OnCons
race            == Fork \o OnProd \o OnCons \o Join

\* The baseline, then one combo: bdmm_cfg once, to see if the tile is
\* supported, and the loop over the three arms.
parallel_stage ==
  Measure(<<seq, prod_base, cons_base>>, <<>>)
    \o <<Launch("cur", {"X", "W"}, "Y")>>
    \o Measure(<<seq, race, prod_base>>, <<Elapsed("ev0", "ev2"), Elapsed("ev0", "ev4")>>)

-----------------------------------------------------------------------------
\* profile_two_stage_swz.py: the rotations are in place.
two_stage_swz ==
  <<Launch("cur", {"x", "W1"}, "i1"), Launch("cur", {}, "i1"),
    Launch("cur", {"i1", "W2"}, "i2"), Launch("cur", {}, "i2")>>
dense == <<Launch("cur", {"x"}, "y")>>

two_stage == Measure(<<two_stage_swz>>, <<>>) \o Measure(<<dense>>, <<>>)

\* profile_fused_stage.py
fused   == <<Launch("cur", {"x", "W1"}, "Y")>>
swz2k   == <<Launch("cur", {"x", "W1"}, "i1"), Launch("cur", {}, "i1")>>
fr_ceil == swz2k

fused_stage == Measure(<<swz2k>>, <<>>) \o Measure(<<fused>>, <<>>) \o Measure(<<fr_ceil>>, <<>>)

ProgramOf ==
  [parallel_stage |-> parallel_stage, two_stage |-> two_stage, fused_stage |-> fused_stage]

ASSUME ScriptAssumption == Scripts \subseteq DOMAIN ProgramOf

-----------------------------------------------------------------------------
VARIABLES
  script,
  at,           \* commands the host has got through
  given,        \* [stream -> operations it was given]
  done,         \* [stream -> how many of them are done]
  running,      \* [stream -> is its next operation a kernel that has begun?]
  recorded,     \* [event -> command that recorded it last, 0 for none]
  fired         \* [event -> command whose record the device reached last]

vars == <<script, at, given, done, running, recorded, fired>>

Program == ProgramOf[script]

Init ==
  /\ script \in Scripts
  /\ at = 0
  /\ given = [s \in Stream |-> <<>>]
  /\ done = [s \in Stream |-> 0]
  /\ running = [s \in Stream |-> FALSE]
  /\ recorded = [ev \in Event |-> 0]
  /\ fired = [ev \in Event |-> 0]

\* The next command, and the operation that it puts on a stream.
command == Program[at + 1]
Enqueue(op) ==
  /\ at' = at + 1
  /\ given' = [given EXCEPT ![command.on] = Append(@, op)]
  /\ UNCHANGED <<script, done, running, fired>>

HostRecord ==
  /\ at < Len(Program) /\ command.do = "record"
  /\ Enqueue([op |-> "record", ev |-> command.ev, by |-> at + 1])
  /\ recorded' = [recorded EXCEPT ![command.ev] = at + 1]

HostLaunch ==
  /\ at < Len(Program) /\ command.do = "launch"
  /\ Enqueue([op |-> "kernel", by |-> at + 1])
  /\ UNCHANGED recorded

HostWait ==
  /\ at < Len(Program) /\ command.do = "wait"
  /\ Enqueue([op |-> "wait", for |-> command.for, upto |-> Len(given[command.for]), by |-> at + 1])
  /\ UNCHANGED recorded

\* The host blocks until all streams have run empty.
HostSynchronize ==
  /\ at < Len(Program) /\ command.do = "synchronize"
  /\ \A s \in Stream : done[s] = Len(given[s])
  /\ at' = at + 1
  /\ UNCHANGED <<script, given, done, running, recorded, fired>>

HostElapsed ==
  /\ at < Len(Program) /\ command.do = "elapsed"
  /\ at' = at + 1
  /\ UNCHANGED <<script, given, done, running, recorded, fired>>

-----------------------------------------------------------------------------
Pending(s, op) == done[s] < Len(given[s]) /\ given[s][done[s] + 1].op = op
Current(s)     == given[s][done[s] + 1]

Fire(s) ==
  /\ Pending(s, "record")
  /\ fired' = [fired EXCEPT ![Current(s).ev] = Current(s).by]
  /\ done' = [done EXCEPT ![s] = @ + 1]
  /\ UNCHANGED <<script, at, given, running, recorded>>

PassWait(s) ==
  /\ Pending(s, "wait")
  /\ done[Current(s).for] >= Current(s).upto
  /\ done' = [done EXCEPT ![s] = @ + 1]
  /\ UNCHANGED <<script, at, given, running, recorded, fired>>

Begin(s) ==
  /\ Pending(s, "kernel") /\ ~running[s]
  /\ running' = [running EXCEPT ![s] = TRUE]
  /\ UNCHANGED <<script, at, given, done, recorded, fired>>

EndKernel(s) ==
  /\ Pending(s, "kernel") /\ running[s]
  /\ running' = [running EXCEPT ![s] = FALSE]
  /\ done' = [done EXCEPT ![s] = @ + 1]
  /\ UNCHANGED <<script, at, given, recorded, fired>>

HostStep    == HostRecord \/ HostLaunch \/ HostWait \/ HostSynchronize \/ HostElapsed
DeviceStep(s) == Fire(s) \/ PassWait(s) \/ Begin(s) \/ EndKernel(s)

Next == HostStep \/ (\E s \in Stream : DeviceStep(s))

Spec == Init /\ [][Next]_vars

-----------------------------------------------------------------------------
Running == {s \in Stream : running[s]}

\* The launches that the device has completed.
Completed ==
  UNION {{given[s][i].by : i \in {j \in 1 .. done[s] : given[s][j].op = "kernel"}} : s \in Stream}

\* Commands i and j launch kernels one of which writes what the other accesses.
Conflict(i, j) ==
  /\ Program[i].do = "launch" /\ Program[j].do = "launch"
  /\ \/ Program[i].writes \in Program[j].reads \cup {Program[j].writes}
     \/ Program[j].writes \in Program[i].reads

\* Kernels that share a buffer run in the order of the script, although the
\* host never waits in the warm-up: no kernel begins before all earlier ones
\* that it conflicts with have ended, be they of the same arm, of another arm
\* on other streams, or of the turn before.
ConflictsInOrder ==
  \A s \in Running :
    \A i \in 1 .. Current(s).by - 1 : Conflict(i, Current(s).by) => i \in Completed

\* The times are those of complete arms: when the host takes the time between
\* two events, the device has reached the latest records of both.
TimesAreFinal ==
  at < Len(Program) /\ command.do = "elapsed" =>
    \A ev \in {command.first, command.last} : fired[ev] = recorded[ev] /\ fired[ev] # 0

Launches(from, to) == {i \in from + 1 .. to : Program[i].do = "launch"}

\* What is timed is the whole arm and nothing else: when the device reaches
\* e1, every kernel launched since e0 has ended, and none had begun at e0.
ArmTimedWhole ==
  /\ fired["e1"] # 0 /\ fired["e0"] < fired["e1"] =>
       Launches(fired["e0"], fired["e1"]) \subseteq Completed
  /\ \A s \in Running : Current(s).by > recorded["e0"] => fired["e0"] = recorded["e0"]
=============================================================================
