----------------------------- MODULE Telemetry -----------------------------
(***************************************************************************)
(* The trust-snapshot task: each poll of GET /v1/snapshot publishes one    *)
(* health record to Valkey for the verifier and then hands the same record *)
(* to health.State, whose gauges operators watch (internal/telemetry,      *)
(* SetJSON of internal/valkeystore, the gauges of internal/health).        *)
(*                                                                         *)
(* Time is a set of timers in ticks.  What a snapshot says is named by its *)
(* version: the code copies it and decides nothing on it.                  *)
(***************************************************************************)
EXTENDS Integers

CONSTANTS
  Territory,
  MaxVer,         \* upstream publishes versions 1..MaxVer
  TerritoriesOf,  \* TerritoriesOf[v]: the territories version v reports on
  Interval,       \* trust_sync.snapshot_poll_interval, in ticks
  PollTime,       \* ticks a poll may take (see Worker for what bounds a call)
  StartTime       \* ticks from the death of a process to the first poll of the
                  \* next: the pod's restart, New and the startup probe

Version == 1..MaxVer
NoVer == 0
FreshFor == 3 * Interval

ASSUME TimeAssumption == Interval \in Nat \ {0} /\ PollTime \in Nat /\ StartTime \in Nat
ASSUME VerAssumption == MaxVer \in Nat \ {0} /\ TerritoriesOf \in [Version -> SUBSET Territory]

VARIABLES
  upstream,    \* the version the trust service answers with
  record,      \* key trust:freshness:snapshot: the version it carries, its
               \* ticks left (0 = no such key) and the ticks since upstream
               \* answered it (history)
  snap,        \* State.snap (NoVer = nil)
  registered,  \* the territories that have a gauge
  poll,        \* the poll in flight: [step, ver, age]; or the process starts
  timer, due,  \* the ticker: ticks until it fires, and that it has fired
  elapsed,     \* ticks since the poll, or the start, began
  success,     \* the outcome the last poll was counted under (history)
  misses       \* polls and starts in a row that wrote nothing, at most 2 (history)

vars == <<upstream, record, snap, registered, poll, timer, due, elapsed, success, misses>>

NoRecord == [ver |-> NoVer, ttl |-> 0, age |-> 0]
NoPoll == [step |-> "idle", ver |-> NoVer, age |-> 0]
Starting == [NoPoll EXCEPT !.step = "start"]
Present(k) == k.ttl > 0

Init ==
  /\ upstream = 1
  /\ record = NoRecord
  /\ snap = NoVer /\ registered = {}
  /\ poll = Starting
  /\ timer = Interval /\ due = FALSE /\ elapsed = 0
  /\ success = FALSE /\ misses = 2

\* SetJSON: version v, answered a ticks ago, under the TTL the core passes.
SetJSON(v, a) == [ver |-> v, ttl |-> FreshFor, age |-> a]

\* What a gauge reads when it is scraped: State.snap, through its callback.
GaugeReads(c) == IF c \in registered THEN snap ELSE NoVer

Missed == IF misses < 2 THEN misses + 1 ELSE 2

\* The task starts: its ticker, and the first run of Poll at once.
StartTask ==
  /\ poll.step = "start"
  /\ poll' = [NoPoll EXCEPT !.step = "ask"]
  /\ elapsed' = 0
  /\ UNCHANGED <<upstream, record, snap, registered, timer, due, success, misses>>

\* The task runs Poll, which asks for the snapshot.
Begin ==
  /\ poll.step = "idle" /\ due
  /\ poll' = [NoPoll EXCEPT !.step = "ask"]
  /\ due' = FALSE /\ elapsed' = 0
  /\ UNCHANGED <<upstream, record, snap, registered, timer, success, misses>>

\* Mutant: the gauges are set before the record is written.
AnswerSetsGauges ==
  /\ poll.step = "ask"
  /\ poll' = [step |-> "publish", ver |-> upstream, age |-> 0]
  /\ snap' = upstream
  /\ UNCHANGED <<upstream, record, registered, timer, due, elapsed, success, misses>>

\* The answer, from which the health record is built.
Answer ==
  /\ poll.step = "ask"
  /\ poll' = [step |-> "publish", ver |-> upstream, age |-> 0]
  /\ UNCHANGED <<upstream, record, snap, registered, timer, due, elapsed, success, misses>>

\* Mutant: a failed poll gives the published record a new lease.
PollErrorExtends ==
  /\ poll.step \in {"ask", "publish"}
  /\ poll' = NoPoll
  /\ record' = IF Present(record) THEN [record EXCEPT !.ttl = FreshFor] ELSE record
  /\ success' = FALSE /\ misses' = Missed
  /\ UNCHANGED <<upstream, snap, registered, timer, due, elapsed>>

\* Snapshot or SetJSON fails: nothing is written.
PollError ==
  /\ poll.step \in {"ask", "publish"}
  /\ poll' = NoPoll
  /\ success' = FALSE /\ misses' = Missed
  /\ UNCHANGED <<upstream, record, snap, registered, timer, due, elapsed>>

\* Mutant: the interval is tripled twice.
PublishTripled ==
  /\ poll.step = "publish"
  /\ record' = [ver |-> poll.ver, ttl |-> 3 * FreshFor, age |-> poll.age]
  /\ misses' = 0
  /\ poll' = [poll EXCEPT !.step = "set"]
  /\ UNCHANGED <<upstream, snap, registered, timer, due, elapsed, success>>

\* Mutant: the key lives for one poll interval.
PublishShort ==
  /\ poll.step = "publish"
  /\ record' = [ver |-> poll.ver, ttl |-> Interval, age |-> poll.age]
  /\ misses' = 0
  /\ \/ poll' = [poll EXCEPT !.step = "set"] /\ UNCHANGED success
     \/ poll' = NoPoll /\ success' = FALSE
  /\ UNCHANGED <<upstream, snap, registered, timer, due, elapsed>>

\* SetJSON is applied; its reply arrives, or is lost and Poll fails.
Publish ==
  /\ poll.step = "publish"
  /\ record' = SetJSON(poll.ver, poll.age)
  /\ misses' = 0
  /\ \/ poll' = [poll EXCEPT !.step = "set"] /\ UNCHANGED success
     \/ poll' = NoPoll /\ success' = FALSE
  /\ UNCHANGED <<upstream, snap, registered, timer, due, elapsed>>

\* Mutant: only the first snapshot is kept.
SetSnapshotOnce ==
  /\ poll.step = "set"
  /\ snap' = IF snap = NoVer THEN poll.ver ELSE snap
  /\ poll' = [poll EXCEPT !.step = "register"]
  /\ UNCHANGED <<upstream, record, registered, timer, due, elapsed, success, misses>>

\* SetSnapshot replaces State.snap under its lock ...
SetSnapshot ==
  /\ poll.step = "set"
  /\ snap' = poll.ver
  /\ poll' = [poll EXCEPT !.step = "register"]
  /\ UNCHANGED <<upstream, record, registered, timer, due, elapsed, success, misses>>

\* ... and registers, after it, a gauge for each territory seen first.
RegisterGauges ==
  /\ poll.step = "register"
  /\ registered' = registered \cup TerritoriesOf[poll.ver]
  /\ poll' = NoPoll /\ success' = TRUE
  /\ UNCHANGED <<upstream, record, snap, timer, due, elapsed, misses>>

NewVersion ==
  /\ upstream < MaxVer
  /\ upstream' = upstream + 1
  /\ UNCHANGED <<record, snap, registered, poll, timer, due, elapsed, success, misses>>

\* A poll that is due begins before the next tick; a process that starts has no
\* ticker yet.
Tick ==
  /\ CASE poll.step = "idle" -> ~due
       [] poll.step = "start" -> elapsed < StartTime
       [] OTHER -> elapsed < PollTime
  /\ elapsed' = IF poll.step = "idle" THEN elapsed ELSE elapsed + 1
  /\ record' = IF record.ttl <= 1 THEN NoRecord
               ELSE [record EXCEPT !.ttl = @ - 1, !.age = @ + 1]
  /\ poll' = IF poll.step \in {"idle", "start", "ask"} THEN poll
             ELSE [poll EXCEPT !.age = @ + 1]
  /\ timer' = IF poll.step = "start" THEN timer ELSE IF timer > 1 THEN timer - 1 ELSE Interval
  /\ due' = (due \/ (poll.step # "start" /\ timer = 1))
  /\ UNCHANGED <<upstream, snap, registered, success, misses>>

\* The process dies, at work or while it starts, or its start fails; the next one
\* has no snapshot, no gauges and a start ahead of it.
Crash ==
  /\ snap' = NoVer /\ registered' = {}
  /\ poll' = Starting
  /\ timer' = Interval /\ due' = FALSE /\ elapsed' = 0
  /\ success' = FALSE
  /\ misses' = IF poll.step \in {"start", "ask", "publish"} THEN Missed ELSE misses
  /\ UNCHANGED <<upstream, record>>

Next ==
  \/ StartTask \/ Begin \/ Answer \/ PollError \/ Publish \/ SetSnapshot \/ RegisterGauges
  \/ NewVersion \/ Tick \/ Crash

Spec == Init /\ [][Next]_vars

-----------------------------------------------------------------------------
(* Properties.                                                             *)

Age == 0..(FreshFor + PollTime)

TypeOK ==
  /\ upstream \in Version
  /\ record \in [ver : {NoVer} \cup Version, ttl : 0..FreshFor, age : Age]
  /\ snap \in {NoVer} \cup Version
  /\ registered \subseteq Territory
  /\ poll \in [step : {"idle", "start", "ask", "publish", "set", "register"},
               ver : {NoVer} \cup Version, age : 0..PollTime]
  /\ timer \in 1..Interval /\ due \in BOOLEAN /\ elapsed \in 0..(PollTime + StartTime)
  /\ success \in BOOLEAN /\ misses \in 0..2

\* "On a poll failure nothing is written: the previously written key ages
\* toward its TTL": whatever fails, a record in Valkey will be gone FreshFor
\* after upstream last answered it, plus the time its own poll took.
RecordAgesOut ==
  Present(record) => record.age + record.ttl <= FreshFor + PollTime

\* What the gauges show has been published: no gauge is ever ahead of the
\* record consumers read.
GaugesNotAhead ==
  Present(record) => \A c \in Territory : GaugeReads(c) <= record.ver

\* After a poll counted as a success every territory the record reports on has
\* a gauge, and the gauge reads the snapshot the record carries.
GaugesFollow ==
  poll.step = "idle" /\ success /\ Present(record) =>
    \A c \in TerritoriesOf[record.ver] : GaugeReads(c) = record.ver

\* The TTL of the record, 3 x the poll interval, bridges one missed poll: it is
\* never gone from Valkey because of a single poll that wrote nothing, nor when
\* the process restarts, once between any two polls, and the start takes its
\* time.
BridgesOneMiss == misses <= 1 => Present(record)
=============================================================================
