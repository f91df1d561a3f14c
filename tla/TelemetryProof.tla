-------------------------- MODULE TelemetryProof --------------------------
(***************************************************************************)
(* Theorems about the health record and the gauges, for any interval, any  *)
(* length of a poll or of a start, and any snapshots.                      *)
(***************************************************************************)
EXTENDS Telemetry, TLAPS

\* A poll in flight is no older than the time since it began, and holds an
\* answer once it has one.
PollClock ==
  /\ poll.age <= elapsed
  /\ poll.step \notin {"idle", "start"} => elapsed <= PollTime
  /\ poll.step \in {"publish", "set", "register"} => poll.ver \in Version

\* Nothing known anywhere is newer than upstream, and what a poll is about to
\* publish is no older than what the process shows.
Ordered ==
  /\ snap <= upstream
  /\ record.ver <= upstream
  /\ poll.ver <= upstream
  /\ poll.step = "publish" => snap <= poll.ver

\* Between SetJSON and the last gauge the record is the poll's.
OwnRecord ==
  /\ poll.step \in {"set", "register"} /\ Present(record) => record.ver = poll.ver
  /\ poll.step = "register" => snap = poll.ver

\* Nothing is shown that the record, while it is there, does not carry, and
\* after a success all of it is shown.
Shown ==
  /\ Present(record) => snap <= record.ver
  /\ poll.step = "idle" /\ success /\ Present(record) =>
       snap = record.ver /\ TerritoriesOf[record.ver] \subseteq registered

Inv == TypeOK /\ PollClock /\ Ordered /\ OwnRecord /\ Shown /\ RecordAgesOut

\* The ranges of the constants and of the timers, as numbers.
LEMMA Ranges ==
  /\ Interval \in Nat /\ Interval > 0 /\ PollTime \in Nat /\ StartTime \in Nat
  /\ MaxVer \in Nat /\ MaxVer > 0
  /\ FreshFor \in Nat /\ FreshFor > 0
  BY TimeAssumption, VerAssumption DEF FreshFor

\* The fields of the two records.
LEMMA Fields ==
  ASSUME TypeOK
  PROVE  /\ record.ver \in 0..MaxVer /\ record.ttl \in 0..FreshFor
         /\ record.age \in 0..(FreshFor + PollTime)
         /\ poll.step \in {"idle", "start", "ask", "publish", "set", "register"}
         /\ poll.ver \in 0..MaxVer /\ poll.age \in 0..PollTime
         /\ upstream \in 1..MaxVer /\ snap \in 0..MaxVer /\ elapsed \in 0..(PollTime + StartTime)
         /\ timer \in 1..Interval /\ registered \subseteq Territory
  BY Ranges DEF TypeOK, Age, Version, NoVer

\* A record of the right shape, from its fields.
LEMMA Shapes ==
  /\ NoRecord \in [ver : {NoVer} \cup Version, ttl : 0..FreshFor, age : Age]
  /\ NoPoll \in [step : {"idle", "start", "ask", "publish", "set", "register"},
                 ver : {NoVer} \cup Version, age : 0..PollTime]
  /\ Starting \in [step : {"idle", "start", "ask", "publish", "set", "register"},
                   ver : {NoVer} \cup Version, age : 0..PollTime]
  /\ Interval \in 1..Interval /\ 0 \in 0..(PollTime + StartTime)
  BY Ranges DEF NoRecord, NoPoll, Starting, Age

\* StartTask, Begin, Answer: a poll starts and is answered.
LEMMA AskInv == ASSUME Inv, StartTask \/ Begin \/ Answer PROVE Inv'
<1>1. TypeOK /\ UNCHANGED <<upstream, record, snap, registered, timer, success, misses>>
  BY DEF Inv, StartTask, Begin, Answer
<1>2. CASE StartTask \/ Begin
  <2>1. poll' = [step |-> "ask", ver |-> 0, age |-> 0] /\ elapsed' = 0
    BY <1>2 DEF StartTask, Begin, NoPoll, NoVer
  <2>2. TypeOK'
    <3>1. poll' \in [step : {"idle", "start", "ask", "publish", "set", "register"},
                      ver : {NoVer} \cup Version, age : 0..PollTime]
      BY <2>1, Ranges DEF NoVer
    <3>2. due' \in BOOLEAN
      BY <1>1, <1>2 DEF StartTask, Begin, TypeOK
    <3>3. elapsed' \in 0..(PollTime + StartTime)
      BY <2>1, Ranges
    <3> QED
      BY <1>1, <3>1, <3>2, <3>3 DEF TypeOK
  <2> QED
    BY <1>1, <2>1, <2>2, Fields, Ranges DEF Inv, PollClock, Ordered, OwnRecord, Shown, RecordAgesOut, Present
<1>3. CASE Answer
  <2>1. poll' = [step |-> "publish", ver |-> upstream, age |-> 0] /\ elapsed' = elapsed /\ due' = due
    BY <1>3 DEF Answer
  <2>2. TypeOK'
    BY <1>1, <2>1, Ranges DEF TypeOK
  <2> QED
    <3>1. /\ upstream \in 0..MaxVer /\ poll.age >= 0 /\ elapsed <= PollTime
          /\ snap <= upstream /\ record.ver <= upstream /\ upstream \in Version
      BY <1>1, <1>3, Fields, Ranges DEF Inv, Answer, PollClock, Ordered, TypeOK
    <3>2. poll'.step = "publish" /\ poll'.ver = upstream /\ poll'.age = 0
      BY <2>1
    <3> QED
      BY <1>1, <2>1, <2>2, <3>1, <3>2, Fields
         DEF Inv, PollClock, Ordered, OwnRecord, Shown, RecordAgesOut, Present
<1> QED
  BY <1>2, <1>3

\* A poll that fails before it has written.
LEMMA ErrorInv == ASSUME Inv, PollError PROVE Inv'
<1>1. /\ TypeOK /\ poll' = NoPoll /\ success' = FALSE /\ misses' \in 0..2
      /\ UNCHANGED <<upstream, record, snap, registered, timer, due, elapsed>>
  BY DEF Inv, PollError, Missed, TypeOK
<1>2. TypeOK'
  BY <1>1, Shapes DEF TypeOK
<1>3. poll'.step = "idle" /\ poll'.ver = 0 /\ poll'.age = 0
  BY <1>1 DEF NoPoll, NoVer
<1> QED
  BY <1>1, <1>2, <1>3, Fields DEF Inv, PollClock, Ordered, OwnRecord, Shown, RecordAgesOut, Present

\* SetJSON: the record is the poll's, as old as its answer.
LEMMA PublishInv == ASSUME Inv, Publish PROVE Inv'
<1>1. /\ TypeOK /\ poll.step = "publish" /\ poll.ver \in Version /\ snap <= poll.ver
      /\ record' = [ver |-> poll.ver, ttl |-> FreshFor, age |-> poll.age] /\ misses' = 0
      /\ UNCHANGED <<upstream, snap, registered, timer, due, elapsed>>
  BY DEF Inv, PollClock, Ordered, Publish, SetJSON
<1>2. /\ poll'.age <= poll.age /\ poll'.age \in 0..PollTime /\ poll'.ver \in {poll.ver, 0}
      /\ poll' \in [step : {"idle", "start", "ask", "publish", "set", "register"},
                    ver : {NoVer} \cup Version, age : 0..PollTime]
      /\ \/ poll'.step = "set" /\ poll'.ver = poll.ver /\ success' = success
         \/ poll'.step = "idle" /\ success' = FALSE
  <2>1. CASE poll' = [poll EXCEPT !.step = "set"] /\ success' = success
    BY <1>1, <2>1, Ranges DEF TypeOK
  <2>2. CASE poll' = NoPoll /\ success' = FALSE
    BY <1>1, <2>2, Fields, Shapes DEF NoPoll, NoVer
  <2> QED
    BY <2>1, <2>2 DEF Publish
<1>3. record' \in [ver : {NoVer} \cup Version, ttl : 0..FreshFor, age : Age]
  BY <1>1, Fields, Ranges DEF Age
<1>4. success' \in BOOLEAN
  BY <1>1, <1>2 DEF TypeOK
<1>5. TypeOK'
  BY <1>1, <1>2, <1>3, <1>4 DEF TypeOK
<1> QED
  BY <1>1, <1>2, <1>5, Fields, Ranges
     DEF Inv, PollClock, Ordered, OwnRecord, Shown, RecordAgesOut, Present

\* The process's own copy, and then its gauges.
LEMMA SetInv == ASSUME Inv, SetSnapshot \/ RegisterGauges PROVE Inv'
<1>1. TypeOK /\ UNCHANGED <<upstream, record, timer, due, elapsed, misses>> /\ poll.ver \in Version
  BY DEF Inv, PollClock, SetSnapshot, RegisterGauges
<1>2. CASE SetSnapshot
  <2>1. /\ poll.step = "set" /\ snap' = poll.ver /\ UNCHANGED <<registered, success>>
        /\ poll'.step = "register" /\ poll'.ver = poll.ver /\ poll'.age = poll.age
        /\ poll' \in [step : {"idle", "start", "ask", "publish", "set", "register"},
                      ver : {NoVer} \cup Version, age : 0..PollTime]
    BY <1>1, <1>2 DEF SetSnapshot, TypeOK
  <2>2. TypeOK'
    BY <1>1, <2>1 DEF TypeOK
  <2> QED
    BY <1>1, <2>1, <2>2, Fields DEF Inv, PollClock, Ordered, OwnRecord, Shown, RecordAgesOut, Present
<1>3. CASE RegisterGauges
  <2>1. /\ poll.step = "register" /\ registered' = registered \cup TerritoriesOf[poll.ver]
        /\ poll' = NoPoll /\ success' = TRUE /\ snap' = snap
    BY <1>3 DEF RegisterGauges
  <2>2. registered' \subseteq Territory
    BY <1>1, <2>1, Fields, VerAssumption
  <2>3. TypeOK'
    BY <1>1, <2>1, <2>2, Shapes DEF TypeOK
  <2>4. poll'.step = "idle" /\ poll'.ver = 0 /\ poll'.age = 0
    BY <2>1 DEF NoPoll, NoVer
  <2>5. Present(record) => snap = record.ver /\ TerritoriesOf[record.ver] \subseteq registered'
    BY <2>1 DEF Inv, OwnRecord
  <2> QED
    BY <1>1, <2>1, <2>3, <2>4, <2>5, Fields
       DEF Inv, PollClock, Ordered, OwnRecord, Shown, RecordAgesOut, Present
<1> QED
  BY <1>2, <1>3

\* Time passes for the record and for the poll's answer alike.
LEMMA TickInv == ASSUME Inv, Tick PROVE Inv'
<1>1. TypeOK /\ UNCHANGED <<upstream, snap, registered, success, misses>>
  BY DEF Inv, Tick
<1>2. elapsed' \in 0..(PollTime + StartTime) /\ timer' \in 1..Interval /\ due' \in BOOLEAN
  BY <1>1, Fields, Ranges DEF Tick, TypeOK
<1>3. /\ poll'.step = poll.step /\ poll'.ver = poll.ver
      /\ poll'.age <= elapsed'
      /\ poll.step \notin {"idle", "start"} => elapsed' <= PollTime
      /\ poll' \in [step : {"idle", "start", "ask", "publish", "set", "register"},
                    ver : {NoVer} \cup Version, age : 0..PollTime]
  <2>1. CASE poll.step \in {"idle", "start", "ask"}
    <3>1. poll' = poll /\ poll \in [step : {"idle", "start", "ask", "publish", "set", "register"},
                                    ver : {NoVer} \cup Version, age : 0..PollTime]
      BY <1>1, <2>1 DEF Tick, TypeOK
    <3>2. /\ elapsed' \in {elapsed, elapsed + 1}
          /\ poll.step \notin {"idle", "start"} => elapsed < PollTime /\ elapsed' = elapsed + 1
      BY DEF Tick
    <3> QED
      BY <1>1, <3>1, <3>2, Fields, Ranges DEF Inv, PollClock
  <2>2. CASE poll.step \notin {"idle", "start", "ask"}
    <3>1. elapsed < PollTime /\ elapsed' = elapsed + 1 /\ poll' = [poll EXCEPT !.age = @ + 1]
      BY <2>2 DEF Tick
    <3>2. /\ poll.age + 1 \in 0..PollTime /\ poll.age + 1 <= elapsed + 1
          /\ elapsed + 1 <= PollTime
      BY <1>1, <3>1, Fields, Ranges DEF Inv, PollClock
    <3>3. /\ poll'.step = poll.step /\ poll'.ver = poll.ver /\ poll'.age = poll.age + 1
          /\ poll' \in [step : {"idle", "start", "ask", "publish", "set", "register"},
                        ver : {NoVer} \cup Version, age : 0..PollTime]
      BY <1>1, <3>1, <3>2 DEF TypeOK
    <3> QED
      BY <3>1, <3>2, <3>3
  <2> QED
    BY <2>1, <2>2
<1>4. CASE record.ttl <= 1
  <2>1. record' = NoRecord /\ ~Present(record')
    BY <1>4 DEF Tick, NoRecord, Present
  <2>2. record'.ver = 0
    BY <2>1 DEF NoRecord, NoVer
  <2>3. TypeOK'
    BY <1>1, <1>2, <1>3, <2>1, Shapes DEF TypeOK
  <2> QED
    BY <1>1, <1>3, <2>1, <2>2, <2>3, Fields
       DEF Inv, PollClock, Ordered, OwnRecord, Shown, RecordAgesOut
<1>5. CASE ~(record.ttl <= 1)
  <2>1. record' = [record EXCEPT !.ttl = @ - 1, !.age = @ + 1]
    BY <1>5 DEF Tick
  <2>2. /\ record'.ver = record.ver /\ record'.ttl = record.ttl - 1 /\ record'.age = record.age + 1
        /\ record.ttl > 1 /\ Present(record) /\ record.age + record.ttl <= FreshFor + PollTime
    BY <1>1, <1>5, <2>1, Fields DEF TypeOK, Present, Inv, RecordAgesOut
  <2>3. record.ttl - 1 \in 0..FreshFor /\ record.age + 1 \in Age
    BY <1>1, <2>2, Fields, Ranges DEF Age
  <2>4. record' \in [ver : {NoVer} \cup Version, ttl : 0..FreshFor, age : Age]
    BY <1>1, <2>1, <2>3 DEF TypeOK
  <2>5. TypeOK'
    BY <1>1, <1>2, <1>3, <2>4 DEF TypeOK
  <2> QED
    BY <1>1, <1>3, <2>2, <2>5, Fields, Ranges
       DEF Inv, PollClock, Ordered, OwnRecord, Shown, RecordAgesOut
<1> QED
  BY <1>4, <1>5

\* A crash loses what is in memory, and the record stays.
LEMMA CrashInv == ASSUME Inv, Crash PROVE Inv'
<1>1. /\ TypeOK /\ snap' = 0 /\ registered' = {} /\ poll' = Starting /\ timer' = Interval
      /\ elapsed' = 0 /\ misses' \in 0..2 /\ UNCHANGED <<upstream, record>>
  BY DEF Inv, Crash, Missed, TypeOK, NoVer
<1>2. due' \in BOOLEAN /\ success' = FALSE
  BY DEF Crash
<1>3. TypeOK'
  BY <1>1, <1>2, Shapes DEF TypeOK, NoVer
<1>4. poll'.step = "start" /\ poll'.ver = 0 /\ poll'.age = 0
  BY <1>1 DEF Starting, NoPoll, NoVer
<1> QED
  BY <1>1, <1>2, <1>3, <1>4, Fields DEF Inv, PollClock, Ordered, OwnRecord, Shown, RecordAgesOut, Present

\* All of it together.
THEOREM InvHolds == Spec => []Inv
<1>1. Init => Inv
  <2> SUFFICES ASSUME Init PROVE Inv
    OBVIOUS
  <2>1. /\ upstream = 1 /\ record = NoRecord /\ snap = 0 /\ registered = {} /\ poll = Starting
        /\ timer = Interval /\ elapsed = 0 /\ misses = 2
    BY DEF Init, NoVer
  <2>2. due \in BOOLEAN /\ success \in BOOLEAN
    BY DEF Init
  <2>3. TypeOK
    BY <2>1, <2>2, Shapes, Ranges DEF TypeOK, Version, NoVer
  <2>4. /\ poll.step = "start" /\ poll.ver = 0 /\ poll.age = 0 /\ record.ver = 0 /\ ~Present(record)
    BY <2>1 DEF Starting, NoPoll, NoVer, NoRecord, Present
  <2> QED
    BY <2>1, <2>3, <2>4 DEF Inv, PollClock, Ordered, OwnRecord, Shown, RecordAgesOut
<1>2. Inv /\ [Next]_vars => Inv'
  <2> SUFFICES ASSUME Inv, [Next]_vars PROVE Inv'
    OBVIOUS
  <2>1. CASE NewVersion
    <3>1. /\ upstream' = upstream + 1 /\ upstream < MaxVer
          /\ UNCHANGED <<record, snap, registered, poll, timer, due, elapsed, success, misses>>
      BY <2>1 DEF NewVersion
    <3>2. TypeOK'
      BY <3>1, Fields, Ranges DEF Inv, TypeOK, Version
    <3> QED
      BY <3>1, <3>2, Fields DEF Inv, PollClock, Ordered, OwnRecord, Shown, RecordAgesOut
  <2>2. CASE UNCHANGED vars
    BY <2>2 DEF vars, Inv, TypeOK, PollClock, Ordered, OwnRecord, Shown, RecordAgesOut
  <2> QED
    BY <2>1, <2>2, AskInv, ErrorInv, PublishInv, SetInv, TickInv, CrashInv DEF Next
<1> QED
  BY <1>1, <1>2, PTL DEF Spec

\* The record, the snapshot and the poll in flight carry versions that upstream
\* can have published, and no TTL exceeds the three intervals SetJSON is given.
THEOREM TypeCorrect == Spec => []TypeOK
  BY InvHolds, PTL DEF Inv

\* "On a poll failure nothing is written": whatever fails, a record is gone
\* three intervals after it was written, and was written within its poll.
THEOREM RecordAlwaysAges == Spec => []RecordAgesOut
  BY InvHolds, PTL DEF Inv

\* No gauge is ahead of the record, through crashes, lost replies and polls
\* that are overtaken by a newer version.
THEOREM GaugesNeverAhead == Spec => []GaugesNotAhead
<1>1. Inv => GaugesNotAhead
  BY Fields DEF Inv, Shown, GaugesNotAhead, GaugeReads, NoVer
<1> QED
  BY InvHolds, <1>1, PTL

\* A poll that is counted as a success has left its gauges as its record.
THEOREM GaugesAlwaysFollow == Spec => []GaugesFollow
<1>1. Inv => GaugesFollow
  BY Fields DEF Inv, Shown, GaugesFollow, GaugeReads
<1> QED
  BY InvHolds, <1>1, PTL

-----------------------------------------------------------------------------
(* One missed poll.                                                        *)

Asking == poll.step \in {"ask", "publish"}

\* The record outlives the wait for the next poll by more than x ticks: that
\* poll begins when the one in flight, or the start, is over and a tick has
\* fired; the first of a process begins with no tick.
Covers(x) ==
  /\ record.ttl > x
  /\ poll.step = "start" => record.ttl > StartTime - elapsed + x
  /\ poll.step \notin {"idle", "start"} => record.ttl > PollTime - elapsed + x
  /\ ~due /\ poll.step # "start" => record.ttl > timer + x

\* How long the record must live: until the end of the second poll from the
\* one that wrote it, with a restart before each of the two.
Lease ==
  /\ misses = 0 /\ poll.step \in {"idle", "set", "register"} =>
       Covers(2 * StartTime + Interval + PollTime)
  /\ misses = 0 /\ poll.step = "start" => Covers(StartTime + Interval + PollTime)
  /\ misses = 0 /\ Asking => Covers(StartTime + PollTime)
  /\ misses = 1 => poll.step \notin {"set", "register"}
  /\ misses = 1 /\ poll.step = "idle" => Covers(StartTime + PollTime)
  /\ misses = 1 /\ poll.step = "start" => Covers(PollTime)
  /\ misses = 1 /\ Asking => record.ttl > PollTime - elapsed

ShortPolls == PollTime + 2 * StartTime < Interval

\* The steps of a poll, one by one.
LEMMA Steps ==
  ASSUME TypeOK
  PROVE  poll.step \in {"idle", "start", "ask", "publish", "set", "register"}
  BY Fields

\* A poll begins, is answered or fails, or the process restarts: what was left
\* of the lease suffices for the polls that are still allowed to fail.
LEMMA LeaseKept ==
  ASSUME ShortPolls, Inv, Lease, StartTask \/ Begin \/ Answer \/ PollError \/ Crash
  PROVE  Lease'
<1>1. TypeOK /\ record' = record /\ misses \in {0, 1, 2}
  BY DEF Inv, TypeOK, StartTask, Begin, Answer, PollError, Crash
<1>2. CASE Begin
  <2>1. /\ poll.step = "idle" /\ poll'.step = "ask" /\ misses' = misses /\ timer' = timer
        /\ elapsed' = 0
    BY <1>2 DEF Begin, NoPoll
  <2> QED
    BY <1>1, <2>1, Fields, Ranges DEF Lease, Covers, Asking, ShortPolls
<1>3. CASE StartTask
  <2>1. /\ poll.step = "start" /\ poll'.step = "ask" /\ misses' = misses /\ timer' = timer
        /\ elapsed' = 0
    BY <1>3 DEF StartTask, NoPoll
  <2> QED
    BY <1>1, <2>1, Fields, Ranges DEF Lease, Covers, Asking, ShortPolls
<1>4. CASE Answer
  <2>1. /\ poll.step = "ask" /\ poll'.step = "publish" /\ misses' = misses /\ timer' = timer
        /\ elapsed' = elapsed
    BY <1>4 DEF Answer
  <2>2. due' <=> due
    BY <1>4 DEF Answer
  <2> QED
    BY <1>1, <2>1, <2>2 DEF Lease, Covers, Asking
<1>5. CASE PollError
  <2>1. /\ Asking /\ poll'.step = "idle" /\ timer' = timer /\ elapsed' = elapsed
        /\ misses' = IF misses < 2 THEN misses + 1 ELSE 2
    BY <1>5 DEF PollError, Asking, Missed, NoPoll
  <2>2. due' <=> due
    BY <1>5 DEF PollError
  <2> QED
    BY <1>1, <2>1, <2>2 DEF Lease, Covers, Asking
<1>6. CASE Crash
  <2>1. /\ poll'.step = "start" /\ elapsed' = 0
        /\ misses' = IF poll.step \in {"start", "ask", "publish"}
                     THEN (IF misses < 2 THEN misses + 1 ELSE 2) ELSE misses
    BY <1>6 DEF Crash, Missed, Starting, NoPoll
  <2>2. record.ttl \in Nat /\ elapsed \in Nat /\ timer \in Nat
    BY <1>1, Fields, Ranges
  <2>3. CASE poll.step = "idle"
    BY <1>1, <2>1, <2>2, <2>3, Ranges DEF Lease, Covers, Asking
  <2>4. CASE poll.step = "start"
    BY <1>1, <2>1, <2>2, <2>4, Ranges DEF Lease, Covers, Asking
  <2>5. CASE Asking
    BY <1>1, <2>1, <2>2, <2>5, Ranges DEF Lease, Covers, Asking
  <2>6. CASE poll.step \in {"set", "register"}
    BY <1>1, <2>1, <2>2, <2>6, Ranges DEF Lease, Covers, Asking
  <2> QED
    BY <1>1, <2>3, <2>4, <2>5, <2>6, Steps DEF Asking
<1> QED
  BY <1>2, <1>3, <1>4, <1>5, <1>6

\* A write starts the lease over, whatever becomes of its reply.
LEMMA LeaseStarts ==
  ASSUME ShortPolls, Inv, Lease, Publish \/ SetSnapshot \/ RegisterGauges
  PROVE  Lease'
<1>1. TypeOK /\ misses \in {0, 1, 2} /\ timer' = timer /\ elapsed' = elapsed
  BY DEF Inv, TypeOK, Publish, SetSnapshot, RegisterGauges
<1>2. due' <=> due
  BY DEF Publish, SetSnapshot, RegisterGauges
<1>3. CASE Publish
  <2>1. record'.ttl = 3 * Interval /\ misses' = 0
    BY <1>3 DEF Publish, SetJSON, FreshFor
  <2>2. poll'.step \in {"set", "idle"}
    BY <1>1, <1>3 DEF Publish, NoPoll, TypeOK
  <2> QED
    BY <1>1, <2>1, <2>2, Fields, Ranges DEF Lease, Covers, Asking, ShortPolls
<1>4. CASE SetSnapshot \/ RegisterGauges
  <2>1. /\ poll.step \in {"set", "register"} /\ poll'.step \in {"register", "idle"}
        /\ record' = record /\ misses' = misses
    BY <1>1, <1>4 DEF SetSnapshot, RegisterGauges, NoPoll, TypeOK
  <2> QED
    BY <1>1, <1>2, <2>1 DEF Lease, Covers, Asking
<1> QED
  BY <1>3, <1>4

\* A tick takes one from the lease and one from the wait.
LEMMA LeaseTicks ==
  ASSUME Inv, Lease, Tick
  PROVE  Lease'
<1>1. TypeOK /\ misses' = misses /\ poll'.step = poll.step /\ misses \in {0, 1, 2}
  BY DEF Inv, TypeOK, Tick
<1>2. record'.ttl = IF record.ttl <= 1 THEN 0 ELSE record.ttl - 1
  BY <1>1 DEF Tick, NoRecord, TypeOK
<1>3. /\ poll.step # "start" => timer' = IF timer > 1 THEN timer - 1 ELSE Interval
      /\ poll.step = "start" => elapsed < StartTime
      /\ poll.step \notin {"idle", "start"} => elapsed < PollTime
      /\ poll.step # "idle" => elapsed' = elapsed + 1
  BY DEF Tick
<1>4. /\ poll.step # "start" /\ timer = 1 => due'
      /\ due => due'
      /\ poll.step = "idle" => ~due
  BY Zenon DEF Tick
<1>5. ASSUME NEW x \in Nat, Covers(x) PROVE Covers(x)'
  BY <1>1, <1>2, <1>3, <1>4, <1>5, Fields, Ranges DEF Covers
<1>6. Asking /\ record.ttl > PollTime - elapsed => record'.ttl > PollTime - elapsed'
  BY <1>1, <1>2, <1>3, Fields, Ranges DEF Asking
<1>7. /\ 2 * StartTime + Interval + PollTime \in Nat /\ StartTime + Interval + PollTime \in Nat
      /\ StartTime + PollTime \in Nat /\ PollTime \in Nat
  BY Ranges
<1> QED
  BY <1>1, <1>5, <1>6, <1>7 DEF Lease, Asking

\* Three intervals bridge one missed poll or lost reply, with a restart between
\* any two polls, where a poll and two starts fit into one interval.
THEOREM OneMissBridged == ASSUME ShortPolls PROVE Spec => []BridgesOneMiss
<1>1. Init => Lease
  BY DEF Init, Lease
<1>2. Inv /\ Lease /\ [Next]_vars => Lease'
  <2> SUFFICES ASSUME Inv, Lease, [Next]_vars PROVE Lease'
    OBVIOUS
  <2>1. CASE NewVersion \/ UNCHANGED vars
    <3>1. UNCHANGED <<record, poll, timer, elapsed, misses>> /\ (due' <=> due)
      BY <2>1 DEF NewVersion, vars
    <3> QED
      BY <3>1 DEF Lease, Covers, Asking
  <2> QED
    BY <2>1, LeaseKept, LeaseStarts, LeaseTicks DEF Next
<1>3. Inv /\ Lease => BridgesOneMiss
  <2> SUFFICES ASSUME Inv, Lease, misses <= 1 PROVE Present(record)
    BY DEF BridgesOneMiss
  <2>1. /\ misses \in {0, 1} /\ record.ttl \in 0..FreshFor /\ elapsed \in Nat
        /\ Asking => elapsed <= PollTime
    BY Fields, Ranges DEF Inv, TypeOK, PollClock, Asking
  <2> QED
    BY <2>1, Steps, Ranges DEF Lease, Covers, Present, Asking, Inv
<1> QED
  BY InvHolds, <1>1, <1>2, <1>3, PTL DEF Spec
=============================================================================
