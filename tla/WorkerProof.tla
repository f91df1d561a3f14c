---------------------------- MODULE WorkerProof ----------------------------
(***************************************************************************)
(* Theorems about the worker's start and its timed polling, for any set of *)
(* deployments and any number of anchor types.                             *)
(***************************************************************************)
EXTENDS Worker, TLAPS

\* Outside the stage "up" no task runs and nothing is remembered.
Resting ==
  stage # "up" =>
    /\ task = "off" /\ timer = 0 /\ ~tick /\ oper = "idle" /\ cycle = 0
    /\ \A t \in AnchorType : horizon[t] = 0 /\ missed[t] = MaxMissed

\* What late says: a sync that takes longer than it should is recorded.
Clocked == ~late => elapsed <= config.wait

\* A worker that got as far as its wiring is validly configured, and one that
\* got past it sends requests without a token only if its mode says so.
Wired ==
  /\ stage \in {"init", "probe", "up"} => Valid(config)
  /\ stage \in {"probe", "up"} => doer = "authbyte" \/ config.mode = "internal"

Inv == TypeOK /\ Resting /\ Clocked /\ Wired

\* The settings of a deployment, as numbers.
LEMMA Settings ==
  ASSUME TypeOK
  PROVE  /\ config.poll \in Nat /\ config.ttl \in Nat /\ config.wait \in Nat
         /\ config.mode \in {"unset", "dpop", "internal", "other"} /\ config.credentials \in BOOLEAN
  BY DeploymentAssumption DEF TypeOK, Configuration

\* A type's sync is over: the cycle goes on, or its callers return.
LEMMA NextTypeInv ==
  ASSUME Inv, cycle > 0, NextType,
         UNCHANGED <<config, down, stage, doer, timer, tick, late>>,
         horizon' \in [AnchorType -> 0..config.ttl], missed' \in [AnchorType -> 0..MaxMissed]
  PROVE  Inv'
<1>1. stage = "up" /\ TypeOK
  BY DEF Inv, Resting, TypeOK
<1>2. /\ cycle' \in 0..N /\ elapsed' = 0 /\ got' = 0 /\ cut' \in BOOLEAN
      /\ task' \in {"off", "due", "lead", "join", "select"} /\ oper' \in {"idle", "lead", "join"}
      /\ (cycle' > 0 <=> task' = "lead" \/ oper' = "lead")
      /\ ~(task' = "lead" /\ oper' = "lead")
  <2>1. CASE cycle < N
    <3>1. cycle' = cycle + 1 /\ elapsed' = 0 /\ got' = 0 /\ task' = task /\ oper' = oper /\ cut' = cut
      BY <2>1 DEF NextType
    <3>2. cut' \in BOOLEAN
      BY <1>1, <3>1 DEF TypeOK
    <3>3. cycle' \in 0..N /\ cycle' > 0
      BY <1>1, <2>1, <3>1, TypesAssumption DEF TypeOK
    <3> QED
      BY <1>1, <3>1, <3>2, <3>3 DEF TypeOK
  <2>2. CASE ~(cycle < N)
    <3>1. /\ cycle' = 0 /\ elapsed' = 0 /\ got' = 0 /\ oper' = "idle" /\ cut' = FALSE
          /\ task' = IF task \in {"lead", "join"} THEN "select" ELSE task
      BY <2>2 DEF NextType
    <3>2. cut' \in BOOLEAN
      BY <3>1
    <3>3. cycle' \in 0..N /\ ~(cycle' > 0)
      BY <3>1, TypesAssumption
    <3> QED
      BY <1>1, <3>1, <3>2, <3>3 DEF TypeOK
  <2> QED
    BY <2>1, <2>2
<1>3. TypeOK'
  BY <1>1, <1>2, Settings DEF TypeOK
<1> QED
  BY <1>1, <1>2, <1>3, Settings DEF Inv, Resting, Clocked, Wired

\* The failed poll is counted.
LEMMA FailInv == ASSUME Inv, Fail PROVE Inv'
<1>1. missed \in [AnchorType -> 0..MaxMissed] /\ horizon \in [AnchorType -> 0..config.ttl]
  BY DEF Inv, TypeOK
<1>2. missed' = [missed EXCEPT ![cycle] = IF @ < MaxMissed THEN @ + 1 ELSE @]
  BY DEF Fail
<1>3. missed' \in [AnchorType -> 0..MaxMissed]
  <2>1. \A n \in 0..MaxMissed : n < MaxMissed => n + 1 \in 0..MaxMissed
    BY MissedAssumption
  <2>2. cycle \in AnchorType
    BY DEF Inv, TypeOK, Fail, AnchorType
  <2> QED
    BY <1>1, <1>2, <2>1, <2>2
<1> QED
  BY <1>1, <1>3, NextTypeInv DEF Fail

\* The answer is recorded with the horizon it computed.
LEMMA RecordInv == ASSUME Inv, Record PROVE Inv'
<1>1. /\ missed \in [AnchorType -> 0..MaxMissed] /\ horizon \in [AnchorType -> 0..config.ttl]
      /\ got \in 0..config.ttl
  BY DEF Inv, TypeOK
<1>2. missed' = [missed EXCEPT ![cycle] = 0] /\ horizon' = [horizon EXCEPT ![cycle] = got]
  BY DEF Record
<1>3. missed' \in [AnchorType -> 0..MaxMissed] /\ horizon' \in [AnchorType -> 0..config.ttl]
  <2>1. 0 \in 0..MaxMissed
    BY MissedAssumption
  <2> QED
    BY <1>1, <1>2, <2>1
<1> QED
  BY <1>1, <1>3, NextTypeInv DEF Record

\* From the environment of the pod to the first run of the task.
LEMMA StartInv ==
  ASSUME Inv, Load \/ Wire \/ StartupCheck \/ Restart \/ Crash
  PROVE  Inv'
<1>1. TypeOK /\ stage \in {"start", "init", "probe", "up", "exited"}
  BY DEF Inv, TypeOK
<1>2. CASE Load
  BY <1>1, <1>2 DEF Load, Inv, TypeOK, Resting, Clocked, Wired, run
<1>3. CASE Wire
  <2>1. doer' \in {"none", "authbyte", "plain"} /\ stage' \in {"probe", "exited"}
        /\ UNCHANGED <<config, down, run, horizon, missed, late>> /\ stage = "init"
    BY <1>3 DEF Wire, NewAuthbyteDoer, NewDoer
  <2>2. stage' = "probe" => doer' = "authbyte" \/ config.mode = "internal"
    BY <1>3 DEF Wire, NewAuthbyteDoer, NewDoer, AuthMode
  <2>3. TypeOK' /\ Resting'
    BY <1>1, <2>1 DEF Inv, TypeOK, Resting, run
  <2> QED
    BY <1>1, <2>1, <2>2, <2>3 DEF Inv, Clocked, Wired, run
<1>4. CASE StartupCheck
  <2>1. /\ stage = "probe" /\ elapsed' = 0 /\ stage' \in {"up", "exited"}
        /\ stage' = "up" => task' = "due" /\ timer' = config.poll
        /\ stage' = "exited" => task' = task /\ timer' = timer
        /\ UNCHANGED <<config, down, doer, tick, oper, cut, cycle, got, horizon, missed, late>>
    BY <1>4 DEF StartupCheck
  <2>2. task = "off" /\ oper = "idle" /\ cycle = 0
    BY <2>1 DEF Inv, Resting
  <2>3. TypeOK'
    BY <1>1, <2>1, <2>2, Settings DEF TypeOK
  <2> QED
    BY <1>1, <2>1, <2>3, Settings DEF Inv, Resting, Clocked, Wired
<1>5. CASE Restart
  BY <1>1, <1>5 DEF Restart, Inv, TypeOK, Resting, Clocked, Wired, run
<1>6. CASE Crash
  <2>1. /\ horizon' \in [AnchorType -> 0..config.ttl] /\ missed' \in [AnchorType -> 0..MaxMissed]
        /\ \A t \in AnchorType : horizon'[t] = 0 /\ missed'[t] = MaxMissed
    BY <1>1, <1>6, Settings, MissedAssumption DEF Crash
  <2>2. TypeOK'
    <3>1. 0 \in 0..N /\ 0 \in 0..config.poll /\ 0 \in 0..config.wait + 1 /\ 0 \in 0..config.ttl
      BY <1>1, Settings, TypesAssumption
    <3>2. /\ stage' = "exited" /\ doer' = "none" /\ task' = "off" /\ timer' = 0 /\ oper' = "idle"
          /\ cycle' = 0 /\ elapsed' = 0 /\ got' = 0 /\ UNCHANGED <<config, down>>
      BY <1>6 DEF Crash
    <3>3. tick' \in BOOLEAN /\ cut' \in BOOLEAN /\ late' \in BOOLEAN
      BY <1>6 DEF Crash
    <3> QED
      BY <1>1, <2>1, <3>1, <3>2, <3>3 DEF TypeOK
  <2>3. Clocked'
    <3>1. elapsed' = 0 /\ config' = config
      BY <1>6 DEF Crash
    <3> QED
      BY <1>1, <3>1, Settings DEF Clocked
  <2> QED
    BY <1>6, <2>1, <2>2, <2>3 DEF Crash, Inv, Resting, Wired
<1> QED
  BY <1>2, <1>3, <1>4, <1>5, <1>6

\* The two callers of a cycle, and the call in flight.
LEMMA CallerInv ==
  ASSUME Inv, RunTask \/ TakeTick \/ Resync \/ ContextEnds \/ Answer
  PROVE  Inv'
<1>1. TypeOK /\ UNCHANGED <<config, down, stage, doer, timer, elapsed, horizon, missed, late>>
  BY DEF Inv, RunTask, TakeTick, Resync, ContextEnds, Answer
<1>2. stage = "up"
  BY DEF Inv, TypeOK, Resting, RunTask, TakeTick, Resync, ContextEnds, Answer
<1>3. TypeOK'
  <2>1. CASE RunTask
    BY <1>1, <2>1, TypesAssumption DEF RunTask, TypeOK
  <2>2. CASE TakeTick
    BY <1>1, <2>2 DEF TakeTick, TypeOK
  <2>3. CASE Resync
    BY <1>1, <2>3, TypesAssumption DEF Resync, TypeOK
  <2>4. CASE ContextEnds
    BY <1>1, <2>4 DEF ContextEnds, TypeOK
  <2>5. CASE Answer
    BY <1>1, <2>5, Settings DEF Answer, TypeOK
  <2> QED
    BY <2>1, <2>2, <2>3, <2>4, <2>5
<1> QED
  BY <1>1, <1>2, <1>3 DEF Inv, Resting, Clocked, Wired

\* While no sync is late, a tick is counted within the bound of the call.
LEMMA TickClock ==
  ASSUME Inv, Tick, ~late'
  PROVE  /\ ~late /\ elapsed' <= config.wait
         /\ cycle > 0 => elapsed < config.wait /\ elapsed' = elapsed + 1
<1>1. ~late /\ ~(cycle > 0 /\ elapsed >= config.wait)
  BY Zenon DEF Tick
<1>2. /\ elapsed \in 0..config.wait /\ config.wait \in Nat
      /\ stage = "probe" => elapsed < config.wait
      /\ elapsed' = IF stage # "probe" /\ cycle = 0 THEN 0
                    ELSE IF elapsed <= config.wait THEN elapsed + 1 ELSE elapsed
      /\ cycle \in 0..N
  BY <1>1, Settings DEF Inv, TypeOK, Clocked, Tick, Prompt
<1> QED
  BY <1>1, <1>2, TypesAssumption

\* Time passes within the bounds of the timers.
LEMMA TickInv == ASSUME Inv, Tick PROVE Inv'
<1>1. TypeOK /\ UNCHANGED <<config, down, stage, doer, task, oper, cut, cycle, missed>>
  BY DEF Inv, Tick
<1>2. timer' \in 0..config.poll /\ tick' \in BOOLEAN
  BY <1>1, Settings DEF Tick, Less, TypeOK
<1>3. elapsed' \in 0..config.wait + 1 /\ got' \in 0..config.ttl
  BY <1>1, Settings DEF Tick, Less, TypeOK
<1>4. \A t \in AnchorType : horizon[t] \in 0..config.ttl /\ horizon'[t] = Less(horizon[t])
  BY <1>1 DEF Tick, TypeOK
<1>5. horizon' \in [AnchorType -> 0..config.ttl]
  BY <1>1, Settings DEF Tick, Less, TypeOK
<1>6. TypeOK'
  <2>1. late' \in BOOLEAN
    BY Zenon DEF Tick
  <2> QED
    BY <1>1, <1>2, <1>3, <1>5, <2>1 DEF TypeOK
<1>7. Resting'
  <2> SUFFICES ASSUME stage # "up" PROVE Resting'
    BY <1>1 DEF Resting
  <2>1. /\ task = "off" /\ timer = 0 /\ ~tick /\ oper = "idle" /\ cycle = 0
        /\ \A t \in AnchorType : horizon[t] = 0 /\ missed[t] = MaxMissed
    BY DEF Inv, Resting
  <2>2. timer' = 0
    BY <2>1 DEF Tick, Less
  <2>3. ~(timer = 1)
    BY <2>1
  <2>4. ~tick'
    BY <2>1, <2>3, Zenon DEF Tick
  <2>5. \A t \in AnchorType : horizon'[t] = 0
    BY <1>4, <2>1 DEF Less
  <2> QED
    BY <1>1, <2>1, <2>2, <2>4, <2>5 DEF Resting
<1>8. Clocked'
  <2>1. ~late' => elapsed' <= config.wait
    BY TickClock
  <2> QED
    BY <1>1, <2>1 DEF Clocked
<1> QED
  BY <1>1, <1>6, <1>7, <1>8 DEF Inv, Wired

\* Every step keeps it.
LEMMA InvStep == Inv /\ [Next]_vars => Inv'
<1> SUFFICES ASSUME Inv, [Next]_vars PROVE Inv'
  OBVIOUS
<1>1. CASE Load \/ Wire \/ StartupCheck \/ Restart \/ Crash
  BY <1>1, StartInv
<1>2. CASE RunTask \/ TakeTick \/ Resync \/ ContextEnds \/ Answer
  BY <1>2, CallerInv
<1>3. CASE Record
  BY <1>3, RecordInv
<1>4. CASE Fail
  BY <1>4, FailInv
<1>5. CASE Tick
  BY <1>5, TickInv
<1>6. CASE Outage
  BY <1>6 DEF Outage, run, Inv, TypeOK, Resting, Clocked, Wired
<1>7. CASE UNCHANGED vars
  BY <1>7 DEF vars, run, Inv, TypeOK, Resting, Clocked, Wired
<1> QED
  BY <1>1, <1>2, <1>3, <1>4, <1>5, <1>6, <1>7 DEF Next, Process, Call

\* For any deployments and number of types.
THEOREM InvHolds == Spec => []Inv
<1>1. Init => Inv
  <2> SUFFICES ASSUME Init PROVE Inv
    OBVIOUS
  <2>1. config \in Configuration
    BY DeploymentAssumption DEF Init
  <2>2. config.poll \in Nat /\ config.ttl \in Nat /\ config.wait \in Nat
    BY <2>1 DEF Configuration
  <2>3. horizon \in [AnchorType -> 0..config.ttl] /\ missed \in [AnchorType -> 0..MaxMissed]
    BY <2>2, MissedAssumption DEF Init
  <2>4. TypeOK
    <3>1. 0 \in 0..N /\ 0 \in 0..config.poll /\ 0 \in 0..config.wait + 1 /\ 0 \in 0..config.ttl
      BY <2>2, TypesAssumption
    <3>2. /\ config \in Deployments /\ down = {} /\ stage = "start" /\ doer = "none" /\ task = "off"
          /\ timer = 0 /\ oper = "idle" /\ cycle = 0 /\ elapsed = 0 /\ got = 0
      BY DEF Init
    <3>3. tick \in BOOLEAN /\ cut \in BOOLEAN /\ late \in BOOLEAN
      BY DEF Init
    <3> QED
      BY <2>3, <3>1, <3>2, <3>3 DEF TypeOK
  <2> QED
    BY <2>2, <2>4 DEF Init, Inv, Resting, Clocked, Wired
<1> QED
  BY InvStep, <1>1, PTL DEF Spec

\* At most one of the scheduler and the operator leads a cycle, and a cycle is
\* in flight exactly while one does.
THEOREM TypeCorrect == Spec => []TypeOK
  BY InvHolds, PTL DEF Inv

\* The default mode fails toward the stronger authentication: through any
\* crashes, outages and restarts no deployment that leaves the mode unset ever
\* records an answer to a request without a token.
THEOREM TokenAlways == Spec => []TokenUnlessInternal
<1>1. Inv => TokenUnlessInternal
  BY DEF Inv, TypeOK, Resting, Wired, TokenUnlessInternal
<1> QED
  BY InvHolds, <1>1, PTL

-----------------------------------------------------------------------------
(* A worker whose calls take no time.                                      *)

\* The next poll of t is under way: its tick fired, or a cycle is not past t.
Owed(t) == tick \/ task = "due" \/ (cycle > 0 /\ t >= cycle)

\* While every poll succeeds, what is left of a horizon covers the ticks until
\* the next tick of the ticker, and at that tick what the TTL exceeds the
\* interval by.
Kept(t) ==
  \/ horizon[t] >= config.ttl - config.poll + timer
  \/ Owed(t) /\ horizon[t] >= config.ttl - config.poll

\* No time passes during a cycle, so the types it is past have a whole TTL.
Polls ==
  /\ cycle = 0 => got = 0
  /\ task = "join" => cycle > 0
  /\ stage = "up" => task # "off" /\ timer > 0
  /\ config.wait = 0 /\ ~late =>
       /\ got = 0 \/ got = config.ttl
       /\ \A t \in AnchorType : missed[t] = 0 => Kept(t)
       /\ \A t \in AnchorType : t < cycle /\ missed[t] = 0 => horizon[t] = config.ttl

\* What a worker that runs knows of its settings, as numbers.
LEMMA Numbers ==
  ASSUME Inv, stage = "up"
  PROVE  /\ config.poll \in Nat /\ config.poll > 0 /\ config.ttl \in Nat /\ config.ttl > config.poll
         /\ timer \in 0..config.poll /\ cycle \in 0..N /\ got \in 0..config.ttl
         /\ elapsed \in 0..config.wait + 1 /\ config.wait \in Nat
         /\ \A t \in AnchorType : /\ t \in 1..N /\ horizon[t] \in 0..config.ttl
                                  /\ missed[t] \in 0..MaxMissed
  BY Settings DEF Inv, TypeOK, Wired, Valid, SyncValid, AnchorType

\* A worker that does not run has missed polls, and says nothing.
LEMMA StartPolls ==
  ASSUME Inv, Polls, Load \/ Wire \/ StartupCheck \/ Restart \/ Crash
  PROVE  Polls'
<1>1. ASSUME Inv', stage' # "up", cycle' = 0, got' = 0 PROVE Polls'
  BY <1>1, MissedAssumption DEF Inv, Resting, Polls
<1>2. Inv'
  BY StartInv
<1>3. stage # "up" => cycle = 0 /\ got = 0
  BY DEF Inv, Resting, Polls
<1>4. CASE StartupCheck /\ stage' = "up"
  <2>1. /\ stage = "probe" /\ cycle' = 0 /\ got' = 0 /\ task' = "due" /\ timer' = config.poll
        /\ config' = config /\ missed' = missed
    BY <1>3, <1>4 DEF StartupCheck
  <2>2. config.poll > 0 /\ \A t \in AnchorType : missed[t] # 0
    BY <2>1, MissedAssumption DEF Inv, Resting, Wired, Valid, SyncValid
  <2> QED
    BY <2>1, <2>2, Settings, TypesAssumption DEF Inv, Polls, AnchorType
<1>5. CASE ~(StartupCheck /\ stage' = "up")
  <2>1. stage' # "up" /\ cycle' = 0 /\ got' = 0
    BY <1>3, <1>5 DEF Load, Wire, StartupCheck, Restart, Crash, run
  <2> QED
    BY <1>1, <1>2, <2>1
<1> QED
  BY <1>4, <1>5

\* Taking a tick, starting a cycle and joining one leave no type without the
\* poll it is owed.
LEMMA CallerPolls ==
  ASSUME Inv, Polls, RunTask \/ TakeTick \/ Resync \/ ContextEnds \/ Answer
  PROVE  Polls'
<1>1. UNCHANGED <<config, stage, timer, horizon, missed, late>>
  BY DEF RunTask, TakeTick, Resync, ContextEnds, Answer
<1>2. stage = "up"
  BY DEF Inv, TypeOK, Resting, RunTask, TakeTick, Resync, ContextEnds, Answer
<1>3. /\ cycle' = cycle \/ (cycle = 0 /\ cycle' = 1)
      /\ cycle' = 0 => got' = 0
      /\ task' = "join" => cycle' > 0
      /\ task' # "off"
      /\ got' = got \/ got' = config.ttl
  BY <1>2, Numbers DEF Polls, RunTask, TakeTick, Resync, ContextEnds, Answer
<1>4. ASSUME config.wait = 0, ~late', NEW t \in AnchorType, missed[t] = 0 PROVE Kept(t)'
  <2>1. CASE horizon[t] >= config.ttl - config.poll + timer
    BY <1>1, <2>1 DEF Kept
  <2>2. CASE Owed(t) /\ horizon[t] >= config.ttl - config.poll
    <3>1. CASE Owed(t)'
      BY <1>1, <2>2, <3>1 DEF Kept
    <3>2. CASE ~Owed(t)'
      <4>1. cycle > 0 /\ t < cycle
        <5>1. CASE RunTask
          BY <1>2, <1>4, <3>2, <5>1, Numbers DEF RunTask, Owed
        <5>2. CASE TakeTick
          BY <3>2, <5>2 DEF TakeTick, Owed
        <5>3. CASE Resync
          BY <1>2, <1>4, <2>2, <3>2, <5>3, Numbers DEF Resync, Owed
        <5>4. CASE ContextEnds \/ Answer
          BY <2>2, <3>2, <5>4 DEF ContextEnds, Answer, Owed
        <5> QED
          BY <5>1, <5>2, <5>3, <5>4
      <4>2. horizon[t] = config.ttl
        BY <1>1, <1>4, <4>1 DEF Polls
      <4> QED
        BY <1>1, <1>2, <4>2, Numbers DEF Kept
    <3> QED
      BY <3>1, <3>2
  <2> QED
    BY <1>1, <1>4, <2>1, <2>2 DEF Polls, Kept
<1>5. ASSUME config.wait = 0, ~late', NEW t \in AnchorType, t < cycle', missed[t] = 0
      PROVE  horizon[t] = config.ttl
  BY <1>1, <1>2, <1>3, <1>5, Numbers DEF Polls
<1> QED
  BY <1>1, <1>2, <1>3, <1>4, <1>5 DEF Polls

\* A type's sync ends: it has a whole TTL, or a missed poll.
LEMMA DonePolls ==
  ASSUME Inv, Polls, Record \/ Fail
  PROVE  Polls'
<1>1. cycle > 0 /\ NextType /\ UNCHANGED <<config, stage, timer, tick, late>>
  BY DEF Record, Fail
<1>2. stage = "up"
  BY <1>1 DEF Inv, TypeOK, Resting
<1>3. /\ got' = 0 /\ cycle' = IF cycle < N THEN cycle + 1 ELSE 0
      /\ task' = task \/ (cycle' = 0 /\ task \in {"lead", "join"} /\ task' = "select")
      /\ cycle' = 0 => task' # "join"
  <2>1. CASE cycle < N
    BY <1>1, <1>2, <2>1, Numbers DEF NextType
  <2>2. CASE ~(cycle < N)
    BY <1>1, <2>2 DEF NextType
  <2> QED
    BY <2>1, <2>2
<1>4. cycle \in AnchorType
  BY <1>1, <1>2, Numbers DEF AnchorType
<1>5. ASSUME NEW t \in AnchorType, t # cycle
      PROVE  missed'[t] = missed[t] /\ horizon'[t] = horizon[t]
  BY <1>5 DEF Record, Fail, Inv, TypeOK
<1>6. ASSUME config.wait = 0, ~late', missed'[cycle] = 0 PROVE horizon'[cycle] = config.ttl
  <2>1. CASE Record
    <3>1. horizon'[cycle] = got /\ got > 0
      BY <1>4, <2>1 DEF Record, Inv, TypeOK
    <3> QED
      BY <1>1, <1>6, <3>1 DEF Polls
  <2>2. CASE Fail
    <3>1. missed'[cycle] = IF missed[cycle] < MaxMissed THEN missed[cycle] + 1 ELSE missed[cycle]
      BY <1>4, <2>2 DEF Fail, Inv, TypeOK
    <3> QED
      BY <1>2, <1>4, <1>6, <3>1, Numbers, MissedAssumption
  <2> QED
    BY <2>1, <2>2
<1>7. ASSUME config.wait = 0, ~late', NEW t \in AnchorType, t <= cycle, missed'[t] = 0
      PROVE  horizon'[t] = config.ttl
  BY <1>1, <1>2, <1>4, <1>5, <1>6, <1>7, Numbers DEF Polls
<1>8. ASSUME config.wait = 0, ~late', NEW t \in AnchorType, missed'[t] = 0 PROVE Kept(t)'
  <2>1. CASE t <= cycle
    BY <1>1, <1>2, <1>7, <1>8, <2>1, Numbers DEF Kept
  <2>2. CASE ~(t <= cycle)
    <3>1. cycle' = cycle + 1 /\ t >= cycle' /\ cycle' > 0
      BY <1>2, <1>3, <1>4, <2>2, Numbers, TypesAssumption
    <3>2. missed'[t] = missed[t] /\ horizon'[t] = horizon[t] /\ Kept(t)
      BY <1>1, <1>2, <1>5, <1>8, <2>2, Numbers DEF Polls
    <3>3. horizon[t] >= config.ttl - config.poll
      BY <1>2, <3>2, Numbers DEF Kept
    <3>4. Owed(t)'
      BY <3>1 DEF Owed
    <3> QED
      BY <1>1, <3>2, <3>3, <3>4 DEF Kept
  <2> QED
    BY <2>1, <2>2
<1>9. ASSUME config.wait = 0, ~late', NEW t \in AnchorType, t < cycle', missed'[t] = 0
      PROVE  horizon'[t] = config.ttl
  BY <1>2, <1>3, <1>4, <1>7, <1>9, Numbers
<1> QED
  BY <1>1, <1>2, <1>3, <1>8, <1>9, Numbers DEF Polls

\* Time passes only while nothing is owed.
LEMMA TickPolls ==
  ASSUME Inv, Polls, Tick
  PROVE  Polls'
<1>1. UNCHANGED <<config, stage, task, cycle, missed>>
  BY DEF Tick
<1>2. CASE stage # "up"
  <2>1. cycle' = 0 /\ got' = 0 /\ task' = "off"
    BY <1>1, <1>2 DEF Inv, Resting, Polls, Tick, Less
  <2>2. \A t \in AnchorType : missed'[t] # 0
    BY <1>1, <1>2, MissedAssumption DEF Inv, Resting
  <2> QED
    BY <1>1, <1>2, <2>1, <2>2, TypesAssumption DEF Polls, AnchorType
<1>3. CASE stage = "up"
  <2>1. /\ timer > 0 /\ timer' = IF timer = 1 THEN config.poll ELSE timer - 1
        /\ got' = Less(got)
        /\ \A t \in AnchorType : horizon'[t] = Less(horizon[t])
    BY <1>3, Numbers DEF Polls, Tick, Less
  <2>2. timer = 1 => tick'
    BY Zenon DEF Tick
  <2>3. ASSUME config.wait = 0, ~late' PROVE ~late /\ cycle = 0 /\ got = 0
    <3>1. ~late /\ (cycle > 0 => elapsed < config.wait)
      BY <2>3, TickClock
    <3> QED
      BY <1>3, <2>3, <3>1, Numbers DEF Polls
  <2>4. ASSUME config.wait = 0, ~late', NEW t \in AnchorType, missed[t] = 0 PROVE Kept(t)'
    <3>1. task = "select" /\ ~tick /\ cycle = 0
      BY <1>3, <2>3, <2>4 DEF Inv, TypeOK, Polls, Tick, Prompt
    <3>2. horizon[t] >= config.ttl - config.poll + timer
      BY <2>3, <2>4, <3>1 DEF Polls, Kept, Owed
    <3>3. CASE timer = 1
      <4>1. Owed(t)'
        BY <2>2, <3>3 DEF Owed
      <4> QED
        BY <1>1, <1>3, <2>1, <3>2, <3>3, <4>1, Numbers DEF Kept, Less
    <3>4. CASE timer # 1
      BY <1>1, <1>3, <2>1, <3>2, <3>4, Numbers DEF Kept, Less
    <3> QED
      BY <3>3, <3>4
  <2>5. cycle = 0 => got' = 0
    BY <2>1 DEF Polls, Less
  <2>6. timer' > 0
    BY <1>3, <2>1, Numbers
  <2>7. config.wait = 0 /\ ~late' => \A t \in AnchorType : ~(t < cycle)
    BY <1>3, <2>3, Numbers
  <2> QED
    BY <1>1, <1>3, <2>3, <2>4, <2>5, <2>6, <2>7 DEF Polls
<1> QED
  BY <1>2, <1>3

\* So it is in every state of every behaviour.
LEMMA PollsHold == Spec => []Polls
<1>1. Init => Polls
  BY MissedAssumption DEF Init, Polls
<1>2. Inv /\ Polls /\ [Next]_vars => Polls'
  <2> SUFFICES ASSUME Inv, Polls, [Next]_vars PROVE Polls'
    OBVIOUS
  <2>1. CASE Load \/ Wire \/ StartupCheck \/ Restart \/ Crash
    BY <2>1, StartPolls
  <2>2. CASE RunTask \/ TakeTick \/ Resync \/ ContextEnds \/ Answer
    BY <2>2, CallerPolls
  <2>3. CASE Record \/ Fail
    BY <2>3, DonePolls
  <2>4. CASE Tick
    BY <2>4, TickPolls
  <2>5. CASE Outage \/ UNCHANGED vars
    BY <2>5 DEF Outage, vars, run, Polls, Kept, Owed
  <2> QED
    BY <2>1, <2>2, <2>3, <2>4, <2>5 DEF Next, Process, Call
<1> QED
  BY InvHolds, <1>1, <1>2, PTL DEF Spec

\* What "TRUST_CACHE_TTL must exceed the poll interval" is for: it suffices
\* that a worker whose polls succeed in no time never answers 503 again.
THEOREM HealthyAlwaysFresh == Spec => []HealthyStaysFresh
<1>1. Inv /\ Polls => HealthyStaysFresh
  <2> SUFFICES ASSUME Inv, Polls, config.wait = 0, ~late, NEW t \in AnchorType, missed[t] = 0
               PROVE  horizon[t] > 0
    BY DEF HealthyStaysFresh
  <2>1. stage = "up"
    BY MissedAssumption DEF Inv, Resting
  <2> QED
    BY <2>1, Numbers DEF Polls, Kept
<1> QED
  BY InvHolds, PollsHold, <1>1, PTL
-----------------------------------------------------------------------------
(* The failover budget of a worker whose calls take time.                  *)

\* The longest that n types' syncs take.
Cost(n) == n * config.wait

\* What is left of the cycle in flight, at most.
Rem == IF cycle = 0 THEN 0 ELSE Cost(N - cycle + 1) - elapsed

\* The task is in a cycle, its own or the operator's.
Running == task \in {"lead", "join"}

\* The ticks until the task's next run begins, at most: the cycle it is in has
\* to be over and the ticker to have fired.
ToTick == IF tick THEN 0 ELSE timer
ToRun == IF task = "due" THEN 0
         ELSE IF Running /\ Rem > ToTick THEN Rem ELSE ToTick

\* What is gone of the horizon of t, how old it is when the next run has polled
\* t, and how old it may be while k polls in a row have been missed.
Age(t) == config.ttl - horizon[t]
AgeByNext(t) == Age(t) + ToRun + Cost(t)
Allowed(k) == (k + 1) * Period(config) + Cost(N + 1)

\* The task is in a cycle that has yet to poll t.
Pending(t) == Running /\ cycle > 0 /\ cycle <= t

\* A type that missed k polls is within what they allow: when the run in flight
\* polls it, and when the next run does, one period later if this run has still
\* to poll it, and one period earlier if a tick may yet join a cycle of the
\* operator that is past it.
Bridged(t) ==
  missed[t] < MaxMissed =>
    /\ Pending(t) =>
         /\ AgeByNext(t) <= Allowed(missed[t] + 1)
         /\ Age(t) + Cost(t - cycle + 1) - elapsed <= Allowed(missed[t])
    /\ ~Pending(t) =>
         /\ AgeByNext(t) <= Allowed(missed[t])
         /\ ~Running /\ cycle > t /\ ToRun <= Rem => AgeByNext(t) + Period(config) <= Allowed(missed[t])

\* All types, and the validUntil the call in flight has computed.
Bridges ==
  ~late =>
    /\ \A t \in AnchorType : Bridged(t)
    /\ got > 0 => cycle > 0 /\ got >= config.ttl - elapsed

\* The products above, as numbers.
LEMMA Costs ==
  ASSUME config.wait \in Nat
  PROVE  /\ \A n \in Int : Cost(n) \in Int
         /\ \A m, n \in Int : Cost(m + n) = Cost(m) + Cost(n)
         /\ \A m, n \in Int : m <= n => Cost(m) <= Cost(n)
         /\ Cost(0) = 0 /\ Cost(1) = config.wait
<1> DEFINE w == config.wait
<1>1. w \in Nat
  OBVIOUS
<1> HIDE DEF w
<1>2. \A m, n \in Int : (m + n) * w = m * w + n * w
  BY <1>1, Z3
<1>3. ASSUME NEW m \in Int, NEW n \in Int, m <= n PROVE m * w <= n * w
  <2>1. n - m \in Nat
    BY <1>3
  <2>2. (n - m) * w >= 0
    BY <1>1, <2>1, Z3
  <2>3. n * w = m * w + (n - m) * w
    <3>1. n = m + (n - m)
      OBVIOUS
    <3> QED
      BY <1>2, <2>1, <3>1
  <2> QED
    BY <1>1, <2>1, <2>2, <2>3
<1>4. \A n \in Int : n * w \in Int
  BY <1>1
<1>5. 0 * w = 0 /\ 1 * w = w
  BY <1>1
<1> QED
  BY <1>2, <1>3, <1>4, <1>5 DEF Cost, w

\* One more missed poll is one more period.
LEMMA Allowances ==
  ASSUME config.wait \in Nat, config.poll \in Nat
  PROVE  /\ Period(config) \in Nat /\ config.poll <= Period(config) /\ Cost(N) <= Period(config)
         /\ \A k \in Nat : /\ Allowed(k) \in Int
                          /\ Allowed(k + 1) = Allowed(k) + Period(config)
         /\ Allowed(0) = Period(config) + Cost(N + 1)
<1> DEFINE p == Period(config)
           c == Cost(N + 1)
<1>1. Cost(N) \in Int /\ c \in Int /\ Cost(N) = N * config.wait
  <2>1. N \in Int /\ N + 1 \in Int
    BY TypesAssumption
  <2>2. Cost(N) \in Int /\ c \in Int
    BY <2>1, Costs
  <2> QED
    BY <2>2 DEF Cost
<1>2. p \in Nat /\ config.poll <= p /\ Cost(N) <= p
  BY <1>1 DEF Period
<1> HIDE DEF p, c
<1>3. \A k \in Nat : (k + 1) * p \in Int /\ (k + 1 + 1) * p = (k + 1) * p + p
  BY <1>2, Z3
<1>4. (0 + 1) * p = p
  BY <1>2
<1>5. \A k : Allowed(k) = (k + 1) * p + c
  BY DEF Allowed, p, c
<1> QED
  BY <1>1, <1>2, <1>3, <1>4, <1>5 DEF p, c

\* Calls that end in time: the ticks to the task's next run are at most a period.
Timed ==
  stage = "up" =>
    /\ elapsed \in 0..config.wait /\ Rem \in Nat /\ Rem <= Cost(N) /\ ToTick \in Nat
    /\ ToRun \in Nat /\ ToRun <= Period(config)

\* They are: a cycle takes N calls, and the ticker fires once an interval.
LEMMA TimedHolds == Inv /\ Polls /\ ~late => Timed
<1> SUFFICES ASSUME Inv, Polls, ~late, stage = "up"
             PROVE  /\ elapsed \in 0..config.wait
                    /\ Rem \in Nat /\ Rem <= Cost(N) /\ ToTick \in Nat
                    /\ ToRun \in Nat /\ ToRun <= Period(config)
  BY DEF Timed
<1>1. /\ cycle \in 0..N /\ elapsed \in 0..config.wait /\ timer \in 0..config.poll /\ N \in Nat
      /\ config.wait \in Nat /\ config.poll \in Nat
  BY Numbers, TypesAssumption DEF Inv, Clocked
<1>2. /\ Cost(N) \in Int /\ Cost(0) <= Cost(N) /\ Cost(0) = 0
      /\ cycle > 0 => /\ Cost(1) <= Cost(N - cycle + 1) /\ Cost(N - cycle + 1) <= Cost(N)
                       /\ Cost(N - cycle + 1) \in Int
      /\ Cost(1) = config.wait
  <2>1. /\ N \in Int /\ 0 <= N /\ N - cycle + 1 \in Int /\ 1 <= N - cycle + 1
        /\ cycle > 0 => N - cycle + 1 <= N
    BY <1>1
  <2>2. /\ \A n \in Int : Cost(n) \in Int
        /\ \A m, n \in Int : m <= n => Cost(m) <= Cost(n)
        /\ Cost(0) = 0 /\ Cost(1) = config.wait
    BY <1>1, Costs
  <2> QED
    BY <2>1, <2>2
<1>3. Rem \in Nat /\ Rem <= Cost(N)
  BY <1>1, <1>2 DEF Rem
<1>4. ToTick \in Nat /\ ToTick <= config.poll
  BY <1>1 DEF ToTick
<1>5. Period(config) \in Nat /\ config.poll <= Period(config) /\ Cost(N) <= Period(config)
  BY <1>1, Allowances
<1>6. ToRun \in Nat /\ ToRun <= Period(config)
  BY <1>1, <1>2, <1>3, <1>4, <1>5 DEF ToRun
<1> QED
  BY <1>1, <1>3, <1>4, <1>6

\* What Bridged asks of the next state of a worker that goes on running.
LEMMA BridgedNext ==
  ASSUME config' = config, NEW t \in AnchorType,
         ASSUME missed'[t] < MaxMissed, Running', cycle' > 0, cycle' <= t
         PROVE  /\ config.ttl - horizon'[t] + ToRun' + Cost(t) <= Allowed(missed'[t] + 1)
                /\ config.ttl - horizon'[t] + Cost(t - cycle' + 1) - elapsed' <= Allowed(missed'[t]),
         ASSUME missed'[t] < MaxMissed, ~(Running' /\ cycle' > 0 /\ cycle' <= t)
         PROVE  config.ttl - horizon'[t] + ToRun' + Cost(t) <= Allowed(missed'[t]),
         ASSUME missed'[t] < MaxMissed, ~Running', cycle' > t, ToRun' <= Rem'
         PROVE  config.ttl - horizon'[t] + ToRun' + Cost(t) + Period(config) <= Allowed(missed'[t])
  PROVE  Bridged(t)'
<1>1. /\ Age(t)' = config.ttl - horizon'[t]
      /\ AgeByNext(t)' = config.ttl - horizon'[t] + ToRun' + Cost(t)
  BY DEF Age, AgeByNext, Cost
<1>2. /\ Cost(t - cycle + 1)' = Cost(t - cycle' + 1)
      /\ Allowed(missed[t])' = Allowed(missed'[t])
      /\ Allowed(missed[t] + 1)' = Allowed(missed'[t] + 1)
      /\ Period(config)' = Period(config)
  BY DEF Allowed, Cost, Period
<1>3. Pending(t)' <=> Running' /\ cycle' > 0 /\ cycle' <= t
  BY DEF Pending
<1> QED
  BY <1>1, <1>2, <1>3 DEF Bridged

\* What a worker that runs knows of a type and of its timers, as numbers.
LEMMA TypeNumbers ==
  ASSUME Inv, Timed, stage = "up", NEW t \in AnchorType
  PROVE  /\ t \in 1..N /\ cycle \in 0..N /\ N \in Nat /\ N > 0
         /\ config.ttl \in Nat /\ horizon[t] \in 0..config.ttl
         /\ config.wait \in Nat /\ elapsed \in 0..config.wait
         /\ missed[t] \in Nat /\ MaxMissed \in Nat
         /\ Period(config) \in Nat /\ Rem \in Nat /\ ToRun \in Nat /\ ToRun <= Period(config)
         /\ Allowed(missed[t]) \in Int
         /\ Allowed(missed[t] + 1) = Allowed(missed[t]) + Period(config)
         /\ Cost(t) \in Int /\ Cost(t - cycle + 1) \in Int
         /\ (Running => cycle > 0 \/ task = "join")
<1>1. /\ t \in 1..N /\ cycle \in 0..N /\ N \in Nat /\ N > 0
      /\ config.ttl \in Nat /\ horizon[t] \in 0..config.ttl
      /\ config.wait \in Nat /\ elapsed \in 0..config.wait /\ config.poll \in Nat
      /\ missed[t] \in 0..MaxMissed /\ MaxMissed \in Nat
  BY Numbers, TypesAssumption, MissedAssumption DEF Timed
<1>2. t \in Int /\ t - cycle + 1 \in Int /\ missed[t] \in Nat
  BY <1>1
<1>3. Cost(t) \in Int /\ Cost(t - cycle + 1) \in Int
  BY <1>1, <1>2, Costs
<1>4. /\ Period(config) \in Nat /\ Allowed(missed[t]) \in Int
      /\ Allowed(missed[t] + 1) = Allowed(missed[t]) + Period(config)
  BY <1>1, <1>2, Allowances
<1>5. Running => cycle > 0 \/ task = "join"
  BY DEF Running, Inv, TypeOK
<1> QED
  BY <1>1, <1>2, <1>3, <1>4, <1>5 DEF Timed

\* A step that leaves the clock, the task and the type alone.
LEMMA BridgedStill ==
  ASSUME NEW t \in AnchorType, Bridged(t),
         UNCHANGED <<config, task, timer, tick, cycle, elapsed, horizon, missed>>
  PROVE  Bridged(t)'
  BY DEF Bridged, Pending, AgeByNext, Age, Allowed, Cost, Rem, Running, ToTick, ToRun, Period

\* The task's run begins: it leads a cycle or joins the operator's, which may be
\* past the type already; then the next run has the period in hand.
LEMMA RunTaskBridged ==
  ASSUME Inv, Timed, Timed', stage = "up", RunTask, NEW t \in AnchorType, Bridged(t)
  PROVE  Bridged(t)'
<1> DEFINE h == horizon[t]
           m == missed[t]
           a == Allowed(missed[t])
           p == Period(config)
           r == ToRun'
<1>1. /\ UNCHANGED <<config, stage, timer, tick, elapsed, horizon, missed>>
      /\ task = "due" /\ Running' /\ ~Running /\ ~Pending(t) /\ ToRun = 0
      /\ (cycle = 0 /\ cycle' = 1) \/ (cycle > 0 /\ cycle' = cycle)
  BY DEF RunTask, Running, Pending, ToRun
<1>2. /\ t \in 1..N /\ cycle \in 0..N /\ N \in Nat /\ config.ttl \in Nat /\ h \in 0..config.ttl
      /\ config.wait \in Nat /\ elapsed \in 0..config.wait /\ p \in Nat /\ a \in Int
      /\ Rem \in Nat /\ Allowed(m + 1) = a + p /\ Cost(t) \in Int /\ Cost(t - cycle + 1) \in Int
  BY TypeNumbers
<1>3. r \in Nat /\ r <= p
  <2>1. Period(config)' = Period(config) /\ stage' = "up"
    BY <1>1 DEF Period
  <2> QED
    BY <2>1 DEF Timed
<1>4. m < MaxMissed =>
        /\ config.ttl - h + Cost(t) <= a
        /\ cycle > t => config.ttl - h + Cost(t) + p <= a
  BY <1>1, <1>2 DEF Bridged, AgeByNext, Age
<1>5. cycle' > 0 /\ cycle' <= t => Cost(t - cycle' + 1) \in Int /\ Cost(t - cycle' + 1) <= Cost(t)
  <2>1. ASSUME cycle' > 0, cycle' <= t
        PROVE  t \in Int /\ t - cycle' + 1 \in Int /\ t - cycle' + 1 <= t
    BY <1>1, <1>2, <2>1
  <2>2. /\ \A n \in Int : Cost(n) \in Int
        /\ \A i, j \in Int : i <= j => Cost(i) <= Cost(j)
    BY <1>2, Costs
  <2> QED
    BY <2>1, <2>2
<1>6. horizon'[t] = h /\ missed'[t] = m /\ elapsed' = elapsed
  BY <1>1
<1> HIDE DEF h, m, a, p, r
<1>7. ASSUME m < MaxMissed, cycle' > 0, cycle' <= t
      PROVE  /\ config.ttl - h + r + Cost(t) <= a + p
             /\ config.ttl - h + Cost(t - cycle' + 1) - elapsed <= a
  BY <1>2, <1>3, <1>4, <1>5, <1>7
<1>8. ASSUME m < MaxMissed, ~(cycle' > 0 /\ cycle' <= t)
      PROVE  config.ttl - h + r + Cost(t) <= a
  BY <1>1, <1>2, <1>3, <1>4, <1>8
<1> QED
  BY <1>1, <1>2, <1>6, <1>7, <1>8, BridgedNext DEF h, m, a, p, r

\* Taking a tick: the run it is for is due at once, as it was.
LEMMA TakeTickBridged ==
  ASSUME TakeTick, NEW t \in AnchorType, Bridged(t)
  PROVE  Bridged(t)'
<1>1. /\ UNCHANGED <<config, cycle, elapsed, horizon, missed>>
      /\ ~Running /\ ~Running' /\ ToRun = 0 /\ ToRun' = 0
  BY DEF TakeTick, Running, ToRun, ToTick
<1>2. Rem' = Rem /\ ~Pending(t) /\ ~Pending(t)'
  BY <1>1 DEF Rem, Cost, Pending
<1> QED
  BY <1>1, <1>2 DEF Bridged, AgeByNext, Age, Allowed, Cost, Period

\* The operator's cycle begins, and the task is in none.
LEMMA ResyncBridged ==
  ASSUME Inv, Polls, Timed, stage = "up", Resync, NEW t \in AnchorType, Bridged(t)
  PROVE  Bridged(t)'
<1>1. /\ UNCHANGED <<config, task, timer, tick, elapsed, horizon, missed>>
      /\ (cycle = 0 /\ cycle' = 1) \/ cycle' = cycle
  BY DEF Resync
<1>2. CASE cycle' = cycle
  BY <1>1, <1>2, BridgedStill
<1>3. CASE cycle = 0 /\ cycle' = 1
  <2>1. ~Running /\ ~Running'
    BY <1>1, <1>3 DEF Running, Inv, TypeOK, Polls
  <2>2. ToRun' = ToRun
    BY <1>1, <2>1 DEF ToRun, ToTick, Running
  <2>3. ~Pending(t) /\ ~Pending(t)' /\ ~(cycle' > t)
    BY <1>3, <2>1 DEF Pending, AnchorType
  <2> QED
    BY <1>1, <2>1, <2>2, <2>3 DEF Bridged, AgeByNext, Age, Allowed, Cost, Period
<1> QED
  BY <1>1, <1>2, <1>3

\* A call ends before its timeout: no later than it would have, the task's next
\* run begins.
LEMMA DoneClock ==
  ASSUME Inv, Polls, Timed, Timed', stage = "up", Record \/ Fail
  PROVE  /\ UNCHANGED <<config, stage>> /\ elapsed' = 0
         /\ cycle \in 1..N /\ cycle' = IF cycle < N THEN cycle + 1 ELSE 0
         /\ Rem' \in Nat /\ Rem' <= Rem
         /\ cycle < N => Rem' = Cost(N - cycle)
         /\ ToRun' \in Nat /\ ToRun' <= ToRun /\ ToRun' <= Period(config)
         /\ Running' <=> Running /\ cycle < N
         /\ ~Running => ToRun' = ToRun
<1>1. cycle > 0 /\ NextType /\ UNCHANGED <<config, stage, timer, tick>>
  BY DEF Record, Fail
<1>2. /\ elapsed' = 0 /\ cycle' = IF cycle < N THEN cycle + 1 ELSE 0
      /\ task' = IF cycle < N THEN task ELSE IF Running THEN "select" ELSE task
  BY <1>1 DEF NextType, Running
<1>3. cycle \in 1..N /\ N \in Nat /\ config.wait \in Nat /\ elapsed \in 0..config.wait
  BY <1>1, Numbers, TypesAssumption DEF Timed
<1>4. Rem' = IF cycle < N THEN Cost(N - cycle) ELSE 0
  <2>1. Rem' = IF cycle' = 0 THEN 0 ELSE Cost(N - cycle' + 1) - elapsed'
    BY <1>1 DEF Rem, Cost
  <2>2. cycle < N => cycle' # 0 /\ N - cycle' + 1 = N - cycle /\ N - cycle \in Int
    BY <1>2, <1>3
  <2>3. cycle < N => Cost(N - cycle) \in Int
    BY <1>3, <2>2, Costs
  <2> QED
    BY <1>2, <2>1, <2>2, <2>3
<1>5. Rem' \in Nat /\ Rem \in Nat /\ ToTick \in Nat /\ ToRun' \in Nat /\ ToRun' <= Period(config)
  BY <1>1 DEF Timed, Period
<1>6. Rem' <= Rem
  <2>1. N - cycle \in Int /\ 1 \in Int /\ Cost(1) = config.wait
        /\ Cost(N - cycle) \in Int /\ Cost(N - cycle + 1) = Cost(N - cycle) + Cost(1)
    <3>1. N - cycle \in Int /\ 1 \in Int
      BY <1>3
    <3> QED
      BY <1>3, <3>1, Costs
  <2>2. Rem = Cost(N - cycle + 1) - elapsed
    BY <1>3 DEF Rem
  <2> QED
    BY <1>3, <1>4, <1>5, <2>1, <2>2
<1>7. Running' <=> Running /\ cycle < N
  BY <1>2 DEF Running
<1>8. ToTick' = ToTick
  BY <1>1 DEF ToTick
<1>9. ToRun' <= ToRun /\ (~Running => ToRun' = ToRun)
  <2>1. task' = "due" <=> task = "due"
    BY <1>2 DEF Running
  <2>2. ToRun' = IF task' = "due" THEN 0 ELSE IF Running' /\ Rem' > ToTick THEN Rem' ELSE ToTick
    BY <1>8 DEF ToRun
  <2>3. ToRun = IF task = "due" THEN 0 ELSE IF Running /\ Rem > ToTick THEN Rem ELSE ToTick
    BY DEF ToRun
  <2> QED
    BY <1>5, <1>6, <1>7, <2>1, <2>2, <2>3
<1> QED
  BY <1>1, <1>2, <1>3, <1>4, <1>5, <1>6, <1>7, <1>9

\* The types the call was not for: the cycle gets to those behind it no later
\* than it would have.
LEMMA OthersBridged ==
  ASSUME Inv, Polls, Timed, Timed', stage = "up", Record \/ Fail,
         NEW t \in AnchorType, t # cycle, Bridged(t)
  PROVE  Bridged(t)'
<1> DEFINE h == horizon[t]
           m == missed[t]
           a == Allowed(missed[t])
           p == Period(config)
           d == Cost(t - cycle)
<1>1. /\ config' = config /\ elapsed' = 0 /\ cycle \in 1..N
      /\ cycle' = IF cycle < N THEN cycle + 1 ELSE 0
      /\ Rem' \in Nat /\ Rem' <= Rem /\ ToRun' \in Nat /\ ToRun' <= ToRun
      /\ Running' <=> Running /\ cycle < N
      /\ ~Running => ToRun' = ToRun
  BY DoneClock
<1>2. /\ t \in 1..N /\ N \in Nat /\ config.ttl \in Nat /\ h \in 0..config.ttl
      /\ config.wait \in Nat /\ elapsed \in 0..config.wait /\ p \in Nat /\ a \in Int
      /\ Rem \in Nat /\ ToRun \in Nat /\ Allowed(m + 1) = a + p /\ Cost(t) \in Int
  BY TypeNumbers
<1>3. horizon'[t] = h /\ missed'[t] = m
  BY DEF Record, Fail, Inv, TypeOK
<1>4. d \in Int /\ Cost(t - cycle + 1) = d + config.wait
  <2>1. t - cycle \in Int /\ 1 \in Int
    BY <1>1, <1>2
  <2> QED
    BY <1>2, <2>1, Costs
<1>5. t > cycle => cycle' = cycle + 1 /\ cycle' <= t /\ cycle < N /\ Cost(t - cycle' + 1) = d
  <2>1. ASSUME t > cycle PROVE cycle' = cycle + 1 /\ cycle' <= t /\ cycle < N /\ t - cycle' + 1 = t - cycle
    BY <1>1, <1>2, <2>1
  <2> QED
    BY <2>1
<1>6. m < MaxMissed /\ Running /\ cycle <= t =>
        /\ config.ttl - h + ToRun + Cost(t) <= a + p
        /\ config.ttl - h + d + config.wait - elapsed <= a
  BY <1>1, <1>2, <1>4 DEF Bridged, Pending, AgeByNext, Age
<1>7. m < MaxMissed /\ ~(Running /\ cycle <= t) =>
        /\ config.ttl - h + ToRun + Cost(t) <= a
        /\ ~Running /\ cycle > t /\ ToRun <= Rem => config.ttl - h + ToRun + Cost(t) + p <= a
  BY <1>1, <1>2 DEF Bridged, Pending, AgeByNext, Age
<1> HIDE DEF h, m, a, p, d
<1>8. ASSUME m < MaxMissed, Running', cycle' > 0, cycle' <= t
      PROVE  /\ config.ttl - h + ToRun' + Cost(t) <= a + p
             /\ config.ttl - h + Cost(t - cycle' + 1) - elapsed' <= a
  <2>1. t > cycle /\ Running
    BY <1>1, <1>2, <1>8
  <2> QED
    BY <1>1, <1>2, <1>4, <1>5, <1>6, <1>8, <2>1
<1>9. ASSUME m < MaxMissed, ~(Running' /\ cycle' > 0 /\ cycle' <= t)
      PROVE  config.ttl - h + ToRun' + Cost(t) <= a
  <2>1. ~(Running /\ cycle <= t)
    BY <1>1, <1>2, <1>5, <1>9
  <2> QED
    BY <1>1, <1>2, <1>7, <1>9, <2>1
<1>10. ASSUME m < MaxMissed, ~Running', cycle' > t, ToRun' <= Rem'
       PROVE  config.ttl - h + ToRun' + Cost(t) + p <= a
  <2>1. cycle > t /\ ~Running
    BY <1>1, <1>2, <1>10
  <2>2. ToRun <= Rem
    BY <1>1, <1>2, <1>10, <2>1
  <2> QED
    BY <1>1, <1>2, <1>7, <1>10, <2>1, <2>2
<1> QED
  BY <1>1, <1>2, <1>3, <1>8, <1>9, <1>10, BridgedNext DEF h, m, a, p

\* The type the call was for is recorded: it is as old as the call took.
LEMMA RecordBridged ==
  ASSUME Inv, Polls, Timed, Timed', stage = "up", Record,
         NEW t \in AnchorType, t = cycle, got >= config.ttl - elapsed
  PROVE  Bridged(t)'
<1> DEFINE p == Period(config)
           w == config.wait
<1>1. /\ config' = config /\ cycle \in 1..N
      /\ cycle' = IF cycle < N THEN cycle + 1 ELSE 0
      /\ cycle < N => Rem' = Cost(N - cycle)
      /\ ToRun' \in Nat /\ ToRun' <= p
  BY DoneClock
<1>2. /\ t \in 1..N /\ N \in Nat /\ config.ttl \in Nat /\ config.poll \in Nat
      /\ w \in Nat /\ elapsed \in 0..w /\ p \in Nat /\ Cost(t) \in Int /\ got \in 0..config.ttl
  BY TypeNumbers, Numbers
<1>3. horizon'[t] = got /\ missed'[t] = 0
  BY <1>1, <1>2 DEF Record, Inv, TypeOK
<1>4. /\ Allowed(0) = p + Cost(N + 1)
      /\ Cost(N - t) \in Int /\ Cost(N + 1) \in Int
      /\ Cost(N + 1) = Cost(N - t) + Cost(t) + w
      /\ Cost(N - t) >= 0
  <2>1. N - t \in Int /\ t \in Int /\ 1 \in Int /\ N \in Int /\ N + 1 \in Int /\ 0 \in Int
        /\ 0 <= N - t /\ N = (N - t) + t
    BY <1>2
  <2>2. /\ \A n \in Int : Cost(n) \in Int
        /\ \A i, j \in Int : Cost(i + j) = Cost(i) + Cost(j)
        /\ \A i, j \in Int : i <= j => Cost(i) <= Cost(j)
        /\ Cost(0) = 0 /\ Cost(1) = w
    BY <1>2, Costs
  <2>3. Cost(N) = Cost(N - t) + Cost(t)
    <3>1. Cost((N - t) + t) = Cost(N - t) + Cost(t)
      BY <2>1, <2>2
    <3> QED
      BY <2>1, <3>1
  <2>4. Cost(N + 1) = Cost(N) + w
    <3>1. Cost(N + 1) = Cost(N) + Cost(1)
      BY <2>1, <2>2
    <3> QED
      BY <2>2, <3>1
  <2>5. Allowed(0) = p + Cost(N + 1)
    BY <1>2, Allowances
  <2> QED
    BY <2>1, <2>2, <2>3, <2>4, <2>5
<1>5. ~(cycle' > 0 /\ cycle' <= t)
  BY <1>1, <1>2
<1>6. cycle' > t => Rem' = Cost(N - t)
  BY <1>1, <1>2
<1> HIDE DEF p, w
<1>7. config.ttl - got + ToRun' + Cost(t) <= Allowed(0)
  BY <1>1, <1>2, <1>4
<1>8. ASSUME cycle' > t, ToRun' <= Rem'
      PROVE  config.ttl - got + ToRun' + Cost(t) + p <= Allowed(0)
  BY <1>1, <1>2, <1>4, <1>6, <1>8
<1> QED
  BY <1>1, <1>3, <1>5, <1>7, <1>8, BridgedNext DEF p

\* The type the call was for misses a poll: it is as old as it was, and one
\* period more is allowed.
LEMMA FailBridged ==
  ASSUME Inv, Polls, Timed, Timed', stage = "up", Fail,
         NEW t \in AnchorType, t = cycle, Bridged(t)
  PROVE  Bridged(t)'
<1> DEFINE h == horizon[t]
           m == missed[t]
           a == Allowed(missed[t])
           p == Period(config)
<1>1. /\ config' = config /\ cycle \in 1..N
      /\ cycle' = IF cycle < N THEN cycle + 1 ELSE 0
      /\ ToRun' \in Nat /\ ToRun' <= ToRun
      /\ Running' <=> Running /\ cycle < N
  BY DoneClock
<1>2. /\ t \in 1..N /\ N \in Nat /\ config.ttl \in Nat /\ h \in 0..config.ttl
      /\ p \in Nat /\ a \in Int /\ m \in Nat /\ MaxMissed \in Nat
      /\ ToRun \in Nat /\ Allowed(m + 1) = a + p /\ Cost(t) \in Int
  BY TypeNumbers
<1>3. horizon'[t] = h /\ missed'[t] = IF m < MaxMissed THEN m + 1 ELSE m
  BY DEF Fail, Inv, TypeOK
<1>4. m < MaxMissed =>
        /\ Running => config.ttl - h + ToRun + Cost(t) <= a + p
        /\ ~Running => config.ttl - h + ToRun + Cost(t) <= a
  BY <1>1, <1>2 DEF Bridged, Pending, AgeByNext, Age
<1>5. ~(cycle' > 0 /\ cycle' <= t)
  BY <1>1, <1>2
<1> HIDE DEF h, m, a, p
<1>6. ASSUME missed'[t] < MaxMissed PROVE m < MaxMissed /\ missed'[t] = m + 1
  BY <1>2, <1>3, <1>6
<1>7. ASSUME m < MaxMissed PROVE config.ttl - h + ToRun' + Cost(t) <= a + p
  BY <1>1, <1>2, <1>4, <1>7
<1>8. ASSUME m < MaxMissed, ~Running', cycle' > t
      PROVE  config.ttl - h + ToRun' + Cost(t) + p <= a + p
  <2>1. ~Running
    BY <1>1, <1>2, <1>8
  <2> QED
    BY <1>1, <1>2, <1>4, <1>8, <2>1
<1>9. missed'[t] < MaxMissed => Allowed(missed'[t]) = a + p
  BY <1>2, <1>6
<1>10. ASSUME missed'[t] < MaxMissed
       PROVE  config.ttl - horizon'[t] + ToRun' + Cost(t) <= Allowed(missed'[t])
  BY <1>3, <1>6, <1>7, <1>9, <1>10
<1>11. ASSUME missed'[t] < MaxMissed, ~Running', cycle' > t
       PROVE  config.ttl - horizon'[t] + ToRun' + Cost(t) + p <= Allowed(missed'[t])
  BY <1>3, <1>6, <1>8, <1>9, <1>11
<1> QED
  BY <1>1, <1>5, <1>10, <1>11, BridgedNext DEF p

\* Time passes: what is left of the cycle and of the ticker's interval passes
\* with it, and at most as much of the horizon.
LEMMA TickBridged ==
  ASSUME Inv, Polls, Timed, Timed', stage = "up", Tick, ~late', NEW t \in AnchorType, Bridged(t)
  PROVE  Bridged(t)'
<1> DEFINE h == horizon[t]
           m == missed[t]
           a == Allowed(missed[t])
           p == Period(config)
<1>1. /\ UNCHANGED <<config, stage, task, cycle, missed>>
      /\ task # "due" /\ task # "off" /\ ~(task = "select" /\ tick)
      /\ cycle > 0 => elapsed < config.wait /\ elapsed' = elapsed + 1
      /\ timer' = IF timer = 1 THEN config.poll ELSE Less(timer)
      /\ horizon' = [s \in AnchorType |-> Less(horizon[s])]
  BY TickClock DEF Tick, Prompt, Polls
<1>2. /\ t \in 1..N /\ cycle \in 0..N /\ N \in Nat /\ config.ttl \in Nat /\ h \in 0..config.ttl
      /\ config.wait \in Nat /\ elapsed \in 0..config.wait /\ p \in Nat /\ a \in Int
      /\ Rem \in Nat /\ ToRun \in Nat /\ Allowed(m + 1) = a + p /\ Cost(t) \in Int
      /\ Cost(t - cycle + 1) \in Int
      /\ timer \in 0..config.poll /\ timer > 0 /\ config.poll \in Nat
  BY TypeNumbers, Numbers DEF Polls
<1>3. Rem' \in Nat /\ ToRun' \in Nat /\ ToTick \in Nat /\ ToTick' \in Nat
  BY <1>1 DEF Timed
<1>4. horizon'[t] = Less(h) /\ missed'[t] = m
  BY <1>1
<1>5. Running' = Running /\ (Running => cycle > 0) /\ (~Running => task = "select" /\ ~tick)
  BY <1>1 DEF Running, Inv, TypeOK, Polls
<1>6. cycle > 0 => Rem' = Rem - 1
  <2>1. cycle > 0 => Rem = Cost(N - cycle + 1) - elapsed /\ Rem' = Cost(N - cycle + 1) - elapsed'
    BY <1>1, <1>2 DEF Rem, Cost
  <2>2. cycle > 0 => Cost(N - cycle + 1) \in Int
    <3>1. N - cycle + 1 \in Int
      BY <1>2
    <3> QED
      BY <1>2, <3>1, Costs
  <2> QED
    BY <1>1, <1>2, <2>1, <2>2
<1>7. tick => tick'
  BY Zenon DEF Tick
<1>8. timer = 1 => tick'
  BY Zenon DEF Tick
<1>9. ~tick /\ timer # 1 => ~tick'
  BY Zenon DEF Tick
<1>10. timer' = IF timer = 1 THEN config.poll ELSE timer - 1
  BY <1>1, <1>2 DEF Less
<1>11. ToTick' = IF ToTick > 0 THEN ToTick - 1 ELSE 0
  <2>1. CASE tick
    BY <1>7, <2>1 DEF ToTick
  <2>2. CASE ~tick /\ timer = 1
    BY <1>8, <2>2 DEF ToTick
  <2>3. CASE ~tick /\ timer # 1
    BY <1>2, <1>9, <1>10, <2>3 DEF ToTick
  <2> QED
    BY <2>1, <2>2, <2>3
<1>12. ToRun' = ToRun - 1
  <2>1. /\ ToRun = IF Running /\ Rem > ToTick THEN Rem ELSE ToTick
        /\ ToRun' = IF Running /\ Rem' > ToTick' THEN Rem' ELSE ToTick'
    BY <1>1, <1>5 DEF ToRun
  <2>2. CASE Running
    BY <1>3, <1>5, <1>6, <1>11, <1>2, <2>1, <2>2
  <2>3. CASE ~Running
    <3>1. ToTick > 0
      BY <1>2, <1>5, <2>3 DEF ToTick
    <3> QED
      BY <1>3, <1>11, <2>1, <2>3, <3>1
  <2> QED
    BY <2>2, <2>3
<1>13. config.ttl - Less(h) <= config.ttl - h + 1
  BY <1>2 DEF Less
<1>14. Less(h) \in Int
  BY <1>2 DEF Less
<1>15. m < MaxMissed /\ Running /\ cycle <= t =>
        /\ config.ttl - h + ToRun + Cost(t) <= a + p
        /\ config.ttl - h + Cost(t - cycle + 1) - elapsed <= a
  BY <1>2, <1>5 DEF Bridged, Pending, AgeByNext, Age
<1>16. m < MaxMissed /\ ~(Running /\ cycle <= t) =>
        /\ config.ttl - h + ToRun + Cost(t) <= a
        /\ ~Running /\ cycle > t /\ ToRun <= Rem => config.ttl - h + ToRun + Cost(t) + p <= a
  BY <1>2, <1>5 DEF Bridged, Pending, AgeByNext, Age
<1> HIDE DEF h, m, a, p
<1>17. ASSUME m < MaxMissed, Running, cycle <= t
       PROVE  /\ config.ttl - Less(h) + ToRun' + Cost(t) <= a + p
              /\ config.ttl - Less(h) + Cost(t - cycle + 1) - elapsed' <= a
  <2>1. config.ttl - Less(h) + ToRun' + Cost(t) <= a + p
    BY <1>2, <1>3, <1>12, <1>13, <1>14, <1>15, <1>17
  <2>2. elapsed' = elapsed + 1
    BY <1>1, <1>5, <1>17
  <2>3. config.ttl - Less(h) + Cost(t - cycle + 1) - elapsed' <= a
    BY <1>2, <1>13, <1>14, <1>15, <1>17, <2>2
  <2> QED
    BY <2>1, <2>3
<1>18. ASSUME m < MaxMissed, ~(Running /\ cycle <= t)
       PROVE  config.ttl - Less(h) + ToRun' + Cost(t) <= a
  BY <1>2, <1>3, <1>12, <1>13, <1>14, <1>16, <1>18
<1>19. ASSUME m < MaxMissed, ~Running, cycle > t, ToRun' <= Rem'
       PROVE  config.ttl - Less(h) + ToRun' + Cost(t) + p <= a
  <2>1. ToRun <= Rem
    BY <1>2, <1>3, <1>6, <1>12, <1>19
  <2> QED
    BY <1>2, <1>3, <1>12, <1>13, <1>14, <1>16, <1>19, <2>1
<1>20. /\ Running' <=> Running
       /\ cycle' = cycle /\ config' = config
       /\ cycle' <= t => cycle <= t
       /\ Running => cycle' > 0
  BY <1>1, <1>5
<1>21. ASSUME missed'[t] < MaxMissed, Running', cycle' > 0, cycle' <= t
       PROVE  /\ config.ttl - horizon'[t] + ToRun' + Cost(t) <= Allowed(missed'[t] + 1)
              /\ config.ttl - horizon'[t] + Cost(t - cycle' + 1) - elapsed' <= Allowed(missed'[t])
  <2>1. m < MaxMissed /\ Running /\ cycle <= t /\ Allowed(m + 1) = a + p
    BY <1>2, <1>4, <1>20, <1>21 DEF m, a, p
  <2> QED
    BY <1>4, <1>17, <1>20, <2>1 DEF a, m
<1>22. ASSUME missed'[t] < MaxMissed, ~(Running' /\ cycle' > 0 /\ cycle' <= t)
       PROVE  config.ttl - horizon'[t] + ToRun' + Cost(t) <= Allowed(missed'[t])
  BY <1>4, <1>18, <1>20, <1>22 DEF a, m
<1>23. ASSUME missed'[t] < MaxMissed, ~Running', cycle' > t, ToRun' <= Rem'
       PROVE  config.ttl - horizon'[t] + ToRun' + Cost(t) + Period(config) <= Allowed(missed'[t])
  BY <1>4, <1>19, <1>20, <1>23 DEF a, m, p
<1> QED
  BY <1>20, <1>21, <1>22, <1>23, BridgedNext

\* The validUntil that the call in flight has computed is as old as the call.
LEMMA GotStep ==
  ASSUME Inv, Polls, Timed, stage = "up", got > 0 => cycle > 0 /\ got >= config.ttl - elapsed,
         RunTask \/ TakeTick \/ Resync \/ ContextEnds \/ Answer \/ Record \/ Fail \/ Tick
  PROVE  got' > 0 => cycle' > 0 /\ got' >= config.ttl' - elapsed'
<1>1. config' = config
  BY DEF RunTask, TakeTick, Resync, ContextEnds, Answer, Record, Fail, Tick
<1>2. config.ttl \in Nat /\ elapsed \in 0..config.wait /\ got \in Nat /\ cycle \in Nat
  BY Numbers DEF Timed
<1>3. CASE RunTask \/ TakeTick \/ Resync \/ ContextEnds
  BY <1>1, <1>2, <1>3 DEF RunTask, TakeTick, Resync, ContextEnds
<1>4. CASE Answer
  BY <1>1, <1>2, <1>4 DEF Answer
<1>5. CASE Record \/ Fail
  BY <1>5 DEF Record, Fail, NextType
<1>6. CASE Tick
  <2>1. /\ got' = IF got > 0 THEN got - 1 ELSE 0
        /\ cycle' = cycle
        /\ cycle > 0 => elapsed' = elapsed + 1
    BY <1>2, <1>6, Numbers DEF Tick, Less
  <2> QED
    BY <1>1, <1>2, <2>1
<1> QED
  BY <1>3, <1>4, <1>5, <1>6

\* Every step of the worker keeps the bridges.
LEMMA BridgesStep ==
  Inv /\ Polls /\ (~late => Timed) /\ Inv' /\ Polls' /\ (~late' => Timed') /\ Bridges /\ [Next]_vars
  => Bridges'
<1> SUFFICES ASSUME Inv, Polls, ~late => Timed, Inv', Polls', Timed', ~late', Bridges, [Next]_vars
             PROVE  Bridges'
  BY DEF Bridges
<1>1. ASSUME Inv', Polls', stage' # "up" PROVE Bridges'
  <2>1. \A t \in AnchorType : missed'[t] = MaxMissed
    BY <1>1 DEF Inv, Resting
  <2>2. cycle' = 0 /\ got' = 0
    BY <1>1 DEF Inv, Resting, Polls
  <2> QED
    BY <2>1, <2>2, MissedAssumption DEF Bridges, Bridged, AnchorType
<1>2. CASE Load \/ Wire \/ StartupCheck \/ Restart \/ Crash
  <2>1. CASE stage' # "up"
    BY <1>1, <2>1
  <2>2. CASE stage' = "up"
    <3>1. StartupCheck /\ stage # "up"
      BY <1>2, <2>2 DEF Load, Wire, StartupCheck, Restart, Crash
    <3>2. missed' = missed /\ cycle' = cycle /\ got' = got
      BY <3>1 DEF StartupCheck
    <3>3. /\ \A t \in AnchorType : missed'[t] = MaxMissed
          /\ cycle' = 0 /\ got' = 0
      BY <3>1, <3>2 DEF Inv, Resting, Polls
    <3> QED
      BY <3>3, MissedAssumption DEF Bridges, Bridged, AnchorType
  <2> QED
    BY <2>1, <2>2
<1>3. CASE Outage \/ UNCHANGED vars
  <2>1. UNCHANGED <<config, task, timer, tick, cycle, elapsed, got, horizon, missed, late>>
    BY <1>3 DEF Outage, vars, run
  <2> QED
    BY <2>1, BridgedStill DEF Bridges, AnchorType
<1>4. CASE RunTask \/ TakeTick \/ Resync \/ ContextEnds \/ Answer \/ Record \/ Fail \/ Tick
  <2>1. CASE stage # "up"
    <3>1. stage' # "up"
      BY <1>4, <2>1 DEF RunTask, TakeTick, Resync, ContextEnds, Answer, Record, Fail, Tick
    <3> QED
      BY <1>1, <3>1
  <2>2. CASE stage = "up"
    <3>0. ~late /\ Timed
      <4>1. CASE Tick
        BY <4>1, TickClock
      <4>2. CASE ~Tick
        BY <1>4, <4>2 DEF RunTask, TakeTick, Resync, ContextEnds, Answer, Record, Fail
      <4> QED
        BY <4>1, <4>2
    <3>1. ASSUME NEW t \in AnchorType PROVE Bridged(t)'
      <4>1. Bridged(t) /\ (got > 0 => got >= config.ttl - elapsed)
        BY <3>0 DEF Bridges
      <4>2. CASE RunTask
        BY <2>2, <3>0, <4>1, <4>2, RunTaskBridged
      <4>3. CASE TakeTick
        BY <4>1, <4>3, TakeTickBridged
      <4>4. CASE Resync
        BY <2>2, <3>0, <4>1, <4>4, ResyncBridged
      <4>5. CASE ContextEnds \/ Answer
        BY <4>1, <4>5, BridgedStill DEF ContextEnds, Answer
      <4>6. CASE (Record \/ Fail) /\ t # cycle
        BY <2>2, <3>0, <4>1, <4>6, OthersBridged
      <4>7. CASE Record /\ t = cycle
        BY <2>2, <3>0, <4>1, <4>7, RecordBridged DEF Record
      <4>8. CASE Fail /\ t = cycle
        BY <2>2, <3>0, <4>1, <4>8, FailBridged
      <4>9. CASE Tick
        BY <2>2, <3>0, <4>1, <4>9, TickBridged
      <4> QED
        BY <1>4, <4>2, <4>3, <4>4, <4>5, <4>6, <4>7, <4>8, <4>9
    <3>2. got' > 0 => cycle' > 0 /\ got' >= config.ttl' - elapsed'
      BY <1>4, <2>2, <3>0, GotStep DEF Bridges
    <3> QED
      BY <3>1, <3>2 DEF Bridges, AnchorType
  <2> QED
    BY <2>1, <2>2
<1> QED
  BY <1>2, <1>3, <1>4 DEF Next, Process, Call

\* A type is never older than its missed polls allow.
LEMMA NeverOlder ==
  ASSUME Inv, Timed, stage = "up", NEW t \in AnchorType, Bridged(t), missed[t] < MaxMissed
  PROVE  Age(t) <= Allowed(missed[t])
<1>1. /\ t \in 1..N /\ cycle \in 0..N /\ N \in Nat /\ config.ttl \in Nat
      /\ horizon[t] \in 0..config.ttl
      /\ config.wait \in Nat /\ elapsed \in 0..config.wait
      /\ ToRun \in Nat /\ Allowed(missed[t]) \in Int
      /\ Cost(t) \in Int /\ Cost(t - cycle + 1) \in Int
  BY TypeNumbers
<1>2. Age(t) \in Int
  BY <1>1 DEF Age
<1>3. /\ \A i, j \in Int : i <= j => Cost(i) <= Cost(j)
      /\ Cost(0) = 0 /\ Cost(1) = config.wait
  BY <1>1, Costs
<1>4. CASE Pending(t)
  <2>1. 1 \in Int /\ t - cycle + 1 \in Int /\ 1 <= t - cycle + 1
    BY <1>1, <1>4 DEF Pending
  <2>2. config.wait <= Cost(t - cycle + 1)
    BY <1>3, <2>1
  <2> QED
    BY <1>1, <1>2, <1>4, <2>2 DEF Bridged
<1>5. CASE ~Pending(t)
  <2>1. 0 \in Int /\ t \in Int /\ 0 <= t
    BY <1>1
  <2>2. 0 <= Cost(t)
    BY <1>3, <2>1
  <2> QED
    BY <1>1, <1>2, <1>5, <2>2 DEF Bridged, AgeByNext
<1> QED
  BY <1>4, <1>5

\* What the budget allows is less than the TTL.
LEMMA WithinTTL ==
  ASSUME Inv, stage = "up", NEW k \in Nat, k <= Budget(config)
  PROVE  Allowed(k) < config.ttl
<1> DEFINE p == Period(config)
           x == config.ttl - 1 - (N + 1) * config.wait
           q == x \div p
<1>1. /\ config.ttl \in Nat /\ config.wait \in Nat /\ config.poll \in Nat /\ config.poll > 0
      /\ N + 1 \in Int
  BY Numbers, TypesAssumption
<1>2. p \in Nat /\ p > 0
  <2>1. p \in Nat /\ config.poll <= p
    BY <1>1, Allowances
  <2> QED
    BY <1>1, <2>1
<1>3. Cost(N + 1) \in Int /\ (N + 1) * config.wait = Cost(N + 1)
  <2>1. Cost(N + 1) \in Int
    BY <1>1, Costs
  <2> QED
    BY <2>1 DEF Cost
<1>4. x \in Int /\ config.ttl = x + 1 + Cost(N + 1)
  BY <1>1, <1>3
<1>5. Budget(config) = q - 1 /\ Allowed(k) = (k + 1) * p + Cost(N + 1)
  BY DEF Budget, Allowed
<1> HIDE DEF p, x
<1>6. q \in Int /\ q * p <= x
  BY <1>2, <1>4, Z3
<1> HIDE DEF q
<1>7. k + 1 <= q
  BY <1>5, <1>6
<1>8. (k + 1) * p \in Int /\ (k + 1) * p <= q * p /\ q * p \in Int
  BY <1>2, <1>6, <1>7, Z3
<1> QED
  BY <1>3, <1>4, <1>5, <1>6, <1>8

\* The budget of missed polls that "poll < TTL" leaves a worker bridges every
\* outage within it, whoever leads the cycles and however much of config.wait
\* their calls take, until one takes longer.
THEOREM MissesBridged == Spec => []BridgesMissedPolls
<1>1. Init => Bridges
  BY MissedAssumption DEF Init, Bridges, Bridged, AnchorType
<1>2. Inv /\ Polls /\ (~late => Timed) /\ Bridges => BridgesMissedPolls
  <2> SUFFICES ASSUME Inv, Polls, Timed, Bridges, Valid(config), ~late,
                      NEW t \in AnchorType, missed[t] <= Budget(config)
               PROVE  horizon[t] > 0
    BY DEF BridgesMissedPolls
  <2>1. config \in Deployments /\ missed[t] \in 0..MaxMissed
    BY DEF Inv, TypeOK
  <2>2. missed[t] < MaxMissed
    <3>1. Budget(config) \in Int
      <4>1. /\ config.ttl \in Nat /\ config.wait \in Nat /\ config.poll \in Nat /\ config.poll > 0
        BY Settings DEF Inv, Valid, SyncValid
      <4>2. Period(config) \in Nat /\ Period(config) > 0
        BY <4>1, Allowances
      <4>3. N + 1 \in Int /\ (N + 1) * config.wait \in Int
        BY <4>1, TypesAssumption
      <4> QED
        BY <4>1, <4>2, <4>3 DEF Budget
    <3>2. Budget(config) < MaxMissed
      BY <2>1, CountAssumption
    <3> QED
      BY <2>1, <3>1, <3>2, MissedAssumption
  <2>3. stage = "up"
    BY <2>1, <2>2, MissedAssumption DEF Inv, Resting
  <2>4. /\ config.ttl \in Nat /\ horizon[t] \in 0..config.ttl /\ missed[t] \in Nat
        /\ Allowed(missed[t]) \in Int
    BY <2>3, TypeNumbers
  <2>5. Age(t) <= Allowed(missed[t])
    BY <2>2, <2>3, NeverOlder DEF Bridges
  <2>6. Allowed(missed[t]) < config.ttl
    BY <2>3, <2>4, WithinTTL
  <2> QED
    BY <2>4, <2>5, <2>6 DEF Age
<1> QED
  BY InvHolds, PollsHold, TimedHolds, BridgesStep, <1>1, <1>2, PTL DEF Spec

\* The documented "9 missed polls" are the quotient of the two timers that ship,
\* in minutes; what is bridged for certain, by calls that take no time, is seven.
LEMMA BudgetAsShipped ==
  ASSUME NEW c, c.poll = 5, c.ttl = 45, c.wait = 0
  PROVE  Budget(c) = 7 /\ c.ttl \div c.poll = 9
<1>1. N * c.wait = 0 /\ (N + 1) * c.wait = 0
  BY TypesAssumption
<1>2. Period(c) = 5
  BY <1>1 DEF Period
<1> QED
  BY <1>1, <1>2 DEF Budget
=============================================================================
