------------------------------- MODULE Worker -------------------------------
(***************************************************************************)
(* One worker process from its configuration to /readyz: validation, the   *)
(* wiring of the outbound doer, the startup probe, and then the scheduled  *)
(* sync task and an operator's resync, which share one cycle over the      *)
(* configured types, under a clock.  What a cycle does to Valkey is in     *)
(* TrustSync and how callers share it in SingleFlight; here a type's sync  *)
(* is a call that takes time and moves the horizon /readyz answers from.   *)
(*                                                                         *)
(* The process dies and restarts, the trust service, the token issuer and  *)
(* Valkey come and go, and the operator's context may end at any time.     *)
(***************************************************************************)
EXTENDS Integers, FiniteSets

CONSTANTS
  Deployments,  \* the settings a worker may be deployed with
  N,            \* how many anchor types are configured
  MaxMissed     \* failed polls in a row are counted up to here

\* known: every configured type name is in the taxonomy.  poll, ttl: the poll
\* interval and the cache TTL, in ticks.  wait: the longest the startup probe
\* takes, and one type's sync as long as every call of it ends in time (0: less
\* than a tick).
Configuration == [mode : {"unset", "dpop", "internal", "other"},
                  credentials : BOOLEAN, adminKey : BOOLEAN, coldStart : BOOLEAN,
                  known : BOOLEAN, poll : Nat, ttl : Nat, wait : Nat]

ASSUME DeploymentAssumption == Deployments \subseteq Configuration
ASSUME TypesAssumption == N \in Nat \ {0}
ASSUME MissedAssumption == MaxMissed \in Nat \ {0}

Service == {"trust", "issuer", "valkey"}

VARIABLES
  config,   \* the environment of the pod
  down,     \* the services that do not answer
  stage,    \* how far the process has got
  doer,     \* what the trust client sends its requests with
  task,     \* the goroutine of the trust-sync task
  timer,    \* ticks to the next tick of its ticker
  tick,     \* a tick waits in the ticker's channel
  oper,     \* the operator's POST /v1/resync
  cut,      \* the context of an operator who leads a cycle is over
  cycle,    \* the type the cycle in flight is at; 0 = no cycle
  elapsed,  \* ticks the call in flight has taken
  got,      \* the validUntil that call has computed; 0 = no answer yet
  horizon,  \* horizon[t]: State.fresh[t].validUntil; 0 = passed, or no record
  missed,   \* polls of t that failed since its last success (history)
  late      \* a sync of this process took longer than config.wait (history)

run == <<task, timer, tick, oper, cut, cycle, elapsed, got>>
vars == <<config, down, stage, doer, run, horizon, missed, late>>

AnchorType == 1..N

TypeOK ==
  /\ config \in Deployments
  /\ down \subseteq Service
  /\ stage \in {"start", "init", "probe", "up", "exited"}
  /\ doer \in {"none", "authbyte", "plain"}
  /\ task \in {"off", "due", "lead", "join", "select"}
  /\ timer \in 0..config.poll
  /\ tick \in BOOLEAN
  /\ oper \in {"idle", "lead", "join"}
  /\ cut \in BOOLEAN
  /\ cycle \in 0..N
  /\ elapsed \in 0..config.wait + 1
  /\ got \in 0..config.ttl
  /\ horizon \in [AnchorType -> 0..config.ttl]
  /\ missed \in [AnchorType -> 0..MaxMissed]
  /\ late \in BOOLEAN
  /\ cycle > 0 <=> task = "lead" \/ oper = "lead"
  /\ ~(task = "lead" /\ oper = "lead")

Init ==
  /\ config \in Deployments
  /\ down = {}
  /\ stage = "start"
  /\ doer = "none"
  /\ task = "off" /\ timer = 0 /\ tick = FALSE /\ oper = "idle" /\ cut = FALSE
  /\ cycle = 0 /\ elapsed = 0 /\ got = 0
  /\ horizon = [t \in AnchorType |-> 0]
  /\ missed = [t \in AnchorType |-> MaxMissed]
  /\ late = FALSE

-----------------------------------------------------------------------------
(* Configuration and start.                                                *)

\* Mutant: an unset mode means the weaker authentication.
AuthModeWeak(c) == IF c.mode = "unset" THEN "internal" ELSE c.mode

AuthMode(c) == IF c.mode = "unset" THEN "dpop" ELSE c.mode

AuthValid(c) ==
  /\ AuthMode(c) \in {"dpop", "internal"}
  /\ AuthMode(c) = "dpop" => c.credentials

\* Mutant: a TTL of exactly one poll interval passes.
SyncValidGte(c) == c.poll > 0 /\ c.ttl >= c.poll /\ c.known

SyncValid(c) == c.poll > 0 /\ c.ttl > c.poll /\ c.known

\* The settings of the prefetch loop (module Prefetch) are not in the model.
Valid(c) == SyncValid(c) /\ AuthValid(c)

\* server.New loads and validates the configuration; an error ends the process.
Load ==
  /\ stage = "start"
  /\ stage' = IF Valid(config) THEN "init" ELSE "exited"
  /\ UNCHANGED <<config, down, doer, run, horizon, missed, late>>

\* The two constructors; "none" is an error.  Without a signer, authdoer.New
\* takes mode internal and nothing else.
NewAuthbyteDoer(c) == IF c.credentials THEN "authbyte" ELSE "none"
NewDoer(c) == IF AuthMode(c) = "internal" THEN "plain" ELSE "none"

\* valkeystore.New connects.
Dial == "valkey" \notin down

\* init dials Valkey and builds the doer; an error of either ends the process.
Wire ==
  /\ stage = "init"
  /\ doer' = IF AuthMode(config) = "dpop" THEN NewAuthbyteDoer(config) ELSE NewDoer(config)
  /\ stage' = IF Dial /\ doer' # "none" THEN "probe" ELSE "exited"
  /\ UNCHANGED <<config, down, run, horizon, missed, late>>

\* A request goes straight to the trust service, or with a token the issuer
\* has to mint.
PlainDo == "trust" \notin down
AuthbyteDo == {"trust", "issuer"} \cap down = {}
Answers == IF doer = "authbyte" THEN AuthbyteDo ELSE PlainDo

\* startupCheck: unreachable is fatal unless a cold start is allowed.  Then the
\* tasks start, the first run of trust-sync at once.
StartupCheck ==
  /\ stage = "probe"
  /\ elapsed' = 0
  /\ IF Answers \/ config.coldStart
     THEN stage' = "up" /\ task' = "due" /\ timer' = config.poll
     ELSE stage' = "exited" /\ UNCHANGED <<task, timer>>
  /\ UNCHANGED <<config, down, doer, tick, oper, cut, cycle, got, horizon, missed, late>>

\* The pod is started again.
Restart ==
  /\ stage = "exited"
  /\ stage' = "start" /\ doer' = "none"
  /\ UNCHANGED <<config, down, run, horizon, missed, late>>

\* The process dies, and all it had in memory with it.
Crash ==
  /\ stage = "up"
  /\ stage' = "exited" /\ doer' = "none"
  /\ task' = "off" /\ timer' = 0 /\ tick' = FALSE /\ oper' = "idle" /\ cut' = FALSE
  /\ cycle' = 0 /\ elapsed' = 0 /\ got' = 0
  /\ horizon' = [t \in AnchorType |-> 0]
  /\ missed' = [t \in AnchorType |-> MaxMissed]
  /\ late' = FALSE
  /\ UNCHANGED <<config, down>>

-----------------------------------------------------------------------------
(* The cycle, its two callers, and time.                                   *)

\* Mutant: the task does not look for a cycle in flight.
RunTaskUnchecked ==
  /\ task = "due" /\ task' = "lead" /\ cycle' = 1
  /\ UNCHANGED <<config, down, stage, doer, timer, tick, oper, cut, elapsed, got, horizon, missed, late>>

\* Syncer.Run from the scheduler: lead a cycle, or join the operator's.
RunTask ==
  /\ task = "due"
  /\ \/ cycle = 0 /\ cycle' = 1 /\ task' = "lead"
     \/ cycle > 0 /\ task' = "join" /\ UNCHANGED cycle
  /\ UNCHANGED <<config, down, stage, doer, timer, tick, oper, cut, elapsed, got, horizon, missed, late>>

TakeTick ==
  /\ task = "select" /\ tick
  /\ task' = "due" /\ tick' = FALSE
  /\ UNCHANGED <<config, down, stage, doer, timer, oper, cut, cycle, elapsed, got, horizon, missed, late>>

\* Syncer.Run from POST /v1/resync, a route that is bound only with a key.
Resync ==
  /\ stage = "up" /\ config.adminKey /\ oper = "idle"
  /\ \/ cycle = 0 /\ cycle' = 1 /\ oper' = "lead"
     \/ cycle > 0 /\ oper' = "join" /\ UNCHANGED cycle
  /\ UNCHANGED <<config, down, stage, doer, task, timer, tick, cut, elapsed, got, horizon, missed, late>>

\* The operator's context ends.  One who joined returns; one who leads goes on,
\* and every call still to be made under that context fails.
ContextEnds ==
  /\ \/ oper = "join" /\ oper' = "idle" /\ UNCHANGED cut
     \/ oper = "lead" /\ ~cut /\ cut' = TRUE /\ UNCHANGED oper
  /\ UNCHANGED <<config, down, stage, doer, task, timer, tick, cycle, elapsed, got, horizon, missed, late>>

\* The trust service answers, with a 200 or a 304: validUntil is computed.
Answer ==
  /\ cycle > 0 /\ got = 0 /\ ~cut /\ Answers
  /\ got' = config.ttl
  /\ UNCHANGED <<config, down, stage, doer, task, timer, tick, oper, cut, cycle, elapsed, horizon, missed, late>>

\* Mutant: a cycle that was cut short leaves its joiners waiting.
NextTypeForgetsJoiner ==
  /\ elapsed' = 0 /\ got' = 0
  /\ IF cycle < N THEN cycle' = cycle + 1 /\ UNCHANGED <<task, oper, cut>>
     ELSE /\ cycle' = 0 /\ oper' = "idle" /\ cut' = FALSE
          /\ task' = IF task = "lead" \/ (task = "join" /\ ~cut) THEN "select" ELSE task

\* On to the next type; after the last, the leader and its joiners return.
NextType ==
  /\ elapsed' = 0 /\ got' = 0
  /\ IF cycle < N THEN cycle' = cycle + 1 /\ UNCHANGED <<task, oper, cut>>
     ELSE /\ cycle' = 0 /\ oper' = "idle" /\ cut' = FALSE
          /\ task' = IF task \in {"lead", "join"} THEN "select" ELSE task

\* The store call succeeds and the type is recorded.
Record ==
  /\ cycle > 0 /\ got > 0 /\ ~cut /\ "valkey" \notin down
  /\ horizon' = [horizon EXCEPT ![cycle] = got]
  /\ missed' = [missed EXCEPT ![cycle] = 0]
  /\ NextType
  /\ UNCHANGED <<config, down, stage, doer, timer, tick, late>>

Failing == cut \/ (got = 0 /\ ~Answers) \/ (got > 0 /\ "valkey" \in down)

\* Mutant: a call that fails ends the cycle.
FailAborts ==
  /\ cycle > 0 /\ Failing
  /\ missed' = [missed EXCEPT ![cycle] = IF @ < MaxMissed THEN @ + 1 ELSE @]
  /\ cycle' = 0 /\ oper' = "idle" /\ cut' = FALSE /\ elapsed' = 0 /\ got' = 0
  /\ task' = IF task \in {"lead", "join"} THEN "select" ELSE task
  /\ UNCHANGED <<config, down, stage, doer, timer, tick, horizon, late>>

\* Either call fails, at once or when its timeout is over.
Fail ==
  /\ cycle > 0 /\ Failing
  /\ missed' = [missed EXCEPT ![cycle] = IF @ < MaxMissed THEN @ + 1 ELSE @]
  /\ NextType
  /\ UNCHANGED <<config, down, stage, doer, timer, tick, horizon, late>>

\* The call in flight has no bound.  The plain doer's http.Client has a timeout
\* and the probe a deadline; the requests of the dpop mode, their tokens
\* included, get neither, and the driver goes on retrying a read while Valkey
\* does not answer.  The end of an operator's context ends either.
Endless ==
  /\ cycle > 0 /\ ~cut
  /\ IF got = 0 THEN doer = "authbyte" ELSE "valkey" \in down

\* Goroutines that can run do so before time passes, and a call that has a
\* bound returns within it.
Prompt ==
  /\ stage \notin {"start", "init"}
  /\ task # "due" /\ ~(task = "select" /\ tick) /\ ~cut
  /\ stage = "probe" => elapsed < config.wait
  /\ cycle > 0 => elapsed < config.wait \/ Endless

Less(n) == IF n > 0 THEN n - 1 ELSE 0

\* Bound: what a call takes is counted up to one tick more than config.wait.
Tick ==
  /\ Prompt
  /\ timer' = IF timer = 1 THEN config.poll ELSE Less(timer)
  /\ tick' = (tick \/ timer = 1)
  /\ elapsed' = IF stage # "probe" /\ cycle = 0 THEN 0
                ELSE IF elapsed <= config.wait THEN elapsed + 1 ELSE elapsed
  /\ late' = (late \/ (cycle > 0 /\ elapsed >= config.wait))
  /\ got' = Less(got)
  /\ horizon' = [t \in AnchorType |-> Less(horizon[t])]
  /\ UNCHANGED <<config, down, stage, doer, task, oper, cut, cycle, missed>>

\* An outage begins or ends.  Bound: one service at a time.
Outage ==
  /\ \E s \in Service : down' = IF s \in down THEN {} ELSE {s}
  /\ UNCHANGED <<config, stage, doer, run, horizon, missed, late>>

Process == Load \/ Wire \/ StartupCheck \/ RunTask \/ TakeTick
Call == Answer \/ Record \/ Fail
Next == Process \/ Call \/ Restart \/ Resync \/ ContextEnds \/ Tick \/ Outage \/ Crash

Spec == Init /\ [][Next]_vars

\* Time passes, what the process can do it does, a call that has a bound ends,
\* and a pod that exited is started again.
Fairness == WF_vars(Tick) /\ WF_vars(Process) /\ WF_vars(~Endless /\ Call) /\ WF_vars(Restart)
FairSpec == Spec /\ Fairness

-----------------------------------------------------------------------------
Ready == stage = "up" /\ \A t \in AnchorType : horizon[t] > 0

\* Polls a type may miss in a row and not lapse, before the next one succeeds.
\* Polls are a period apart, the interval or a longer cycle.  A tick may join a
\* cycle of the operator that is past the type, and the type may be the last
\* of the cycle that next succeeds: two successful polls can be a cycle and a
\* call further apart than the ticks they count for.  "Default 45 m = 9 missed
\* polls" counts ttl / poll instead: by default it is seven, if calls take no time.
Period(c) == IF c.poll > N * c.wait THEN c.poll ELSE N * c.wait
Budget(c) == (c.ttl - 1 - (N + 1) * c.wait) \div Period(c) - 1

\* The bound on what missed counts is beyond every budget.
ASSUME CountAssumption == \A c \in Deployments : Valid(c) => Budget(c) < MaxMissed

\* Within that budget a type's horizon does not pass, as long as no call of the
\* process took longer than config.wait: whatever is out of reach in between,
\* whoever leads the cycles and wherever they are cut short.
BridgesMissedPolls ==
  Valid(config) /\ ~late =>
    \A t \in AnchorType : missed[t] <= Budget(config) => horizon[t] > 0

\* What "must exceed PollInterval" is for: a worker whose every poll succeeds,
\* by calls that take no time, does not let its own horizon pass.
HealthyStaysFresh ==
  config.wait = 0 /\ ~late => \A t \in AnchorType : missed[t] = 0 => horizon[t] > 0

\* "Default dpop: fail toward the stronger auth."  Nothing is ever accepted
\* over requests without a token unless the mode asks for it by name.
TokenUnlessInternal ==
  \A t \in AnchorType : horizon[t] > 0 => doer = "authbyte" \/ config.mode = "internal"

\* A worker that is validly configured becomes ready and stays ready once the
\* outages, the crashes, the disconnecting operators and the calls that take
\* too long are over, with or without a cold start, whatever state they left
\* it in.
Recovers ==
  /\ Valid(config) /\ Budget(config) >= 0
  /\ <>[](down = {})
  /\ <>[][~Crash /\ ~ContextEnds]_vars
  /\ <>[](elapsed <= config.wait)
  => <>[]Ready
=============================================================================
