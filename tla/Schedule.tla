------------------------------ MODULE Schedule ------------------------------
(***************************************************************************)
(* One schedule.task: the goroutine Start launches, its ticker, and the    *)
(* goroutines that call Stop.  The core calls Start once, before any Stop. *)
(* Time is left out: the ticker may fire whenever it is running.           *)
(***************************************************************************)
EXTENDS Integers, FiniteSets

CONSTANT Stopper    \* the goroutines that call Stop

VARIABLES
  ticker,   \* t.ticker: not made yet, running, or stopped
  pending,  \* a tick waits in t.ticker.C (capacity 1)
  stop,     \* t.stop: nil, open or closed
  once,     \* t.stopOnce: the caller inside Do, or how far Do has got
  loop,     \* where the goroutine is
  caller,   \* where each Stop call is
  late      \* runs that began after a Stop call had returned (history)

vars == <<ticker, pending, stop, once, loop, caller, late>>

\* The last conjunct: once launched, neither the goroutine's select nor a Stop
\* call meets a nil channel or ticker.
TypeOK ==
  /\ ticker \in {"none", "running", "stopped"}
  /\ pending \in BOOLEAN
  /\ stop \in {"nil", "open", "closed"}
  /\ once \in {"new", "busy", "over"}
  /\ loop \in {"none", "due", "running", "select", "exited"}
  /\ caller \in [Stopper -> {"idle", "called", "ticker", "close", "returned"}]
  /\ late \in 0..2
  /\ loop # "none" => stop # "nil" /\ ticker # "none"

Init ==
  /\ ticker = "none" /\ pending = FALSE /\ stop = "nil" /\ once = "new"
  /\ loop = "none"
  /\ caller = [s \in Stopper |-> "idle"]
  /\ late = 0

\* Mutant: the channel is left for a later call to make.
StartWithoutChannel ==
  /\ loop = "none"
  /\ ticker' = "running" /\ loop' = "due"
  /\ UNCHANGED <<pending, stop, once, caller, late>>

\* Start makes the channel and the ticker and launches the goroutine, whose
\* first run is due at once.
Start ==
  /\ loop = "none"
  /\ stop' = "open" /\ ticker' = "running" /\ loop' = "due"
  /\ UNCHANGED <<pending, once, caller, late>>

Stopped == \E s \in Stopper : caller[s] = "returned"

\* runOnce; the count of late runs stops at 2.
RunBegins ==
  /\ loop = "due"
  /\ loop' = "running"
  /\ late' = IF Stopped /\ late < 2 THEN late + 1 ELSE late
  /\ UNCHANGED <<ticker, pending, stop, once, caller>>

\* Mutant: a tick that fired during the run is thrown away.
RunEndsDrains ==
  /\ loop = "running"
  /\ loop' = "select" /\ pending' = FALSE
  /\ UNCHANGED <<ticker, stop, once, caller, late>>

RunEnds ==
  /\ loop = "running"
  /\ loop' = "select"
  /\ UNCHANGED <<ticker, pending, stop, once, caller, late>>

\* The select: a tick, or the closed channel; either one if both are ready.
TakeTick ==
  /\ loop = "select" /\ pending
  /\ loop' = "due" /\ pending' = FALSE
  /\ UNCHANGED <<ticker, stop, once, caller, late>>

TakeStop ==
  /\ loop = "select" /\ stop = "closed"
  /\ loop' = "exited"
  /\ UNCHANGED <<ticker, pending, stop, once, caller, late>>

\* A tick is dropped when one is waiting already.
Tick ==
  /\ ticker = "running"
  /\ pending' = TRUE
  /\ UNCHANGED <<ticker, stop, once, loop, caller, late>>

CallStop(s) ==
  /\ loop # "none" /\ caller[s] = "idle"
  /\ caller' = [caller EXCEPT ![s] = "called"]
  /\ UNCHANGED <<ticker, pending, stop, once, loop, late>>

\* Mutant: no Once guards the body of Stop.
EnterStopAlways(s) ==
  /\ caller[s] = "called"
  /\ once' = "busy" /\ caller' = [caller EXCEPT ![s] = "ticker"]
  /\ UNCHANGED <<ticker, pending, stop, loop, late>>

\* Stop enters stopOnce.Do; a caller that finds it done returns, one that
\* finds it running waits.
EnterStop(s) ==
  /\ caller[s] = "called"
  /\ \/ once = "new" /\ once' = "busy" /\ caller' = [caller EXCEPT ![s] = "ticker"]
     \/ once = "over" /\ caller' = [caller EXCEPT ![s] = "returned"] /\ UNCHANGED once
  /\ UNCHANGED <<ticker, pending, stop, loop, late>>

\* Mutant: the ticker keeps running.
StopTickerForgotten(s) ==
  /\ caller[s] = "ticker"
  /\ caller' = [caller EXCEPT ![s] = "close"]
  /\ UNCHANGED <<ticker, pending, stop, once, loop, late>>

\* Ticker.Stop: no tick is received from the channel afterwards (the module's
\* Go version discards one that is waiting).
StopTicker(s) ==
  /\ caller[s] = "ticker"
  /\ ticker' = "stopped" /\ pending' = FALSE
  /\ caller' = [caller EXCEPT ![s] = "close"]
  /\ UNCHANGED <<stop, once, loop, late>>

\* close(t.stop), after which Do and Stop return.
CloseStop(s) ==
  /\ caller[s] = "close"
  /\ stop' = "closed" /\ once' = "over"
  /\ caller' = [caller EXCEPT ![s] = "returned"]
  /\ UNCHANGED <<ticker, pending, loop, late>>

Loop == RunBegins \/ RunEnds \/ TakeTick \/ TakeStop

Next ==
  \/ Start
  \/ Loop
  \/ Tick
  \/ \E s \in Stopper : CallStop(s) \/ EnterStop(s) \/ StopTicker(s) \/ CloseStop(s)

Spec == Init /\ [][Next]_vars

\* The goroutine runs when it can (a job is assumed to return), and
\* so does a Stop call that has begun.
Fairness ==
  /\ WF_vars(Loop)
  /\ \A s \in Stopper : WF_vars(EnterStop(s) \/ StopTicker(s) \/ CloseStop(s))

FairSpec == Spec /\ Fairness

-----------------------------------------------------------------------------
\* "Safe to call more than once": the channel is closed by one caller only (a
\* second close panics), and whoever returns from Stop finds it closed.
ClosedOnce ==
  /\ [][\A s \in Stopper : CloseStop(s) => stop = "open"]_vars
  /\ [](Stopped => stop = "closed" /\ ticker = "stopped")

\* After Stop has returned at most one run begins: the one that was due.
AtMostOneLateRun == late <= 1

\* Every call of Stop returns, also one that waits for another inside Do, and
\* the goroutine ends, whichever of select's ready cases Go picks.
StopEnds ==
  /\ \A s \in Stopper : caller[s] = "called" ~> caller[s] = "returned"
  /\ Stopped ~> loop = "exited"

\* A tick that fires during a long run is not lost: it starts the next run.
TickRuns ==
  pending /\ loop \in {"running", "select"} ~> (loop = "due" \/ ticker = "stopped")
=============================================================================
