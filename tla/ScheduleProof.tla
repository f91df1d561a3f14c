--------------------------- MODULE ScheduleProof ---------------------------
(***************************************************************************)
(* What Stop promises, for any number of goroutines that call it.          *)
(***************************************************************************)
EXTENDS Schedule, TLAPS

InDo(s) == caller[s] \in {"ticker", "close"}

\* Before Start nothing has happened.
NotStarted ==
  loop = "none" => /\ stop = "nil" /\ ticker = "none" /\ once = "new"
                   /\ \A s \in Stopper : caller[s] = "idle"

\* How far the Once has got decides what the channel is, and who may have
\* returned.
OncePhase ==
  /\ once = "new" => stop # "closed" /\ \A s \in Stopper : ~InDo(s) /\ caller[s] # "returned"
  /\ once = "busy" => stop = "open" /\ \A s \in Stopper : caller[s] # "returned"
  /\ once = "over" => stop = "closed" /\ ticker = "stopped" /\ \A s \in Stopper : ~InDo(s)

OneInDo == \A s, u \in Stopper : InDo(s) /\ InDo(u) => s = u

\* The ticker is stopped before the channel is closed, and a stopped ticker
\* has no tick left: no run becomes due any more.
NoTickLeft ==
  /\ \A s \in Stopper : caller[s] = "close" => ticker = "stopped"
  /\ ticker = "stopped" => ~pending

\* The one late run was due when the first call of Stop returned.
LateRun == late = 0 \/ (late = 1 /\ Stopped /\ loop # "due")

Inv == TypeOK /\ NotStarted /\ OncePhase /\ OneInDo /\ NoTickLeft /\ LateRun

\* Who is where in Stop after a step of s.
LEMMA CallerStep ==
  ASSUME TypeOK, NEW s \in Stopper, NEW w, caller' = [caller EXCEPT ![s] = w]
  PROVE  caller'[s] = w /\ \A u \in Stopper : u # s => caller'[u] = caller[u]
  BY DEF TypeOK

\* The goroutine and the ticker leave the callers alone.
LEMMA LoopStep ==
  ASSUME Inv, Start \/ Loop \/ Tick
  PROVE  Inv'
<1>1. TypeOK' /\ UNCHANGED <<once, caller>>
  <2>1. CASE Start
    BY <2>1 DEF Start, Inv, TypeOK
  <2>2. CASE RunBegins
    BY <2>2 DEF RunBegins, Inv, TypeOK
  <2>3. CASE RunEnds \/ TakeTick \/ TakeStop \/ Tick
    BY <2>3 DEF RunEnds, TakeTick, TakeStop, Tick, Inv, TypeOK
  <2> QED
    BY <2>1, <2>2, <2>3 DEF Loop
<1>2. NotStarted' /\ OncePhase' /\ OneInDo' /\ NoTickLeft'
  BY <1>1 DEF Inv, TypeOK, NotStarted, OncePhase, OneInDo, NoTickLeft, InDo,
              Start, Loop, RunBegins, RunEnds, TakeTick, TakeStop, Tick
<1>3. LateRun'
  <2>1. Stopped' <=> Stopped
    BY <1>1 DEF Stopped
  <2>2. Stopped => ~pending
    BY DEF Inv, TypeOK, Stopped, OncePhase, NoTickLeft
  <2>3. CASE Start
    BY <2>1, <2>3 DEF Start, Inv, NotStarted, LateRun, Stopped
  <2>4. CASE Loop
    BY <2>1, <2>2, <2>4 DEF Loop, RunBegins, RunEnds, TakeTick, TakeStop, Inv, LateRun
  <2>5. CASE Tick
    BY <2>1, <2>5 DEF Tick, Inv, LateRun
  <2> QED
    BY <2>3, <2>4, <2>5
<1> QED
  BY <1>1, <1>2, <1>3 DEF Inv

\* A step of a call of Stop.
LEMMA StopStep ==
  ASSUME Inv, NEW s \in Stopper, CallStop(s) \/ EnterStop(s) \/ StopTicker(s) \/ CloseStop(s)
  PROVE  Inv'
<1>1. CASE CallStop(s)
  <2>1. caller'[s] = "called" /\ \A u \in Stopper : u # s => caller'[u] = caller[u]
    BY <1>1, CallerStep DEF CallStop, Inv
  <2>2. TypeOK'
    BY <1>1 DEF CallStop, Inv, TypeOK
  <2>3. caller[s] = "idle" /\ (Stopped' <=> Stopped)
    BY <1>1, <2>1 DEF CallStop, Stopped
  <2> QED
    BY <1>1, <2>1, <2>2, <2>3
       DEF CallStop, Inv, NotStarted, OncePhase, OneInDo, NoTickLeft, LateRun, InDo
<1>2. CASE EnterStop(s) /\ once = "new"
  <2>1. caller'[s] = "ticker" /\ \A u \in Stopper : u # s => caller'[u] = caller[u]
    BY <1>2, CallerStep DEF EnterStop, Inv
  <2>2. TypeOK' /\ loop # "none" /\ stop = "open"
    BY <1>2 DEF EnterStop, Inv, TypeOK, NotStarted, OncePhase
  <2>3. (Stopped' <=> Stopped) /\ \A u \in Stopper : ~InDo(u) /\ caller[u] # "returned"
    BY <1>2, <2>1 DEF Stopped, Inv, OncePhase
  <2> QED
    BY <1>2, <2>1, <2>2, <2>3
       DEF EnterStop, Inv, NotStarted, OncePhase, OneInDo, NoTickLeft, LateRun, InDo
<1>3. CASE EnterStop(s) /\ once = "over"
  <2>1. caller'[s] = "returned" /\ \A u \in Stopper : u # s => caller'[u] = caller[u]
    BY <1>3, CallerStep DEF EnterStop, Inv
  <2>2. TypeOK' /\ Stopped' /\ loop # "none"
    BY <1>3, <2>1 DEF EnterStop, Inv, TypeOK, Stopped, NotStarted
  <2> QED
    BY <1>3, <2>1, <2>2
       DEF EnterStop, Inv, NotStarted, OncePhase, OneInDo, NoTickLeft, LateRun, InDo
<1>4. CASE StopTicker(s)
  <2>1. caller'[s] = "close" /\ \A u \in Stopper : u # s => caller'[u] = caller[u]
    BY <1>4, CallerStep DEF StopTicker, Inv
  <2>2. TypeOK' /\ once = "busy" /\ InDo(s)
    BY <1>4 DEF StopTicker, Inv, TypeOK, OncePhase, InDo
  <2>3. Stopped' <=> Stopped
    BY <1>4, <2>1 DEF StopTicker, Stopped
  <2> QED
    BY <1>4, <2>1, <2>2, <2>3
       DEF StopTicker, Inv, NotStarted, OncePhase, OneInDo, NoTickLeft, LateRun, InDo
<1>5. CASE CloseStop(s)
  <2>1. caller'[s] = "returned" /\ \A u \in Stopper : u # s => caller'[u] = caller[u]
    BY <1>5, CallerStep DEF CloseStop, Inv
  <2>2. TypeOK' /\ Stopped' /\ once = "busy" /\ InDo(s) /\ ticker = "stopped" /\ ~Stopped
    BY <1>5, <2>1 DEF CloseStop, Inv, TypeOK, Stopped, OncePhase, NoTickLeft, InDo
  <2>3. loop # "none"
    BY <2>2 DEF Inv, NotStarted
  <2> QED
    BY <1>5, <2>1, <2>2, <2>3
       DEF CloseStop, Inv, NotStarted, OncePhase, OneInDo, NoTickLeft, LateRun, InDo
<1> QED
  BY <1>1, <1>2, <1>3, <1>4, <1>5 DEF EnterStop

\* For any number of calls of Stop.
THEOREM InvHolds == Spec => []Inv
<1>1. Init => Inv
  <2> SUFFICES ASSUME Init PROVE Inv
    OBVIOUS
  <2>1. TypeOK
    <3>1. caller \in [Stopper -> {"idle", "called", "ticker", "close", "returned"}]
      BY DEF Init
    <3>2. late \in 0..2
      BY DEF Init
    <3> QED
      BY <3>1, <3>2 DEF Init, TypeOK
  <2>2. NotStarted /\ OncePhase /\ OneInDo /\ NoTickLeft /\ LateRun
    BY DEF Init, NotStarted, OncePhase, OneInDo, NoTickLeft, LateRun, InDo
  <2> QED
    BY <2>1, <2>2 DEF Inv
<1>2. Inv /\ [Next]_vars => Inv'
  <2> SUFFICES ASSUME Inv, [Next]_vars PROVE Inv'
    OBVIOUS
  <2>1. CASE Start \/ Loop \/ Tick
    BY <2>1, LoopStep
  <2>2. ASSUME NEW s \in Stopper, CallStop(s) \/ EnterStop(s) \/ StopTicker(s) \/ CloseStop(s)
        PROVE  Inv'
    BY <2>2, StopStep
  <2>3. CASE UNCHANGED vars
    <3>1. TypeOK' /\ NotStarted' /\ OncePhase'
      BY <2>3 DEF vars, Inv, TypeOK, NotStarted, OncePhase, InDo
    <3>2. OneInDo' /\ NoTickLeft' /\ LateRun'
      BY <2>3 DEF vars, Inv, OneInDo, NoTickLeft, LateRun, InDo, Stopped
    <3> QED
      BY <3>1, <3>2 DEF Inv
  <2> QED
    BY <2>1, <2>2, <2>3 DEF Next
<1> QED
  BY <1>1, <1>2, PTL DEF Spec

\* The goroutine's select and every Stop call meet a channel and a ticker that
\* have been made.
THEOREM TypeCorrect == Spec => []TypeOK
  BY InvHolds, PTL DEF Inv

\* "Safe to call more than once", from any number of goroutines: stopOnce lets
\* one of them close the channel, and none returns before it is closed.
THEOREM ClosedOnceAlways == Spec => ClosedOnce
<1>1. Inv /\ [Next]_vars => [\A s \in Stopper : CloseStop(s) => stop = "open"]_vars
  BY DEF Inv, TypeOK, OncePhase, InDo, CloseStop
<1>2. Inv => (Stopped => stop = "closed" /\ ticker = "stopped")
  BY DEF Inv, TypeOK, OncePhase, Stopped
<1> QED
  BY InvHolds, <1>1, <1>2, PTL DEF Spec, ClosedOnce

\* However many calls of Stop have returned, the job runs at most once more.
THEOREM OneLateRun == Spec => []AtMostOneLateRun
<1>1. Inv => AtMostOneLateRun
  BY DEF Inv, LateRun, AtMostOneLateRun
<1> QED
  BY InvHolds, <1>1, PTL
=============================================================================
