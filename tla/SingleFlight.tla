---------------------------- MODULE SingleFlight ----------------------------
(***************************************************************************)
(* Syncer.Run: the scheduled task and any number of operator resyncs share *)
(* one sync cycle at a time.  A caller that finds a cycle in flight waits  *)
(* on the channel of that cycle; any other caller leads a cycle of its     *)
(* own.  TrustSync models what a cycle does and takes from this module     *)
(* that no two cycles overlap; here a cycle is one poll and one write.     *)
(*                                                                         *)
(* A section under runMu is one step.  A channel is a member of Chan; the  *)
(* one a leader makes is any member nobody refers to any more.             *)
(***************************************************************************)
EXTENDS Integers, FiniteSets

CONSTANTS
  Caller,    \* the goroutines that call Run: the scheduler's, one per request
  Operator,  \* one of them, whose calls the history records
  Chan,      \* channel identities
  NoChan,    \* nil
  MaxSnap    \* upstream publishes snapshots 1..MaxSnap

ASSUME OperatorAssumption == Operator \in Caller
ASSUME ChanAssumption == NoChan \notin Chan
ASSUME SnapAssumption == MaxSnap \in Nat

VARIABLES
  inflight,  \* Syncer.inflight
  closed,    \* the channels that have been closed
  pc,        \* where each caller is in Run
  done,      \* the local variable done of each caller
  expired,   \* the callers whose context is over
  upstream,  \* the snapshot the trust service answers with
  polled,    \* the snapshot a leader's cycle has been answered with
  cache,     \* the snapshot the last write materialized
  ended,     \* ended[c]: a cycle has ended since c called Run (history)
  asked,     \* upstream's snapshot when the operator last called Run, 0 once
             \* that call has returned an error (history)
  before     \* what asked was when the operator made that call (history)

calls == <<asked, before>>
vars == <<inflight, closed, pc, done, expired, upstream, polled, cache, ended, calls>>

InCycle == {"poll", "write", "finish"}

TypeOK ==
  /\ inflight \in Chan \cup {NoChan}
  /\ closed \subseteq Chan
  /\ pc \in [Caller -> InCycle \cup {"idle", "wait", "close"}]
  /\ done \in [Caller -> Chan \cup {NoChan}]
  /\ expired \subseteq Caller
  /\ upstream \in 0..MaxSnap
  /\ polled \in [Caller -> 0..MaxSnap]
  /\ cache \in 0..MaxSnap
  /\ ended \in [Caller -> BOOLEAN]
  /\ asked \in 0..MaxSnap /\ before \in 0..MaxSnap

Init ==
  /\ inflight = NoChan
  /\ closed = {}
  /\ pc = [c \in Caller |-> "idle"]
  /\ done = [c \in Caller |-> NoChan]
  /\ expired = {}
  /\ upstream = 0
  /\ polled = [c \in Caller |-> 0]
  /\ cache = 0
  /\ ended = [c \in Caller |-> FALSE]
  /\ asked = 0 /\ before = 0

\* A caller enters Run and goes on in the given place with the given channel.
Enter(c, place, ch) ==
  /\ pc[c] = "idle"
  /\ pc' = [pc EXCEPT ![c] = place]
  /\ done' = [done EXCEPT ![c] = ch]
  /\ ended' = [ended EXCEPT ![c] = FALSE]
  /\ IF c = Operator THEN asked' = upstream /\ before' = asked ELSE UNCHANGED calls
  /\ UNCHANGED <<expired, upstream, polled, cache>>

\* A cycle is in flight: the caller takes its channel and waits.
Join(c) ==
  /\ inflight # NoChan
  /\ Enter(c, "wait", inflight)
  /\ UNCHANGED <<inflight, closed>>

Unreferenced(ch) == ch # inflight /\ \A c \in Caller : done[c] # ch

\* Mutant: the check for a cycle in flight is gone.
LeadUnchecked(c, ch) ==
  /\ Unreferenced(ch)
  /\ Enter(c, "poll", ch)
  /\ inflight' = ch /\ closed' = closed \ {ch}

\* Mutant: the channel of an earlier cycle is used again.
LeadReusesChannel(c, ch) ==
  /\ inflight = NoChan /\ Unreferenced(ch)
  /\ Enter(c, "poll", ch)
  /\ inflight' = ch /\ UNCHANGED closed

\* Mutant: the channel is never made.
LeadNilChannel(c, ch) ==
  /\ inflight = NoChan
  /\ Enter(c, "poll", NoChan)
  /\ UNCHANGED <<inflight, closed>>

\* No cycle is in flight: the caller makes a channel, publishes it and leads.
Lead(c, ch) ==
  /\ inflight = NoChan /\ Unreferenced(ch)
  /\ Enter(c, "poll", ch)
  /\ inflight' = ch /\ closed' = closed \ {ch}

\* The leader's cycle polls under the leader's own context.
Poll(c) ==
  /\ pc[c] = "poll"
  /\ c \notin expired
  /\ polled' = [polled EXCEPT ![c] = upstream]
  /\ pc' = [pc EXCEPT ![c] = "write"]
  /\ UNCHANGED <<inflight, closed, done, expired, upstream, cache, ended, calls>>

\* It writes what it was answered.
Write(c) ==
  /\ pc[c] = "write"
  /\ c \notin expired
  /\ cache' = polled[c]
  /\ pc' = [pc EXCEPT ![c] = "finish"]
  /\ UNCHANGED <<inflight, closed, done, expired, upstream, polled, ended, calls>>

\* Either call fails, as every call does once the context is over; SyncAll
\* logs the error and the cycle ends like any other.
Fail(c) ==
  /\ pc[c] \in {"poll", "write"}
  /\ pc' = [pc EXCEPT ![c] = "finish"]
  /\ UNCHANGED <<inflight, closed, done, expired, upstream, polled, cache, ended, calls>>

\* The deferred function: inflight is cleared under the lock ...
Clear(c) ==
  /\ pc[c] = "finish"
  /\ inflight' = NoChan
  /\ pc' = [pc EXCEPT ![c] = "close"]
  /\ ended' = [d \in Caller |-> TRUE]
  /\ UNCHANGED <<closed, done, expired, upstream, polled, cache, calls>>

\* Mutant: the channel is never closed.
CloseForgotten(c) ==
  /\ pc[c] = "close"
  /\ pc' = [pc EXCEPT ![c] = "idle"]
  /\ done' = [done EXCEPT ![c] = NoChan]
  /\ expired' = expired \ {c}
  /\ UNCHANGED <<inflight, closed, upstream, polled, cache, ended, calls>>

\* ... and the channel is closed after the unlock.  The leader returns.
Close(c) ==
  /\ pc[c] = "close"
  /\ closed' = closed \cup {done[c]}
  /\ pc' = [pc EXCEPT ![c] = "idle"]
  /\ done' = [done EXCEPT ![c] = NoChan]
  /\ expired' = expired \ {c}
  /\ UNCHANGED <<inflight, upstream, polled, cache, ended, calls>>

\* The select of a waiting caller: either case that is ready may be taken.
ReturnFrom(c) ==
  /\ pc[c] = "wait"
  /\ pc' = [pc EXCEPT ![c] = "idle"]
  /\ done' = [done EXCEPT ![c] = NoChan]
  /\ expired' = expired \ {c}
  /\ UNCHANGED <<inflight, closed, upstream, polled, cache, ended, before>>

ReturnNil(c) == done[c] \in closed /\ ReturnFrom(c) /\ UNCHANGED asked
ReturnErr(c) ==
  /\ c \in expired
  /\ ReturnFrom(c)
  /\ asked' = IF c = Operator THEN 0 ELSE asked

\* The context of a caller inside Run is cancelled or times out.
Expire(c) ==
  /\ pc[c] # "idle" /\ c \notin expired
  /\ expired' = expired \cup {c}
  /\ UNCHANGED <<inflight, closed, pc, done, upstream, polled, cache, ended, calls>>

Publish ==
  /\ upstream < MaxSnap
  /\ upstream' = upstream + 1
  /\ UNCHANGED <<inflight, closed, pc, done, expired, polled, cache, ended, calls>>

Cycle(c) == Poll(c) \/ Write(c) \/ Fail(c) \/ Clear(c) \/ Close(c)

Next ==
  \/ \E c \in Caller : Join(c) \/ Cycle(c) \/ ReturnNil(c) \/ ReturnErr(c) \/ Expire(c)
  \/ \E c \in Caller, ch \in Chan : Lead(c, ch)
  \/ Publish

Spec == Init /\ [][Next]_vars

\* Every goroutine that can run does: the calls of a cycle return, which is an
\* assumption where nothing bounds them (module Worker), and a waiting select with
\* a case that stays ready is woken.
Fairness == \A c \in Caller : WF_vars(Cycle(c)) /\ WF_vars(ReturnNil(c))
FairSpec == Spec /\ Fairness

-----------------------------------------------------------------------------
Leading(c) == pc[c] \in InCycle

\* "The scheduled poll and an operator resync share one run instead of racing
\* per-type swaps": two callers are never inside a cycle at once.
OneCycleAtATime == \A c, d \in Caller : Leading(c) /\ Leading(d) => c = d

\* What that is for: an answer polled by one cycle is never written over the
\* newer one of another, so the cache never goes back to an older snapshot.
NoRollback == [][cache' >= cache]_vars

\* A caller that joined returns nil only after a cycle ended that had not
\* ended when it called, although channels outlive their cycles and inflight
\* is cleared before the channel is closed.
JoinerSawCycleEnd ==
  [][\A c \in Caller : ReturnNil(c) => ended[c]]_vars

\* An operator whose call joined a cycle that had already polled is answered
\* from before the request; a second call is enough.  The cycle that a call is
\* in writes nothing older than what upstream answered with at the call before
\* it, if that one returned nil.
SecondCallIsCurrent ==
  [][\A c \in Caller : Write(c) /\ pc[Operator] # "idle" /\ done[Operator] = done[c]
       => cache' >= before]_vars

\* Every call of Run returns: a waiting caller is woken by the cycle it joined
\* and never left behind by the ones that follow.
RunReturns == \A c \in Caller : pc[c] # "idle" ~> pc[c] = "idle"
=============================================================================
