------------------------- MODULE SingleFlightProof -------------------------
(***************************************************************************)
(* Syncer.Run serializes cycles for any set of callers and any run of      *)
(* snapshots.  The inductive invariant ties the only shared datum, the     *)
(* inflight channel, to the caller that leads.                             *)
(***************************************************************************)
EXTENDS SingleFlight, TLAPS

\* While a caller leads, inflight is its channel and not nil: whoever calls
\* Run meanwhile takes the branch that waits.
LeaderOwnsInflight ==
  \A c \in Caller : Leading(c) => inflight = done[c] /\ inflight # NoChan

\* What the leader is about to write is no older than what is written.
AnswersAreNewer ==
  /\ cache <= upstream
  /\ \A c \in Caller : pc[c] = "write" => cache <= polled[c] /\ polled[c] <= upstream

\* A caller inside Run holds a channel: close(done) never closes nil.
HoldsChannel == \A c \in Caller : pc[c] # "idle" => done[c] \in Chan

Inv == TypeOK /\ HoldsChannel /\ LeaderOwnsInflight /\ OneCycleAtATime /\ AnswersAreNewer

\* It holds before any call.
LEMMA InitInv == Init => Inv
  BY SnapAssumption, ChanAssumption
     DEF Init, Inv, TypeOK, HoldsChannel, LeaderOwnsInflight, OneCycleAtATime, AnswersAreNewer,
         Leading, InCycle

\* The state stays well typed, which needs that the channel closed is one.
LEMMA TypeStep == TypeOK /\ HoldsChannel /\ [Next]_vars => TypeOK' /\ HoldsChannel'
<1> SUFFICES ASSUME TypeOK, HoldsChannel, [Next]_vars PROVE TypeOK' /\ HoldsChannel'
  OBVIOUS
<1> USE ChanAssumption, SnapAssumption DEF TypeOK, HoldsChannel, InCycle, calls
<1>1. ASSUME NEW c \in Caller, Join(c) PROVE TypeOK' /\ HoldsChannel'
  BY <1>1 DEF Join, Enter, calls
<1>2. ASSUME NEW c \in Caller, NEW ch \in Chan, Lead(c, ch) PROVE TypeOK' /\ HoldsChannel'
  BY <1>2 DEF Lead, Enter, calls
<1>3. ASSUME NEW c \in Caller, Cycle(c) PROVE TypeOK' /\ HoldsChannel'
  <2>1. CASE Poll(c)
    BY <2>1 DEF Poll
  <2>2. CASE Write(c)
    BY <2>2 DEF Write
  <2>3. CASE Fail(c)
    BY <2>3 DEF Fail
  <2>4. CASE Clear(c)
    BY <2>4 DEF Clear
  <2>5. CASE Close(c)
    BY <2>5 DEF Close
  <2> QED
    BY <1>3, <2>1, <2>2, <2>3, <2>4, <2>5 DEF Cycle
<1>4. ASSUME NEW c \in Caller, ReturnNil(c) \/ ReturnErr(c) PROVE TypeOK' /\ HoldsChannel'
  BY <1>4 DEF ReturnNil, ReturnErr, ReturnFrom
<1>5. ASSUME NEW c \in Caller, Expire(c) PROVE TypeOK' /\ HoldsChannel'
  BY <1>5 DEF Expire
<1>6. CASE Publish
  BY <1>6 DEF Publish
<1>7. CASE UNCHANGED vars
  BY <1>7 DEF vars
<1> QED
  BY <1>1, <1>2, <1>3, <1>4, <1>5, <1>6, <1>7 DEF Next

\* Leading starts only where inflight is nil, and inflight becomes nil only
\* when the one leader stops leading.
LEMMA LeaderStep ==
  TypeOK /\ HoldsChannel /\ LeaderOwnsInflight /\ OneCycleAtATime /\ [Next]_vars
    => LeaderOwnsInflight' /\ OneCycleAtATime'
<1> DEFINE Goal == LeaderOwnsInflight' /\ OneCycleAtATime'
<1> SUFFICES ASSUME TypeOK, HoldsChannel, LeaderOwnsInflight, OneCycleAtATime, [Next]_vars
             PROVE Goal
  OBVIOUS
<1> USE ChanAssumption
    DEF TypeOK, HoldsChannel, LeaderOwnsInflight, OneCycleAtATime, Leading, InCycle
<1>1. ASSUME NEW c \in Caller, Join(c) PROVE Goal
  BY <1>1 DEF Join, Enter, calls
<1>2. ASSUME NEW c \in Caller, NEW ch \in Chan, Lead(c, ch) PROVE Goal
  BY <1>2 DEF Lead, Enter, calls
<1>3. ASSUME NEW c \in Caller, Cycle(c) PROVE Goal
  <2>1. CASE Poll(c)
    BY <2>1 DEF Poll
  <2>2. CASE Write(c)
    BY <2>2 DEF Write
  <2>3. CASE Fail(c)
    BY <2>3 DEF Fail
  <2>4. CASE Clear(c)
    BY <2>4 DEF Clear
  <2>5. CASE Close(c)
    BY <2>5 DEF Close
  <2> QED
    BY <1>3, <2>1, <2>2, <2>3, <2>4, <2>5 DEF Cycle
<1>4. ASSUME NEW c \in Caller, ReturnNil(c) \/ ReturnErr(c) PROVE Goal
  BY <1>4 DEF ReturnNil, ReturnErr, ReturnFrom
<1>5. ASSUME NEW c \in Caller, Expire(c) PROVE Goal
  BY <1>5 DEF Expire
<1>6. CASE Publish
  BY <1>6 DEF Publish
<1>7. CASE UNCHANGED vars
  BY <1>7 DEF vars
<1> QED
  BY <1>1, <1>2, <1>3, <1>4, <1>5, <1>6, <1>7 DEF Next

\* Only the leader writes, so nothing newer is written between its poll and
\* its write.
LEMMA NewerStep ==
  Inv /\ [Next]_vars => AnswersAreNewer' /\ cache' >= cache
<1> DEFINE Goal == AnswersAreNewer' /\ cache' >= cache
<1> SUFFICES ASSUME Inv, [Next]_vars PROVE Goal
  OBVIOUS
<1> USE SnapAssumption
    DEF Inv, TypeOK, OneCycleAtATime, AnswersAreNewer, Leading, InCycle
<1>1. ASSUME NEW c \in Caller, Join(c) PROVE Goal
  BY <1>1 DEF Join, Enter, calls
<1>2. ASSUME NEW c \in Caller, NEW ch \in Chan, Lead(c, ch) PROVE Goal
  BY <1>2 DEF Lead, Enter, calls
<1>3. ASSUME NEW c \in Caller, Cycle(c) PROVE Goal
  <2>1. CASE Poll(c)
    BY <2>1 DEF Poll
  <2>2. CASE Write(c)
    BY <2>2 DEF Write
  <2>3. CASE Fail(c)
    BY <2>3 DEF Fail
  <2>4. CASE Clear(c)
    BY <2>4 DEF Clear
  <2>5. CASE Close(c)
    BY <2>5 DEF Close
  <2> QED
    BY <1>3, <2>1, <2>2, <2>3, <2>4, <2>5 DEF Cycle
<1>4. ASSUME NEW c \in Caller, ReturnNil(c) \/ ReturnErr(c) PROVE Goal
  BY <1>4 DEF ReturnNil, ReturnErr, ReturnFrom
<1>5. ASSUME NEW c \in Caller, Expire(c) PROVE Goal
  BY <1>5 DEF Expire
<1>6. CASE Publish
  BY <1>6 DEF Publish
<1>7. CASE UNCHANGED vars
  BY <1>7 DEF vars
<1> QED
  BY <1>1, <1>2, <1>3, <1>4, <1>5, <1>6, <1>7 DEF Next

\* For any number of callers, channels and snapshots.
THEOREM InvHolds == Spec => []Inv
<1>1. Inv /\ [Next]_vars => Inv'
  BY TypeStep, LeaderStep, NewerStep DEF Inv
<1> QED
  BY InitInv, <1>1, PTL DEF Spec

\* Run is type correct for any callers and channels: inflight is a channel or
\* nil, and an answer of upstream is a snapshot it has published.
THEOREM TypeCorrect == Spec => []TypeOK
  BY InvHolds, PTL DEF Inv

\* No two cycles overlap, however many callers there are.
THEOREM Serialized == Spec => []OneCycleAtATime
  BY InvHolds, PTL DEF Inv

\* A poll's answer is never written over a newer one.
THEOREM NeverRollsBack == Spec => NoRollback
<1>1. Inv /\ [Next]_vars => [cache' >= cache]_vars
  BY NewerStep
<1> QED
  BY InvHolds, <1>1, PTL DEF Spec, NoRollback

-----------------------------------------------------------------------------
\* The life of a channel: the one in flight is open, a caller that has seen no
\* cycle end waits on it, and a leader about to close its channel has already
\* let go of it.
ChannelLife ==
  /\ inflight # NoChan => inflight \notin closed
  /\ \A c \in Caller : pc[c] = "wait" /\ ~ended[c] => done[c] = inflight
  /\ \A c \in Caller : pc[c] = "close" => done[c] # inflight

\* A channel is closed once, by the call that made it.
LEMMA ChannelStep == Inv /\ ChannelLife /\ [Next]_vars => ChannelLife'
<1> SUFFICES ASSUME Inv, ChannelLife, [Next]_vars PROVE ChannelLife'
  OBVIOUS
<1> USE ChanAssumption
    DEF Inv, TypeOK, HoldsChannel, LeaderOwnsInflight, OneCycleAtATime, Leading,
        InCycle, ChannelLife
<1>1. ASSUME NEW c \in Caller, Join(c) PROVE ChannelLife'
  BY <1>1 DEF Join, Enter, calls
<1>2. ASSUME NEW c \in Caller, NEW ch \in Chan, Lead(c, ch) PROVE ChannelLife'
  BY <1>2 DEF Lead, Enter, Unreferenced
<1>3. ASSUME NEW c \in Caller, Cycle(c) PROVE ChannelLife'
  <2>1. CASE Poll(c)
    BY <2>1 DEF Poll
  <2>2. CASE Write(c)
    BY <2>2 DEF Write
  <2>3. CASE Fail(c)
    BY <2>3 DEF Fail
  <2>4. CASE Clear(c)
    BY <2>4 DEF Clear
  <2>5. CASE Close(c)
    BY <2>5 DEF Close
  <2> QED
    BY <1>3, <2>1, <2>2, <2>3, <2>4, <2>5 DEF Cycle
<1>4. ASSUME NEW c \in Caller, ReturnNil(c) \/ ReturnErr(c) PROVE ChannelLife'
  BY <1>4 DEF ReturnNil, ReturnErr, ReturnFrom
<1>5. ASSUME NEW c \in Caller, Expire(c) PROVE ChannelLife'
  BY <1>5 DEF Expire
<1>6. CASE Publish
  BY <1>6 DEF Publish
<1>7. CASE UNCHANGED vars
  BY <1>7 DEF vars
<1> QED
  BY <1>1, <1>2, <1>3, <1>4, <1>5, <1>6, <1>7 DEF Next

\* A joiner never returns nil before a cycle ended after its call.
THEOREM JoinersWait == Spec => JoinerSawCycleEnd
<1>1. Init => ChannelLife
  BY DEF Init, ChannelLife
<1>2. Inv /\ ChannelLife /\ [Next]_vars => ChannelLife'
  BY ChannelStep
<1>3. Inv /\ ChannelLife => \A c \in Caller : ReturnNil(c) => ended[c]
  BY ChanAssumption
     DEF Inv, TypeOK, HoldsChannel, ChannelLife, ReturnNil, ReturnFrom
<1>4. Inv /\ ChannelLife => [\A c \in Caller : ReturnNil(c) => ended[c]]_vars
  BY <1>3
<1> QED
  BY InvHolds, <1>1, <1>2, <1>4, PTL DEF Spec, JoinerSawCycleEnd

-----------------------------------------------------------------------------
\* What the operator's history says of the leader's answer: polled after the
\* last call once that call has seen a cycle end, and after the call before it
\* in any case.
Current ==
  /\ asked <= upstream /\ before <= upstream
  /\ \A c \in Caller : pc[c] = "close" => ended[c]
  /\ \A c \in Caller : pc[c] = "write" =>
       /\ pc[Operator] = "idle" \/ ended[Operator] => polled[c] >= asked
       /\ pc[Operator] # "idle" => polled[c] >= before

\* What the operator was answered from bounds the polls that follow.
LEMMA CurrentStep == Inv /\ ChannelLife /\ Current /\ [Next]_vars => Current'
<1> SUFFICES ASSUME Inv, ChannelLife, Current, [Next]_vars PROVE Current'
  OBVIOUS
<1> USE OperatorAssumption, ChanAssumption, SnapAssumption
    DEF Inv, TypeOK, OneCycleAtATime, Leading, InCycle, Current
<1>1. ASSUME NEW c \in Caller, Join(c) PROVE Current'
  BY <1>1 DEF Join, Enter, calls
<1>2. ASSUME NEW c \in Caller, NEW ch \in Chan, Lead(c, ch) PROVE Current'
  BY <1>2 DEF Lead, Enter, calls
<1>3. ASSUME NEW c \in Caller, Cycle(c) PROVE Current'
  <2>1. CASE Poll(c)
    BY <2>1 DEF Poll, calls
  <2>2. CASE Write(c)
    BY <2>2 DEF Write, calls
  <2>3. CASE Fail(c)
    BY <2>3 DEF Fail, calls
  <2>4. CASE Clear(c)
    BY <2>4 DEF Clear, calls
  <2>5. CASE Close(c)
    BY <2>5 DEF Close, calls
  <2> QED
    BY <1>3, <2>1, <2>2, <2>3, <2>4, <2>5 DEF Cycle
<1>4. ASSUME NEW c \in Caller, ReturnNil(c) PROVE Current'
  <2>1. ended[c]
    BY <1>4 DEF HoldsChannel, ChannelLife, ReturnNil, ReturnFrom
  <2> QED
    BY <1>4, <2>1 DEF ReturnNil, ReturnFrom
<1>5. ASSUME NEW c \in Caller, ReturnErr(c) PROVE Current'
  BY <1>5 DEF ReturnErr, ReturnFrom
<1>6. ASSUME NEW c \in Caller, Expire(c) PROVE Current'
  BY <1>6 DEF Expire, calls
<1>7. CASE Publish
  BY <1>7 DEF Publish, calls
<1>8. CASE UNCHANGED vars
  BY <1>8 DEF vars, calls
<1> QED
  BY <1>1, <1>2, <1>3, <1>4, <1>5, <1>6, <1>7, <1>8 DEF Next

\* Asking twice is enough: the cycle a second call is in writes nothing older
\* than what upstream held at the first.
THEOREM SecondCallCurrent == Spec => SecondCallIsCurrent
<1> DEFINE Step == \A c \in Caller : Write(c) /\ pc[Operator] # "idle" /\ done[Operator] = done[c]
                                    => cache' >= before
<1>1. Init => ChannelLife /\ Current
  BY SnapAssumption DEF Init, ChannelLife, Current
<1>2. Inv /\ ChannelLife /\ [Next]_vars => ChannelLife'
  BY ChannelStep
<1>3. Inv /\ ChannelLife /\ Current /\ [Next]_vars => Current'
  BY CurrentStep
<1>4. Inv /\ Current => [Step]_vars
  BY DEF Current, Write
<1> QED
  BY InvHolds, <1>1, <1>2, <1>3, <1>4, PTL DEF Spec, SecondCallIsCurrent
=============================================================================
