------------------------- MODULE StatusReportProof -------------------------
(***************************************************************************)
(* A report built from two reads of health.State agrees with itself, for   *)
(* any list of types, any TTL and any number of requests.                  *)
(***************************************************************************)
EXTENDS StatusReport, SequenceTheorems, WellFoundedInduction, TLAPS

\* The part of TypeOK the argument needs.
Typed ==
  /\ fresh \in [Types -> TypeFreshness]
  /\ at \in [Request -> {"idle", "asked", "answered"}]
  /\ ready \in [Request -> BOOLEAN]
  /\ types \in [Request -> [Types -> TypeFreshness]]
  /\ since \in [Request -> Span]

\* A request that was told ready: whatever is recorded of a type was ahead when
\* it asked.
AheadWhenAsked(r, records) ==
  ready[r] => \A t \in Types : records[t].synced /\ records[t].valid + since[r] > 0

\* What holds of the state between the two reads holds of the copy afterwards.
Inv ==
  /\ Typed
  /\ \A r \in Request : at[r] = "asked" => AheadWhenAsked(r, fresh)
  /\ \A r \in Request : at[r] = "answered" => AheadWhenAsked(r, types[r])

\* Every step keeps the types.
LEMMA TypedStep == Typed /\ [Next]_vars => Typed'
<1> SUFFICES ASSUME Typed, [Next]_vars PROVE Typed'
  OBVIOUS
<1>1. ASSUME NEW t \in Types, NEW v \in Span, SetTypeFreshness(t, v) PROVE Typed'
  BY <1>1 DEF SetTypeFreshness, Typed, TypeFreshness
<1>2. ASSUME NEW r \in Request, AskReady(r) PROVE Typed'
  <2>1. ready' \in [Request -> BOOLEAN]
    BY <1>2 DEF AskReady, Ready, Typed
  <2>2. since' \in [Request -> Span]
    BY <1>2, TTLAssumption DEF AskReady, Typed, Span
  <2> QED
    BY <1>2, <2>1, <2>2 DEF AskReady, Typed
<1>3. ASSUME NEW r \in Request, TypeStatuses(r) PROVE Typed'
  BY <1>3 DEF TypeStatuses, Typed
<1>4. ASSUME NEW r \in Request, Done(r) PROVE Typed'
  <2>1. 0 \in Span /\ [t \in Types |-> NeverSynced] \in [Types -> TypeFreshness]
    BY TTLAssumption DEF TypeFreshness, NeverSynced, Span
  <2> QED
    BY <1>4, <2>1 DEF Done, Typed
<1>5. CASE Tick
  <2>1. \A n \in Span : Less(n) \in Span /\ (n < CacheTTL => n + 1 \in Span)
    BY TTLAssumption DEF Less, Span
  <2>2. fresh' \in [Types -> TypeFreshness]
    BY <1>5, <2>1 DEF Tick, Typed, TypeFreshness
  <2>3. since' \in [Request -> Span]
    BY <1>5, <2>1 DEF Tick, Typed
  <2> QED
    BY <1>5, <2>2, <2>3 DEF Tick, Typed
<1>6. CASE UNCHANGED vars
  BY <1>6 DEF vars, Typed
<1> QED
  BY <1>1, <1>2, <1>3, <1>4, <1>5, <1>6 DEF Next

\* The first read: ready means no type lags.
LEMMA ReadyMeansAhead ==
  ASSUME Typed, NEW r \in Request, Ready(r), ready'[r], NEW t \in Types
  PROVE  fresh[t].synced /\ fresh[t].valid > 0
<1>1. {i \in DOMAIN Required : Lagging(Required[i])} = {}
  BY DEF Ready, Typed
<1>2. PICK i \in DOMAIN Required : Required[i] = t
  BY DEF Types
<1>3. ~Lagging(t) /\ fresh[t].valid \in 0..CacheTTL
  BY <1>1, <1>2 DEF Typed, TypeFreshness, Span
<1> QED
  BY <1>3, TTLAssumption DEF Lagging

\* Of any types that lag there is a first one in the configured order.
LEMMA FirstLate ==
  ASSUME NEW late, late \subseteq DOMAIN Required, late # {}
  PROVE  (CHOOSE i \in late : \A j \in late : i <= j) \in late
<1>1. late \subseteq Nat
  <2>1. Len(Required) \in Nat /\ DOMAIN Required = 1..Len(Required)
    BY RequiredAssumption, LenProperties
  <2> QED
    BY <2>1
<1>2. PICK i \in late : \A j \in late : <<j, i>> \notin OpToRel(<, Nat)
  BY <1>1, WFMin, NatLessThanWellFounded
<1>3. \A j \in late : i <= j
  <2> SUFFICES ASSUME NEW j \in late, ~(i <= j) PROVE FALSE
    OBVIOUS
  <2>1. i \in Nat /\ j \in Nat /\ j < i
    BY <1>1
  <2>2. <<j, i>> \in OpToRel(<, Nat)
    BY <2>1 DEF OpToRel
  <2> QED
    BY <1>2, <2>2
<1> QED
  BY <1>3

\* A reason is the name of a type, and the answer of Ready gives one where it
\* says not ready.
LEMMA ReasonNamesAType ==
  ASSUME Typed, reason \in [Request -> Types \cup {""}], NEW r \in Request, Ready(r)
  PROVE  /\ reason' \in [Request -> Types \cup {""}]
         /\ ready'[r] <=> Required # <<>> /\ reason'[r] = ""
<1> DEFINE late == {i \in DOMAIN Required : Lagging(Required[i])}
           first == CHOOSE i \in late : \A j \in late : i <= j
           answer == IF late = {} THEN "" ELSE Required[first]
<1>1. /\ ready' = [ready EXCEPT ![r] = Required # <<>> /\ late = {}]
      /\ reason' = [reason EXCEPT ![r] = answer]
  BY DEF Ready
<1>2. late \subseteq DOMAIN Required
  OBVIOUS
<1>3. late # {} => first \in late
  <2> HIDE DEF late
  <2> QED
    BY <1>2, FirstLate
<1>4. late # {} => answer \in Types /\ answer # ""
  <2>1. \A i \in DOMAIN Required : Required[i] \in STRING \ {""}
    <3>1. DOMAIN Required = 1..Len(Required)
      BY RequiredAssumption, LenProperties
    <3> DEFINE Name == STRING \ {""}
    <3>2. Required \in Seq(Name)
      BY RequiredAssumption
    <3> HIDE DEF Name
    <3>3. \A i \in 1..Len(Required) : Required[i] \in Name
      BY <3>2, ElementOfSeq
    <3> QED
      BY <3>1, <3>3 DEF Name
  <2> QED
    BY <1>3, <2>1 DEF Types
<1>5. late = {} => answer = ""
  OBVIOUS
<1> HIDE DEF answer, late
<1>7. reason' \in [Request -> Types \cup {""}] /\ reason'[r] = answer
  BY <1>1, <1>4, <1>5
<1>8. ready'[r] <=> Required # <<>> /\ late = {}
  BY <1>1 DEF Typed
<1> QED
  BY <1>4, <1>5, <1>7, <1>8

\* Every step keeps the report honest.
LEMMA InvStep == Inv /\ [Next]_vars => Inv'
<1> SUFFICES ASSUME Inv, [Next]_vars PROVE Inv'
  OBVIOUS
<1>1. Typed /\ Typed'
  BY TypedStep DEF Inv
<1>2. \A t \in Types, r \in Request :
        /\ fresh[t].valid \in 0..CacheTTL /\ fresh'[t].valid \in 0..CacheTTL
        /\ since[r] \in 0..CacheTTL /\ since'[r] \in 0..CacheTTL
  BY <1>1 DEF Typed, TypeFreshness, Span
<1>3. ASSUME NEW t \in Types, NEW v \in Span, SetTypeFreshness(t, v) PROVE Inv'
  <2>1. /\ fresh'[t].synced /\ fresh'[t].valid >= fresh[t].valid
        /\ \A u \in Types : u # t => fresh'[u] = fresh[u]
        /\ UNCHANGED <<at, ready, types, since>>
    BY <1>1, <1>3 DEF SetTypeFreshness, Typed
  <2>2. ASSUME NEW r \in Request, AheadWhenAsked(r, fresh) PROVE AheadWhenAsked(r, fresh)'
    BY <1>2, <2>1, <2>2 DEF AheadWhenAsked
  <2>3. ASSUME NEW r \in Request, AheadWhenAsked(r, types[r]) PROVE AheadWhenAsked(r, types[r])'
    BY <2>1, <2>3 DEF AheadWhenAsked
  <2> QED
    BY <1>1, <2>1, <2>2, <2>3 DEF Inv
<1>4. ASSUME NEW r \in Request, AskReady(r) PROVE Inv'
  <2>1. /\ at'[r] = "asked" /\ since'[r] = 0 /\ UNCHANGED <<fresh, types>>
        /\ \A q \in Request : q # r => at'[q] = at[q] /\ ready'[q] = ready[q] /\ since'[q] = since[q]
    BY <1>1, <1>4 DEF AskReady, Ready, Typed
  <2>2. AheadWhenAsked(r, fresh)'
    BY <1>1, <1>2, <1>4, <2>1, ReadyMeansAhead DEF AskReady, AheadWhenAsked
  <2>3. ASSUME NEW q \in Request, q # r
        PROVE  /\ AheadWhenAsked(q, fresh)' <=> AheadWhenAsked(q, fresh)
               /\ AheadWhenAsked(q, types[q])' <=> AheadWhenAsked(q, types[q])
    BY <2>1, <2>3 DEF AheadWhenAsked
  <2> QED
    BY <1>1, <2>1, <2>2, <2>3 DEF Inv
<1>5. ASSUME NEW r \in Request, TypeStatuses(r) PROVE Inv'
  <2>1. /\ at[r] = "asked" /\ at'[r] = "answered" /\ types'[r] = fresh
        /\ UNCHANGED <<fresh, ready, since>>
        /\ \A q \in Request : q # r => at'[q] = at[q] /\ types'[q] = types[q]
    BY <1>1, <1>5 DEF TypeStatuses, Typed
  <2> QED
    BY <1>1, <2>1 DEF Inv, AheadWhenAsked
<1>6. ASSUME NEW r \in Request, Done(r) PROVE Inv'
  <2>1. /\ at'[r] = "idle" /\ UNCHANGED fresh
        /\ \A q \in Request : q # r => /\ at'[q] = at[q] /\ types'[q] = types[q]
                                       /\ ready'[q] = ready[q] /\ since'[q] = since[q]
    BY <1>1, <1>6 DEF Done, Typed
  <2> QED
    BY <1>1, <2>1 DEF Inv, AheadWhenAsked
<1>7. CASE Tick
  <2>1. /\ UNCHANGED <<at, ready, types>>
        /\ \A t \in Types : /\ fresh'[t].synced = fresh[t].synced
                            /\ fresh'[t].valid = Less(fresh[t].valid)
    BY <1>1, <1>7 DEF Tick, Typed, TypeFreshness
  <2>2. \A r \in Request : since'[r] = IF at[r] = "asked" /\ since[r] < CacheTTL THEN since[r] + 1 ELSE since[r]
    BY <1>7 DEF Tick
  <2>3. ASSUME NEW r \in Request, at[r] = "asked", AheadWhenAsked(r, fresh)
        PROVE  AheadWhenAsked(r, fresh)'
    <3>1. ASSUME NEW t \in Types, fresh[t].valid + since[r] > 0 PROVE fresh'[t].valid + since'[r] > 0
      BY <1>2, <2>1, <2>2, <2>3, <3>1, TTLAssumption DEF Less
    <3> QED
      BY <2>1, <2>3, <3>1 DEF AheadWhenAsked
  <2>4. ASSUME NEW r \in Request, at[r] = "answered", AheadWhenAsked(r, types[r])
        PROVE  AheadWhenAsked(r, types[r])'
    BY <2>1, <2>2, <2>4 DEF AheadWhenAsked
  <2> QED
    BY <1>1, <2>1, <2>3, <2>4 DEF Inv
<1>8. CASE UNCHANGED vars
  BY <1>1, <1>8 DEF vars, Inv, AheadWhenAsked
<1> QED
  BY <1>3, <1>4, <1>5, <1>6, <1>7, <1>8 DEF Next

\* A report that says ready never lists a type that had not synced or had
\* passed when the request asked, although the list is read later: nothing
\* recorded is removed and no horizon moves back.
THEOREM ReadyReportIsFresh == Spec => []ReadyBodyIsFresh
<1>1. Init => Inv
  <2>1. 0 \in Span /\ [t \in Types |-> NeverSynced] \in [Types -> TypeFreshness]
    BY TTLAssumption DEF TypeFreshness, NeverSynced, Span
  <2>2. Init => Typed /\ \A r \in Request : at[r] = "idle"
    BY <2>1 DEF Init, Typed
  <2> QED
    BY <2>2 DEF Inv
<1>2. Inv => ReadyBodyIsFresh
  BY DEF Inv, AheadWhenAsked, ReadyBodyIsFresh, Answered
<1> QED
  BY InvStep, <1>1, <1>2, PTL DEF Spec

\* What a request is told: a reason exactly when the answer is not ready, and
\* the reason names a configured type.
Reasoned ==
  /\ reason \in [Request -> Types \cup {""}]
  /\ \A r \in Request : at[r] # "idle" => (ready[r] <=> Required # <<>> /\ reason[r] = "")

\* Only Ready gives a reason, and only the end of the request takes it away.
LEMMA ReasonedStep == Typed /\ Reasoned /\ [Next]_vars => Reasoned'
<1> SUFFICES ASSUME Typed, Reasoned, [Next]_vars PROVE Reasoned'
  OBVIOUS
<1>1. ASSUME NEW r \in Request, AskReady(r) PROVE Reasoned'
  <2>1. /\ reason' \in [Request -> Types \cup {""}]
        /\ ready'[r] <=> Required # <<>> /\ reason'[r] = ""
    BY <1>1, ReasonNamesAType DEF AskReady, Reasoned
  <2>2. \A q \in Request : q # r => at'[q] = at[q] /\ ready'[q] = ready[q] /\ reason'[q] = reason[q]
    BY <1>1 DEF AskReady, Ready, Typed, Reasoned
  <2> QED
    BY <2>1, <2>2 DEF Reasoned
<1>2. ASSUME NEW r \in Request, TypeStatuses(r) PROVE Reasoned'
  BY <1>2 DEF TypeStatuses, Typed, Reasoned
<1>3. ASSUME NEW r \in Request, Done(r) PROVE Reasoned'
  BY <1>3 DEF Done, Typed, Reasoned
<1>4. CASE (\E t \in Types, v \in Span : SetTypeFreshness(t, v)) \/ Tick \/ UNCHANGED vars
  BY <1>4 DEF SetTypeFreshness, Tick, vars, Reasoned
<1> QED
  BY <1>1, <1>2, <1>3, <1>4 DEF Next

\* "ready" and the reason never contradict each other, however requests and
\* the sync loop overlap.
THEOREM TypeCorrect == Spec => []TypeOK
<1>1. Init => Typed /\ Reasoned
  <2>1. 0 \in Span /\ [t \in Types |-> NeverSynced] \in [Types -> TypeFreshness]
    BY TTLAssumption DEF TypeFreshness, NeverSynced, Span
  <2> QED
    BY <2>1 DEF Init, Typed, Reasoned
<1>2. Typed /\ Reasoned => TypeOK
  BY DEF Typed, Reasoned, TypeOK
<1> QED
  BY TypedStep, ReasonedStep, <1>1, <1>2, PTL DEF Spec
=============================================================================
