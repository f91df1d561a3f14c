---------------------------- MODULE StatusReport ----------------------------
(***************************************************************************)
(* health.State under concurrent use: the sync loop records types under    *)
(* the write lock while GET /readyz asks Ready and GET /v1/trust-status or *)
(* POST /v1/resync builds its report from two separate reads, Ready and    *)
(* then TypeStatuses (statusOf).  A section under the lock is one step; a  *)
(* validUntil is the ticks left until it.                                  *)
(***************************************************************************)
EXTENDS Integers, Sequences, FiniteSets

CONSTANTS
  Required,  \* State.required: the configured types, in order
  CacheTTL,  \* in ticks
  Request    \* the requests being answered

Types == {Required[i] : i \in DOMAIN Required}
Span == 0..CacheTTL

\* The empty name is not in the taxonomy that validation asks of.
ASSUME RequiredAssumption == Required \in Seq(STRING \ {""})
ASSUME TTLAssumption == CacheTTL \in Nat \ {0}

VARIABLES
  fresh,     \* State.fresh: synced (the map has the type) and validUntil
  at,        \* where each request is in statusOf
  ready,     \* what Ready answered it
  reason,    \* the type its reason names ("" = none)
  types,     \* the types of its body, as TypeStatuses gave them
  since      \* ticks since it asked Ready, at most CacheTTL (history)

vars == <<fresh, at, ready, reason, types, since>>

TypeFreshness == [synced : BOOLEAN, valid : Span]
NeverSynced == [synced |-> FALSE, valid |-> 0]

\* The last conjunct: a reason is given exactly when the answer is not ready,
\* but for a worker without types, which is not ready for want of any.
TypeOK ==
  /\ fresh \in [Types -> TypeFreshness]
  /\ at \in [Request -> {"idle", "asked", "answered"}]
  /\ ready \in [Request -> BOOLEAN]
  /\ reason \in [Request -> Types \cup {""}]
  /\ types \in [Request -> [Types -> TypeFreshness]]
  /\ since \in [Request -> Span]
  /\ \A r \in Request : at[r] # "idle" => (ready[r] <=> Required # <<>> /\ reason[r] = "")

Init ==
  /\ fresh = [t \in Types |-> NeverSynced]
  /\ at = [r \in Request |-> "idle"]
  /\ ready = [r \in Request |-> FALSE]
  /\ reason = [r \in Request |-> ""]
  /\ types = [r \in Request |-> [t \in Types |-> NeverSynced]]
  /\ since = [r \in Request |-> 0]

\* Record of a successful sync.  Its validUntil was computed when upstream
\* answered: the store call may have used up part of it, but it is not before
\* the one an earlier answer of this process gave (cycles do not overlap).
SetTypeFreshness(t, v) ==
  /\ v >= fresh[t].valid
  /\ fresh' = [fresh EXCEPT ![t] = [synced |-> TRUE, valid |-> v]]
  /\ UNCHANGED <<at, ready, reason, types, since>>

Lagging(t) == ~fresh[t].synced \/ fresh[t].valid = 0

\* Mutant: a type that has never synced is passed over.
ReadyUnlessExpired(r) ==
  LET late == {i \in DOMAIN Required : fresh[Required[i]].synced /\ fresh[Required[i]].valid = 0}
  IN /\ ready' = [ready EXCEPT ![r] = Required # <<>> /\ late = {}]
     /\ reason' = [reason EXCEPT ![r] = ""]

\* Ready: the first type, in order, that never synced or whose validUntil has
\* come; no type at all is not ready either.
Ready(r) ==
  LET late == {i \in DOMAIN Required : Lagging(Required[i])}
  IN /\ ready' = [ready EXCEPT ![r] = Required # <<>> /\ late = {}]
     /\ reason' = [reason EXCEPT ![r] =
          IF late = {} THEN ""
          ELSE Required[CHOOSE i \in late : \A j \in late : i <= j]]

AskReady(r) ==
  /\ at[r] = "idle"
  /\ Ready(r)
  /\ at' = [at EXCEPT ![r] = "asked"]
  /\ since' = [since EXCEPT ![r] = 0]
  /\ UNCHANGED <<fresh, types>>

\* TypeStatuses, and the answer: 200, or for a resync 503 when not ready.
TypeStatuses(r) ==
  /\ at[r] = "asked"
  /\ types' = [types EXCEPT ![r] = fresh]
  /\ at' = [at EXCEPT ![r] = "answered"]
  /\ UNCHANGED <<fresh, ready, reason, since>>

\* The next request.
Done(r) ==
  /\ at[r] = "answered"
  /\ at' = [at EXCEPT ![r] = "idle"]
  /\ ready' = [ready EXCEPT ![r] = FALSE]
  /\ reason' = [reason EXCEPT ![r] = ""]
  /\ types' = [types EXCEPT ![r] = [t \in Types |-> NeverSynced]]
  /\ since' = [since EXCEPT ![r] = 0]
  /\ UNCHANGED fresh

Less(n) == IF n > 0 THEN n - 1 ELSE 0

\* Time passes for the state and for a request between its two reads.
Tick ==
  /\ fresh' = [t \in Types |-> [fresh[t] EXCEPT !.valid = Less(@)]]
  /\ since' = [r \in Request |->
       IF at[r] = "asked" /\ since[r] < CacheTTL THEN since[r] + 1 ELSE since[r]]
  /\ UNCHANGED <<at, ready, reason, types>>

Next ==
  \/ \E t \in Types, v \in Span : SetTypeFreshness(t, v)
  \/ \E r \in Request : AskReady(r) \/ TypeStatuses(r) \/ Done(r)
  \/ Tick

Spec == Init /\ [][Next]_vars

-----------------------------------------------------------------------------
Answered(r) == at[r] = "answered"

\* A report that says ready lists every type as synced, with a validUntil after
\* the instant Ready was asked, although another read of the state made the
\* list: records are never removed and their horizons never move back.
ReadyBodyIsFresh ==
  \A r \in Request : Answered(r) /\ ready[r] =>
    \A t \in Types : types[r][t].synced /\ types[r][t].valid + since[r] > 0
=============================================================================
