---------------------------- MODULE AnchorCache ----------------------------
(***************************************************************************)
(* What the worker promises the verifiers that read its cache, apart from  *)
(* how it fills it.  Of each anchor type a verifier sees nothing, or one   *)
(* whole snapshot that the trust service answered with, until one TTL      *)
(* after that answer and not a tick longer or shorter; and what it sees    *)
(* never goes back to an older snapshot.  TrustSync implements this.       *)
(***************************************************************************)
EXTENDS Integers

CONSTANTS
  Types,          \* the anchor types
  MaxSnap,        \* snapshots 1..MaxSnap, published in that order
  TerritoriesOf,  \* TerritoriesOf[t][s]: the territories snapshot s has for t
  CacheTTL        \* how long an answer may be served, in ticks

VARIABLES
  latest,     \* the snapshot the trust service answers with
  confirmed,  \* confirmed[t][s]: ticks for which the last answer s may be served
  view        \* view[t]: what a verifier is served for t

vars == <<latest, confirmed, view>>

Snapshot == 1..MaxSnap
NoView == [snap |-> 0, terr |-> {}, valid |-> 0]

Init ==
  /\ latest = 1
  /\ confirmed = [t \in Types |-> [s \in Snapshot |-> 0]]
  /\ view = [t \in Types |-> NoView]

Publish ==
  /\ latest' \in latest + 1 .. MaxSnap
  /\ UNCHANGED <<confirmed, view>>

\* The trust service answers: a TTL begins for its current snapshot.
Confirm(t) ==
  /\ confirmed' = [confirmed EXCEPT ![t][latest] = CacheTTL]
  /\ UNCHANGED <<latest, view>>

\* An answer becomes visible, in one step and as a whole.
Materialize(t, s) ==
  /\ confirmed[t][s] > 0
  /\ s >= view[t].snap
  /\ view' = [view EXCEPT ![t] = [snap |-> s, terr |-> TerritoriesOf[t][s],
                                  valid |-> confirmed[t][s]]]
  /\ UNCHANGED <<latest, confirmed>>

Tick ==
  /\ confirmed' = [t \in Types |-> [s \in Snapshot |->
       IF confirmed[t][s] > 0 THEN confirmed[t][s] - 1 ELSE 0]]
  /\ view' = [t \in Types |->
       IF view[t].valid > 1 THEN [view[t] EXCEPT !.valid = @ - 1] ELSE NoView]
  /\ UNCHANGED latest

Next ==
  \/ Publish
  \/ \E t \in Types : Confirm(t) \/ \E s \in Snapshot : Materialize(t, s)
  \/ Tick

Spec == Init /\ [][Next]_vars
=============================================================================
