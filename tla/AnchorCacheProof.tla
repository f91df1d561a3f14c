-------------------------- MODULE AnchorCacheProof --------------------------
(***************************************************************************)
(* TrustSync implements AnchorCache where Valkey loses no key and keys     *)
(* live for the whole TTL: every step shows the verifiers a step of the    *)
(* abstract cache, or nothing new.                                         *)
(***************************************************************************)
EXTENDS TrustSyncProof

WholeTTL == KeysStay /\ KeyTTL = CacheTTL

\* The freshness key lives at least until the horizon it carries, which the
\* process does not remember longer, and as long as the index; the ETag key
\* names a snapshot between the remembered one and upstream's.
Published(t) ==
  /\ freshness[t].valid <= freshness[t].ttl
  /\ fresh[t].valid <= freshness[t].valid
  /\ Present(index[t]) =>
       /\ freshness[t].ttl = index[t].ttl
       /\ etags[t] <= etagKey[t].snap /\ etagKey[t].snap <= upstream.snap

\* The call in flight carries the newest answer of its type: its horizon, and
\* no older a snapshot than the stored one.
Newest(t) ==
  /\ freshness[t].valid <= op.valid
  /\ op.valid = confirmed[t][op.snap]
  /\ Present(index[t]) =>
       /\ etagKey[t].snap <= op.snap
       /\ op.mode = "refresh" \/ op.step = "replied" => etagKey[t].snap = op.snap
  /\ op.step = "replied" => freshness[t].valid = op.valid

PublishInv ==
  /\ \A t \in Types : Published(t)
  /\ op.step # "poll" => Newest(Order[pos])

\* What the proofs so far have established.
KnownInv == ConfirmedInv /\ AgreeInv /\ TogetherInv

\* Between two calls only the keys, the memory and upstream matter.
LEMMA SameAnswer ==
  ASSUME PublishInv, UNCHANGED <<keys, memory, upstream>>, op'.step = "poll"
  PROVE  PublishInv'
  BY DEF PublishInv, Published, keys, memory

\* An answer makes the call the newest one of its type.
LEMMA AnsweredPublished ==
  ASSUME KnownInv, PublishInv, NEW t \in Types, NotModified(t) \/ Updated(t)
  PROVE  PublishInv'
<1>1. TypeInv /\ t = Order[pos]
  BY DEF KnownInv, ConfirmedInv, NotModified, Updated, Polling
<1>2. /\ op'.step = "index" /\ op'.snap = upstream.snap /\ op'.valid = CacheTTL
      /\ op'.mode = "refresh" => etags[t] = upstream.snap
      /\ confirmed' = [confirmed EXCEPT ![t][upstream.snap] = CacheTTL]
      /\ UNCHANGED <<upstream, keys, memory, pos>>
  BY <1>1 DEF NotModified, Updated, Matches, Answered, TypeInv, TypeOK, SyncCall
<1>3. confirmed'[t][op'.snap] = CacheTTL
  BY <1>1, <1>2 DEF TypeInv, TypeOK
<1>4. /\ freshness[t].valid \in 0..CacheTTL /\ etags[t] \in 0..MaxSnap
      /\ etagKey[t].snap \in 0..MaxSnap /\ upstream.snap \in 1..MaxSnap
  BY <1>1 DEF TypeInv, TypeOK, Entry, EtagKey, Span, Snapshot, AnySnap
<1>5. Newest(t)'
  BY <1>1, <1>2, <1>3, <1>4, SnapAssumption DEF PublishInv, Published, Newest, keys, memory
<1> QED
  BY <1>1, <1>2, <1>5 DEF PublishInv, Published, keys, memory

\* The reads before a transaction change nothing the invariant is about.
LEMMA ReadPublished ==
  ASSUME KnownInv, PublishInv, NEW t \in Types,
         ReadIndex(t) \/ \E c \in Territory : ReadEntry(t, c)
  PROVE  PublishInv'
<1>1. /\ op'.step = "build" /\ op'.mode = op.mode /\ op'.snap = op.snap /\ op'.valid = op.valid
      /\ op.step \in {"index", "build"}
      /\ UNCHANGED <<upstream, keys, memory, pos, confirmed>>
  BY DEF KnownInv, ConfirmedInv, TypeInv, TypeOK, SyncCall, ReadIndex, ReadEntry, Building
<1> QED
  BY <1>1 DEF PublishInv, Published, Newest, keys, memory

\* What a transaction leaves: the timers of both keys are whole, and where the
\* index is there the ETag key names the call's snapshot.
LEMMA ExecLeaves ==
  ASSUME KnownInv, PublishInv, NEW t \in Types, Exec(t)
  PROVE  /\ freshness'[t].valid = op.valid /\ freshness'[t].ttl = KeyTTL
         /\ Present(index'[t]) => index'[t].ttl = KeyTTL /\ etagKey'[t].snap = op.snap
         /\ op.mode = "refresh" => (Present(index'[t]) <=> Present(index[t]))
         /\ op.mode = "swap" => Present(index'[t])
<1>1. /\ t = Order[pos] /\ op.step = "build" /\ TypeOK /\ Newest(t)
  BY DEF Exec, Building, KnownInv, ConfirmedInv, TypeInv, PublishInv
<1>2. CASE op.mode = "swap" /\ SwapKeys(t)
  BY <1>1, <1>2, TTLAssumption DEF SwapKeys, NewKeys, NewEntry, TypeOK, Present
<1>3. CASE op.mode = "refresh" /\ RefreshKeys(t)
  <2>1. /\ index'[t] = Expire(index[t]) /\ etagKey'[t] = Expire(etagKey[t])
        /\ freshness'[t] = NewEntry(op.snap, op.stale)
    BY <1>1, <1>3 DEF RefreshKeys, RestartedKeys, TypeOK
  <2>2. /\ Present(index'[t]) <=> Present(index[t])
        /\ Present(index[t]) => index'[t].ttl = KeyTTL
        /\ etagKey'[t].snap = etagKey[t].snap
    BY <1>1, <2>1, TTLAssumption DEF Expire, Present, TypeOK, IndexKey, EtagKey
  <2>3. freshness'[t].valid = op.valid /\ freshness'[t].ttl = KeyTTL
    BY <2>1 DEF NewEntry
  <2> QED
    BY <1>1, <1>3, <2>2, <2>3 DEF Newest
<1> QED
  BY <1>2, <1>3 DEF Exec

\* A transaction publishes the newest answer.
LEMMA ExecPublished ==
  ASSUME WholeTTL, KnownInv, PublishInv, NEW t \in Types, Exec(t)
  PROVE  PublishInv'
<1>1. /\ t = Order[pos] /\ op.step = "build" /\ TypeOK /\ Newest(t) /\ CallInv(t)
      /\ UNCHANGED <<upstream, memory, confirmed>>
  BY DEF Exec, Building, KnownInv, ConfirmedInv, CallInFlight, TypeInv, PublishInv
<1>2. op.valid \in 0..CacheTTL /\ fresh[t].valid \in 0..CacheTTL /\ freshness[t].valid \in 0..CacheTTL
  BY <1>1 DEF TypeOK, SyncCall, TypeFreshness, Entry, Span
<1>3. Published(t)'
  BY <1>1, <1>2, ExecLeaves, ConstantFacts DEF Published, Newest, CallInv, PublishInv, WholeTTL, memory
<1>4. ASSUME NEW u \in Types, u # t PROVE Published(u)'
  <2>1. /\ index'[u] = index[u] /\ etagKey'[u] = etagKey[u] /\ freshness'[u] = freshness[u]
    BY <1>1, <1>4 DEF Exec, SwapKeys, NewKeys, RefreshKeys, RestartedKeys, TypeOK
  <2> QED
    BY <1>1, <2>1 DEF PublishInv, Published, memory
<1>5. CASE op' = [op EXCEPT !.step = "replied"] /\ UNCHANGED pos
  <2>1. op'.step = "replied" /\ op'.snap = op.snap /\ op'.valid = op.valid
    BY <1>1, <1>5 DEF TypeOK, SyncCall
  <2>2. Newest(t)'
    <3>1. op.snap \in 0..MaxSnap
      BY <1>1 DEF TypeOK, SyncCall, AnySnap
    <3> QED
      BY <1>1, <1>2, <2>1, <3>1, ExecLeaves, SnapAssumption DEF Newest
  <2> QED
    BY <1>1, <1>3, <1>4, <1>5, <2>2 DEF PublishInv
<1>6. CASE NextType
  BY <1>3, <1>4, <1>6 DEF PublishInv, NextType, Unpolled
<1> QED
  BY <1>5, <1>6 DEF Exec

\* What a successful call records is what it has published.
LEMMA RecordPublished ==
  ASSUME KnownInv, PublishInv, NEW t \in Types, Record(t)
  PROVE  PublishInv'
<1>1. /\ t = Order[pos] /\ op.step = "replied" /\ TypeOK /\ Newest(t) /\ Published(t)
      /\ UNCHANGED <<upstream, keys, confirmed>> /\ op'.step = "poll"
  BY DEF Record, KnownInv, ConfirmedInv, TypeInv, PublishInv, NextType, Unpolled
<1>2. /\ fresh'[t].valid = op.valid
      /\ etags'[t] \in {etags[t], op.snap}
      /\ \A u \in Types : u # t => fresh'[u] = fresh[u] /\ etags'[u] = etags[u]
  BY <1>1 DEF Record, TypeOK
<1>3. op.valid \in 0..CacheTTL /\ op.snap \in 0..MaxSnap
  BY <1>1 DEF TypeOK, SyncCall, Span, AnySnap
<1>4. Published(t)'
  BY <1>1, <1>2, <1>3, ConstantFacts DEF Published, Newest, keys
<1>5. ASSUME NEW u \in Types, u # t PROVE Published(u)'
  BY <1>1, <1>2, <1>5 DEF PublishInv, Published, keys
<1> QED
  BY <1>1, <1>4, <1>5 DEF PublishInv

\* Both numbers of an entry that is still there go down by one, and an entry
\* that goes had no tick left.
LEMMA EntryAges ==
  ASSUME NEW e \in Entry
  PROVE  /\ AgedEntry(e).ttl = IF e.ttl > 1 THEN e.ttl - 1 ELSE 0
         /\ AgedEntry(e).valid = IF e.ttl > 1 THEN Less(e.valid) ELSE 0
         /\ e.ttl > 1 => AgedEntry(e).snap = e.snap
<1>1. CASE e.ttl > 1
  BY <1>1 DEF AgedEntry, Entry
<1>2. CASE ~(e.ttl > 1)
  BY <1>2 DEF AgedEntry, NoEntry
<1> QED
  BY <1>1, <1>2

\* What a tick does to the keys of t.
LEMMA KeysAge ==
  ASSUME TypeInv, Tick, NEW t \in Types
  PROVE  /\ freshness'[t].ttl = IF freshness[t].ttl > 1 THEN freshness[t].ttl - 1 ELSE 0
         /\ freshness'[t].valid = IF freshness[t].ttl > 1 THEN Less(freshness[t].valid) ELSE 0
         /\ fresh'[t].valid = Less(fresh[t].valid)
         /\ Present(index'[t]) <=> index[t].ttl > 1
         /\ index[t].ttl > 1 => index'[t].ttl = index[t].ttl - 1 /\ index'[t].terr = index[t].terr
         /\ etagKey[t].ttl > 1 => etagKey'[t].snap = etagKey[t].snap
<1>1. /\ freshness'[t] = AgedEntry(freshness[t]) /\ freshness[t] \in Entry
      /\ index'[t] = AgedIndex(index[t]) /\ index[t] \in IndexKey
      /\ etagKey'[t] = AgedEtag(etagKey[t]) /\ etagKey[t] \in EtagKey
      /\ fresh'[t] = [fresh[t] EXCEPT !.valid = Less(@)] /\ fresh[t] \in TypeFreshness
  BY DEF Tick, TypeInv, TypeOK
<1>2. /\ Present(index'[t]) <=> index[t].ttl > 1
      /\ index[t].ttl > 1 => index'[t].ttl = index[t].ttl - 1 /\ index'[t].terr = index[t].terr
  BY <1>1 DEF AgedIndex, IndexKey, NoIndex, Present, Span
<1>3. etagKey[t].ttl > 1 => etagKey'[t].snap = etagKey[t].snap
  BY <1>1 DEF AgedEtag, EtagKey
<1>4. fresh'[t].valid = Less(fresh[t].valid)
  BY <1>1 DEF TypeFreshness
<1> QED
  BY <1>1, <1>2, <1>3, <1>4, EntryAges

\* Keys, memory and the call in flight age together.
LEMMA TickPublished ==
  ASSUME KnownInv, PublishInv, Tick
  PROVE  PublishInv'
<1>1. /\ TypeInv /\ UNCHANGED <<upstream, etags, pos>>
      /\ op'.step = op.step /\ op'.mode = op.mode /\ op'.snap = op.snap
      /\ op'.valid = Less(op.valid)
  BY DEF Tick, KnownInv, ConfirmedInv, TypeInv, TypeOK, SyncCall
<1>2. \A t \in Types : /\ freshness[t].ttl \in 0..CacheTTL /\ freshness[t].valid \in 0..CacheTTL
                       /\ fresh[t].valid \in 0..CacheTTL /\ index[t].ttl \in 0..CacheTTL
  BY <1>1 DEF TypeInv, TypeOK, Entry, TypeFreshness, IndexKey, Span
<1>3. \A t \in Types : Present(index[t]) => etagKey[t].ttl = index[t].ttl
  BY DEF KnownInv, TogetherInv, Together
<1>4. ASSUME NEW t \in Types PROVE Published(t)'
  <2>1. Published(t)
    BY DEF PublishInv
  <2>2. /\ freshness'[t].valid <= freshness'[t].ttl
        /\ fresh'[t].valid <= freshness'[t].valid
    BY <1>1, <1>2, <2>1, KeysAge, ConstantFacts DEF Published, Less
  <2>3. ASSUME Present(index'[t])
        PROVE  /\ freshness'[t].ttl = index'[t].ttl
               /\ etags'[t] <= etagKey'[t].snap /\ etagKey'[t].snap <= upstream'.snap
    BY <1>1, <1>2, <1>3, <2>1, <2>3, KeysAge DEF Published, Present
  <2> QED
    BY <2>2, <2>3 DEF Published
<1>5. ASSUME op.step # "poll" PROVE Newest(Order[pos])'
  <2> DEFINE t == Order[pos]
  <2>1. t \in Types /\ op.snap \in Snapshot
    BY <1>1, <1>5, ConstantFacts DEF TypeInv, TypeOK, CallOK
  <2>2. Newest(t) /\ Published(t)
    BY <1>5, <2>1 DEF PublishInv
  <2>3. confirmed'[t][op.snap] = Less(confirmed[t][op.snap]) /\ op.valid \in 0..CacheTTL
    BY <1>1, <2>1 DEF Tick, TypeInv, TypeOK, SyncCall, Span
  <2>4. /\ freshness'[t].valid <= op'.valid
        /\ op.step = "replied" => freshness'[t].valid = op'.valid
    <3>1. freshness'[t].valid = IF freshness[t].ttl > 1 THEN Less(freshness[t].valid) ELSE 0
      BY <1>1, <2>1, KeysAge
    <3>2. /\ freshness[t].ttl \in 0..CacheTTL /\ freshness[t].valid \in 0..CacheTTL
          /\ freshness[t].valid <= freshness[t].ttl
      BY <1>2, <2>1, <2>2 DEF Published
    <3>3. ASSUME NEW n \in 0..CacheTTL, freshness[t].valid <= n
          PROVE  /\ freshness'[t].valid <= Less(n)
                 /\ freshness[t].valid = n => freshness'[t].valid = Less(n)
      BY <3>1, <3>2, <3>3, ConstantFacts DEF Less
    <3> QED
      BY <1>1, <2>2, <2>3, <3>3 DEF Newest
  <2>5. Present(index'[t]) => Present(index[t]) /\ etagKey'[t].snap = etagKey[t].snap
    BY <1>1, <1>2, <1>3, <2>1, KeysAge DEF Present
  <2>6. Newest(t)'
    BY <1>1, <2>2, <2>3, <2>4, <2>5 DEF Newest
  <2> QED
    BY <1>1, <2>6
<1> QED
  BY <1>1, <1>4, <1>5 DEF PublishInv

\* Every step keeps it while Valkey keeps its keys.
LEMMA PublishStep == WholeTTL /\ KnownInv /\ PublishInv /\ [Next]_vars => PublishInv'
<1> SUFFICES ASSUME WholeTTL, KnownInv, PublishInv, [Next]_vars PROVE PublishInv'
  OBVIOUS
<1>1. ASSUME NEW t \in Types, SyncType(t) PROVE PublishInv'
  <2>1. CASE PollError(t) \/ StoreError(t)
    BY <2>1, SameAnswer DEF PollError, StoreError, NextType, Unpolled
  <2>2. CASE NotModified(t) \/ Updated(t)
    BY <2>2, AnsweredPublished
  <2>3. CASE ReadIndex(t) \/ \E c \in Territory : ReadEntry(t, c)
    BY <2>3, ReadPublished
  <2>4. CASE Exec(t)
    BY <2>4, ExecPublished
  <2>5. CASE Record(t)
    BY <2>5, RecordPublished
  <2> QED
    BY <1>1, <2>1, <2>2, <2>3, <2>4, <2>5 DEF SyncType
<1>2. CASE StartCycle
  <2>1. op.step = "poll"
    BY <1>2 DEF StartCycle, KnownInv, ConfirmedInv, TypeInv, CallOK
  <2> QED
    BY <1>2, <2>1, SameAnswer DEF StartCycle
<1>3. CASE FlipStale \/ \E s \in Snapshot : Publish(s)
  <2>1. upstream'.snap >= upstream.snap /\ upstream'.snap \in 1..MaxSnap /\ upstream.snap \in 1..MaxSnap
    BY <1>3, SnapAssumption
       DEF FlipStale, Publish, KnownInv, ConfirmedInv, TypeInv, TypeOK, Snapshot
  <2>2. \A t \in Types : etagKey[t].snap \in 0..MaxSnap
    BY DEF KnownInv, ConfirmedInv, TypeInv, TypeOK, EtagKey, AnySnap
  <2>3. UNCHANGED <<keys, memory, pos, op, confirmed>>
    BY <1>3 DEF FlipStale, Publish
  <2> QED
    BY <2>1, <2>2, <2>3, SnapAssumption DEF PublishInv, Published, Newest, keys, memory
<1>4. CASE Tick
  BY <1>4, TickPublished
<1>5. ASSUME NEW t \in Types, Evict(t) PROVE FALSE
  BY <1>5 DEF Evict, WholeTTL, KeysStay
<1>6. CASE Crash
  <2>1. \A t \in Types : /\ freshness[t].valid \in 0..CacheTTL /\ etagKey[t].snap \in 0..MaxSnap
                        /\ fresh'[t].valid = 0 /\ etags'[t] = 0
    BY <1>6 DEF Crash, KnownInv, ConfirmedInv, TypeInv, TypeOK, Entry, EtagKey, Span, AnySnap, NoFresh, NoSnap
  <2> QED
    BY <1>6, <2>1 DEF Crash, PublishInv, Published, Unpolled, keys
<1>7. CASE UNCHANGED vars
  BY <1>7 DEF vars, PublishInv, Published, Newest, keys, memory
<1> QED
  BY <1>1, <1>2, <1>3, <1>4, <1>5, <1>6, <1>7 DEF Next

\* The invariants the refinement rests on, together.
THEOREM KnownHolds == ASSUME WholeTTL PROVE Spec => [](KnownInv /\ PublishInv)
<1>1. Init => PublishInv
  BY DEF Init, PublishInv, Published, Unpolled, Present, NoEntry, NoIndex, NoFresh
<1>2. KnownInv /\ PublishInv /\ [Next]_vars => PublishInv'
  BY PublishStep
<1>3. Spec => []TogetherInv
  BY TogetherHolds DEF WholeTTL
<1> QED
  BY ConfirmedInvHolds, AgreeInvHolds, <1>1, <1>2, <1>3, PTL DEF Spec, KnownInv

\* A worker that answers ready has published, for every type, a freshness key
\* that consumers still accept.
THEOREM AlwaysPublished == ASSUME WholeTTL PROVE Spec => []ReadyIsPublished
<1>1. KnownInv /\ PublishInv => ReadyIsPublished
  <2> SUFFICES ASSUME TypeOK, PublishInv, Ready, NEW t \in Types
               PROVE  Present(freshness[t]) /\ freshness[t].valid > 0
    BY DEF ReadyIsPublished, KnownInv, ConfirmedInv, TypeInv
  <2>1. /\ fresh[t].valid > 0 /\ fresh[t].valid \in 0..CacheTTL
        /\ freshness[t].valid \in 0..CacheTTL /\ freshness[t].ttl \in 0..CacheTTL
    BY DEF Ready, TypeOK, TypeFreshness, Entry, Span
  <2> QED
    BY <2>1, ConstantFacts DEF PublishInv, Published, Present
<1> QED
  BY KnownHolds, <1>1, PTL

-----------------------------------------------------------------------------
(* The refinement.                                                         *)

\* What a verifier sees is all of the snapshot the ETag key names, or nothing.
Shown(t) ==
  IF Present(index[t]) /\ freshness[t].valid > 0
  THEN [snap |-> etagKey[t].snap, valid |-> freshness[t].valid,
        terr |-> TerritoriesOf[t][etagKey[t].snap]]
  ELSE [snap |-> NoSnap, valid |-> 0, terr |-> {}]

\* The entries are all there and served, with the horizon of the freshness key.
LEMMA ViewIsShown ==
  ASSUME KnownInv, PublishInv, NEW t \in Types
  PROVE  View(t) = Shown(t)
<1>1. /\ Together(t) /\ Agreement(t) /\ Published(t) /\ TypeOK
  BY DEF KnownInv, ConfirmedInv, TypeInv, TogetherInv, AgreeInv, PublishInv
<1>2. CASE Present(index[t]) /\ freshness[t].valid > 0
  <2>1. /\ index[t].terr = TerritoriesOf[t][etagKey[t].snap]
        /\ index[t].terr \subseteq Territory
    BY <1>1, <1>2 DEF Together, TypeOK, IndexKey
  <2>2. ASSUME NEW c \in index[t].terr PROVE Served(t, c)
    <3>1. Present(anchors[t][c]) /\ Present(freshness[t])
      BY <1>1, <1>2, <2>1 DEF Together, Published, Present
    <3> QED
      BY <1>1, <1>2, <2>1, <3>1 DEF Agreement, Served
  <2>3. {c \in index[t].terr : Served(t, c)} = index[t].terr
    BY <2>2
  <2> QED
    BY <1>2, <2>1, <2>3 DEF View, Shown
<1>3. CASE ~(Present(index[t]) /\ freshness[t].valid > 0)
  BY <1>3 DEF View, Shown
<1> QED
  BY <1>2, <1>3

AllShown == \A t \in Types : View(t) = Shown(t)

\* The keys decide what is seen.
LEMMA SameView == UNCHANGED keys => \A t \in Types : View(t)' = View(t)
  BY DEF keys, View, Served

CacheView == [t \in Types |-> View(t)]

\* A step that shows nothing new.
LEMMA Unseen ==
  ASSUME UNCHANGED <<keys, confirmed>>, upstream'.snap = upstream.snap
  PROVE  UNCHANGED Cache!vars
  BY SameView DEF Cache!vars

\* A 200 or a 304 is a confirmation.
LEMMA AnsweredConfirms ==
  ASSUME KnownInv, NEW t \in Types, NotModified(t) \/ Updated(t)
  PROVE  Cache!Confirm(t)
<1>1. confirmed' = [confirmed EXCEPT ![t][upstream.snap] = CacheTTL] /\ UNCHANGED <<upstream, keys>>
  BY DEF NotModified, Updated, Matches, Answered
<1> QED
  BY <1>1, SameView DEF Cache!Confirm

\* An EXEC shows the answer its call carries as a whole, or nothing new: where
\* there is no index to refresh, and where the call took a whole TTL.
LEMMA ExecMaterializes ==
  ASSUME KnownInv, PublishInv, AllShown, AllShown', NEW t \in Types, Exec(t)
  PROVE  (\E s \in Snapshot : Cache!Materialize(t, s)) \/ UNCHANGED Cache!vars
<1>1. /\ t = Order[pos] /\ op.step = "build" /\ TypeOK /\ op.snap \in Snapshot
      /\ Newest(t) /\ UNCHANGED <<upstream, confirmed>>
  BY DEF Exec, Building, KnownInv, ConfirmedInv, TypeInv, CallOK, PublishInv
<1>2. \A u \in Types : View(u) = Shown(u) /\ View(u)' = Shown(u)'
  BY DEF AllShown
<1>3. ASSUME NEW u \in Types, u # t PROVE View(u)' = View(u)
  <2>1. /\ index'[u] = index[u] /\ etagKey'[u] = etagKey[u] /\ freshness'[u] = freshness[u]
    BY <1>1, <1>3 DEF Exec, SwapKeys, NewKeys, RefreshKeys, RestartedKeys, TypeOK
  <2> QED
    BY <1>2, <2>1 DEF Shown, Present
<1>4. op.valid \in 0..CacheTTL /\ freshness[t].valid \in 0..CacheTTL
  BY <1>1 DEF TypeOK, SyncCall, Entry, Span
<1>5. CASE op.valid > 0 /\ Present(index'[t])
  <2>1. View(t)' = [snap |-> op.snap, terr |-> TerritoriesOf[t][op.snap], valid |-> op.valid]
    BY <1>2, <1>5, ExecLeaves DEF Shown
  <2>2. View(t).snap <= op.snap
    BY <1>1, <1>2 DEF Shown, Newest, NoSnap, Snapshot
  <2>3. CacheView' = [CacheView EXCEPT ![t] = [snap |-> op.snap, terr |-> TerritoriesOf[t][op.snap],
                                               valid |-> confirmed[t][op.snap]]]
    BY <1>1, <1>3, <2>1 DEF CacheView, Newest
  <2>4. Cache!Materialize(t, op.snap)
    BY <1>1, <1>5, <2>2, <2>3 DEF Cache!Materialize, CacheView, Newest, Snapshot
  <2> QED
    BY <1>1, <2>4
<1>6. CASE ~(op.valid > 0 /\ Present(index'[t]))
  <2>1. ASSUME op.valid = 0 PROVE View(t)' = View(t)
    <3>1. ~(freshness[t].valid > 0) /\ ~(freshness'[t].valid > 0)
      BY <1>1, <1>4, <2>1, ExecLeaves DEF Newest
    <3> QED
      BY <1>2, <3>1 DEF Shown
  <2>2. ASSUME ~Present(index'[t]) PROVE View(t)' = View(t)
    <3>1. ~Present(index[t])
      BY <2>2, ExecLeaves DEF Exec
    <3> QED
      BY <1>2, <2>2, <3>1 DEF Shown
  <2>3. View(t)' = View(t)
    BY <1>4, <1>6, <2>1, <2>2
  <2> QED
    BY <1>1, <1>3, <2>3 DEF Cache!vars
<1> QED
  BY <1>5, <1>6

\* What is shown loses one tick, or goes.
LEMMA TickTicks ==
  ASSUME KnownInv, PublishInv, AllShown, AllShown', Tick
  PROVE  Cache!Tick
<1>1. TypeInv /\ UNCHANGED upstream
      /\ confirmed' = [t \in Types |-> [s \in Snapshot |-> Less(confirmed[t][s])]]
  BY DEF Tick, KnownInv, ConfirmedInv
<1>2. ASSUME NEW t \in Types
      PROVE  View(t)' = IF View(t).valid > 1 THEN [View(t) EXCEPT !.valid = @ - 1] ELSE Cache!NoView
  <2>1. View(t) = Shown(t) /\ View(t)' = Shown(t)' /\ Published(t) /\ Together(t)
    BY DEF AllShown, PublishInv, KnownInv, TogetherInv
  <2>2. /\ freshness[t].ttl \in 0..CacheTTL /\ freshness[t].valid \in 0..CacheTTL
        /\ index[t].ttl \in 0..CacheTTL
    BY <1>1 DEF TypeInv, TypeOK, Entry, IndexKey, Span
  <2>3. /\ freshness'[t].valid = IF freshness[t].ttl > 1 THEN Less(freshness[t].valid) ELSE 0
        /\ Present(index'[t]) <=> index[t].ttl > 1
        /\ etagKey[t].ttl > 1 => etagKey'[t].snap = etagKey[t].snap
    BY <1>1, KeysAge
  <2>4. CASE Present(index[t]) /\ freshness[t].valid > 1
    <3>1. /\ index[t].ttl > 1 /\ etagKey[t].ttl > 1 /\ freshness[t].ttl > 1
      BY <2>1, <2>2, <2>4, ConstantFacts DEF Published, Together
    <3>2. /\ Present(index'[t]) /\ freshness'[t].valid = freshness[t].valid - 1
          /\ etagKey'[t].snap = etagKey[t].snap /\ freshness[t].valid - 1 > 0
      BY <2>2, <2>3, <2>4, <3>1, ConstantFacts DEF Less
    <3>3. View(t) = [snap |-> etagKey[t].snap, valid |-> freshness[t].valid,
                     terr |-> TerritoriesOf[t][etagKey[t].snap]]
      BY <2>1, <2>2, <2>4 DEF Shown
    <3>4. View(t)' = [snap |-> etagKey[t].snap, valid |-> freshness[t].valid - 1,
                      terr |-> TerritoriesOf[t][etagKey[t].snap]]
      BY <2>1, <3>2 DEF Shown
    <3> QED
      BY <2>4, <3>3, <3>4
  <2>5. CASE ~(Present(index[t]) /\ freshness[t].valid > 1)
    <3>1. ~(View(t).valid > 1)
      BY <2>1, <2>5 DEF Shown
    <3>2. ~(Present(index'[t]) /\ freshness'[t].valid > 0)
      BY <2>2, <2>3, <2>5, ConstantFacts DEF Less, Present
    <3>3. View(t)' = Cache!NoView
      BY <2>1, <3>2 DEF Shown, Cache!NoView, NoSnap
    <3> QED
      BY <3>1, <3>3
  <2> QED
    BY <2>4, <2>5
<1>3. CacheView' = [t \in Types |-> IF CacheView[t].valid > 1 THEN [CacheView[t] EXCEPT !.valid = @ - 1]
                                    ELSE Cache!NoView]
  BY <1>2 DEF CacheView
<1> QED
  BY <1>1, <1>3 DEF Cache!Tick, CacheView, Less, Cache!Snapshot, Snapshot

\* Every step is a step of the abstract cache, or shows nothing new.
LEMMA StepRefines ==
  WholeTTL /\ KnownInv /\ PublishInv /\ AllShown /\ AllShown' /\ [Next]_vars
    => [Cache!Next]_(Cache!vars)
<1> SUFFICES ASSUME WholeTTL, KnownInv, PublishInv, AllShown, AllShown', [Next]_vars
             PROVE  Cache!Next \/ UNCHANGED Cache!vars
  OBVIOUS
<1>1. ASSUME NEW t \in Types, SyncType(t) PROVE Cache!Next \/ UNCHANGED Cache!vars
  <2>1. CASE NotModified(t) \/ Updated(t)
    BY <2>1, AnsweredConfirms DEF Cache!Next
  <2>2. CASE Exec(t)
    BY <2>2, ExecMaterializes DEF Cache!Next, Cache!Snapshot, Snapshot
  <2>3. CASE ~(NotModified(t) \/ Updated(t) \/ Exec(t))
    <3>1. UNCHANGED <<upstream, keys, confirmed>>
      BY <1>1, <2>3 DEF SyncType, PollError, ReadIndex, ReadEntry, StoreError, Record
    <3> QED
      BY <3>1, Unseen
  <2> QED
    BY <2>1, <2>2, <2>3
<1>2. ASSUME NEW s \in Snapshot, Publish(s) PROVE Cache!Next
  <2>1. upstream'.snap = s /\ s > upstream.snap /\ UNCHANGED <<keys, confirmed>>
        /\ upstream.snap \in Snapshot
    BY <1>2 DEF Publish, KnownInv, ConfirmedInv, TypeInv, TypeOK
  <2>2. Cache!Publish
    BY <2>1, SameView, SnapAssumption DEF Cache!Publish, Snapshot
  <2> QED
    BY <2>2 DEF Cache!Next
<1>3. CASE Tick
  BY <1>3, TickTicks DEF Cache!Next
<1>4. CASE StartCycle \/ FlipStale \/ Crash \/ UNCHANGED vars
  <2>1. UNCHANGED <<keys, confirmed>> /\ upstream'.snap = upstream.snap
    BY <1>4 DEF StartCycle, FlipStale, Crash, vars, KnownInv, ConfirmedInv, TypeInv, TypeOK
  <2> QED
    BY <2>1, Unseen
<1>5. ASSUME NEW t \in Types, Evict(t) PROVE FALSE
  BY <1>5 DEF Evict, WholeTTL, KeysStay
<1> QED
  BY <1>1, <1>2, <1>3, <1>4, <1>5 DEF Next

\* The four kinds of keys, their timers, the ETag in memory and the steps of
\* the store calls together are one cached snapshot per type.
THEOREM ImplementsAnchorCache == ASSUME WholeTTL PROVE Spec => RefinesAnchorCache
<1>1. Init => Cache!Init
  BY DEF Init, Cache!Init, Cache!Snapshot, Snapshot, View, Cache!NoView, Present, NoIndex, NoSnap
<1>2. KnownInv /\ PublishInv => AllShown
  BY ViewIsShown DEF AllShown
<1>3. KnownInv /\ PublishInv /\ AllShown /\ AllShown' /\ [Next]_vars => [Cache!Next]_(Cache!vars)
  BY StepRefines
<1> QED
  BY KnownHolds, <1>1, <1>2, <1>3, PTL DEF Spec, RefinesAnchorCache, Cache!Spec
=============================================================================
