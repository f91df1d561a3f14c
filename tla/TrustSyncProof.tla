--------------------------- MODULE TrustSyncProof ---------------------------
(***************************************************************************)
(* TrustSync for every configuration, territory set and TTL, under every   *)
(* fault it models.                                                        *)
(***************************************************************************)
EXTENDS TrustSync, TLAPS

\* The bounds, as numbers.
LEMMA ConstantFacts ==
  /\ Len(Order) \in Nat \ {0}
  /\ \A i \in 1..Len(Order) : Order[i] \in Types
  /\ CacheTTL \in Nat \ {0} /\ KeyTTL \in 1..CacheTTL
  /\ MaxSnap \in Nat \ {0}
  /\ \A t \in Types, s \in Snapshot : TerritoriesOf[t][s] \in SUBSET Territory
<1>1. Len(Order) \in Nat \ {0} /\ DOMAIN Order = 1..Len(Order)
  BY OrderAssumption
<1>2. \A t \in Types, s \in Snapshot : TerritoriesOf[t][s] \in SUBSET Territory
  BY TerrAssumption
<1> QED
  BY <1>1, <1>2, TTLAssumption, SnapAssumption DEF Types

\* The types of the records that stand for absence.
LEMMA RecordTypes ==
  /\ NoEntry \in Entry /\ NoIndex \in IndexKey /\ NoEtag \in EtagKey
  /\ NoFresh \in TypeFreshness /\ Unpolled \in SyncCall
<1>1. [c \in Territory |-> NoPatch] \in [Territory -> Patch]
  BY ConstantFacts DEF NoPatch, Patch, NoSnap, AnySnap
<1> QED
  BY <1>1, ConstantFacts
     DEF NoEntry, Entry, NoIndex, IndexKey, NoEtag, EtagKey, NoFresh, TypeFreshness,
         Unpolled, SyncCall, NoSnap, AnySnap, Span

\* The types of keys that are written, refreshed or aged.
LEMMA TimerTypes ==
  /\ \A n \in Span : Less(n) \in Span
  /\ \A e \in Entry : AgedEntry(e) \in Entry /\ Expire(e) \in Entry
  /\ \A k \in IndexKey : AgedIndex(k) \in IndexKey /\ Expire(k) \in IndexKey
  /\ \A k \in EtagKey : AgedEtag(k) \in EtagKey /\ Expire(k) \in EtagKey
<1>1. \A n \in Span : Less(n) \in Span
  BY ConstantFacts DEF Span, Less
<1>2. ASSUME NEW e \in Entry PROVE AgedEntry(e) \in Entry /\ Expire(e) \in Entry
  <2>1. /\ e.snap \in AnySnap /\ e.stale \in BOOLEAN /\ e.valid \in Span /\ e.ttl \in Span
        /\ \A v, n \in Span : [e EXCEPT !.ttl = n, !.valid = v] \in Entry
        /\ \A n \in Span : [e EXCEPT !.ttl = n] \in Entry
    BY DEF Entry
  <2>2. \A n \in Span : n > 1 => n - 1 \in Span
    BY TTLAssumption DEF Span
  <2>3. KeyTTL \in Span
    BY ConstantFacts DEF Span
  <2> QED
    BY <1>1, <2>1, <2>2, <2>3, RecordTypes DEF AgedEntry, Expire
<1>3. ASSUME NEW k \in IndexKey PROVE AgedIndex(k) \in IndexKey /\ Expire(k) \in IndexKey
  BY ConstantFacts, RecordTypes DEF AgedIndex, Expire, Present, IndexKey, Span
<1>4. ASSUME NEW k \in EtagKey PROVE AgedEtag(k) \in EtagKey /\ Expire(k) \in EtagKey
  BY ConstantFacts, RecordTypes DEF AgedEtag, Expire, Present, EtagKey, Span
<1> QED
  BY <1>1, <1>2, <1>3, <1>4

-----------------------------------------------------------------------------
(* Types.  A transaction stores TerritoriesOf[t][op.snap], which is a set  *)
(* of territories only because a call that was answered has a snapshot.    *)

CallOK == op.step # "poll" => pos > 0 /\ op.snap \in Snapshot

TypeInv == TypeOK /\ CallOK

\* The keys, and the rest of what a step can change.
KeysOK ==
  /\ anchors \in [Types -> [Territory -> Entry]]
  /\ index \in [Types -> IndexKey]
  /\ etagKey \in [Types -> EtagKey]
  /\ freshness \in [Types -> Entry]

RestOK ==
  /\ upstream \in [snap : Snapshot, stale : BOOLEAN]
  /\ etags \in [Types -> AnySnap]
  /\ fresh \in [Types -> TypeFreshness]
  /\ pos \in 0..Len(Order)
  /\ op \in SyncCall
  /\ confirmed \in [Types -> [Snapshot -> Span]]
  /\ CallOK

\* The type invariant, in the two parts the actions disturb.
LEMMA Parts == TypeInv <=> KeysOK /\ RestOK
  BY DEF TypeInv, TypeOK, KeysOK, RestOK

\* An empty cache and a fresh process are well typed.
LEMMA InitType == Init => TypeInv
  BY ConstantFacts, RecordTypes
     DEF Init, TypeInv, TypeOK, CallOK, Unpolled, Snapshot, AnySnap, NoSnap, Span

\* Moving on to the next type of the cycle.
LEMMA NextTypeType ==
  ASSUME pos \in 1..Len(Order), NextType
  PROVE  pos' \in 0..Len(Order) /\ op' \in SyncCall /\ CallOK'
  BY ConstantFacts, RecordTypes DEF NextType, CallOK, Unpolled

\* Both transactions write keys of the right types.
LEMMA ExecKeys ==
  ASSUME TypeInv, NEW t \in Types, Exec(t)
  PROVE  KeysOK'
<1> USE DEF KeysOK
<1>1. /\ op.snap \in Snapshot /\ op.stale \in BOOLEAN /\ op.valid \in Span
      /\ op.patched \in [Territory -> Patch]
  BY DEF TypeInv, TypeOK, CallOK, SyncCall, Exec, Building
<1>2. KeyTTL \in Span /\ Snapshot \subseteq AnySnap
  BY TTLAssumption, SnapAssumption DEF Span, Snapshot, AnySnap
<1>3. \A s \in AnySnap, b \in BOOLEAN : NewEntry(s, b) \in Entry
  BY <1>1, <1>2 DEF NewEntry, Entry
<1>4. KeysOK
  BY DEF TypeInv, TypeOK
<1>5. CASE SwapKeys(t)
  <2> DEFINE next == TerritoriesOf[t][op.snap]
  <2>1. next \in SUBSET Territory
    BY <1>1, ConstantFacts
  <2>2. [c \in Territory |-> IF c \in next THEN NewEntry(op.snap, op.stale)
                             ELSE IF c \in op.prev THEN NoEntry
                             ELSE anchors[t][c]] \in [Territory -> Entry]
    BY <1>1, <1>2, <1>3, <1>4, RecordTypes
  <2>3. [terr |-> next, ttl |-> KeyTTL] \in IndexKey
        /\ [snap |-> op.snap, ttl |-> KeyTTL] \in EtagKey
    BY <1>1, <1>2, <2>1 DEF IndexKey, EtagKey
  <2> QED
    BY <1>1, <1>2, <1>3, <1>4, <1>5, <2>2, <2>3 DEF SwapKeys, NewKeys
<1>6. CASE RefreshKeys(t)
  <2>1. [c \in Territory |-> IF c \notin op.prev THEN anchors[t][c]
                             ELSE IF op.patched[c].snap # NoSnap
                                  THEN NewEntry(op.patched[c].snap, op.patched[c].stale)
                             ELSE Expire(anchors[t][c])] \in [Territory -> Entry]
    <3>1. \A c \in Territory : op.patched[c].snap \in AnySnap /\ op.patched[c].stale \in BOOLEAN
      BY <1>1 DEF Patch
    <3> QED
      BY <1>3, <1>4, <3>1, TimerTypes
  <2> QED
    BY <1>1, <1>2, <1>3, <1>4, <1>6, <2>1, TimerTypes DEF RefreshKeys, RestartedKeys
<1> QED
  BY <1>5, <1>6 DEF Exec

\* The call an answer starts.
LEMMA AnsweredType ==
  ASSUME TypeInv, NEW t \in Types, pos > 0,
         NEW mode \in {"swap", "refresh"}, NEW s \in Snapshot, NEW stale \in BOOLEAN,
         Answered(t, mode, s, stale)
  PROVE  TypeInv'
<1>1. s \in AnySnap /\ CacheTTL \in Span
  BY SnapAssumption, TTLAssumption DEF Snapshot, AnySnap, Span
<1>2. op' \in SyncCall /\ op'.snap = s
  BY <1>1 DEF TypeInv, TypeOK, Answered, SyncCall
<1>3. confirmed' \in [Types -> [Snapshot -> Span]]
  BY <1>1 DEF TypeInv, TypeOK, Answered
<1> QED
  BY <1>2, <1>3 DEF TypeInv, TypeOK, CallOK, Answered, keys, memory

\* Every step of a type's sync.
LEMMA SyncTypeType ==
  ASSUME TypeInv, NEW t \in Types, SyncType(t)
  PROVE  TypeInv'
<1> USE DEF keys, memory
<1>0. ASSUME pos > 0 PROVE pos \in 1..Len(Order)
  BY <1>0, ConstantFacts DEF TypeInv, TypeOK
<1>1. CASE PollError(t)
  BY <1>0, <1>1, NextTypeType DEF PollError, Polling, TypeInv, TypeOK
<1>2. CASE NotModified(t)
  <2>1. etags[t] \in Snapshot /\ pos > 0
    BY <1>2 DEF NotModified, Matches, Polling, TypeInv, TypeOK
  <2> QED
    BY <1>2, <2>1, AnsweredType DEF NotModified
<1>3. CASE Updated(t)
  <2>1. upstream.snap \in Snapshot /\ upstream.stale \in BOOLEAN /\ pos > 0
    BY <1>3 DEF Updated, Matches, Polling, TypeInv, TypeOK
  <2> QED
    BY <1>3, <2>1, AnsweredType DEF Updated
<1>4. CASE ReadIndex(t)
  <2>1. index[t].terr \in SUBSET Territory
    BY DEF TypeInv, TypeOK, IndexKey
  <2>2. op' \in SyncCall /\ op'.snap = op.snap
    BY <1>4, <2>1 DEF ReadIndex, TypeInv, TypeOK, SyncCall
  <2> QED
    BY <1>4, <2>2 DEF ReadIndex, TypeInv, TypeOK, CallOK
<1>5. ASSUME NEW c \in Territory, ReadEntry(t, c) PROVE TypeInv'
  <2>1. [snap |-> anchors[t][c].snap, stale |-> anchors[t][c].stale] \in Patch
    BY DEF TypeInv, TypeOK, Entry, Patch
  <2>2. op' \in SyncCall /\ op'.snap = op.snap
    BY <1>5, <2>1 DEF ReadEntry, TypeInv, TypeOK, SyncCall
  <2> QED
    BY <1>5, <2>2 DEF ReadEntry, Building, TypeInv, TypeOK, CallOK
<1>6. CASE StoreError(t)
  BY <1>0, <1>6, NextTypeType DEF StoreError, TypeInv, TypeOK
<1>7. CASE Exec(t)
  <2>1. KeysOK'
    BY <1>7, ExecKeys
  <2>2. pos > 0
    BY <1>7 DEF Exec, Building
  <2>3. CASE op' = [op EXCEPT !.step = "replied"] /\ UNCHANGED pos
    <3>1. op' \in SyncCall /\ op'.snap = op.snap
      BY <2>3 DEF TypeInv, TypeOK, SyncCall
    <3> QED
      BY <1>7, <2>1, <2>2, <2>3, <3>1
         DEF Exec, Building, TypeInv, TypeOK, KeysOK, CallOK
  <2>4. CASE NextType
    BY <1>0, <1>7, <2>1, <2>2, <2>4, NextTypeType DEF Exec, TypeInv, TypeOK, KeysOK
  <2> QED
    BY <1>7, <2>3, <2>4 DEF Exec
<1>8. CASE Record(t)
  <2>1. op.snap \in Snapshot /\ Snapshot \subseteq AnySnap /\ op.stale \in BOOLEAN /\ op.valid \in Span
    BY <1>8, SnapAssumption DEF Record, TypeInv, TypeOK, CallOK, SyncCall, Snapshot, AnySnap
  <2>2. etags' \in [Types -> AnySnap] /\ fresh' \in [Types -> TypeFreshness]
    BY <1>8, <2>1 DEF Record, TypeInv, TypeOK, TypeFreshness
  <2> QED
    BY <1>0, <1>8, <2>2, NextTypeType DEF Record, TypeInv, TypeOK
<1> QED
  BY <1>1, <1>2, <1>3, <1>4, <1>5, <1>6, <1>7, <1>8 DEF SyncType

\* Time passes for every key and record.
LEMMA TickType == TypeInv /\ Tick => TypeInv'
<1> SUFFICES ASSUME TypeInv, Tick PROVE TypeInv'
  OBVIOUS
<1>1. KeysOK'
  BY TimerTypes DEF TypeInv, TypeOK, KeysOK, Tick
<1>2. fresh' \in [Types -> TypeFreshness]
  BY TimerTypes DEF TypeInv, TypeOK, Tick, TypeFreshness
<1>3. op' \in SyncCall /\ op'.step = op.step /\ op'.snap = op.snap
  BY TimerTypes DEF TypeInv, TypeOK, Tick, SyncCall
<1>4. confirmed' \in [Types -> [Snapshot -> Span]]
  BY TimerTypes DEF TypeInv, TypeOK, Tick
<1> QED
  BY <1>1, <1>2, <1>3, <1>4 DEF TypeInv, TypeOK, KeysOK, CallOK, Tick

\* Every step keeps the types.
LEMMA TypeStep == TypeInv /\ [Next]_vars => TypeInv'
<1> SUFFICES ASSUME TypeInv, [Next]_vars PROVE TypeInv'
  OBVIOUS
<1> USE DEF keys, memory
<1>1. CASE StartCycle
  BY <1>1, ConstantFacts DEF StartCycle, TypeInv, TypeOK, CallOK
<1>2. ASSUME NEW t \in Types, SyncType(t) PROVE TypeInv'
  BY <1>2, SyncTypeType
<1>3. ASSUME NEW s \in Snapshot, Publish(s) PROVE TypeInv'
  BY <1>3 DEF Publish, TypeInv, TypeOK, CallOK
<1>4. CASE FlipStale
  BY <1>4 DEF FlipStale, TypeInv, TypeOK, CallOK
<1>5. CASE Tick
  BY <1>5, TickType
<1>6. ASSUME NEW t \in Types, Evict(t) PROVE TypeInv'
  <2>1. ASSUME NEW c \in Territory, anchors' = [anchors EXCEPT ![t][c] = NoEntry]
        PROVE  anchors' \in [Types -> [Territory -> Entry]]
    BY <2>1, RecordTypes DEF TypeInv, TypeOK
  <2>2. KeysOK'
    BY <1>6, <2>1, RecordTypes DEF Evict, TypeInv, TypeOK, KeysOK
  <2> QED
    BY <1>6, <2>2 DEF Evict, TypeInv, TypeOK, KeysOK, CallOK
<1>7. CASE Crash
  BY <1>7, ConstantFacts, RecordTypes
     DEF Crash, TypeInv, TypeOK, CallOK, Unpolled, NoSnap, AnySnap
<1>8. CASE UNCHANGED vars
  BY <1>8 DEF vars, TypeInv, TypeOK, CallOK
<1> QED
  BY <1>1, <1>2, <1>3, <1>4, <1>5, <1>6, <1>7, <1>8 DEF Next

\* Type correctness, with the position of the cycle and the call in flight.
THEOREM TypeInvHolds == Spec => []TypeInv
  BY InitType, TypeStep, PTL DEF Spec

\* Every key and every variable keeps its type, whatever fails.
THEOREM TypeCorrect == Spec => []TypeOK
  BY TypeInvHolds, PTL DEF TypeInv

-----------------------------------------------------------------------------
(* ConfirmedContent.  A 304 renews whatever the index lists without        *)
(* looking at it, so the theorem rests on what the worker remembers: its   *)
(* ETag is never newer than an entry the index lists, and no entry is      *)
(* newer than upstream.  When upstream matches the ETag, the entries in    *)
(* between are of that very snapshot; and while the refresh runs only its  *)
(* own EXEC could change that.                                             *)

\* A validUntil that is ahead is at most CacheTTL after its snapshot's last answer.
Backed(t, k) == k.valid > 0 => k.snap \in Snapshot /\ k.valid <= confirmed[t][k.snap]

Backing ==
  \A t \in Types :
    /\ \A c \in Territory : Backed(t, anchors[t][c])
    /\ Backed(t, freshness[t])
    /\ Backed(t, fresh[t])

MissingIsBlank ==
  \A t \in Types, c \in Territory :
    ~Present(anchors[t][c]) => anchors[t][c].snap = NoSnap

\* Every entry that one of the territories cs has is of a snapshot in ss.
EntriesAmong(t, cs, ss) ==
  \A c \in Territory : c \in cs /\ Present(anchors[t][c]) => anchors[t][c].snap \in ss

EtagsBehind ==
  \A t \in Types :
    /\ etags[t] <= upstream.snap
    /\ EntriesAmong(t, index[t].terr, etags[t]..upstream.snap)

\* The call in flight, for type t.
CallInv(t) ==
  /\ op.valid <= confirmed[t][op.snap]
  /\ etags[t] <= op.snap /\ op.snap <= upstream.snap
  /\ op.mode = "refresh" =>
       /\ op.snap = etags[t]
       /\ op.step = "index" => EntriesAmong(t, index[t].terr, {op.snap})
       /\ op.step = "build" =>
            /\ op.unread \subseteq op.prev
            /\ EntriesAmong(t, op.prev, {op.snap})
            /\ \A c \in Territory : op.patched[c].snap \in {NoSnap, op.snap}
  /\ op.mode = "swap" /\ op.step = "replied" => EntriesAmong(t, index[t].terr, {op.snap})

CallInFlight ==
  /\ op.step # "poll" => CallInv(Order[pos])
  /\ op.step \in {"poll", "index"} => \A c \in Territory : op.patched[c].snap = NoSnap

ConfirmedInv ==
  TypeInv /\ Backing /\ MissingIsBlank /\ EtagsBehind /\ CallInFlight

\* Nothing claims to be valid at the start.
LEMMA InitConfirmed == Init => ConfirmedInv
<1> SUFFICES ASSUME Init PROVE ConfirmedInv
  OBVIOUS
<1>1. TypeInv
  BY InitType
<1>2. Backing /\ MissingIsBlank
  BY DEF Init, Backing, Backed, MissingIsBlank, NoEntry, NoFresh
<1>3. EtagsBehind
  BY DEF Init, EtagsBehind, EntriesAmong, NoIndex, NoSnap
<1>4. CallInFlight
  BY DEF Init, CallInFlight, Unpolled, NoPatch
<1> QED
  BY <1>1, <1>2, <1>3, <1>4 DEF ConfirmedInv

\* What each action preserves, next to the types.
Kept == Backing' /\ MissingIsBlank' /\ EtagsBehind' /\ CallInFlight'

\* A type that has not been polled has no call.
LEMMA UnpolledCall == op' = Unpolled => CallInFlight'
  BY DEF Unpolled, NoPatch, CallInFlight

\* Nothing the invariant is about changes, but for the call, which ends.
LEMMA CallEnds ==
  ASSUME ConfirmedInv, NextType, UNCHANGED <<upstream, keys, memory, confirmed>>
  PROVE  Kept
<1> USE DEF Kept
<1>1. CallInFlight'
  BY UnpolledCall DEF NextType
<1> QED
  BY <1>1 DEF ConfirmedInv, keys, memory, Backing, Backed, MissingIsBlank, EtagsBehind, EntriesAmong

\* An answer only raises the confirmed horizon of its snapshot.
LEMMA AnsweredBacking ==
  ASSUME TypeInv, Backing, NEW t \in Types, NEW s \in Snapshot,
         confirmed' = [confirmed EXCEPT ![t][s] = CacheTTL], UNCHANGED <<keys, memory>>
  PROVE  Backing'
<1>1. ASSUME NEW u \in Types, NEW r \in Snapshot, NEW v \in Span, v <= confirmed[u][r]
      PROVE  v <= confirmed'[u][r]
  <2>1. confirmed'[u][r] = IF u = t /\ r = s THEN CacheTTL ELSE confirmed[u][r]
    BY DEF TypeInv, TypeOK
  <2> QED
    BY <1>1, <2>1, TTLAssumption DEF Span
<1>2. \A u \in Types : /\ \A c \in Territory : anchors[u][c].valid \in Span
                      /\ freshness[u].valid \in Span /\ fresh[u].valid \in Span
  BY DEF TypeInv, TypeOK, Entry, TypeFreshness
<1> QED
  BY <1>1, <1>2 DEF Backing, Backed, keys, memory

\* What the two answers have in common.
LEMMA AnsweredKept ==
  ASSUME ConfirmedInv, NEW t \in Types, Polling(t),
         NEW mode \in {"swap", "refresh"}, NEW s \in Snapshot, NEW stale \in BOOLEAN,
         Answered(t, mode, s, stale)
  PROVE  /\ Backing' /\ MissingIsBlank' /\ EtagsBehind'
         /\ op'.step = "index" /\ op'.mode = mode /\ op'.snap = s
         /\ op'.valid <= confirmed'[t][s]
         /\ \A c \in Territory : op'.patched[c].snap = NoSnap
<1> USE DEF keys, memory
<1>1. Backing'
  BY AnsweredBacking DEF ConfirmedInv, Answered
<1>2. MissingIsBlank' /\ EtagsBehind'
  BY DEF ConfirmedInv, Answered, MissingIsBlank, EtagsBehind, EntriesAmong
<1>3. op'.step = "index" /\ op'.mode = mode /\ op'.snap = s
      /\ op'.valid = CacheTTL /\ op'.patched = op.patched
  BY DEF Answered, ConfirmedInv, TypeInv, TypeOK, SyncCall
<1>4. confirmed'[t][s] = CacheTTL
  BY DEF Answered, ConfirmedInv, TypeInv, TypeOK
<1>5. \A c \in Territory : op.patched[c].snap = NoSnap
  BY DEF Polling, ConfirmedInv, CallInFlight
<1> QED
  BY <1>1, <1>2, <1>3, <1>4, <1>5, TTLAssumption

\* 304: the remembered ETag is upstream's, so the listed entries, which lie
\* between the two, are of the snapshot upstream has just confirmed.
LEMMA NotModifiedKept ==
  ASSUME ConfirmedInv, NEW t \in Types, NotModified(t)
  PROVE  Kept
<1>1. /\ t = Order[pos] /\ Polling(t) /\ etags[t] = upstream.snap
      /\ Answered(t, "refresh", etags[t], FALSE)
  BY DEF NotModified, Matches, Polling
<1>2. etags[t] \in Snapshot
  BY <1>1 DEF ConfirmedInv, TypeInv, TypeOK
<1>3. /\ Backing' /\ MissingIsBlank' /\ EtagsBehind'
      /\ op'.step = "index" /\ op'.mode = "refresh" /\ op'.snap = etags[t]
      /\ op'.valid <= confirmed'[t][etags[t]]
      /\ \A c \in Territory : op'.patched[c].snap = NoSnap
  BY <1>1, <1>2, AnsweredKept
<1>4. EntriesAmong(t, index[t].terr, {etags[t]})
  <2>1. \A n \in etags[t]..upstream.snap : n = etags[t]
    BY <1>1, <1>2 DEF Snapshot
  <2> QED
    BY <2>1 DEF ConfirmedInv, EtagsBehind, EntriesAmong
<1>5. UNCHANGED <<upstream, anchors, index, etags, pos>>
  BY <1>1 DEF Answered, keys, memory
<1>6. etags[t] <= etags[t] /\ etags[t] <= upstream.snap
  BY <1>1, <1>2 DEF Snapshot
<1>7. CallInv(Order[pos])'
  BY <1>1, <1>3, <1>4, <1>5, <1>6 DEF CallInv, EntriesAmong
<1> QED
  BY <1>3, <1>7 DEF Kept, CallInFlight

\* 200: the new snapshot is upstream's, which no remembered ETag is ahead of.
LEMMA UpdatedKept ==
  ASSUME ConfirmedInv, NEW t \in Types, Updated(t)
  PROVE  Kept
<1>1. /\ t = Order[pos] /\ Polling(t)
      /\ Answered(t, "swap", upstream.snap, upstream.stale)
  BY DEF Updated, Matches, Polling
<1>2. upstream.snap \in Snapshot /\ upstream.stale \in BOOLEAN
  BY DEF ConfirmedInv, TypeInv, TypeOK
<1>3. /\ Backing' /\ MissingIsBlank' /\ EtagsBehind'
      /\ op'.step = "index" /\ op'.mode = "swap" /\ op'.snap = upstream.snap
      /\ op'.valid <= confirmed'[t][upstream.snap]
      /\ \A c \in Territory : op'.patched[c].snap = NoSnap
  BY <1>1, <1>2, AnsweredKept
<1>4. UNCHANGED <<upstream, etags, pos>>
  BY <1>1 DEF Answered, memory
<1>5. etags[t] <= upstream.snap /\ upstream.snap <= upstream.snap
  BY <1>2 DEF ConfirmedInv, EtagsBehind, Snapshot
<1>6. CallInv(Order[pos])'
  BY <1>1, <1>3, <1>4, <1>5 DEF CallInv
<1> QED
  BY <1>3, <1>6 DEF Kept, CallInFlight

\* The read of the index.
LEMMA ReadIndexKept ==
  ASSUME ConfirmedInv, NEW t \in Types, ReadIndex(t)
  PROVE  Kept
<1> USE DEF keys, memory
<1>1. Backing' /\ MissingIsBlank' /\ EtagsBehind'
  BY DEF ReadIndex, ConfirmedInv, Backing, Backed, MissingIsBlank, EtagsBehind, EntriesAmong
<1>2. /\ t = Order[pos] /\ op.step = "index" /\ pos' = pos
      /\ UNCHANGED <<upstream, anchors, index, etags, confirmed>>
      /\ op'.step = "build" /\ op'.mode = op.mode /\ op'.snap = op.snap
      /\ op'.valid = op.valid /\ op'.prev = index[t].terr
      /\ op'.unread = (IF op.mode = "refresh" THEN index[t].terr ELSE {})
      /\ op'.patched = op.patched
  BY DEF ReadIndex, ConfirmedInv, TypeInv, TypeOK, SyncCall
<1>3. CallInv(t) /\ \A c \in Territory : op.patched[c].snap = NoSnap
  BY <1>2 DEF ConfirmedInv, CallInFlight
<1>4. CallInv(Order[pos])'
  BY <1>2, <1>3 DEF CallInv, EntriesAmong
<1> QED
  BY <1>1, <1>2, <1>4 DEF Kept, CallInFlight

\* The entry that is read is of the confirmed snapshot, or it is missing.
LEMMA ReadEntryKept ==
  ASSUME ConfirmedInv, NEW t \in Types, NEW c \in Territory, ReadEntry(t, c)
  PROVE  Kept
<1> USE DEF keys, memory
<1>1. Backing' /\ MissingIsBlank' /\ EtagsBehind'
  BY DEF ReadEntry, ConfirmedInv, Backing, Backed, MissingIsBlank, EtagsBehind, EntriesAmong
<1>2. /\ t = Order[pos] /\ op.step = "build" /\ pos' = pos /\ c \in op.unread
      /\ UNCHANGED <<upstream, anchors, index, etags, confirmed>>
      /\ op'.step = "build" /\ op'.mode = op.mode /\ op'.snap = op.snap
      /\ op'.valid = op.valid /\ op'.prev = op.prev /\ op'.unread = op.unread \ {c}
      /\ \A d \in Territory :
           op'.patched[d].snap = IF d = c THEN anchors[t][c].snap ELSE op.patched[d].snap
  BY DEF ReadEntry, Building, ConfirmedInv, TypeInv, TypeOK, SyncCall
<1>3. CallInv(t)
  BY <1>2 DEF ConfirmedInv, CallInFlight
<1>4. op.mode = "refresh" => anchors[t][c].snap \in {NoSnap, op.snap}
  BY <1>2, <1>3 DEF CallInv, EntriesAmong, ConfirmedInv, MissingIsBlank
<1>5. CallInv(Order[pos])'
  BY <1>2, <1>3, <1>4 DEF CallInv, EntriesAmong
<1> QED
  BY <1>1, <1>2, <1>5 DEF Kept, CallInFlight

\* Either transaction writes entries of this call's snapshot under this call's
\* validUntil, and leaves the others as they were but for their timers.
Written(t, c) ==
  Present(anchors'[t][c]) /\ anchors'[t][c].valid = op.valid /\ anchors'[t][c].snap = op.snap

SameContent(t, c) ==
  /\ anchors'[t][c].valid = anchors[t][c].valid
  /\ anchors'[t][c].snap = anchors[t][c].snap
  /\ Present(anchors'[t][c]) <=> Present(anchors[t][c])

\* What a swap writes is the call's.
LEMMA SwapWrites ==
  ASSUME TypeOK, NEW t \in Types, SwapKeys(t)
  PROVE  /\ \A c \in Territory : Written(t, c) \/ SameContent(t, c) \/ anchors'[t][c] = NoEntry
         /\ \A c \in index'[t].terr : c \in Territory => Written(t, c)
<1>1. \A c \in Territory :
        anchors'[t][c] = IF c \in TerritoriesOf[t][op.snap] THEN NewEntry(op.snap, op.stale)
                         ELSE IF c \in op.prev THEN NoEntry ELSE anchors[t][c]
  BY DEF SwapKeys, NewKeys, TypeOK
<1>2. index'[t].terr = TerritoriesOf[t][op.snap]
  BY DEF SwapKeys, NewKeys, TypeOK
<1>3. KeyTTL > 0
  BY TTLAssumption
<1> QED
  BY <1>1, <1>2, <1>3 DEF Written, SameContent, NewEntry, Present

\* What a refresh writes is what it read, under the call's horizon.
LEMMA RefreshWrites ==
  ASSUME TypeOK, NEW t \in Types, RefreshKeys(t),
         \A c \in Territory : op.patched[c].snap \in {NoSnap, op.snap}
  PROVE  /\ \A c \in Territory : Written(t, c) \/ SameContent(t, c)
         /\ index'[t].terr = index[t].terr
<1>1. \A c \in Territory :
        anchors'[t][c] = IF c \notin op.prev THEN anchors[t][c]
                         ELSE IF op.patched[c].snap # NoSnap
                              THEN NewEntry(op.patched[c].snap, op.patched[c].stale)
                         ELSE Expire(anchors[t][c])
  BY DEF RefreshKeys, RestartedKeys, TypeOK
<1>2. \A c \in Territory :
        /\ Expire(anchors[t][c]).valid = anchors[t][c].valid
        /\ Expire(anchors[t][c]).snap = anchors[t][c].snap
        /\ Present(Expire(anchors[t][c])) <=> Present(anchors[t][c])
  BY TTLAssumption DEF Expire, Present, TypeOK, Entry, Span
<1>3. index'[t].terr = index[t].terr
  BY DEF RefreshKeys, RestartedKeys, Expire, TypeOK, IndexKey
<1>4. ASSUME NEW c \in Territory PROVE Written(t, c) \/ SameContent(t, c)
  <2>1. CASE c \notin op.prev
    BY <1>1, <2>1 DEF SameContent
  <2>2. CASE c \in op.prev /\ op.patched[c].snap # NoSnap
    <3>1. anchors'[t][c] = NewEntry(op.snap, op.patched[c].stale)
      BY <1>1, <2>2
    <3> QED
      BY <3>1, TTLAssumption DEF Written, NewEntry, Present
  <2>3. CASE c \in op.prev /\ op.patched[c].snap = NoSnap
    <3>1. anchors'[t][c] = Expire(anchors[t][c])
      BY <1>1, <2>3
    <3> QED
      BY <1>2, <3>1 DEF SameContent
  <2> QED
    BY <2>1, <2>2, <2>3
<1> QED
  BY <1>3, <1>4

\* A transaction is backed by the answer its call carries.
LEMMA ExecKept ==
  ASSUME ConfirmedInv, NEW t \in Types, Exec(t)
  PROVE  Kept
<1>1. /\ t = Order[pos] /\ op.step = "build" /\ op.unread = {}
      /\ UNCHANGED <<upstream, etags, fresh, confirmed>>
  BY DEF Exec, Building, memory
<1>2. CallInv(t) /\ op.snap \in Snapshot /\ TypeOK
  BY <1>1 DEF ConfirmedInv, CallInFlight, TypeInv, CallOK
<1>3. \A c \in Territory : Written(t, c) \/ SameContent(t, c) \/ anchors'[t][c] = NoEntry
  BY <1>1, <1>2, SwapWrites, RefreshWrites DEF Exec, CallInv
<1>4. /\ freshness'[t].valid = op.valid /\ freshness'[t].snap = op.snap
      /\ \A u \in Types : u # t => /\ anchors'[u] = anchors[u] /\ index'[u] = index[u]
                                   /\ freshness'[u] = freshness[u]
  BY <1>2 DEF Exec, SwapKeys, NewKeys, RefreshKeys, RestartedKeys, NewEntry, TypeOK
<1>5. Backing'
  <2>1. op.snap \in Snapshot /\ op.valid <= confirmed'[t][op.snap]
    BY <1>1, <1>2 DEF CallInv
  <2> QED
    BY <1>1, <1>3, <1>4, <2>1 DEF ConfirmedInv, Backing, Backed, Written, SameContent, NoEntry
<1>6. MissingIsBlank'
  BY <1>3, <1>4 DEF ConfirmedInv, MissingIsBlank, Written, SameContent, NoEntry
<1>7. EtagsBehind'
  <2>1. op.snap \in etags[t]..upstream.snap
    BY <1>2 DEF CallInv, TypeOK, Snapshot, AnySnap
  <2>2. \A c \in Territory :
          c \in index'[t].terr =>
            Written(t, c) \/ (c \in index[t].terr /\ SameContent(t, c))
    BY <1>1, <1>2, SwapWrites, RefreshWrites DEF Exec, CallInv
  <2> QED
    BY <1>1, <1>4, <2>1, <2>2
       DEF ConfirmedInv, EtagsBehind, EntriesAmong, Written, SameContent
<1>8. CallInFlight'
  <2>1. CASE NextType
    BY <2>1, UnpolledCall DEF NextType
  <2>2. CASE op' = [op EXCEPT !.step = "replied"] /\ UNCHANGED pos
    <3>1. /\ op'.step = "replied" /\ op'.mode = op.mode /\ op'.snap = op.snap
          /\ op'.valid = op.valid
      BY <1>2, <2>2 DEF TypeOK, SyncCall
    <3>2. op.mode = "swap" =>
            \A c \in Territory : c \in index'[t].terr => anchors'[t][c].snap = op.snap
      BY <1>2, SwapWrites DEF Exec, Written
    <3>3. CallInv(Order[pos])'
      BY <1>1, <1>2, <2>2, <3>1, <3>2 DEF CallInv, EntriesAmong
    <3> QED
      BY <3>1, <3>3 DEF CallInFlight
  <2> QED
    BY <2>1, <2>2 DEF Exec
<1> QED
  BY <1>5, <1>6, <1>7, <1>8 DEF Kept

\* The ETag is remembered once the entries the index lists are of its snapshot.
LEMMA RecordKept ==
  ASSUME ConfirmedInv, NEW t \in Types, Record(t)
  PROVE  Kept
<1> USE DEF keys
<1>1. /\ t = Order[pos] /\ op.step = "replied"
      /\ UNCHANGED <<upstream, anchors, index, freshness, confirmed>>
  BY DEF Record
<1>2. CallInv(t) /\ op.snap \in Snapshot /\ TypeOK
  BY <1>1 DEF ConfirmedInv, CallInFlight, TypeInv, CallOK
<1>3. Backing'
  <2>1. \A u \in Types : fresh'[u] = IF u = t THEN [snap |-> op.snap, stale |-> op.stale,
                                                   valid |-> op.valid] ELSE fresh[u]
    BY <1>2 DEF Record, TypeOK
  <2>2. op.valid <= confirmed[t][op.snap]
    BY <1>2 DEF CallInv
  <2> QED
    BY <1>1, <1>2, <2>1, <2>2 DEF ConfirmedInv, Backing, Backed
<1>4. MissingIsBlank'
  BY <1>1 DEF ConfirmedInv, MissingIsBlank
<1>5. EtagsBehind'
  <2>1. CASE op.mode = "refresh"
    BY <1>1, <2>1 DEF Record, ConfirmedInv, EtagsBehind, EntriesAmong
  <2>2. CASE op.mode = "swap"
    <3>1. \A u \in Types : etags'[u] = IF u = t THEN op.snap ELSE etags[u]
      BY <1>2, <2>2 DEF Record, TypeOK
    <3>2. op.snap <= upstream.snap /\ op.snap \in op.snap..upstream.snap
      BY <1>2 DEF CallInv, TypeOK, Snapshot
    <3>3. EntriesAmong(t, index[t].terr, {op.snap})
      BY <1>1, <1>2, <2>2 DEF CallInv
    <3> QED
      BY <1>1, <3>1, <3>2, <3>3 DEF ConfirmedInv, EtagsBehind, EntriesAmong
  <2> QED
    BY <1>2, <2>1, <2>2 DEF TypeOK, SyncCall
<1>6. CallInFlight'
  BY UnpolledCall DEF Record, NextType
<1> QED
  BY <1>3, <1>4, <1>5, <1>6 DEF Kept

\* Upstream moves on: what is backed stays backed.
LEMMA UpstreamKept ==
  ASSUME ConfirmedInv, upstream'.snap \in Snapshot, upstream'.snap >= upstream.snap,
         UNCHANGED <<keys, memory, pos, op, confirmed>>
  PROVE  Kept
<1> USE DEF keys, memory
<1>1. Backing' /\ MissingIsBlank'
  BY DEF ConfirmedInv, Backing, Backed, MissingIsBlank
<1>2. upstream.snap \in Nat /\ upstream'.snap \in Nat /\ \A t \in Types : etags[t] \in Nat
  BY DEF ConfirmedInv, TypeInv, TypeOK, Snapshot, AnySnap
<1>3. \A t \in Types : /\ etags[t] <= upstream'.snap
                       /\ etags[t]..upstream.snap \subseteq etags[t]..upstream'.snap
  BY <1>2 DEF ConfirmedInv, EtagsBehind
<1>4. EtagsBehind'
  BY <1>3 DEF ConfirmedInv, EtagsBehind, EntriesAmong
<1>5. CallInFlight'
  <2>1. op.step # "poll" => op.snap \in Snapshot /\ op.snap <= upstream'.snap
    BY <1>2 DEF ConfirmedInv, CallInFlight, CallInv, TypeInv, CallOK, Snapshot
  <2> QED
    BY <2>1 DEF ConfirmedInv, CallInFlight, CallInv, EntriesAmong
<1> QED
  BY <1>1, <1>4, <1>5 DEF Kept

\* Time takes a tick from both sides of every comparison.
LEMMA TickKept ==
  ASSUME ConfirmedInv, Tick
  PROVE  Kept
<1>1. \A m, n \in Span : m <= n => Less(m) <= Less(n)
  BY TTLAssumption DEF Span, Less
<1>2. \A n \in Span : Less(n) > 0 => n > 0
  BY TTLAssumption DEF Span, Less
<1>3. TypeOK
  BY DEF ConfirmedInv, TypeInv
<1>4. \A u \in Types, s \in Snapshot :
        confirmed[u][s] \in Span /\ confirmed'[u][s] = Less(confirmed[u][s])
  BY <1>3 DEF Tick, TypeOK
<1>5. \A e \in Entry : \/ AgedEntry(e) = NoEntry
                       \/ /\ Present(e)
                          /\ Present(AgedEntry(e))
                          /\ AgedEntry(e).snap = e.snap
                          /\ AgedEntry(e).valid = Less(e.valid)
  BY DEF AgedEntry, Present, Entry, Span
<1>6. /\ \A u \in Types, c \in Territory :
           anchors[u][c] \in Entry /\ anchors'[u][c] = AgedEntry(anchors[u][c])
      /\ \A u \in Types :
           /\ freshness[u] \in Entry /\ freshness'[u] = AgedEntry(freshness[u])
           /\ index'[u].terr \subseteq index[u].terr
           /\ fresh[u].valid \in Span /\ fresh'[u].snap = fresh[u].snap
           /\ fresh'[u].valid = Less(fresh[u].valid)
  BY <1>3 DEF Tick, TypeOK, AgedIndex, NoIndex, IndexKey, TypeFreshness
<1>7. Backing'
  <2>1. ASSUME NEW u \in Types, NEW s, NEW v \in Span, v > 0 => s \in Snapshot /\ v <= confirmed[u][s]
        PROVE  Less(v) > 0 => s \in Snapshot /\ Less(v) <= confirmed'[u][s]
    BY <1>1, <1>2, <1>4, <2>1
  <2>2. \A e \in Entry : e.valid \in Span
    BY DEF Entry
  <2>3. NoEntry.valid = 0
    BY DEF NoEntry
  <2>4. ASSUME NEW u \in Types, NEW e \in Entry, Backed(u, e), AgedEntry(e).valid > 0
        PROVE  AgedEntry(e).snap \in Snapshot
               /\ AgedEntry(e).valid <= confirmed'[u][AgedEntry(e).snap]
    <3>1. AgedEntry(e).snap = e.snap /\ AgedEntry(e).valid = Less(e.valid)
      BY <1>5, <2>3, <2>4
    <3>2. e.valid > 0 => e.snap \in Snapshot /\ e.valid <= confirmed[u][e.snap]
      BY <2>4 DEF Backed
    <3> QED
      BY <2>1, <2>2, <2>4, <3>1, <3>2
  <2>5. \A u \in Types :
          /\ \A c \in Territory : Backed(u, anchors[u][c])
          /\ Backed(u, freshness[u]) /\ Backed(u, fresh[u])
    BY DEF ConfirmedInv, Backing
  <2>6. ASSUME NEW u \in Types, fresh'[u].valid > 0
        PROVE  fresh'[u].snap \in Snapshot /\ fresh'[u].valid <= confirmed'[u][fresh'[u].snap]
    <3>1. fresh[u].valid > 0 => fresh[u].snap \in Snapshot /\ fresh[u].valid <= confirmed[u][fresh[u].snap]
      BY <2>5 DEF Backed
    <3> QED
      BY <1>6, <2>1, <2>6, <3>1
  <2> QED
    BY <1>6, <2>4, <2>5, <2>6 DEF Backing, Backed
<1>8. MissingIsBlank'
  BY <1>5, <1>6 DEF MissingIsBlank, NoEntry
<1>9. ASSUME NEW u \in Types, NEW cs, NEW ds, NEW ss, ds \subseteq cs, EntriesAmong(u, cs, ss)
      PROVE  \A c \in Territory : c \in ds /\ Present(anchors'[u][c]) => anchors'[u][c].snap \in ss
  <2>1. ~Present(NoEntry)
    BY DEF Present, NoEntry
  <2> QED
    BY <1>5, <1>6, <1>9, <2>1 DEF EntriesAmong
<1>10. EtagsBehind'
  <2>1. UNCHANGED <<upstream, etags>>
    BY DEF Tick
  <2>2. ASSUME NEW u \in Types
        PROVE  /\ etags[u] <= upstream.snap
               /\ \A c \in Territory : c \in index'[u].terr /\ Present(anchors'[u][c])
                    => anchors'[u][c].snap \in etags[u]..upstream.snap
    <3>1. EntriesAmong(u, index[u].terr, etags[u]..upstream.snap) /\ etags[u] <= upstream.snap
      BY DEF ConfirmedInv, EtagsBehind
    <3>2. index'[u].terr \subseteq index[u].terr
      BY <1>6
    <3> QED
      BY <1>9, <3>1, <3>2
  <2> QED
    BY <2>1, <2>2 DEF EtagsBehind, EntriesAmong
<1>11. CallInFlight'
  <2>1. /\ op'.step = op.step /\ op'.mode = op.mode /\ op'.snap = op.snap /\ op'.prev = op.prev
        /\ op'.unread = op.unread /\ op'.patched = op.patched /\ op'.valid = Less(op.valid)
        /\ UNCHANGED <<upstream, etags, pos>>
    BY <1>3 DEF Tick, TypeOK, SyncCall
  <2>2. ASSUME op.step # "poll" PROVE CallInv(Order[pos])'
    <3> DEFINE t == Order[pos]
    <3>1. t \in Types /\ op.snap \in Snapshot /\ CallInv(t)
      BY <2>2, <1>3, ConstantFacts DEF ConfirmedInv, CallInFlight, TypeInv, CallOK, TypeOK
    <3>2. op'.valid <= confirmed'[t][op.snap]
      BY <1>1, <1>3, <1>4, <2>1, <3>1 DEF CallInv, TypeOK, SyncCall
    <3> HIDE DEF t
    <3>3. \A cs, ds : ds \subseteq cs /\ EntriesAmong(t, cs, {op.snap}) =>
            \A c \in Territory : c \in ds /\ Present(anchors'[t][c]) => anchors'[t][c].snap \in {op.snap}
      BY <1>9, <3>1
    <3>4. index'[t].terr \subseteq index[t].terr /\ op.prev \subseteq op.prev
      BY <1>6, <3>1
    <3>5. /\ op.step = "index" /\ op.mode = "refresh" =>
               \A c \in Territory : c \in index'[t].terr /\ Present(anchors'[t][c]) => anchors'[t][c].snap \in {op.snap}
          /\ op.step = "build" /\ op.mode = "refresh" =>
               \A c \in Territory : c \in op.prev /\ Present(anchors'[t][c]) => anchors'[t][c].snap \in {op.snap}
          /\ op.step = "replied" /\ op.mode = "swap" =>
               \A c \in Territory : c \in index'[t].terr /\ Present(anchors'[t][c]) => anchors'[t][c].snap \in {op.snap}
      BY <3>1, <3>3, <3>4 DEF CallInv
    <3> QED
      BY <2>1, <3>1, <3>2, <3>5 DEF CallInv, EntriesAmong, t
  <2> QED
    BY <2>1, <2>2 DEF ConfirmedInv, CallInFlight
<1> QED
  BY <1>7, <1>8, <1>10, <1>11 DEF Kept

\* A key that is lost claims nothing.
LEMMA EvictKept ==
  ASSUME ConfirmedInv, NEW t \in Types, Evict(t)
  PROVE  Kept
<1>1. UNCHANGED <<upstream, etags, fresh, pos, op, confirmed>> /\ TypeOK
  BY DEF Evict, memory, ConfirmedInv, TypeInv
<1>2. /\ \A u \in Types, c \in Territory :
           anchors'[u][c] = anchors[u][c] \/ anchors'[u][c] = NoEntry
      /\ \A u \in Types : /\ freshness'[u] = freshness[u] \/ freshness'[u] = NoEntry
                          /\ index'[u].terr \subseteq index[u].terr
  <2>1. ASSUME NEW c \in Territory, anchors' = [anchors EXCEPT ![t][c] = NoEntry]
        PROVE  \A u \in Types, d \in Territory :
                 anchors'[u][d] = anchors[u][d] \/ anchors'[u][d] = NoEntry
    BY <1>1, <2>1 DEF TypeOK
  <2>2. ASSUME index' = [index EXCEPT ![t] = NoIndex]
        PROVE  \A u \in Types : index'[u].terr \subseteq index[u].terr
    BY <1>1, <2>2 DEF TypeOK, NoIndex
  <2>3. ASSUME freshness' = [freshness EXCEPT ![t] = NoEntry]
        PROVE  \A u \in Types : freshness'[u] = freshness[u] \/ freshness'[u] = NoEntry
    BY <1>1, <2>3 DEF TypeOK
  <2> QED
    BY <2>1, <2>2, <2>3 DEF Evict
<1>3. ~Present(NoEntry) /\ NoEntry.valid = 0 /\ NoEntry.snap = NoSnap
  BY DEF Present, NoEntry
<1>4. Backing' /\ MissingIsBlank'
  BY <1>1, <1>2, <1>3 DEF ConfirmedInv, Backing, Backed, MissingIsBlank
<1>5. ASSUME NEW u \in Types, NEW cs, NEW ds, NEW ss, ds \subseteq cs, EntriesAmong(u, cs, ss)
      PROVE  \A c \in Territory : c \in ds /\ Present(anchors'[u][c]) => anchors'[u][c].snap \in ss
  BY <1>2, <1>3, <1>5 DEF EntriesAmong
<1>6. EtagsBehind'
  <2>1. ASSUME NEW u \in Types
        PROVE  /\ etags[u] <= upstream.snap
               /\ \A c \in Territory : c \in index'[u].terr /\ Present(anchors'[u][c])
                    => anchors'[u][c].snap \in etags[u]..upstream.snap
    <3>1. EntriesAmong(u, index[u].terr, etags[u]..upstream.snap) /\ etags[u] <= upstream.snap
      BY DEF ConfirmedInv, EtagsBehind
    <3>2. index'[u].terr \subseteq index[u].terr
      BY <1>2
    <3> QED
      BY <1>5, <3>1, <3>2
  <2> QED
    BY <1>1, <2>1 DEF EtagsBehind, EntriesAmong
<1>7. CallInFlight'
  <2>1. ASSUME op.step # "poll" PROVE CallInv(Order[pos])'
    <3> DEFINE u == Order[pos]
    <3>1. u \in Types /\ CallInv(u)
      BY <1>1, <2>1, ConstantFacts DEF ConfirmedInv, CallInFlight, TypeInv, CallOK, TypeOK
    <3> HIDE DEF u
    <3>2. \A cs, ds : ds \subseteq cs /\ EntriesAmong(u, cs, {op.snap}) =>
            \A c \in Territory : c \in ds /\ Present(anchors'[u][c]) => anchors'[u][c].snap \in {op.snap}
      BY <1>5, <3>1
    <3>3. index'[u].terr \subseteq index[u].terr /\ op.prev \subseteq op.prev
      BY <1>2, <3>1
    <3>4. /\ op.step = "index" /\ op.mode = "refresh" =>
               \A c \in Territory : c \in index'[u].terr /\ Present(anchors'[u][c]) => anchors'[u][c].snap \in {op.snap}
          /\ op.step = "build" /\ op.mode = "refresh" =>
               \A c \in Territory : c \in op.prev /\ Present(anchors'[u][c]) => anchors'[u][c].snap \in {op.snap}
          /\ op.step = "replied" /\ op.mode = "swap" =>
               \A c \in Territory : c \in index'[u].terr /\ Present(anchors'[u][c]) => anchors'[u][c].snap \in {op.snap}
      BY <3>1, <3>2, <3>3 DEF CallInv
    <3> QED
      BY <1>1, <3>1, <3>4 DEF CallInv, EntriesAmong, u
  <2> QED
    BY <1>1, <2>1 DEF ConfirmedInv, CallInFlight
<1> QED
  BY <1>4, <1>6, <1>7 DEF Kept

\* A restarted worker remembers nothing, which is behind everything.
LEMMA CrashKept ==
  ASSUME ConfirmedInv, Crash
  PROVE  Kept
<1> USE DEF keys
<1>1. Backing' /\ MissingIsBlank'
  BY DEF Crash, ConfirmedInv, Backing, Backed, MissingIsBlank, NoFresh
<1>2. ASSUME NEW t \in Types
      PROVE  0 <= upstream.snap /\ EntriesAmong(t, index[t].terr, 0..upstream.snap)
  <2>1. upstream.snap \in Nat /\ etags[t] \in Nat
    BY DEF ConfirmedInv, TypeInv, TypeOK, Snapshot, AnySnap
  <2>2. etags[t]..upstream.snap \subseteq 0..upstream.snap
    BY <2>1
  <2> QED
    BY <2>1, <2>2 DEF ConfirmedInv, EtagsBehind, EntriesAmong
<1>3. EtagsBehind'
  BY <1>2 DEF Crash, EtagsBehind, EntriesAmong, NoSnap
<1>4. CallInFlight'
  BY UnpolledCall DEF Crash
<1> QED
  BY <1>1, <1>3, <1>4 DEF Kept

\* Every step keeps what is claimed backed by an answer.
LEMMA ConfirmedStep == ConfirmedInv /\ [Next]_vars => ConfirmedInv'
<1> SUFFICES ASSUME ConfirmedInv, [Next]_vars PROVE ConfirmedInv'
  OBVIOUS
<1>1. TypeInv'
  BY TypeStep DEF ConfirmedInv
<1>2. CASE StartCycle
  <2>1. op.step = "poll" => CallInFlight'
    BY <1>2 DEF StartCycle, ConfirmedInv, CallInFlight
  <2>2. op.step = "poll"
    BY <1>2 DEF StartCycle, ConfirmedInv, TypeInv, CallOK
  <2> QED
    BY <1>1, <1>2, <2>1, <2>2
       DEF StartCycle, keys, memory, ConfirmedInv, Backing, Backed, MissingIsBlank,
           EtagsBehind, EntriesAmong
<1>3. ASSUME NEW t \in Types, SyncType(t) PROVE Kept
  BY <1>3, CallEnds, NotModifiedKept, UpdatedKept, ReadIndexKept, ReadEntryKept, ExecKept,
     RecordKept DEF SyncType, PollError, StoreError
<1>4. ASSUME NEW s \in Snapshot, Publish(s) PROVE Kept
  <2>1. upstream'.snap = s /\ s >= upstream.snap
    BY <1>4 DEF Publish, ConfirmedInv, TypeInv, TypeOK, Snapshot
  <2> QED
    BY <1>4, <2>1, UpstreamKept DEF Publish
<1>5. ASSUME FlipStale PROVE Kept
  <2>1. upstream'.snap = upstream.snap /\ upstream.snap \in Snapshot /\ upstream.snap >= upstream.snap
    BY <1>5 DEF FlipStale, ConfirmedInv, TypeInv, TypeOK, Snapshot
  <2> QED
    BY <1>5, <2>1, UpstreamKept DEF FlipStale
<1>6. ASSUME Tick PROVE Kept
  BY <1>6, TickKept
<1>7. ASSUME NEW t \in Types, Evict(t) PROVE Kept
  BY <1>7, EvictKept
<1>8. ASSUME Crash PROVE Kept
  BY <1>8, CrashKept
<1>9. CASE UNCHANGED vars
  BY <1>1, <1>9 DEF vars, keys, memory, ConfirmedInv, Backing, Backed, MissingIsBlank,
                    EtagsBehind, CallInFlight, CallInv, EntriesAmong
<1>10. Kept => ConfirmedInv'
  BY <1>1 DEF Kept, ConfirmedInv
<1> QED
  BY <1>2, <1>3, <1>4, <1>5, <1>6, <1>7, <1>8, <1>9, <1>10 DEF Next

\* The strengthened form of the fail-closed property.
THEOREM ConfirmedInvHolds == Spec => []ConfirmedInv
  BY InitConfirmed, ConfirmedStep, PTL DEF Spec

\* Fail closed, for every configuration and whatever is lost, restarted,
\* delayed or refused: no validity claim outlives CacheTTL after upstream last
\* answered with the snapshot it is about.
THEOREM ConfirmedAlways == Spec => []ConfirmedContent
<1>1. ConfirmedInv => ConfirmedContent
  BY DEF ConfirmedInv, Backing, Backed, ConfirmedContent, Served
<1> QED
  BY <1>1, ConfirmedInvHolds, PTL

-----------------------------------------------------------------------------
(* GoneAtMostAFractionEarly.  Every value a transaction writes comes with a *)
(* whole timer, a value it leaves alone may only have its timer restarted,  *)
(* and time takes both down together: the invariant is inductive.           *)

Close(e) == Present(e) => e.valid - e.ttl <= CacheTTL - KeyTTL

\* A fresh key, a refreshed one and none at all are within the fraction.
LEMMA CloseTimers ==
  /\ Close(NoEntry)
  /\ \A e \in Entry : Close(e) => Close(AgedEntry(e)) /\ Close(Expire(e))
<1>1. Close(NoEntry)
  BY DEF Close, Present, NoEntry
<1>2. ASSUME NEW e \in Entry, Close(e) PROVE Close(AgedEntry(e)) /\ Close(Expire(e))
  <2>1. /\ e.valid \in 0..CacheTTL /\ e.ttl \in 0..CacheTTL
        /\ \A n : [e EXCEPT !.ttl = n].valid = e.valid /\ [e EXCEPT !.ttl = n].ttl = n
        /\ \A m, n : [e EXCEPT !.ttl = n, !.valid = m].valid = m
                    /\ [e EXCEPT !.ttl = n, !.valid = m].ttl = n
    BY DEF Entry, Span
  <2>2. Close(AgedEntry(e))
    <3>1. CASE e.ttl > 1
      BY <1>2, <2>1, <3>1, ConstantFacts DEF AgedEntry, Less, Close, Present
    <3>2. CASE ~(e.ttl > 1)
      BY <1>1, <3>2 DEF AgedEntry
    <3> QED
      BY <3>1, <3>2
  <2>3. Close(Expire(e))
    BY <1>2, <2>1, ConstantFacts DEF Expire, Close, Present
  <2> QED
    BY <2>2, <2>3
<1> QED
  BY <1>1, <1>2

Fraction == \A t \in Types : Close(freshness[t]) /\ \A c \in Territory : Close(anchors[t][c])

\* Every step keeps the distance between validUntil and timer.
LEMMA FractionStep == TypeInv /\ Fraction /\ [Next]_vars => Fraction'
<1> SUFFICES ASSUME TypeInv, Fraction, [Next]_vars PROVE Fraction'
  OBVIOUS
<1>1. /\ anchors \in [Types -> [Territory -> Entry]]
      /\ freshness \in [Types -> Entry]
  BY DEF TypeInv, TypeOK
<1>2. ASSUME NEW t \in Types, Exec(t) PROVE Fraction'
  <2>1. op.valid \in 0..CacheTTL
    BY DEF TypeInv, TypeOK, SyncCall, Span
  <2>2. \A s, b : Close(NewEntry(s, b))
    BY <2>1, ConstantFacts DEF NewEntry, Close, Present
  <2>3. CASE SwapKeys(t)
    BY <1>1, <2>2, <2>3, CloseTimers DEF SwapKeys, NewKeys, Fraction
  <2>4. CASE RefreshKeys(t)
    BY <1>1, <2>2, <2>4, CloseTimers DEF RefreshKeys, RestartedKeys, Fraction
  <2> QED
    BY <1>2, <2>3, <2>4 DEF Exec
<1>3. CASE Tick
  BY <1>1, <1>3, CloseTimers DEF Tick, Fraction
<1>4. ASSUME NEW t \in Types, Evict(t) PROVE Fraction'
  BY <1>1, <1>4, CloseTimers DEF Evict, Fraction
<1>5. CASE UNCHANGED keys
  BY <1>5 DEF keys, Fraction
<1>6. ASSUME NEW t \in Types, SyncType(t), ~Exec(t) PROVE UNCHANGED keys
  BY <1>6
     DEF SyncType, PollError, NotModified, Updated, Answered, ReadIndex, ReadEntry, StoreError,
         Record
<1> QED
  BY <1>2, <1>3, <1>4, <1>5, <1>6 DEF Next, StartCycle, Publish, FlipStale, Crash, vars

\* Keys go before the validUntil they carry by the fraction of a second that
\* EX and EXPIRE cut off, and never earlier.
THEOREM FractionAlways == Spec => []GoneAtMostAFractionEarly
<1>1. Init => Fraction
  BY CloseTimers DEF Init, Fraction
<1>2. TypeInv /\ Fraction /\ [Next]_vars => Fraction'
  BY FractionStep
<1>3. Fraction => GoneAtMostAFractionEarly
  BY DEF Fraction, Close, GoneAtMostAFractionEarly
<1> QED
  BY TypeInvHolds, <1>1, <1>2, <1>3, PTL DEF Spec

-----------------------------------------------------------------------------
(* OneSnapshot and HorizonsAgree.  A transaction leaves no listed entry it *)
(* did not write: a swap writes what it lists, and a refresh every listed  *)
(* entry that was there when it read it, the others being gone for good.   *)

\* The listed entries of t carry the horizon of the freshness key, and the
\* snapshot that key and the ETag key name.
Agreement(t) ==
  Present(index[t]) => \A c \in Territory : c \in index[t].terr /\ Present(anchors[t][c]) =>
    /\ Present(etagKey[t]) => anchors[t][c].snap = etagKey[t].snap
    /\ Present(freshness[t]) => /\ anchors[t][c].snap = freshness[t].snap
                               /\ anchors[t][c].valid = freshness[t].valid

\* A stored entry names a snapshot.
Named == \A t \in Types, c \in Territory : Present(anchors[t][c]) => anchors[t][c].snap # NoSnap

\* What the store call in flight has read still describes an index that is
\* there: an entry it missed is missing, and one it kept is of the snapshot the
\* ETag key names.
ReadsHold(t) ==
  Present(index[t]) =>
    /\ index[t].terr = op.prev
    /\ op.mode = "refresh" => \A c \in Territory : c \in op.prev \ op.unread =>
         /\ op.patched[c].snap = NoSnap => ~Present(anchors[t][c])
         /\ op.patched[c].snap # NoSnap /\ Present(etagKey[t])
              => op.patched[c].snap = etagKey[t].snap

AgreeInv ==
  /\ Named
  /\ \A t \in Types : Agreement(t)
  /\ op.step = "build" => ReadsHold(Order[pos])

\* Keys are as they were, older, or gone, and no horizon moves by itself.
Faded ==
  \A t \in Types :
    /\ Present(index'[t]) => Present(index[t]) /\ index'[t].terr = index[t].terr
    /\ Present(etagKey'[t]) => Present(etagKey[t]) /\ etagKey'[t].snap = etagKey[t].snap
    /\ Present(freshness'[t]) => Present(freshness[t]) /\ freshness'[t].snap = freshness[t].snap
    /\ \A c \in Territory : Present(anchors'[t][c]) =>
         /\ Present(anchors[t][c]) /\ anchors'[t][c].snap = anchors[t][c].snap
         /\ Present(freshness'[t]) /\ anchors[t][c].valid = freshness[t].valid
              => anchors'[t][c].valid = freshness'[t].valid

\* What agrees goes on agreeing while keys only fade.
LEMMA FadedKept ==
  ASSUME AgreeInv, Faded
  PROVE  Named' /\ \A t \in Types : Agreement(t)'
<1>1. Named'
  BY DEF AgreeInv, Named, Faded
<1>2. ASSUME NEW t \in Types PROVE Agreement(t)'
  BY DEF AgreeInv, Agreement, Faded
<1> QED
  BY <1>1, <1>2

\* Nothing fades when no key changes.
LEMMA SameKeys == UNCHANGED keys => Faded
  BY DEF keys, Faded

\* What a store call has read stays true while keys only fade.
LEMMA ReadsKept ==
  ASSUME TypeInv, AgreeInv, Faded, op.step = "build", UNCHANGED pos,
         op'.mode = op.mode, op'.prev = op.prev, op'.unread = op.unread, op'.patched = op.patched
  PROVE  ReadsHold(Order[pos])'
<1>1. Order[pos] \in Types
  BY ConstantFacts DEF TypeInv, TypeOK, CallOK
<1> QED
  BY <1>1 DEF AgreeInv, ReadsHold, Faded

\* A tick makes all keys fade alike.
LEMMA TickFades == TypeInv /\ Tick => Faded
<1> SUFFICES ASSUME TypeInv, Tick PROVE Faded
  OBVIOUS
<1>1. ASSUME NEW e \in Entry, Present(AgedEntry(e))
      PROVE  Present(e) /\ AgedEntry(e).snap = e.snap /\ AgedEntry(e).valid = Less(e.valid)
  BY <1>1 DEF AgedEntry, Present, Entry, NoEntry, Span
<1>2. ASSUME NEW k \in IndexKey, Present(AgedIndex(k)) PROVE Present(k) /\ AgedIndex(k).terr = k.terr
  BY <1>2 DEF AgedIndex, Present, IndexKey, NoIndex, Span
<1>3. ASSUME NEW k \in EtagKey, Present(AgedEtag(k)) PROVE Present(k) /\ AgedEtag(k).snap = k.snap
  BY <1>3 DEF AgedEtag, Present, EtagKey, NoEtag, Span
<1>4. \A t \in Types :
        /\ index'[t] = AgedIndex(index[t]) /\ index[t] \in IndexKey
        /\ etagKey'[t] = AgedEtag(etagKey[t]) /\ etagKey[t] \in EtagKey
        /\ freshness'[t] = AgedEntry(freshness[t]) /\ freshness[t] \in Entry
        /\ \A c \in Territory : anchors'[t][c] = AgedEntry(anchors[t][c]) /\ anchors[t][c] \in Entry
  BY DEF Tick, TypeInv, TypeOK
<1> QED
  BY <1>1, <1>2, <1>3, <1>4 DEF Faded

\* An eviction is a fading.
LEMMA EvictFades ==
  ASSUME TypeInv, NEW t \in Types, Evict(t)
  PROVE  Faded
<1>1. ~Present(NoEntry) /\ ~Present(NoIndex) /\ ~Present(NoEtag)
  BY DEF Present, NoEntry, NoIndex, NoEtag
<1>2. ASSUME NEW c \in Territory, anchors' = [anchors EXCEPT ![t][c] = NoEntry],
             UNCHANGED <<index, etagKey, freshness>>
      PROVE  Faded
  <2>1. \A u \in Types, d \in Territory : anchors'[u][d] \in {anchors[u][d], NoEntry}
    BY <1>2 DEF TypeInv, TypeOK
  <2> QED
    BY <1>1, <1>2, <2>1 DEF Faded
<1>3. CASE index' = [index EXCEPT ![t] = NoIndex] /\ UNCHANGED <<anchors, etagKey, freshness>>
  BY <1>1, <1>3 DEF Faded, TypeInv, TypeOK
<1>4. CASE etagKey' = [etagKey EXCEPT ![t] = NoEtag] /\ UNCHANGED <<anchors, index, freshness>>
  BY <1>1, <1>4 DEF Faded, TypeInv, TypeOK
<1>5. CASE freshness' = [freshness EXCEPT ![t] = NoEntry] /\ UNCHANGED <<anchors, index, etagKey>>
  BY <1>1, <1>5 DEF Faded, TypeInv, TypeOK
<1> QED
  BY <1>2, <1>3, <1>4, <1>5 DEF Evict

\* After a transaction every listed entry is one it wrote, and the ETag key
\* names its snapshot.
LEMMA ExecLists ==
  ASSUME ConfirmedInv, AgreeInv, NEW t \in Types, Exec(t), Present(index'[t]),
         NEW c \in Territory, c \in index'[t].terr, Present(anchors'[t][c])
  PROVE  Written(t, c) /\ (Present(etagKey'[t]) => etagKey'[t].snap = op.snap)
<1>1. /\ t = Order[pos] /\ op.step = "build" /\ op.unread = {} /\ TypeOK
      /\ CallInv(t) /\ ReadsHold(t)
  BY DEF Exec, Building, ConfirmedInv, CallInFlight, TypeInv, AgreeInv
<1>2. CASE op.mode = "swap" /\ SwapKeys(t)
  <2>1. Written(t, c)
    BY <1>1, <1>2, SwapWrites
  <2> QED
    BY <1>1, <1>2, <2>1 DEF SwapKeys, NewKeys, TypeOK
<1>3. CASE op.mode = "refresh" /\ RefreshKeys(t)
  <2>1. /\ anchors'[t][c] = IF c \notin op.prev THEN anchors[t][c]
                            ELSE IF op.patched[c].snap # NoSnap
                                 THEN NewEntry(op.patched[c].snap, op.patched[c].stale)
                            ELSE Expire(anchors[t][c])
        /\ index'[t] = Expire(index[t]) /\ etagKey'[t] = Expire(etagKey[t])
    BY <1>1, <1>3 DEF RefreshKeys, RestartedKeys, TypeOK
  <2>2. /\ index'[t].terr = index[t].terr /\ Present(index[t])
        /\ etagKey'[t].snap = etagKey[t].snap
        /\ Present(etagKey'[t]) => Present(etagKey[t])
    BY <1>1, <2>1 DEF Expire, TypeOK, IndexKey, EtagKey
  <2>3. c \in op.prev /\ index[t].terr = op.prev
    BY <1>1, <2>2 DEF ReadsHold
  <2>4. op.patched[c].snap # NoSnap
    <3> SUFFICES ASSUME op.patched[c].snap = NoSnap PROVE FALSE
      OBVIOUS
    <3>1. ~Present(anchors[t][c])
      BY <1>1, <1>3, <2>2, <2>3 DEF ReadsHold
    <3> QED
      BY <2>1, <2>3, <3>1 DEF Expire
  <2>5. op.patched[c].snap = op.snap
    BY <1>1, <1>3, <2>4 DEF CallInv
  <2>6. Written(t, c)
    BY <2>1, <2>3, <2>4, <2>5, TTLAssumption DEF Written, NewEntry, Present
  <2>7. Present(etagKey[t]) => op.patched[c].snap = etagKey[t].snap
    BY <1>1, <1>3, <2>2, <2>3, <2>4 DEF ReadsHold
  <2> QED
    BY <2>2, <2>5, <2>6, <2>7
<1> QED
  BY <1>2, <1>3 DEF Exec

\* A transaction leaves keys of one snapshot and one horizon.
LEMMA ExecAgrees ==
  ASSUME ConfirmedInv, AgreeInv, NEW t \in Types, Exec(t)
  PROVE  AgreeInv'
<1>1. /\ t = Order[pos] /\ op.step = "build" /\ TypeOK /\ CallInv(t) /\ op.snap \in Snapshot
  BY DEF Exec, Building, ConfirmedInv, CallInFlight, TypeInv, CallOK
<1>2. /\ freshness'[t].valid = op.valid /\ freshness'[t].snap = op.snap
      /\ \A u \in Types : u # t => /\ anchors'[u] = anchors[u] /\ index'[u] = index[u]
                                   /\ etagKey'[u] = etagKey[u] /\ freshness'[u] = freshness[u]
  BY <1>1 DEF Exec, SwapKeys, NewKeys, RefreshKeys, RestartedKeys, NewEntry, TypeOK
<1>3. \A c \in Territory : Written(t, c) \/ SameContent(t, c) \/ anchors'[t][c] = NoEntry
  BY <1>1, SwapWrites, RefreshWrites DEF Exec, CallInv
<1>4. Named'
  <2>1. op.snap # NoSnap /\ ~Present(NoEntry)
    BY <1>1 DEF Snapshot, NoSnap, Present, NoEntry
  <2> QED
    BY <1>2, <1>3, <2>1 DEF AgreeInv, Named, Written, SameContent
<1>5. ASSUME NEW u \in Types PROVE Agreement(u)'
  <2>1. CASE u = t
    BY <1>2, <2>1, ExecLists DEF Agreement, Written
  <2>2. CASE u # t
    BY <1>2, <2>2 DEF AgreeInv, Agreement
  <2> QED
    BY <2>1, <2>2
<1>6. op'.step # "build"
  BY <1>1 DEF Exec, NextType, Unpolled, TypeOK, SyncCall
<1> QED
  BY <1>4, <1>5, <1>6 DEF AgreeInv

\* The first read: nothing has been looked at yet.
LEMMA ReadIndexAgrees ==
  ASSUME TypeInv, AgreeInv, NEW t \in Types, ReadIndex(t)
  PROVE  ReadsHold(Order[pos])'
<1>1. /\ t = Order[pos] /\ UNCHANGED <<anchors, index, etagKey, pos>>
      /\ op'.prev = index[t].terr /\ op'.mode = op.mode
      /\ op'.unread = (IF op.mode = "refresh" THEN index[t].terr ELSE {})
  BY DEF ReadIndex, TypeInv, TypeOK, SyncCall, keys
<1> QED
  BY <1>1 DEF ReadsHold

\* A read takes an entry of the snapshot the call expects.
LEMMA ReadEntryAgrees ==
  ASSUME ConfirmedInv, AgreeInv, NEW t \in Types, NEW c \in Territory, ReadEntry(t, c)
  PROVE  ReadsHold(Order[pos])'
<1>1. /\ t = Order[pos] /\ op.step = "build" /\ c \in op.unread
      /\ UNCHANGED <<anchors, index, etagKey, freshness, pos>>
      /\ op'.prev = op.prev /\ op'.mode = op.mode /\ op'.unread = op.unread \ {c}
      /\ \A d \in Territory :
           op'.patched[d].snap = IF d = c THEN anchors[t][c].snap ELSE op.patched[d].snap
  BY DEF ReadEntry, Building, ConfirmedInv, TypeInv, TypeOK, SyncCall, keys
<1>2. ReadsHold(t) /\ Agreement(t) /\ (Present(anchors[t][c]) => anchors[t][c].snap # NoSnap)
  BY <1>1 DEF AgreeInv, Named
<1>3. anchors[t][c].snap # NoSnap => Present(anchors[t][c])
  BY DEF ConfirmedInv, MissingIsBlank
<1> QED
  BY <1>1, <1>2, <1>3 DEF ReadsHold, Agreement

\* A step that leaves the keys alone, and a call that is not reading.
LEMMA IdleAgrees ==
  ASSUME AgreeInv, UNCHANGED keys, op'.step # "build"
  PROVE  AgreeInv'
  BY FadedKept, SameKeys DEF AgreeInv

\* Every step of a type's sync.
LEMMA SyncTypeAgrees ==
  ASSUME ConfirmedInv, AgreeInv, NEW t \in Types, SyncType(t)
  PROVE  AgreeInv'
<1>1. CASE PollError(t) \/ StoreError(t) \/ Record(t)
  BY <1>1, IdleAgrees DEF PollError, StoreError, Record, NextType, Unpolled
<1>2. CASE NotModified(t) \/ Updated(t)
  <2>1. UNCHANGED keys /\ op'.step = "index"
    BY <1>2 DEF NotModified, Updated, Answered, ConfirmedInv, TypeInv, TypeOK, SyncCall
  <2> QED
    BY <2>1, IdleAgrees
<1>3. CASE ReadIndex(t)
  <2>1. UNCHANGED keys
    BY <1>3 DEF ReadIndex
  <2>2. ReadsHold(Order[pos])'
    BY <1>3, ReadIndexAgrees DEF ConfirmedInv
  <2> QED
    BY <2>1, <2>2, FadedKept, SameKeys DEF AgreeInv
<1>4. ASSUME NEW c \in Territory, ReadEntry(t, c) PROVE AgreeInv'
  <2>1. UNCHANGED keys
    BY <1>4 DEF ReadEntry
  <2>2. ReadsHold(Order[pos])'
    BY <1>4, ReadEntryAgrees
  <2> QED
    BY <2>1, <2>2, FadedKept, SameKeys DEF AgreeInv
<1>5. CASE Exec(t)
  BY <1>5, ExecAgrees
<1> QED
  BY <1>1, <1>2, <1>3, <1>4, <1>5 DEF SyncType

\* The environment lets keys fade and leaves what was read as it was.
LEMMA WorldAgrees ==
  ASSUME TypeInv, AgreeInv, Faded, UNCHANGED pos,
         op'.step = op.step, op'.mode = op.mode, op'.prev = op.prev,
         op'.unread = op.unread, op'.patched = op.patched
  PROVE  AgreeInv'
  BY FadedKept, ReadsKept DEF AgreeInv

\* Every step keeps the agreement.
LEMMA AgreeStep == ConfirmedInv /\ AgreeInv /\ [Next]_vars => AgreeInv'
<1> SUFFICES ASSUME ConfirmedInv, AgreeInv, [Next]_vars PROVE AgreeInv'
  OBVIOUS
<1>1. TypeInv
  BY DEF ConfirmedInv
<1>2. CASE StartCycle
  <2>1. op.step # "build"
    BY <1>1, <1>2 DEF StartCycle, TypeInv, CallOK
  <2> QED
    BY <1>2, <2>1, IdleAgrees DEF StartCycle
<1>3. ASSUME NEW t \in Types, SyncType(t) PROVE AgreeInv'
  BY <1>3, SyncTypeAgrees
<1>4. CASE FlipStale \/ UNCHANGED vars \/ \E s \in Snapshot : Publish(s)
  BY <1>1, <1>4, WorldAgrees, SameKeys DEF FlipStale, Publish, vars
<1>5. CASE Tick
  <2>1. UNCHANGED pos /\ op'.step = op.step /\ op'.mode = op.mode /\ op'.prev = op.prev
        /\ op'.unread = op.unread /\ op'.patched = op.patched
    BY <1>1, <1>5 DEF Tick, TypeInv, TypeOK, SyncCall
  <2> QED
    BY <1>1, <1>5, <2>1, TickFades, WorldAgrees
<1>6. ASSUME NEW t \in Types, Evict(t) PROVE AgreeInv'
  <2>1. Faded /\ UNCHANGED <<pos, op>>
    BY <1>1, <1>6, EvictFades DEF Evict
  <2> QED
    BY <1>1, <2>1, WorldAgrees
<1>7. CASE Crash
  BY <1>7, IdleAgrees DEF Crash, Unpolled
<1> QED
  BY <1>2, <1>3, <1>4, <1>5, <1>6, <1>7 DEF Next

\* The keys of a type agree, under any faults.
THEOREM AgreeInvHolds == Spec => []AgreeInv
<1>1. Init => AgreeInv
  BY DEF Init, AgreeInv, Named, Agreement, Unpolled, Present, NoEntry, NoIndex
<1> QED
  BY ConfirmedInvHolds, <1>1, AgreeStep, PTL DEF Spec

\* The agreement, at a territory the index lists.
LEMMA AgreeTerritories ==
  ASSUME TypeInv, AgreeInv, NEW t \in Types, NEW c \in index[t].terr
  PROVE  c \in Territory /\ Agreement(t)
  BY DEF TypeInv, TypeOK, IndexKey, AgreeInv

\* Under any faults a reader that follows the index meets one snapshot per type.
THEOREM OneSnapshotAlways == Spec => []OneSnapshot
<1>1. TypeInv /\ AgreeInv => OneSnapshot
  BY AgreeTerritories DEF OneSnapshot, Agreement
<1> QED
  BY TypeInvHolds, AgreeInvHolds, <1>1, PTL

\* Under any faults the entries the index lists carry the horizon of the
\* freshness key.
THEOREM HorizonsAlwaysAgree == Spec => []HorizonsAgree
<1>1. TypeInv /\ AgreeInv => HorizonsAgree
  BY AgreeTerritories DEF HorizonsAgree, Agreement
<1> QED
  BY TypeInvHolds, AgreeInvHolds, <1>1, PTL

-----------------------------------------------------------------------------
(* Authoritative and Complete, for a Valkey that loses no key and store    *)
(* calls in which none expires.  The keys of a type then share one timer:  *)
(* they are written together, restarted together, and go together.         *)

KeysStay == "evict" \notin Faults /\ "slow" \notin Faults

Together(t) ==
  /\ Present(index[t]) =>
       /\ etagKey[t].ttl = index[t].ttl /\ freshness[t].ttl = index[t].ttl
       /\ etagKey[t].snap \in Snapshot /\ index[t].terr = TerritoriesOf[t][etagKey[t].snap]
       /\ \A c \in Territory : c \in index[t].terr => anchors[t][c].ttl = index[t].ttl
  /\ ~Present(index[t]) => index[t].terr = {}
  /\ \A c \in Territory : Present(anchors[t][c]) => Present(index[t]) /\ c \in index[t].terr

TogetherInv ==
  /\ \A t \in Types : Together(t)
  /\ op.step = "build" => op.prev = index[Order[pos]].terr

\* Steps that write no key.
LEMMA TogetherUnread ==
  ASSUME TogetherInv, UNCHANGED keys, op'.step # "build"
  PROVE  TogetherInv'
  BY DEF TogetherInv, Together, keys

\* A transaction gives the keys of a type one timer.
LEMMA ExecTogether ==
  ASSUME TypeInv, TogetherInv, NEW t \in Types, Exec(t)
  PROVE  TogetherInv'
<1>1. /\ t = Order[pos] /\ op.step = "build" /\ TypeOK /\ op.snap \in Snapshot
      /\ Together(t) /\ op.prev = index[t].terr
  BY DEF Exec, Building, TypeInv, CallOK, TogetherInv
<1>2. ASSUME NEW u \in Types, u # t PROVE Together(u)'
  <2>1. /\ anchors'[u] = anchors[u] /\ index'[u] = index[u] /\ etagKey'[u] = etagKey[u]
        /\ freshness'[u] = freshness[u]
    BY <1>1, <1>2 DEF Exec, SwapKeys, NewKeys, RefreshKeys, RestartedKeys, TypeOK
  <2> QED
    BY <2>1 DEF TogetherInv, Together
<1>3. ASSUME Exec(t) PROVE freshness'[t].ttl = KeyTTL
  BY <1>1, <1>3 DEF Exec, SwapKeys, NewKeys, RefreshKeys, RestartedKeys, NewEntry, TypeOK
<1>4. ASSUME SwapKeys(t) PROVE Together(t)'
  <2>1. /\ index'[t] = [terr |-> TerritoriesOf[t][op.snap], ttl |-> KeyTTL]
        /\ etagKey'[t] = [snap |-> op.snap, ttl |-> KeyTTL]
        /\ \A c \in Territory :
             anchors'[t][c] = IF c \in TerritoriesOf[t][op.snap] THEN NewEntry(op.snap, op.stale)
                              ELSE IF c \in op.prev THEN NoEntry ELSE anchors[t][c]
    BY <1>1, <1>4 DEF SwapKeys, NewKeys, TypeOK
  <2>2. /\ \A c \in Territory :
             anchors'[t][c].ttl = IF c \in index'[t].terr THEN KeyTTL
                                  ELSE IF c \in op.prev THEN 0 ELSE anchors[t][c].ttl
        /\ index'[t].ttl = KeyTTL /\ etagKey'[t].ttl = KeyTTL /\ etagKey'[t].snap = op.snap
        /\ index'[t].terr = TerritoriesOf[t][op.snap]
    BY <2>1 DEF NewEntry, NoEntry
  <2>3. Present(index'[t])
    BY <2>2, TTLAssumption DEF Present
  <2>4. \A c \in Territory : Present(anchors'[t][c]) => c \in index'[t].terr
    BY <1>1, <2>2 DEF Together, Present
  <2> QED
    BY <1>1, <1>3, <2>2, <2>3, <2>4 DEF Together
<1>5. ASSUME RefreshKeys(t) PROVE Together(t)'
  <2>1. /\ index'[t] = Expire(index[t]) /\ etagKey'[t] = Expire(etagKey[t])
        /\ \A c \in Territory :
             anchors'[t][c] = IF c \notin op.prev THEN anchors[t][c]
                              ELSE IF op.patched[c].snap # NoSnap
                                   THEN NewEntry(op.patched[c].snap, op.patched[c].stale)
                              ELSE Expire(anchors[t][c])
    BY <1>1, <1>5 DEF RefreshKeys, RestartedKeys, TypeOK
  <2>2. /\ index'[t].terr = index[t].terr /\ etagKey'[t].snap = etagKey[t].snap
        /\ Present(index'[t]) <=> Present(index[t])
        /\ Present(index[t]) => index'[t].ttl = KeyTTL
        /\ Present(etagKey[t]) => etagKey'[t].ttl = KeyTTL
    BY <1>1, <2>1, TTLAssumption DEF Expire, Present, TypeOK, IndexKey, EtagKey
  <2>3. CASE Present(index[t])
    <3>1. Present(etagKey[t]) /\ \A c \in Territory : c \in op.prev => Present(anchors[t][c])
      BY <1>1, <2>3 DEF Together, Present
    <3>2. \A c \in Territory : c \in op.prev => anchors'[t][c].ttl = KeyTTL
      <4>1. ASSUME NEW c \in Territory, c \in op.prev PROVE Expire(anchors[t][c]).ttl = KeyTTL
        BY <1>1, <3>1, <4>1 DEF Expire, TypeOK, Entry
      <4>2. \A r, b : NewEntry(r, b).ttl = KeyTTL
        BY DEF NewEntry
      <4> QED
        BY <2>1, <4>1, <4>2
    <3>3. \A c \in Territory : c \notin op.prev => ~Present(anchors'[t][c])
      BY <1>1, <2>1 DEF Together
    <3> QED
      BY <1>1, <1>3, <2>2, <2>3, <3>1, <3>2, <3>3 DEF Together
  <2>4. CASE ~Present(index[t])
    BY <1>1, <2>1, <2>2, <2>4 DEF Together
  <2> QED
    BY <2>3, <2>4
<1>6. op'.step # "build"
  BY <1>1 DEF Exec, NextType, Unpolled, TypeOK, SyncCall
<1> QED
  BY <1>2, <1>4, <1>5, <1>6 DEF Exec, TogetherInv

\* Keys with one timer expire in the same tick.
LEMMA TickTogether ==
  ASSUME KeysStay, TypeInv, TogetherInv, Tick
  PROVE  TogetherInv'
<1>1. op'.step # "build"
  BY DEF Tick, KeysStay, TypeInv, TypeOK, SyncCall
<1>2. ASSUME NEW t \in Types PROVE Together(t)'
  <2>1. /\ index'[t] = AgedIndex(index[t]) /\ index[t] \in IndexKey
        /\ etagKey'[t] = AgedEtag(etagKey[t]) /\ etagKey[t] \in EtagKey
        /\ \A c \in Territory : anchors'[t][c] = AgedEntry(anchors[t][c]) /\ anchors[t][c] \in Entry
    BY DEF Tick, TypeInv, TypeOK
  <2>2. \A c \in Territory :
          anchors'[t][c].ttl = IF anchors[t][c].ttl > 1 THEN anchors[t][c].ttl - 1 ELSE 0
    <3>1. ASSUME NEW e \in Entry PROVE AgedEntry(e).ttl = IF e.ttl > 1 THEN e.ttl - 1 ELSE 0
      <4>1. CASE e.ttl > 1
        BY <4>1 DEF AgedEntry, Entry
      <4>2. CASE ~(e.ttl > 1)
        BY <4>2 DEF AgedEntry, NoEntry
      <4> QED
        BY <4>1, <4>2
    <3> QED
      BY <2>1, <3>1
  <2>3. CASE index[t].ttl > 1
    <3>1. /\ index'[t].terr = index[t].terr /\ index'[t].ttl = index[t].ttl - 1
          /\ etagKey[t].ttl = index[t].ttl
      BY <2>1, <2>3 DEF AgedIndex, IndexKey, TogetherInv, Together, Present, Span
    <3>2. etagKey'[t].snap = etagKey[t].snap /\ etagKey'[t].ttl = index'[t].ttl
      BY <2>1, <2>3, <3>1 DEF AgedEtag, EtagKey
    <3>3. freshness'[t].ttl = index'[t].ttl
      <4>1. /\ freshness'[t] = AgedEntry(freshness[t]) /\ freshness[t] \in Entry
            /\ freshness[t].ttl = index[t].ttl
        <5>1. Present(index[t])
          BY <2>1, <2>3 DEF Present, IndexKey, Span
        <5>2. freshness[t].ttl = index[t].ttl
          BY <5>1 DEF TogetherInv, Together
        <5> QED
          BY <5>2 DEF Tick, TypeInv, TypeOK
      <4> QED
        BY <2>3, <3>1, <4>1 DEF AgedEntry, Entry
    <3> QED
      BY <2>1, <2>2, <2>3, <3>1, <3>2, <3>3 DEF TogetherInv, Together, Present, IndexKey, Entry, Span
  <2>4. CASE ~(index[t].ttl > 1)
    <3>1. index'[t] = NoIndex
      BY <2>1, <2>4 DEF AgedIndex
    <3>2. \A c \in Territory : ~(anchors[t][c].ttl > 1)
      BY <2>1, <2>4 DEF TogetherInv, Together, Present, Entry, IndexKey, Span
    <3> QED
      BY <2>2, <3>1, <3>2 DEF Together, Present, NoIndex
  <2> QED
    BY <2>3, <2>4
<1> QED
  BY <1>1, <1>2 DEF TogetherInv

\* Every step keeps the keys together where none is evicted.
LEMMA TogetherStep == KeysStay /\ TypeInv /\ TogetherInv /\ [Next]_vars => TogetherInv'
<1> SUFFICES ASSUME KeysStay, TypeInv, TogetherInv, [Next]_vars PROVE TogetherInv'
  OBVIOUS
<1>1. ASSUME NEW t \in Types, SyncType(t) PROVE TogetherInv'
  <2>1. CASE PollError(t) \/ StoreError(t) \/ Record(t)
    BY <2>1, TogetherUnread DEF PollError, StoreError, Record, NextType, Unpolled
  <2>2. CASE NotModified(t) \/ Updated(t)
    <3>1. UNCHANGED keys /\ op'.step = "index"
      BY <2>2 DEF NotModified, Updated, Answered, TypeInv, TypeOK, SyncCall
    <3> QED
      BY <3>1, TogetherUnread
  <2>3. CASE ReadIndex(t)
    <3>1. UNCHANGED <<keys, pos>> /\ t = Order[pos] /\ op'.prev = index[t].terr
      BY <2>3 DEF ReadIndex, TypeInv, TypeOK, SyncCall
    <3> QED
      BY <3>1 DEF TogetherInv, Together, keys
  <2>4. ASSUME NEW c \in Territory, ReadEntry(t, c) PROVE TogetherInv'
    <3>1. UNCHANGED <<keys, pos>> /\ op'.prev = op.prev /\ op.step = "build"
      BY <2>4 DEF ReadEntry, Building, TypeInv, TypeOK, SyncCall
    <3> QED
      BY <3>1 DEF TogetherInv, Together, keys
  <2>5. CASE Exec(t)
    BY <2>5, ExecTogether
  <2> QED
    BY <1>1, <2>1, <2>2, <2>3, <2>4, <2>5 DEF SyncType
<1>2. CASE StartCycle
  <2>1. op.step # "build"
    BY <1>2 DEF StartCycle, TypeInv, CallOK
  <2> QED
    BY <1>2, <2>1, TogetherUnread DEF StartCycle
<1>3. CASE FlipStale \/ UNCHANGED vars \/ \E s \in Snapshot : Publish(s)
  BY <1>3 DEF FlipStale, Publish, vars, keys, TogetherInv, Together
<1>4. CASE Tick
  BY <1>4, TickTogether
<1>5. ASSUME NEW t \in Types, Evict(t) PROVE FALSE
  BY <1>5 DEF Evict, KeysStay
<1>6. CASE Crash
  BY <1>6, TogetherUnread DEF Crash, Unpolled
<1> QED
  BY <1>1, <1>2, <1>3, <1>4, <1>5, <1>6 DEF Next

\* Where no key is evicted the keys of a type live and die together.
THEOREM TogetherHolds == ASSUME KeysStay PROVE Spec => []TogetherInv
<1>1. Init => TogetherInv
  BY DEF Init, TogetherInv, Together, Unpolled, Present, NoEntry, NoIndex
<1>2. TypeInv /\ TogetherInv /\ [Next]_vars => TogetherInv'
  BY TogetherStep
<1> QED
  BY TypeInvHolds, <1>1, <1>2, PTL DEF Spec

\* No entry is stored that the index does not list.
THEOREM AlwaysAuthoritative == ASSUME KeysStay PROVE Spec => []Authoritative
<1>1. TogetherInv => Authoritative
  BY DEF TogetherInv, Together, Authoritative
<1> QED
  BY TogetherHolds, <1>1, PTL

\* As long as its index is there a snapshot is there as a whole.
THEOREM AlwaysComplete == ASSUME KeysStay PROVE Spec => []Complete
<1>1. TypeInv /\ TogetherInv => Complete
  BY DEF TogetherInv, Together, Complete, Present, TypeInv, TypeOK, IndexKey
<1> QED
  BY TypeInvHolds, TogetherHolds, <1>1, PTL

\* Any entry a verifier finds, listed or not, has its ETag key and its freshness
\* key, of one snapshot and with one horizon.
THEOREM EveryEntryAlwaysAgrees == ASSUME KeysStay PROVE Spec => []EveryEntryAgrees
<1>1. TypeInv /\ AgreeInv /\ TogetherInv => EveryEntryAgrees
  <2> SUFFICES ASSUME TypeInv, AgreeInv, TogetherInv,
                      NEW t \in Types, NEW c \in Territory, Present(anchors[t][c])
               PROVE  /\ Present(etagKey[t]) /\ Present(freshness[t])
                      /\ anchors[t][c].snap = etagKey[t].snap
                      /\ anchors[t][c].snap = freshness[t].snap
                      /\ anchors[t][c].valid = freshness[t].valid
    BY DEF EveryEntryAgrees
  <2>1. c \in index[t].terr /\ Present(index[t]) /\ Present(etagKey[t]) /\ Present(freshness[t])
    BY DEF TogetherInv, Together, Present
  <2> QED
    BY <2>1, AgreeTerritories DEF Agreement
<1> QED
  BY TypeInvHolds, AgreeInvHolds, TogetherHolds, <1>1, PTL
=============================================================================
