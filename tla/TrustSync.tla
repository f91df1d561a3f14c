----------------------------- MODULE TrustSync -----------------------------
(***************************************************************************)
(* One worker that polls the trust service for each configured anchor type *)
(* and materializes the answer into Valkey: internal/trustsync (SyncAll,   *)
(* SyncType), internal/valkeystore (SwapAnchorType, RefreshAnchorType) and *)
(* the freshness record of internal/health that /readyz answers from.      *)
(*                                                                         *)
(* Time is a set of timers.  A Valkey key carries the ticks it has left    *)
(* ("ttl", 0 = no such key) and every validUntil the code writes, in an    *)
(* entry, in a freshness record or in the worker's memory, is the ticks    *)
(* left until that instant ("valid", 0 = passed).  Tick moves them all.    *)
(***************************************************************************)
EXTENDS Integers, Sequences, FiniteSets

CONSTANTS
  Order,          \* the configured anchor types, in configuration order
  Territory,      \* the territories anchors can belong to
  MaxSnap,        \* snapshots upstream may publish: 1..MaxSnap, in that order
  TerritoriesOf,  \* TerritoriesOf[t][s]: the territories with a type-t anchor in s
  CacheTTL,       \* trust_sync.cache_ttl, in ticks
  KeyTTL,         \* the same duration as EX and EXPIRE get it: whole seconds
  Faults          \* what the environment of this instance may do

Types == {Order[i] : i \in DOMAIN Order}
NoSnap == 0
Snapshot == 1..MaxSnap
AnySnap == 0..MaxSnap
Span == 0..CacheTTL

\* "error": an upstream or Valkey call fails;  "lost": EXEC is applied and its
\* reply is not received;  "crash": the process restarts;  "evict": Valkey loses
\* a key;  "slow": time passes between a store call's first read and its EXEC;
\* "stale": upstream flags or unflags its answers as stale.
Fault == {"error", "lost", "crash", "evict", "slow", "stale"}

ASSUME OrderAssumption == Order \in Seq(STRING) /\ Len(Order) > 0
ASSUME SnapAssumption  == MaxSnap \in Nat \ {0}
ASSUME TTLAssumption   == /\ CacheTTL \in Nat \ {0}
                          /\ KeyTTL \in 1..CacheTTL
ASSUME TerrAssumption  == TerritoriesOf \in [Types -> [Snapshot -> SUBSET Territory]]
ASSUME FaultAssumption == Faults \subseteq Fault

VARIABLES
  upstream,   \* the trust service: its current snapshot and stale flag
  anchors,    \* anchors[t][c]: key trust:anchors:t:c
  index,      \* index[t]:     key trust:anchors:territories:t
  etagKey,    \* etagKey[t]:   key trust:anchors:etag:t
  freshness,  \* freshness[t]: key trust:freshness:t
  etags,      \* Syncer.etags
  fresh,      \* State.fresh (snap = NoSnap: the type has no record)
  pos,        \* the cycle in flight is at Order[pos]; 0 = no cycle
  op,         \* SyncType's local variables for Order[pos]
  confirmed   \* confirmed[t][s]: ticks left of the CacheTTL that began when
              \* upstream last answered s for t (history, read by properties)

keys == <<anchors, index, etagKey, freshness>>
memory == <<etags, fresh>>
vars == <<upstream, keys, memory, pos, op, confirmed>>

NoEntry == [snap |-> NoSnap, stale |-> FALSE, valid |-> 0, ttl |-> 0]
NoIndex == [terr |-> {}, ttl |-> 0]
NoEtag  == [snap |-> NoSnap, ttl |-> 0]
NoFresh == [snap |-> NoSnap, stale |-> FALSE, valid |-> 0]
NoPatch == [snap |-> NoSnap, stale |-> FALSE]

Entry == [snap : AnySnap, stale : BOOLEAN, valid : Span, ttl : Span]
IndexKey == [terr : SUBSET Territory, ttl : Span]
EtagKey == [snap : AnySnap, ttl : Span]
TypeFreshness == [snap : AnySnap, stale : BOOLEAN, valid : Span]
Patch == [snap : AnySnap, stale : BOOLEAN]

\* A SyncType call that has not polled yet.
Unpolled == [step |-> "poll", mode |-> "swap", snap |-> NoSnap, stale |-> FALSE,
             valid |-> 0, prev |-> {}, unread |-> {},
             patched |-> [c \in Territory |-> NoPatch]]

SyncCall == [step : {"poll", "index", "build", "replied"}, mode : {"swap", "refresh"},
             snap : AnySnap, stale : BOOLEAN, valid : Span,
             prev : SUBSET Territory, unread : SUBSET Territory,
             patched : [Territory -> Patch]]

Present(k) == k.ttl > 0

Init ==
  /\ upstream = [snap |-> 1, stale |-> FALSE]
  /\ anchors = [t \in Types |-> [c \in Territory |-> NoEntry]]
  /\ index = [t \in Types |-> NoIndex]
  /\ etagKey = [t \in Types |-> NoEtag]
  /\ freshness = [t \in Types |-> NoEntry]
  /\ etags = [t \in Types |-> NoSnap]
  /\ fresh = [t \in Types |-> NoFresh]
  /\ pos = 0
  /\ op = Unpolled
  /\ confirmed = [t \in Types |-> [s \in Snapshot |-> 0]]

-----------------------------------------------------------------------------
(* The cycle: SyncAll calls SyncType for each type in order and goes on    *)
(* to the next whatever the call returned.                                 *)

StartCycle ==
  /\ pos = 0
  /\ pos' = 1
  /\ UNCHANGED <<upstream, keys, memory, op, confirmed>>

NextType ==
  /\ pos' = IF pos < Len(Order) THEN pos + 1 ELSE 0
  /\ op' = Unpolled

Polling(t) == pos > 0 /\ t = Order[pos] /\ op.step = "poll"

\* client.Anchors returns an error: SyncType writes nothing.
PollError(t) ==
  /\ "error" \in Faults
  /\ Polling(t)
  /\ NextType
  /\ UNCHANGED <<upstream, keys, memory, confirmed>>

\* Mutant: the horizon is computed from the key's expiry, not from now.
AnsweredTooLong(t, mode, s, stale) ==
  /\ op' = [op EXCEPT !.step = "index", !.mode = mode, !.snap = s,
                      !.stale = stale, !.valid = CacheTTL + KeyTTL]
  /\ confirmed' = [confirmed EXCEPT ![t][s] = CacheTTL]
  /\ UNCHANGED <<upstream, keys, memory, pos>>

\* Mutant: the health state is told before the store call.
AnsweredReadyFirst(t, mode, s, stale) ==
  /\ op' = [op EXCEPT !.step = "index", !.mode = mode, !.snap = s,
                      !.stale = stale, !.valid = CacheTTL]
  /\ confirmed' = [confirmed EXCEPT ![t][s] = CacheTTL]
  /\ fresh' = [fresh EXCEPT ![t] = [snap |-> s, stale |-> stale, valid |-> CacheTTL]]
  /\ UNCHANGED <<upstream, keys, etags, pos>>

\* The answer sets this call's snapshot, stale flag and validUntil.
Answered(t, mode, s, stale) ==
  /\ op' = [op EXCEPT !.step = "index", !.mode = mode, !.snap = s,
                      !.stale = stale, !.valid = CacheTTL]
  /\ confirmed' = [confirmed EXCEPT ![t][s] = CacheTTL]
  /\ UNCHANGED <<upstream, keys, memory, pos>>

\* The trust service compares If-None-Match, which is absent as long as nothing
\* is remembered, with its own ETag.
Matches(t) == etags[t] # NoSnap /\ etags[t] = upstream.snap

\* 304: the remembered ETag is still upstream's.  The freshness record built
\* from it leaves UpstreamStale unset.
NotModified(t) ==
  /\ Polling(t)
  /\ Matches(t)
  /\ Answered(t, "refresh", etags[t], FALSE)

\* Mutant: the ETag is remembered before the swap is committed.
UpdatedEtagFirst(t) ==
  /\ Polling(t)
  /\ ~Matches(t)
  /\ op' = [op EXCEPT !.step = "index", !.mode = "swap", !.snap = upstream.snap,
                      !.stale = upstream.stale, !.valid = CacheTTL]
  /\ confirmed' = [confirmed EXCEPT ![t][upstream.snap] = CacheTTL]
  /\ etags' = [etags EXCEPT ![t] = upstream.snap]
  /\ UNCHANGED <<upstream, keys, fresh, pos>>

\* 200: the first poll of this process, or a snapshot it does not remember.
Updated(t) ==
  /\ Polling(t)
  /\ ~Matches(t)
  /\ Answered(t, "swap", upstream.snap, upstream.stale)

-----------------------------------------------------------------------------
(* The store calls.                                                        *)

\* Both store calls first read the territory index; a missing index is the
\* empty list.  The refresh then reads the entry of each listed territory.
ReadIndex(t) ==
  /\ pos > 0 /\ t = Order[pos] /\ op.step = "index"
  /\ op' = [op EXCEPT !.step = "build", !.prev = index[t].terr,
                      !.unread = IF op.mode = "refresh" THEN index[t].terr ELSE {}]
  /\ UNCHANGED <<upstream, keys, memory, pos, confirmed>>

Building(t) == pos > 0 /\ t = Order[pos] /\ op.step = "build"

\* RefreshAnchorType keeps a listed entry it finds, to be written back with
\* the new validUntil; one that is gone is left out of patched.
ReadEntry(t, c) ==
  /\ Building(t)
  /\ c \in op.unread
  /\ op' = [op EXCEPT !.unread = @ \ {c},
                      !.patched[c] = [snap |-> anchors[t][c].snap,
                                      stale |-> anchors[t][c].stale]]
  /\ UNCHANGED <<upstream, keys, memory, pos, confirmed>>

\* A read fails, or the transaction is refused: the call returns the error
\* with nothing written and nothing recorded.
StoreError(t) ==
  /\ "error" \in Faults
  /\ pos > 0 /\ t = Order[pos] /\ op.step \in {"index", "build"}
  /\ NextType
  /\ UNCHANGED <<upstream, keys, memory, confirmed>>

NewEntry(s, stale) == [snap |-> s, stale |-> stale, valid |-> op.valid, ttl |-> KeyTTL]

\* EXPIRE: restarts the timer of a key that exists, and does nothing otherwise.
Expire(k) == IF Present(k) THEN [k EXCEPT !.ttl = KeyTTL] ELSE k

\* The keys of a swap other than the entries.
NewKeys(t, terr) ==
  /\ index' = [index EXCEPT ![t] = [terr |-> terr, ttl |-> KeyTTL]]
  /\ etagKey' = [etagKey EXCEPT ![t] = [snap |-> op.snap, ttl |-> KeyTTL]]
  /\ freshness' = [freshness EXCEPT ![t] = NewEntry(op.snap, op.stale)]

\* Mutant: a 304 leaves the timer of the ETag key running.
RestartedKeysForgetsEtag(t) ==
  /\ index' = [index EXCEPT ![t] = Expire(@)]
  /\ freshness' = [freshness EXCEPT ![t] = NewEntry(op.snap, op.stale)]
  /\ UNCHANGED etagKey

\* The keys of a refresh other than the entries.
RestartedKeys(t) ==
  /\ index' = [index EXCEPT ![t] = Expire(@)]
  /\ etagKey' = [etagKey EXCEPT ![t] = Expire(@)]
  /\ freshness' = [freshness EXCEPT ![t] = NewEntry(op.snap, op.stale)]

\* Mutant: the territories that vanished are not deleted.
SwapKeysKeepsVanished(t) ==
  LET next == TerritoriesOf[t][op.snap] IN
  /\ anchors' = [anchors EXCEPT ![t] = [c \in Territory |->
       IF c \in next THEN NewEntry(op.snap, op.stale) ELSE anchors[t][c]]]
  /\ NewKeys(t, next)

\* The commands SwapAnchorType sends between MULTI and EXEC.
SwapKeys(t) ==
  LET next == TerritoriesOf[t][op.snap] IN
  /\ anchors' = [anchors EXCEPT ![t] = [c \in Territory |->
       IF c \in next THEN NewEntry(op.snap, op.stale)
       ELSE IF c \in op.prev THEN NoEntry
       ELSE anchors[t][c]]]
  /\ NewKeys(t, next)

\* Mutant: a 304 only restarts the timers of the entries.
RefreshKeysTimersOnly(t) ==
  /\ anchors' = [anchors EXCEPT ![t] = [c \in Territory |->
       IF c \in op.prev THEN Expire(anchors[t][c]) ELSE anchors[t][c]]]
  /\ RestartedKeys(t)

\* Mutant: entries are written back under the timer they have (KEEPTTL).
RefreshKeysKeepTTL(t) ==
  /\ anchors' = [anchors EXCEPT ![t] = [c \in Territory |->
       IF c \in op.prev /\ Present(anchors[t][c])
       THEN [anchors[t][c] EXCEPT !.valid = op.valid] ELSE anchors[t][c]]]
  /\ RestartedKeys(t)

\* The commands RefreshAnchorType sends between MULTI and EXEC.
RefreshKeys(t) ==
  /\ anchors' = [anchors EXCEPT ![t] = [c \in Territory |->
       IF c \notin op.prev THEN anchors[t][c]
       ELSE IF op.patched[c].snap # NoSnap
            THEN NewEntry(op.patched[c].snap, op.patched[c].stale)
       ELSE Expire(anchors[t][c])]]
  /\ RestartedKeys(t)

\* EXEC is applied.  Its reply arrives, or is lost and the call fails.
Exec(t) ==
  /\ Building(t)
  /\ op.unread = {}
  /\ \/ op.mode = "swap" /\ SwapKeys(t)
     \/ op.mode = "refresh" /\ RefreshKeys(t)
  /\ \/ op' = [op EXCEPT !.step = "replied"] /\ UNCHANGED pos
     \/ "lost" \in Faults /\ NextType
  /\ UNCHANGED <<upstream, memory, confirmed>>

\* What SyncType remembers of a call that succeeded: the ETag of a 200, and
\* the freshness record /readyz and /v1/trust-status answer from.
Record(t) ==
  /\ pos > 0 /\ t = Order[pos] /\ op.step = "replied"
  /\ etags' = IF op.mode = "swap" THEN [etags EXCEPT ![t] = op.snap] ELSE etags
  /\ fresh' = [fresh EXCEPT ![t] = [snap |-> op.snap, stale |-> op.stale,
                                    valid |-> op.valid]]
  /\ NextType
  /\ UNCHANGED <<upstream, keys, confirmed>>

SyncType(t) ==
  \/ PollError(t)
  \/ NotModified(t)
  \/ Updated(t)
  \/ ReadIndex(t)
  \/ \E c \in Territory : ReadEntry(t, c)
  \/ StoreError(t)
  \/ Exec(t)
  \/ Record(t)

-----------------------------------------------------------------------------
(* The environment: upstream, time, Valkey and the process.                *)

\* A snapshot id is never used again, so an ETag that matches names the
\* content the worker materialized under it.
Publish(s) ==
  /\ s > upstream.snap
  /\ upstream' = [upstream EXCEPT !.snap = s]
  /\ UNCHANGED <<keys, memory, pos, op, confirmed>>

FlipStale ==
  /\ "stale" \in Faults
  /\ upstream' = [upstream EXCEPT !.stale = ~@]
  /\ UNCHANGED <<keys, memory, pos, op, confirmed>>

Less(n) == IF n > 0 THEN n - 1 ELSE 0
AgedEntry(e) ==
  IF e.ttl > 1 THEN [e EXCEPT !.ttl = @ - 1, !.valid = Less(@)] ELSE NoEntry
AgedIndex(k) == IF k.ttl > 1 THEN [k EXCEPT !.ttl = @ - 1] ELSE NoIndex
AgedEtag(k) == IF k.ttl > 1 THEN [k EXCEPT !.ttl = @ - 1] ELSE NoEtag

Tick ==
  /\ op.step = "build" => "slow" \in Faults
  /\ anchors' = [t \in Types |-> [c \in Territory |-> AgedEntry(anchors[t][c])]]
  /\ index' = [t \in Types |-> AgedIndex(index[t])]
  /\ etagKey' = [t \in Types |-> AgedEtag(etagKey[t])]
  /\ freshness' = [t \in Types |-> AgedEntry(freshness[t])]
  /\ fresh' = [t \in Types |-> [fresh[t] EXCEPT !.valid = Less(@)]]
  /\ op' = [op EXCEPT !.valid = Less(@)]
  /\ confirmed' = [t \in Types |-> [s \in Snapshot |-> Less(confirmed[t][s])]]
  /\ UNCHANGED <<upstream, etags, pos>>

\* Valkey loses one key (maxmemory eviction, a failover that drops writes).
Evict(t) ==
  /\ "evict" \in Faults
  /\ \/ \E c \in Territory :
          /\ Present(anchors[t][c])
          /\ anchors' = [anchors EXCEPT ![t][c] = NoEntry]
          /\ UNCHANGED <<index, etagKey, freshness>>
     \/ /\ Present(index[t])
        /\ index' = [index EXCEPT ![t] = NoIndex]
        /\ UNCHANGED <<anchors, etagKey, freshness>>
     \/ /\ Present(etagKey[t])
        /\ etagKey' = [etagKey EXCEPT ![t] = NoEtag]
        /\ UNCHANGED <<anchors, index, freshness>>
     \/ /\ Present(freshness[t])
        /\ freshness' = [freshness EXCEPT ![t] = NoEntry]
        /\ UNCHANGED <<anchors, index, etagKey>>
  /\ UNCHANGED <<upstream, memory, pos, op, confirmed>>

\* The process dies and restarts: New and NewState start from empty maps.
Crash ==
  /\ "crash" \in Faults
  /\ etags' = [t \in Types |-> NoSnap]
  /\ fresh' = [t \in Types |-> NoFresh]
  /\ pos' = 0
  /\ op' = Unpolled
  /\ UNCHANGED <<upstream, keys, confirmed>>

Next ==
  \/ StartCycle
  \/ \E t \in Types : SyncType(t)
  \/ \E s \in Snapshot : Publish(s)
  \/ FlipStale
  \/ Tick
  \/ \E t \in Types : Evict(t)
  \/ Crash

Spec == Init /\ [][Next]_vars

\* The scheduler starts a cycle again and again, and every call a cycle makes
\* returns.  That is an assumption: the plain HTTP client is given a timeout, but
\* nothing in the repository bounds a call in dpop mode, nor the driver's retries
\* (module Worker has the calls that do not end).
Fairness == WF_vars(StartCycle) /\ WF_vars(\E t \in Types : SyncType(t))
FairSpec == Spec /\ Fairness

-----------------------------------------------------------------------------
(* Properties.                                                             *)

TypeOK ==
  /\ upstream \in [snap : Snapshot, stale : BOOLEAN]
  /\ anchors \in [Types -> [Territory -> Entry]]
  /\ index \in [Types -> IndexKey]
  /\ etagKey \in [Types -> EtagKey]
  /\ freshness \in [Types -> Entry]
  /\ etags \in [Types -> AnySnap]
  /\ fresh \in [Types -> TypeFreshness]
  /\ pos \in 0..Len(Order)
  /\ op \in SyncCall
  /\ confirmed \in [Types -> [Snapshot -> Span]]

\* What a consumer accepts: the entry is there and its validUntil is ahead.
Served(t, c) == Present(anchors[t][c]) /\ anchors[t][c].valid > 0

\* /readyz: every configured type has a record whose validUntil is ahead.
Ready == \A t \in Types : fresh[t].snap # NoSnap /\ fresh[t].valid > 0

\* Fail closed: whatever fails in between, nothing stored or remembered
\* claims to be valid for longer than CacheTTL after the trust service last
\* answered with the very snapshot it carries (SyncType's validUntil, written
\* by SwapAnchorType and patched into old entries by RefreshAnchorType).
ConfirmedContent ==
  \A t \in Types :
    /\ \A c \in Territory :
         Served(t, c) => anchors[t][c].valid <= confirmed[t][anchors[t][c].snap]
    /\ Present(freshness[t]) /\ freshness[t].valid > 0
         => freshness[t].valid <= confirmed[t][freshness[t].snap]
    /\ fresh[t].valid > 0 => fresh[t].valid <= confirmed[t][fresh[t].snap]

\* A reader that follows the index never meets two snapshots of a type: the
\* entries the index lists, the ETag key and the freshness key name one snapshot
\* ("strictly before- or strictly after-swap state").
OneSnapshot ==
  \A t \in Types : Present(index[t]) =>
    \A c \in index[t].terr : Present(anchors[t][c]) =>
      /\ Present(etagKey[t]) => anchors[t][c].snap = etagKey[t].snap
      /\ Present(freshness[t]) => anchors[t][c].snap = freshness[t].snap

\* The validUntil embedded in every entry the index lists is the one in the
\* type's freshness key, after a 200 and after a 304 (the trap the comment on
\* RefreshAnchorType is about).
HorizonsAgree ==
  \A t \in Types : Present(index[t]) /\ Present(freshness[t]) =>
    \A c \in index[t].terr :
      Present(anchors[t][c]) => anchors[t][c].valid = freshness[t].valid

\* A TTL with a fraction of a second is cut for EX and EXPIRE and not for
\* validUntil: a key is then gone before its validUntil, by that fraction and,
\* whatever is written back and refreshed in between, never by more.
GoneAtMostAFractionEarly ==
  \A t \in Types : \A e \in {anchors[t][c] : c \in Territory} \cup {freshness[t]} :
    Present(e) => e.valid - e.ttl <= CacheTTL - KeyTTL

\* While Valkey loses no key: as long as the index of a type is there, so is
\* the whole snapshot the ETag key names, territory by territory.
Complete ==
  \A t \in Types : Present(index[t]) =>
    /\ Present(etagKey[t])
    /\ index[t].terr = TerritoriesOf[t][etagKey[t].snap]
    /\ \A c \in index[t].terr : Present(anchors[t][c])

\* While Valkey loses no key and no key expires inside a store call: no entry
\* is stored that the index does not list, so that the swap's DELs, computed
\* from the index, reach every territory the snapshot withdrew.
Authoritative ==
  \A t \in Types : \A c \in Territory :
    Present(anchors[t][c]) => Present(index[t]) /\ c \in index[t].terr

\* A verifier does not read the index: it reads an entry by type and territory.
\* While Valkey loses no key and no key expires inside a store call, every entry
\* it can find has its ETag key and its freshness key, of the same snapshot and
\* with the same horizon.
EveryEntryAgrees ==
  \A t \in Types : \A c \in Territory : Present(anchors[t][c]) =>
    /\ Present(etagKey[t]) /\ Present(freshness[t])
    /\ anchors[t][c].snap = etagKey[t].snap
    /\ anchors[t][c].snap = freshness[t].snap
    /\ anchors[t][c].valid = freshness[t].valid

\* While Valkey loses no key, and keys live for the whole TTL (CacheTTL in whole
\* seconds): a worker that answers ready on /readyz has a freshness key in Valkey,
\* for every type, that a consumer still accepts.
ReadyIsPublished ==
  Ready => \A t \in Types : Present(freshness[t]) /\ freshness[t].valid > 0

\* README "Startup contract": "it never reports ready without a live cache".
\* A ready worker has in Valkey, for every type, an index and a served entry
\* for each territory the index lists.
ReadyMeansLive ==
  Ready => \A t \in Types :
    Present(index[t]) /\ \A c \in index[t].terr : Served(t, c)

\* The comment on resync: "the operator's cure for a stale cache is this call
\* instead of a container restart".  Cycles that keep running bring back a
\* cache that lost a key.
ResyncCures == Ready /\ ~ReadyMeansLive ~> ReadyMeansLive

\* README "upstream-stale" per type: the flag the worker reports for a type is
\* the one upstream sent with the snapshot the entries carry.
StaleReported ==
  \A t \in Types : Present(index[t]) /\ Present(freshness[t]) =>
    \A c \in index[t].terr :
      Present(anchors[t][c]) => anchors[t][c].stale = freshness[t].stale

\* README "200": "any territory that disappeared from the snapshot is deleted
\* in the same transaction".
WithdrawalTakesEffect ==
  [][\A t \in Types : Present(etagKey'[t]) /\ etagKey'[t].snap # etagKey[t].snap =>
       \A c \in Territory : Served(t, c)' => c \in index'[t].terr]_vars

\* What a verifier is served for t: nothing once the freshness record of an
\* index it finds has run out, otherwise the entries the index lists that are
\* there and valid, under the snapshot the ETag key names.
View(t) ==
  IF Present(index[t]) /\ freshness[t].valid > 0
  THEN [snap |-> etagKey[t].snap, valid |-> freshness[t].valid,
        terr |-> {c \in index[t].terr : Served(t, c)}]
  ELSE [snap |-> NoSnap, valid |-> 0, terr |-> {}]

\* While Valkey loses no key, and keys live for the whole TTL: however calls
\* fail, replies are lost and the process restarts, the four kinds of keys and
\* their timers are one cached snapshot per type (module AnchorCache), visible
\* from the EXEC of an answer until exactly one TTL after it.
Cache == INSTANCE AnchorCache
           WITH latest <- upstream.snap, view <- [t \in Types |-> View(t)]
RefinesAnchorCache == Cache!Spec
=============================================================================
