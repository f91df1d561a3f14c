# Verification of trust-cache-worker

TLA+ models of the worker, the TLC runs that check them and the TLAPS proofs about them.
`PROJECT.json` lists the components, runs, mutants, findings, hazards and theorems, and maps every
definition to the source lines it stands for.

    tlc -config MCTrustSync_faults.cfg MCTrustSync     # any run: module name, then config
    tlapm TrustSyncProof.tla                           # the proofs

## 1. The system

The worker keeps a shared Valkey cache that wallet-facing verifiers read. Three tasks run side by
side, each started by `internal/schedule`: the anchor sync, the snapshot telemetry and the
status-list prefetch. An operator can ask for a sync now (`POST /v1/resync`) and read what the worker
holds (`GET /v1/trust-status`); `GET /readyz` answers whether the cache is live.

| Component | State | Operations | Talks to | What makes it correct |
|---|---|---|---|---|
| anchor sync (`internal/trustsync`) | `etags` per type, `inflight` | `Run`, `SyncAll`, `SyncType` | trust service, store, health state | one cycle at a time; nothing is valid longer than upstream confirmed; every type is tried |
| cache store (`internal/valkeystore`) | the keys in Valkey and their timers | `SwapAnchorType`, `RefreshAnchorType`, `GetTTL`, `SetBytes`, `SetJSON`, `TopStatusRefs`, `TrimStatusRefs` | Valkey | readers see one snapshot and one horizon; withdrawn territories disappear; every key expires |
| health state (`internal/health`) | `fresh` per type, `snap`, registered gauges | `SetTypeFreshness`, `Ready`, `TypeStatuses`, `SetSnapshot`, gauges | tasks write, routes and scrapes read | ready means a live cache; a report agrees with itself; gauges tell what was published |
| background tasks (`internal/schedule`) | ticker, stop channel, once | `Start`, `runOnce`, `Stop` | the framework, the jobs | no tick lost, `Stop` idempotent, the loop ends |
| prefetch (`internal/prefetch`) | none of its own | `Run`, `PeekTTL`, `Get` | store, issuers' status hosts | lists at the top stay warm; none outlives its `exp` |
| telemetry (`internal/telemetry`) | none of its own | `Poll` | trust service, store, health state | the record ages out on failure; gauges follow it |
| routes (`routes`) | none | `readyz`, `trustStatus`, `resync` | health state, `Syncer.Run` | reports that an operator can act on |
| start (`app.go`, `config.go`, `authdoer`, `cmd/server`) | the configuration, the chosen doer | `New`, `init`, `startupCheck`, `Start` | Valkey, token issuer, trust service, the tasks | no invalid worker runs; no request without a token unless asked for; a restart gets through once the services are back |
| mock trust service (`internal/mocktrust`, `testing.go`) | the published snapshot | `SetAnchors`, `SetSnapshot`, `SetStale` | the tests | the repository's own statement of what upstream answers |

Hard behaviours: reads of Valkey that a transaction later relies on while keys expire; an EXEC that is
applied and whose reply is lost; restarts in the middle of a store call; a remembered ETag that says
nothing of what Valkey still holds; concurrent callers of `Run`; Go's `select` with two ready cases;
reports taken under two locks; calls that nothing bounds; passes that take longer than their interval; a
duration that overflows.
`PROJECT.json` "hazards" lists each one at its line, with the properties that watch it.

## 2. The modules

| Module | Models | State and actions against the code |
|---|---|---|
| `TrustSync` | one worker's sync cycles, the anchor keys, the freshness records | `StartCycle`/`NextType` are `SyncAll`; `PollError`, `NotModified`, `Updated` the three outcomes of the poll; `ReadIndex`, `ReadEntry`, `StoreError`, `Exec` the steps of a store call; `Record` what `SyncType` remembers. `SwapKeys` and `RefreshKeys` are the commands between MULTI and EXEC. `Publish`, `FlipStale`, `Tick`, `Evict`, `Crash` are the environment |
| `AnchorCache` | what a verifier is promised of the cache, whoever fills it | `Publish`, `Confirm`, `Materialize`, `Tick`: per type nothing, or one whole confirmed snapshot until one TTL after the answer. `TrustSync` implements it (below) |
| `SingleFlight` | `Syncer.Run` | one action per section under `runMu`, per call of the cycle and per `select` case; a cycle is one poll and one write |
| `Schedule` | one `schedule.task` | the loop goroutine, the ticker's one-slot channel, and `Stop` split at `stopOnce.Do`, `Ticker.Stop` and `close` |
| `StatusReport` | `health.State` under concurrent use | `SetTypeFreshness` against `Ready` and then `TypeStatuses`, the two reads of `statusOf` |
| `Prefetch` | a pass of `Prefetcher.Run` | list, per URI check / fetch / cache (`WriteReplyLost`: cached, and counted as failed), trim; `PeekTTL` and `ClampTTL` as operators; the verifier's references |
| `Telemetry` | `Poller.Poll` and the gauges | the start of a process up to its first poll (`Starting`, `StartTask`), then ask, answer, publish, `SetSnapshot`, gauge registration; crashes |
| `Worker` | one process: settings, start, the schedule of its cycles | `AuthMode`, `AuthValid`, `SyncValid` are the validation; `Load`, `Wire`, `StartupCheck` are `server.New`, `init` and `startupCheck`; `RunTask`, `TakeTick` the scheduled task with its ticker, `Resync`, `ContextEnds` the operator's call; `Answer`, `Record`, `Fail` one type's sync as a call that takes time, or never ends where nothing bounds it (`Endless`); `Outage`, `Crash`, `Restart` the environment |
| `TrustSyncProof`, `SingleFlightProof`, `ScheduleProof`, `StatusReportProof`, `PrefetchProof`, `TelemetryProof`, `WorkerProof` | | theorems and proofs about the module of that name |
| `AnchorCacheProof` | | that `TrustSync` implements `AnchorCache` |
| `MC...` | | the constants of the TLC instances |

`TrustSync` takes from `SingleFlight` that cycles do not overlap: it has one cycle in flight (`pos`).
`SingleFlight` and `Prefetch`, `Telemetry` take from `Schedule` that a task's runs do not overlap and that
a tick during a run is kept. `Worker` composes them seen from outside: the ticker of `Schedule`, the sharing of
`SingleFlight`, and for each type only the horizon `TrustSync` would have recorded.

**The refinement.** `TrustSync` is mapped to `AnchorCache` by `latest <- upstream.snap`,
`confirmed <- confirmed` and `view[t] <- View(t)`, where `View(t)` is what a verifier finds: nothing unless
the index is there and the freshness record is ahead, otherwise the entries the index lists, the snapshot
of the ETag key and the horizon of the freshness key. An answer of upstream is `Confirm`, the EXEC of a
swap or of a refresh is `Materialize`, and every other step (reads, errors, lost replies, crashes, what
the process remembers) is a stutter. It holds where Valkey loses no key and keys live for the whole TTL
(`KeyTTL = CacheTTL`); `live`, `cure` and `race` show what breaks otherwise.

**Time.** A key carries the ticks it has left, a `validUntil` the ticks until it, and `Tick` moves all of
them. Comparing absolute instants becomes comparing timers, so no clock has to be bounded.

**Modelling decisions in `TrustSync`.**
A snapshot stands for its anchors: which territories it has is `TerritoriesOf`, what is in an entry is
the snapshot it was built from. Ids are never reused, so a matching ETag names the same content; an
upstream that goes back to an earlier id is not modelled. One worker runs ("sole writer", repository
README); two workers during a rolling deployment are not modelled. A transaction is applied before the
call returns or not at all: one that Valkey applies after the client gave up is not modelled. No time
passes between the first read of a store call and its EXEC except in instances with the fault `slow`.
Wire names, JSON and key prefixes are left out.

Every operator marked `Mutant` in a module is a plausible bug: it is not used by the specification and
exists to show that the properties can fail.

## 3. The runs

Instances use two territories and the smallest bounds at which each case happens.

| Run | Distinct states | Shows |
|---|---|---|
| `faults` | 2.6 million | with failed calls, lost replies, crashes, evictions, slow calls and stale flips together, and keys that live shorter than `validUntil`: `ConfirmedContent` (fail closed), `OneSnapshot` and `HorizonsAgree` for the entries the index lists, `GoneAtMostAFractionEarly` |
| `keys` | 728 thousand | while Valkey loses no key, with two types: `Authoritative`, `EveryEntryAgrees`, `Complete`, `ReadyIsPublished`, and that `TrustSync` implements `AnchorCache` |
| `worker` | 1.7 million | `BridgesMissedPolls`, `HealthyStaysFresh`, `TokenUnlessInternal`, and the liveness of the whole worker: `Recovers` |
| `single_flight` | 598 thousand | `OneCycleAtATime`, `NoRollback`, `JoinerSawCycleEnd`, `SecondCallIsCurrent`, and the liveness of `Run`: `RunReturns` |
| `schedule` | | `ClosedOnce`, `AtMostOneLateRun`, `StopEnds`, `TickRuns` |
| `report` | | `ReadyBodyIsFresh` |
| `prefetch` | 2.1 million | `StaysWarm`, `GoneSoonAfterExp`, `HitSurvives` |
| `telemetry` | | `RecordAgesOut`, `GaugesNotAhead`, `GaugesFollow`, `BridgesOneMiss` |
| `live`, `cure`, `stale`, `race` | | the disagreements of section 6 |

**Bounds.** `faults`: one type (types share no key; what they share, the cycle, is in `keys` and `worker`),
three snapshots, so that a territory is withdrawn and comes back, a TTL of three ticks with keys of two.
`keys`: two types whose snapshots differ in different territories, two snapshots, a TTL of three.
`single_flight`: three callers and three channels: a leader and two waiters, of which one may still wait on
the channel of an earlier cycle (a caller holds one channel at most, so a free one is always left); one
caller is the operator who asks twice. `schedule`: three stoppers: one inside `Do`, one waiting for it, one
late. `report`: two requests and two types. `prefetch`: three lists for a `TopN` of two, so that references
push one out; a lower clamp of one tick for an interval of two, the ratio of the defaults, so that claims on either
side of the interval occur; passes of up to three ticks; durations of 128 values
(`Modulus`, 2^64 in the code), so that a claim of 20 s wraps to a negative duration and one of 33 s to a short one. `telemetry`: three versions, an
interval of five ticks, polls of up to two and a start of up to one, the shortest interval in which a poll
and two starts fit. `worker`: two types, so that a tick can meet a cycle that is
past a type; eight deployments, four of which validation must reject, the four valid ones with a poll
interval above, at and below the length of a cycle and a budget of none or one missed poll; at most two
missed polls are counted; one service is out of reach at a time; what a call takes is counted up to one tick
more than `wait`. Each bound is a constant or is marked
*Bound* where it stands.

**What `worker` says about the settings.** `CacheTTL > PollInterval` is what validation asks
(`trustsync/config.go:25`), and `HealthyStaysFresh` shows that it suffices when calls take no time. They do:
with `N` types whose sync takes up to `wait`, polls are `period = max(PollInterval, N * wait)` apart and a
type may miss `(CacheTTL - 1 - (N + 1) * wait) div period - 1` polls in a row (`Budget`) before `/readyz`
turns 503. With the defaults and calls that take no time that is seven, where the documentation says nine
(section 6). A budget below zero passes validation too: such a worker may flap although no
call fails. The run checks that on four valid deployments; the theorem `MissesBridged` (section 5) proves it
for all. All of it holds for a process none of whose syncs took longer than `wait` (the history variable
`late`). The code does not see to that: `wait` is `trust_auth.timeout` only for the plain doer, and only for
the call upstream. In `dpop` mode, the default, nothing in the repository bounds a call (section 4), and then
a horizon can pass with no poll counted as missed.

**Checks for deadlock** are on except in `Schedule`, where a stopped task rests.

## 4. Fairness

- `TrustSync`: weak fairness of `StartCycle` (the task runs again after each cycle) and of the steps of the
  cycle in flight: every call answers or fails. That is an assumption, not a consequence of the code (see
  `Worker`). It is used by run `cure` only, whose counterexample is a behaviour in which every call ends.
- `SingleFlight`: weak fairness of a leader's cycle and of a waiting caller whose channel is closed. No
  caller is assumed to be cancelled or not to be. That a leader's cycle ends is assumed here too: in `dpop`
  mode a call that hangs under a context without a deadline keeps `inflight` set, and joiners without a
  deadline of their own, the scheduled task first, wait as long.
- `Schedule`: weak fairness of the loop goroutine, whose job is assumed to return, and of each `Stop`
  call under way. The choice of `select`
  between two ready cases is not fair, and need not be: `Ticker.Stop` runs before the close.
- `Worker`: weak fairness of time, of the process (a goroutine that can run does, and `startupCheck` has a
  deadline), of the restart of a pod that exited, and of a call *that has a bound*: `WF(~Endless /\ Call)`. The
  plain doer's `http.Client` has a timeout (`doer.go:47`), and an operator's context ends a call. A call in
  `dpop` mode has none: `NewAuthbyteDoer` does not pass `trust_auth.timeout` on (`authbyte.go:34-54`) and the
  context of a scheduled cycle has no deadline (`schedule.go:54`). Nor has a read of Valkey while Valkey is
  out of reach: the client leaves the driver's retries on (`store.go:80-99`). `Endless` names these calls;
  they may take for ever, and time passes meanwhile. What client library and driver do by themselves is not
  in the repository, and the model does not count on it. `Tick` waits for goroutines that can run. Nothing is
  assumed of outages, crashes, operators and the length of calls; `Recovers` only speaks of behaviours in
  which outages, crashes and disconnecting operators end and calls, in the end, take no longer than `wait`,
  as it must: a worker whose calls hang, or that is killed again and again, is never ready.
- `Prefetch` and `Telemetry` have safety properties only. Instead of fairness they assume that a pass or poll
  which is due starts before the next tick, and that it takes at most `PassTime` or `PollTime`, a start at
  most `StartTime`. The fetches of a pass do have a timeout (`app.go:145`); for a poll in `dpop` mode
  `PollTime` is as much an assumption as `wait`.

## 5. What is proved

For every choice of the constants that meets the modules' ASSUMEs, checked by TLAPS; "theorems" in
`PROJECT.json` names the property each one states. Every invariant and every safety property of steps
that a passing run checks is a theorem. Four hypotheses on the environment or the settings stand
in the statements that need them:

- `KeysStay`: Valkey evicts no key, and a store call takes less than a tick;
- `WholeTTL`: `KeysStay`, and keys live for the whole TTL;
- `ShortPolls`: a telemetry poll and two starts of the process take less than the poll interval;
- `MinTTL > Interval`, for `AheadWithLongClamp` only. Neither validation nor the defaults see to it.

Nothing is assumed of failed calls, lost replies, crashes and stale flips.

**`TrustSyncProof`**

- `TypeCorrect`. `TypeOK` alone is not inductive: `TypeInv` adds the position of the cycle and the shape of
  the call in flight, and is proved in two parts, the keys and the rest.
- `ConfirmedAlways`, the fail-closed property. A swap or a refresh writes what the call in flight carries, so
  the invariant `ConfirmedInv` adds that this call's snapshot and horizon are backed by an answer of
  upstream, that an entry read for write-back is one of the snapshot the remembered ETag names, and how
  keys, ETag and memory relate across a crash or a lost reply. One lemma per action.
- `FractionAlways`: the distance between a `validUntil` and its timer is an invariant of every single entry.
- `OneSnapshotAlways`, `HorizonsAlwaysAgree`, under all faults, for the entries the index lists. A verifier
  reads an entry by type and territory, so an orphan, an entry no index lists, is outside these two: run
  `race` makes one. The invariant `AgreeInv` says that the keys of
  a type agree in content, whichever of them are left, and that what a store call has read agrees with
  them. Its argument is `Faded`: ticks and evictions only take keys away or take the same from each, and
  what agrees goes on agreeing then.
- `AlwaysAuthoritative`, `AlwaysComplete`, and `EveryEntryAlwaysAgrees`, under `KeysStay`. The last is the promise
  to a verifier: whatever entry it finds is of the snapshot and has the horizon of the type's keys, which are
  there. The invariant `TogetherInv` is that all keys of a
  type share one timer and are a whole snapshot, since EXEC sets or restarts all of them; so they leave in
  the same tick and no entry is left behind.

**`AnchorCacheProof`**, under `WholeTTL`

- `AlwaysPublished`: ready means published. The invariant `PublishInv` adds that the freshness key outlives
  its own horizon and what the process remembers of it, and that the call in flight carries the newest
  horizon of its type.
- `ImplementsAnchorCache`: `Spec => RefinesAnchorCache`. With the invariants above what a verifier sees of a
  type is all of the ETag key's snapshot or nothing (`ViewIsShown`); then an answer is a `Confirm`, an EXEC
  that shows something a `Materialize`, a tick a `Tick`, and every other step shows nothing new.

**The other components**

- `SingleFlightProof`, for any number of callers and channels: `TypeCorrect`, `Serialized`, `NeverRollsBack`,
  `JoinersWait`, `SecondCallCurrent`. `inflight` is set exactly while a caller leads, the leader holds that
  channel, no answer in flight is older than the cache; a closed channel a caller holds is one whose cycle
  has ended; and a cycle that began after the operator's first call polls no older snapshot than that call
  asked of.
- `ScheduleProof`, for any number of calls of `Stop`: `TypeCorrect`, `ClosedOnceAlways`, `OneLateRun`. How far
  the Once has got decides what the channel is and who may have returned; a stopped ticker has no tick.
- `StatusReportProof`, for any list of types: `TypeCorrect`, `ReadyReportIsFresh`. A reason is the name of the
  first type that is late (`FirstLate`, by the least-element principle of `Nat`), so it is never the empty
  one. What was ahead when a request asked stays ahead by the ticks since, until the second read copies it.
- `TelemetryProof`: `TypeCorrect`, `RecordAlwaysAges`, `GaugesNeverAhead`, `GaugesAlwaysFollow`, and under
  `ShortPolls` `OneMissBridged`: the record's timer covers the wait for the next poll, a start before it and
  its length, twice from a write and once after a miss (`Lease`).

**`PrefetchProof`**, for any lists, bounds, clamps, claims and width of durations

- `TypeCorrect`. The invariant `PassOK` adds that the URIs a pass has still to deal with are distinct, among
  those it listed and none of its hits, and that it has used no more of the interval than the ticker shows.
  A reference moves a URI to the front of the set or adds it, and keeps its members distinct (`Referenced`).
- `HitsAlwaysSurvive`. `HitsWarm`: what a pass skipped is cached for longer than the ticks until the next pass
  starts. `AlwaysWarm` rests on `SettledWarm`, which says that of every list the pass is done with, no call
  failed for and whose claim outlasts the interval; it needs no hypothesis on the clamps. `AheadWithLongClamp`:
  with a lower clamp above the interval no claim is too short (`NoneShort`), and lists are refreshed ahead of
  their TTL as documented.
- `AlwaysGoneSoon`. `Capped`: no copy lives longer than the larger of what is left to its `exp` and the
  lower clamp. It holds whatever a `ttl` claim wraps around to (`Clamped`, `ClampedBelow`), because the
  cap by `exp` comes after the multiplication.

**`WorkerProof`**, for any deployments and number of types: `TypeCorrect`, `TokenAlways`, and, until a sync takes
longer than `wait`,

- `HealthyAlwaysFresh`. While nothing is owed a horizon exceeds the ticks to the next tick of the ticker by
  `CacheTTL` less the interval, and no time passes while a poll is owed (`Polls`).
- `MissesBridged`, the failover budget. `missed[t] <= Budget` is far from inductive: how old the horizon of a
  type may be depends on where the cycle in flight is, on who leads it and on when the ticker fires. The
  invariant `Bridges` bounds the age of a type that missed `k` polls by `Allowed(k)`, `k + 1` periods, one
  cycle and one call, and bounds it *by the time it is polled next*, not only now: if the cycle the task is in
  has still to poll it, when that cycle gets there, and one period later by the next run; otherwise by
  the next run, and one period earlier while a tick may yet join a cycle of the operator that is already
  past the type. Each action keeps this for a reason of its own: a tick takes one from the time to the
  next run and adds one to the age (`TickBridged`); a call that ends early only brings the others forward
  (`OthersBridged`); a failure is paid by one more period (`FailBridged`); a success leaves a type as old as
  its call (`RecordBridged`); a run that joins a cycle past the type uses the period in hand
  (`RunTaskBridged`). `CountAssumption` asks that the history variable `missed` counts beyond the budget; it
  bounds the model, not the worker.

**Only model-checked**: liveness under fairness (`RunReturns`, `StopEnds`, `TickRuns`, `Recovers`), which is out of
the prover's reach, and the four violations of section 6, which are counterexamples.

## 6. Where code and documentation disagree

Four runs are expected to be violated; "findings" quotes the lines.

1. `live`: after an outage longer than the TTL a 304 makes `/readyz` answer 200 over an empty cache. The ETag
   outlives the keys, `EXPIRE` of an absent index does nothing, and the type is recorded as fresh.
2. `cure`: for the same reason a cache that lost a key stays incomplete through any number of resyncs, until
   upstream publishes or the process restarts.
3. `stale`: a 304 resets the reported upstream-stale flag, and the entries keep theirs.
4. `race`: an entry written back by a refresh in which the index expired is listed nowhere, and survives the
   swap that withdraws its territory.

Three more, stated here and in the modules:

5. "Timeout bounds each outbound trust-service call" (`authdoer/config.go:44`). In `dpop` mode, the default,
   nothing in the repository applies `trust_auth.timeout` but the startup probe: a cycle, and whoever joins
   it, can wait for as long as the client library lets it. `Worker` lets such a call take for ever (`Endless`):
   what it promises holds until a call takes too long, and again once calls end in time (section 4).
6. A budget of "nine missed polls at the default 5m cadence" (repository README, "Cache TTL is the failover
   budget"; `trustsync/config.go:22`). Nine is 45 minutes over 5. The horizon set by the last poll that
   succeeded passes when the ninth is due, with eight missed; seven are bridged for certain, if calls take no
   time, and fewer if they do (`Budget`; `BudgetAsShipped` in `WorkerProof` has the two numbers).
7. "Refreshed ahead of TTL" (`prefetch/config.go:12`). The default `STATUS_PREFETCH_MIN_TTL` is half the default
   interval, and nothing relates the two: a list with a claim shorter than the interval is gone before the
   next pass. `StaysWarm` is what holds for all settings; `AheadWithLongClamp` proves what a lower clamp above
   the interval would give (`RefreshedAheadOfTTL`).

Smaller ones, found while modelling and stated here only:

- `validUntil` is exact and key timers are whole seconds: with a fractional `TRUST_CACHE_TTL` a key is gone
  before the `validUntil` it carries, by that fraction and never more (`GoneAtMostAFractionEarly`).
- `Stop halts future runs` (`schedule.go:57`): one run that was due can begin after `Stop` returned. What does
  hold is `AtMostOneLateRun`.
- `statusOf` reads the state twice: a type synced in between is the reason of a report that lists it as
  synced and valid.
- A prefetch hit survives to the next cycle (`prefetch/config.go:17`) only if a pass takes no longer than
  the interval, which nothing enforces: `HitSurvives` and `StaysWarm` promise nothing for a longer pass.
- A resync that joins a cycle may be answered from before the request; asking again is enough
  (`SecondCallIsCurrent`).
- An operator who leads a cycle and disconnects makes the scheduled poll that joined it miss its types,
  although every service is up; `Budget` counts such polls as missed.
- A `ttl` claim beyond about 292 years overflows before it is clamped and is cached for `MinTTL` or an
  arbitrary time instead of `MaxTTL`.

## 7. Plan

Done: `TrustSync`, `SingleFlight`, `Schedule`, `StatusReport`, `Prefetch`, `Telemetry`, then `AnchorCache` with
the refinement, `Worker` (timed polling, start and restart, the resync's report), and the proofs of section 5. What is left, in order:

1. Proofs beyond the runs' properties: that the horizons `Worker` keeps are the ones a `TrustSync` cycle
   records.
2. Two workers during a rolling deployment, if the code is to support one.

## 8. Not modelled

- Configuration: reading the environment, splitting lists, the bounds of the prefetch settings (they are
  assumptions of `Prefetch`). Names outside the taxonomy are one flag.
- `internal/authdoer`: keys, DPoP proofs and the token cache, which are in a library; a request with a token
  is one that also needs the issuer. Any bound its client sets on a call by itself is not visible here.
- The `health` command, which asks the probe once, and `testing.go`, which starts the app for the tests.
- API key check, correlation ids, logs, counters, key prefixes: no state that a property is about.
- The staleness gauge per type, a pure function of the freshness record, and the process-wide pointer of the
  gauge callbacks: only tests create a second `State`.
- `status_prefetch.top_n = 0` (the pass returns at once), `PTTL = -1` (no key of the worker lacks a TTL), the
  sub-second part of an `exp` distance, and `exp` claims so far away that `time.Unix` wraps.
- TTLs below one second, and with them the errors nested in the reply of EXEC, which the code does not examine
  and which only such TTLs produce.
