# Formal models of the Hyperbahn router (Node-app)

This directory holds TLA+ models of the router in this repository, the TLC
configurations that model-check them, and TLAPS proofs. The sources are under
`src/`:

- `src/unnamed/part_002` is `ServiceDispatchHandler`.
- `src/unnamed/part_000` is `HyperbahnHandler`.
- `src/unnamed/part_001` is the application bootstrap.
- `src/circuits.js` is the circuit registry.
- `src/clients/logger.js` builds the logging pipeline. Its lines 123-194 are
  a release shell script.

## 1. The system

A Hyperbahn router belongs to a ring of routers. For every service name, the
ring (egress nodes, `exitsFor`/`isExitFor`) picks K routers as the service's
*exits*.

- **Advertise.** A worker advertises to any router (`handleAdvertise`). That
  router fans the advertisement out as *relay-ads* to the service's exits
  (`sendRelays`/`sendRelay`, retried on network errors and timeouts).
- **Exit side.** On an exit, `refreshServicePeer` adds the worker to the
  service's sub channel. The sub channel is in **exit** mode, keeps an
  outbound connection to the worker, and records it in the `knownPeers` and
  `exitServices` indices.
- **Non-exit side.** On a non-exit router, the service's sub channel is in
  **forward** mode, and its peers are the exit routers.
- **Requests.** `handleRequest` and `handleLazily` check the blocking tables
  and the rate limiter. They create the sub channel lazily and hand the
  request to it.

Interval scans clean up:

- **Prune.** `peersToPrune` collects workers of channels that became forward.
  The prune scan drains their outbound connections.
- **Reap.** `knownPeers` is rolled into `peersToReap` at every reap tick. A
  worker not re-advertised for a whole round is drained and deleted. The
  reaper's period is the remote-config key `peerReaper.period`. The
  bootstrap applies it with a default of 0 (`part_001:421`), and 0 stops
  the reaper (`part_002:1251`). So, unless remote config sets the key, a
  crashed worker is never removed, although spec section 5 gives the reaper a
  5 min default. The model lets remote config switch the reaper on and off.
- **Purge.** The purge scan is meant to drop a service not refreshed for a
  purge period, and to close its channel. It never does: it compares the
  age with `self.servicePurgePeriod`, a field nobody assigns
  (`part_002:202`). A comparison with `undefined` is always false.

A ring change schedules `updateServiceChannels` with `setImmediate`. That
call switches every channel to the mode the new ring gives
(`changeToExit`/`changeToForward`/`updateExitNodes`). A *relay-unad*
(`removeServicePeer`) removes a worker from a channel. If no channel holds
the worker any more, it also drains and closes the worker.

Everything runs on one Node.js event loop. Each handler, each scan
(`getCollection` followed by `each` for every key) and each drain callback
runs to completion. It is therefore one atomic step. Concurrency comes from
the order in which these callbacks run.

## 2. Inventory

| Component | Source | Module | Status |
|---|---|---|---|
| Peer lifecycle of `ServiceDispatchHandler` (no partial affinity) | part_002 | `ServiceDispatch` | modelled |
| Partial affinity (`getPartialRange`, `refreshServicePeerPartially`, `freshenPartialPeer`, `ensurePartialConnections`, `ensurePeerDisconnected`) | part_002 | none | planned |
| Admission (`handleRequest`, `handleLazily`, `isBlocked`/`block`/`unblock`, `rateLimit`) | part_002 | `ServiceDispatch` (lazy channel creation only) | partly |
| Rate limiter | not in src | none | planned, spec-modelled |
| Circuits (`getCircuit`, `getCircuitForRequest`, `updateServices`, `enableCircuits`/`disableCircuits`) | circuits.js, part_002 | `CircuitRegistry` | modelled (the state machine of states.js from spec §4.3) |
| Logging pipeline (`createLogger`, `updateReservoir`) | logger.js, part_001 | `LoggerPipeline` | partly (lib/larch from its use) |
| Advertise fan-out and relay retries | part_000 | none | planned |
| Discover / discoverAffine | part_000 | none | planned |
| Ring view, interval scanner | not in src | environment of `ServiceDispatch` | partly |
| Bootstrap (apart from the logger wiring), stats emitter | part_001, part_002 | none | not modelled (wiring, reporting) |

## 3. The `ServiceDispatch` module

### State

The variables map to the handler's fields as follows:

- `serviceProxyMode[s]` and `servicePeers[s]` are the sub channel's mode
  (`"none"` when there is no sub channel) and its peers.
- `relaysFor`, `exitServices`, `knownPeers`, `peersToReap` and `peersToPrune`
  are the handler fields of the same names.
- `peers`, `connectedOut[h]` and `draining[h]` are the transport's peer table,
  `isConnected('out')`, and the goal of the drain in progress.
- `ringExits` and `workerUp` are the environment.
- `reaperOn` says whether the reaper's interval is positive. Remote config
  sets it.

Abstractions:

- A timestamp becomes a generation. `exitServices[s]` is `"none"` or
  `"recent"`: since nothing deletes an entry, its age never matters.
- A drain reason becomes one of `pruned`, `reaped` and `unad`. These are the
  prefixes the code tests with `indexOf`.
- `connectTo` becomes an identified outbound connection.
- `channel.peers.delete` is assumed to also drop the peer from every sub
  channel. This is the tchannel behaviour the code relies on.

### Actions

- `HandleRequest`: lazy creation of a channel from a request.
- `RefreshServicePeer`: the whole legacy branch of `refreshServicePeer`,
  including `getOrCreateServiceChannel`, `createServiceChannel` and
  `ensurePeerConnected`.
- `RemoveServicePeer`: `removeServicePeer`.
- `DrainDone`: `thenResetPeer` and `thenDeleteIt`.
- `PruneTick`, `ReapTick`: the two scans that change state. `ReapTick` runs
  only while `reaperOn` holds.
- `RemoteReapConfig(on)`: `updateReapPeersPeriod` on a remote-config update.
  The constant `ReapConfig` holds the values remote config may give it.
- The purge scan has no action, because its body never changes anything.
- `MembershipChange`: a ring change plus `setImmediate`.
- `UpdateServiceChannels`: `updateServiceChannels` with all of its helpers.
- `WorkerCrash`, `WorkerRestart`, `ConnectionLost`: the environment.

`PROJECT.json` ("map") lists the lines each definition translates.

### Two readings of the code the model keeps as they are

- In `removeServicePeer`, the loop `for (var i = 0; i < subChanKeys; i++)`
  compares a number with an array and never runs (`SubChanLoopRuns`).
- `reapSinglePeer` tests `self.knownPeers` after `getPeersToReap` has
  emptied it (`KnownPeersDuringReap`).

### Fairness

Weak fairness applies to `PruneTick`, `ReapTick`, `UpdateServiceChannels` and
every `DrainDone(h)`:

- The pruner is an `IntervalScan` timer that runs for ever, because
  `setPrunePeersPeriod` is never called.
- The reaper's timer runs while its period is positive. `ReapTick` is
  guarded by `reaperOn`, so weak fairness makes it fire only when it stays
  enabled. A reaper that remote config keeps off never runs.
- `setImmediate` callbacks run.
- Every drain carries `drainTimeout`, and its callback runs whether it
  drained or timed out.

Advertisements, ring changes, crashes, connection losses and remote-config
updates are the environment and get no fairness.

## 3b. The `CircuitRegistry` module

### State

- `registry` is the set of keys `<<service, caller, endpoint>>` present in
  the three-level map `circuitsByServiceName['$'+sn]...`. `circ[k]` is the
  circuit of key k: its health, the period's `requests` and `errors`, and the
  run of successful probes (`streak`). A key outside `registry` holds a fresh
  circuit, which is what a lookup would create.
- `mode[s]` and `handlerCircuits[s]` are the sub channel's mode and whether
  its relay handler holds the registry.
- `circuitsEnabled` is the handler's `circuitsEnabled` flag.
- `circuitsInit` says whether `self.circuits` has been built.
- `owned[s]` is `isExitFor(s)`, and `ownedKey[s]` is `isExitFor('$' + s)`.
  The ring hashes the two strings independently, so the model lets them
  differ.
- `updateScheduled` says whether a `setImmediate(updateServiceChannels)` is
  pending.

### Actions

- `Request(s, cn, e, ok)` is `getCircuitForRequest` with the outcome of the
  forwarded request:
  - it applies the `'no-cn'` default (`CallerKey`);
  - it looks the circuit up or creates it (`LookupCircuit`, added to
    `registry`);
  - a healthy circuit below its bound counts the request;
  - an unhealthy one either declines, with nothing counted (spec §7), or
    admits a probe.
- `PeriodTick(k)` is the end of a healthy circuit's period. The circuit trips
  or starts a new period.
- `CreateChannel`, `RingChange` and `UpdateServiceChannels`
  are the channel side. `UpdateServiceChannels` includes the trailing
  `circuits.updateServices()`.
- `EnableCircuits` and `DisableCircuits` come from remote config.

The state machine of `states.js` is not in src. `Tripped`, `ProbeSucceeded`
and `PeriodTick` follow spec §4.3:

- A circuit trips at the end of a period with at least `minRequests`
  requests and an error rate above `maxErrorRate`. The rate is a fraction
  `ErrNum/ErrDen`.
- `probation` consecutive successful probes make it healthy again.
- A failed probe resets the run.

A circuit's counters are capped by `MaxRequests`, and a request that finds
the cap reached is not enabled.

### Fairness

Weak fairness applies to every period timer and to the `setImmediate`
callback. Both are timers the event loop runs.

## 3c. The `LoggerPipeline` module

`createLogger` builds the pipeline

  larch logger → level router → (debug) drop backend
                              → (others) reservoir → logtron → backends of the level.

`ApplicationClients` keeps `loggerParts.logReservoir`. On every remote-config
update, `updateReservoir` resizes that reservoir when the handle is set.

- **State.** The model keeps:
  - the handle (`logReservoir`: the reservoir, null or undefined);
  - the reservoir's size;
  - the last configured size;
  - the held records, each abstracted to its level;
  - the count of records offered since the last flush;
  - for every backend, the levels it has written.
- **JavaScript reads.** An object is a function from its keys. `JsGet` reads
  a missing key as `undefined`.
- **Seeded logger.** `LInit` also allows the seeded-logger branch, whose
  handle is null.
- **Not in src.** The reservoir, the level router and the drop backend live
  in lib/larch, which is not in src. They are modelled from their use and from
  the comment "reservoir sampled":
  - while it has room, the reservoir keeps every record;
  - when full, it drops the new record or lets it replace a held one;
  - the flush timer writes all held records.
- **Fairness.** Weak fairness applies to `Flush`, which is the reservoir's
  flush timer.

## 3d. Abstract specifications and refinement mappings

Two components have an abstract specification of what they promise. The
detailed module is shown to implement it: TLC checks `INSTANCE ... WITH`
plus the abstract `Spec` as a `PROPERTY`, and TLAPS proves it.

**`ServiceRoutes`** is the routing table of the dispatcher. For each
service it has a `mode` (`"none"`, `"exit"` or `"forward"`) and a set of
`routes`. Its actions are:

- `Open(s)`: a channel opens, either as an empty exit or as a forward to
  some routers.
- `Admit(s, w)`: a worker joins a channel that is an exit or becomes one.
- `Release(s, h)`: one host leaves one channel.
- `Evict(h)`: a host leaves every channel.
- No action closes a channel: the code's only closing path is the purger,
  which never fires.
- `Reconcile`: every open channel is updated at once. An exit that stays an
  exit keeps its routes. A channel that becomes an exit is emptied. A
  forward channel gets routers only.

`ServiceDispatch` maps to it by `mode <- serviceProxyMode` and
`routes <- servicePeers`. Everything else (ring, indexes, drains,
connections) is hidden. The actions correspond as follows:

- `HandleRequest` is `Open`.
- `RefreshServicePeer` is `Admit` when the channel is an exit. Otherwise it
  is `Open` as a forward, or a stutter if the channel already exists.
- `RemoveServicePeer` is `Release`.
- `DrainDone` is `Evict`, or a stutter for a pruned peer.
- `UpdateServiceChannels` is `Reconcile`.
- The ticks, ring changes, remote-config updates, crashes and connection
  losses are stutters.

**`CircuitHealth`** is the registry without counters, periods or probes: a
set of registered circuits, each healthy or unhealthy. Its actions are:

- `Use(k)`: a request registers a circuit and may restore an unhealthy one.
- `Trip(k)`: a registered healthy circuit becomes unhealthy.
- `Forget(S)`: circuits leave the registry.

`CircuitRegistry` maps to it by `registered <- registry` and
`health <- HealthView`. `HealthView` reads each registered circuit's
health, and counts an unregistered key as healthy. The actions correspond
as follows:

- `Request` is `Use`.
- `PeriodTick` is `Trip` when the error rate trips the circuit, and a
  stutter otherwise.
- `UpdateServiceChannels` is `Forget(registry \ registry')`.
- Channel creation, ring changes and enable/disable are stutters
  on this view.

## 4. Runs

The instance is `MC_ServiceDispatch`:

- two services;
- one worker;
- two routers, one of which is `Me`;
- K = 1.

Every service can therefore move between this router and the other one. The
single worker serves both services, which is the shared-peer case that prune,
reap and unadvertise handle differently. Services are symmetric in the safety
run.

| Run | Expect | Checks | Shows |
|---|---|---|---|
| `dispatch_safety` | pass | `TypeOK`, `ModeMatchesRing`, `ChannelPeersMatchMode`, `ImplementsServiceRoutes` | Once reconciliation has run, modes follow the ring. Exit channels never hold routers, and forward channels never hold workers. The channels implement the abstract `ServiceRoutes` table. |
| `dispatch_liveness` | pass | `DeadPeerRemovedWhileReaping` | If remote config keeps `peerReaper.period` positive from some time on, a dead worker is eventually deleted. |
| `purge_never` | violation | `ServiceOwnershipExpires` | A service whose ownership moved away is never purged, because `self.servicePurgePeriod` is undefined (part_002:202). |
| `unad_shared` | violation | `UnadvertiseDrainOnlyReleased` | A relay-unad for one service closes a worker that another service still uses (part_002:960). |
| `reap_live` | violation | `ReapOnlySilentPeers` | The reaper drains a worker that re-advertised in the ending round (part_002:1319). |
| `readvertise_drain` | violation | `AdvertiseCancelsDrain` | A relay-ad does not cancel a drain when the outbound connection is up (part_002:656). |

The circuit runs use `MC_CircuitRegistry`:

- one service, one endpoint and one named caller, besides the `'no-cn'`
  sentinel and a request without a caller;
- `minRequests = 1`, `maxErrorRate = 1/2`, `probation = 2`, and at most 2
  requests a period.

This is enough to:

- trip a circuit within one period;
- decline, fail and pass probes;
- recover after two probes, with a run broken by a failure in between;
- interleave all of this with enable/disable and ring changes.

The logger runs use `MC_LoggerPipeline`:

- a reservoir of 2 records;
- remote-config sizes 1 and 3;
- up to 3 records between flushes, so that the reservoir fills and samples.

| Run | Expect | Checks | Shows |
|---|---|---|---|
| `circuits_safety` | pass | `CTypeOK`, `TuplesUnique`, `RecoveryOnlyByProbation`, `ImplementsCircuitHealth` | Listed tuples are unique for named and unnamed callers. An unhealthy registered circuit recovers only through probation. The registry implements the abstract `CircuitHealth` specification. |
| `circuits_after_disable` | violation | `CircuitsOffWhenDisabled` | Enable, then a ring change to forward, then disable: the forward channel's handler still holds the registry (part_002:1542). |
| `circuits_exit_unguarded` | violation | `ExitChannelsGuarded` | A channel switched to exit never gets the registry (`changeToExit`, part_002:1079). |
| `circuits_owned_dropped` | violation | `DropOnlyDisowned` | `updateServices` asks the ring about `'$'+name` and drops circuits of an owned service (circuits.js:192). |
| `logger_safety` | pass | `LTypeOK` | The reservoir never holds a debug record, and its size is always the default or a size remote config offered. |
| `logger_config` | violation | `ReservoirFollowsConfig` | `log.reservoir.size` never reaches the reservoir: the bootstrap reads `loggerParts.logReservoir`, but createLogger returns `reservoir` (part_001:106). |

Every property of a passing run has a mutant in `PROJECT.json`. A mutant
replaces a helper with a plausible slip, and TLC must then find the property
violated. Every violation is recorded as a finding.

## 5. Proofs

### `ServiceDispatch_proofs`

The proofs hold for every set of services, workers and routers and every K,
under `ConstantsAssumption`:

- `Me` is a router.
- Workers and routers are disjoint.
- 1 ≤ K ≤ |Relays|.

They are:

- **`TypeCorrect`** (`Spec => []TypeOK`), from `InitTypeOK` and
  `NextTypeOK`. `NextTypeOK` has one step per action.
- **`ChannelsCorrect`** (`Spec => [](ChannelPeersMatchMode /\ ModeMatchesRing)`),
  from the inductive invariant
  `IInv == TypeOK /\ ChannelPeersMatchMode /\ ModeMatchesRing`. Neither
  property is inductive alone:
  - The step for `RefreshServicePeer` needs `ModeMatchesRing` to know that
    an existing exit channel is exit by the ring.
  - It also needs `ChannelPeersMatchMode` to know that the channel held only
    workers.
  - Every step needs `TypeOK`.

  The lemma `ShrinkKeepsPeers` covers the actions that only remove peers.

- **`ModesFollowRing`** (`Spec => []ModeMatchesRing`) is a corollary of
  `ChannelsCorrect`.

TLC checks the same properties on the small instance.

### `CircuitRegistry_proofs`

These proofs hold for all sets of names and all thresholds under
`CircuitConstantsAssumption`:

- the `'no-cn'` sentinel is a caller, and "no caller" is not;
- `ErrNum/ErrDen` is a rate in [0, 1];
- `probation` and the counter bound are positive.

The inductive invariant is `CInv`. It is `CTypeOK` plus two conjuncts:

- `errors <= requests` for every circuit. A counted error stays within the
  bound only because of it.
- Every registered key has a real caller. The tuples are unique only because
  of it.

The theorems are:

- **`CircuitTypeCorrect`** (`CSpec => []CTypeOK`).
- **`CircuitTuplesUnique`** (`CSpec => []TuplesUnique`). The listed tuple
  reorders the key and applies the `'no-cn'` default again. The proof shows
  the second default is the identity on registered keys.
- **`CircuitRecovery`** (`CSpec => RecoveryOnlyByProbation`) is an action
  property. It has one case per action. For `Request` on the same key, the
  proof shows that the lookup returns the registered circuit, and that only
  `ProbeSucceeded` can make it healthy.

### `LoggerPipeline_proofs`

`LTypeOK` is inductive by itself. `LoggerTypeCorrect` (`LSpec => []LTypeOK`)
follows from `InitLTypeOK` and `NextLTypeOK`. In the `Log` step, the level
router has already sent debug to the drop backend, so whether the reservoir
appends a record or replaces one, it receives a non-debug record.

The reservoir's room check and its flush belong to `lib/larch`, which is
not in src. No property is stated about them, since it would only restate
the model.

### Refinements (`ServiceDispatch_proofs`, `CircuitRegistry_proofs`, `ServiceRoutes_proofs`)

- **`DispatchRefinement`** (`Spec => ImplementsServiceRoutes`) is proved
  in the standard way:
  - `Init` maps to `RInit`.
  - The lemma `DispatchStepRefines` shows that every step between two
    `IInv` states maps to an `RNext` step or a stutter, with one case per
    action.
  - The temporal step combines these with `InitIInv` and `NextIInv`.

  `IInv` is needed for two facts. An absent channel has no peers, so opening
  it as an exit yields an empty route set. An open channel is an exit or a
  forward, so `Reconciled` applies.
- **`RoutesShape`** (`RSpec => []RoutesWellFormed`) is proved of the
  abstract specification: absent channels are empty, exits route to
  workers and forwards route to routers. By `DispatchRefinement`, the
  dispatcher's channels inherit it.
- **`CircuitRefinement`** (`CSpec => ImplementsCircuitHealth`) rests on
  `CircuitInvariant` (`CInv`) and on these lemmas:
  - `StepRefines`, one case per action;
  - `RequestView`: a request only restores its circuit's health or keeps
    it;
  - `TripAt`;
  - `RestoreOrKeep`;
  - `ViewUnchanged`, for the stutters.

  Functions over `Keys` are compared pointwise first, and then equated by
  extensionality.

### What stays with TLC

Liveness (`DeadPeerRemovedWhileReaping`) is checked by TLC only, because
TLAPS cannot prove properties under fairness or `ENABLED`. The liveness
property that fails in the code, `ServiceOwnershipExpires`, is shown false by
a TLC counterexample.

## 6. Plan for the remaining components

1. **Partial affinity.** Extend `ServiceDispatch` with `partialRanges` (the
   range computation spec-modelled, since `partial_range.js` is not in src),
   `connectedServicePeers`/`connectedPeerServices`, `freshenPartialPeer` and
   `ensurePartialConnections`. Properties: the two indices stay inverse, and
   every worker connected for a service is in that service's range.
2. **Admission.** `handleRequest` and `handleLazily` with blocking and the
   rate limiter (spec-modelled counters). This covers the blocking check on
   the service name versus the routing delegate.
3. **Circuits**: done (`CircuitRegistry`).
4. **AdvertiseRelay.** `handleAdvertise`/`sendRelays`/`sendRelay` over a
   lossy network with retries, composed with `ServiceDispatch` on K exits.
5. **Discovery.** `discover`, `_forwardToRemoteDiscover`, `_getDiscoverHosts`.
6. **An abstract specification** of "which workers serve a service on which
   exit": done (`ServiceRoutes`, proved in `DispatchRefinement`). It
   should grow with partial affinity (item 1), which restricts which of a
   channel's workers this router connects to.

## 7. Not modelled

- statsd and the stats emitter are I/O. `onCircuitStateChange` only
  increments counters and logs, and changes no state.
- The log sinks and the formatting of log lines are I/O. Of logger.js, lines
  123-194 are a release shell script (git tag, npm publish) with no state to
  model.
- `states.js`, `rate_limiter.js`, `egress-nodes.js`, `interval-scan.js` and
  `lib/larch` are not in src. The parts of them that the modelled code uses
  are marked `spec_modelled` in the map.
- Liveness of circuits is not checked. A circuit's recovery depends on
  callers sending probes, which is the environment.
- The bootstrap wiring in part_001 is covered by the constants.
- The tchannel transport is the environment. The model takes its peer table
  and drains as the actions above.
- The partial-affinity branch is not yet modelled (plan item 1).
