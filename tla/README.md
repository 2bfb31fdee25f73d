# Verification of stable-placement

TLA+ models, TLC runs and TLAPS proofs for the placement directory in `src/`:
a library that gives each *grain* (a virtual actor, `Kind/GrainID`) one stable
owner, a *session* of a *node*, and lets many processes route to it.

## 1. The system

The shared state lives in one Redis, where every change is one Lua script, so it is
atomic; everything around the scripts is not. A second implementation of the same
interfaces keeps the state in the memory of one process, under two mutexes. Either
way the owner of a grain runs it as an actor, which the ProtoActor adapter finds,
starts and stops.

| Component | State | Operations | Talks to |
|---|---|---|---|
| Node registry (`redis/lua/node`, `redis/lua/lease`) | node record per identity, members SET and lease ZSET per group, invalid SET | RegisterNode, RenewNode, ReplaceNodeSession, UnregisterNode, CompleteDrain, DrainNode, MarkNodeInvalid, RestoreNode, expire one lease | appends domain events |
| Placement directory (`redis/lua/placement`) | placement per grain, ZSET of grains per node, sequence counter | Lookup, ResolveRoute, Allocate, Release, Transfer, Recover, Renew, FindByNode | reads node records and leases, appends events |
| Directory client (`redis/directory.go`) | none between calls; in a call: the placement it read, `requestStart`, a drawn PlacementID | the same operations, as GET then EVAL; ResolveRoute repeats on `conflict` | Redis, go-redis retries |
| Node processes (`redis/directory.go`, `model.go`) | the call they wait for, the grant (`NodeLease.ValidUntil`) | RegisterNode, RenewNode, ReplaceNodeSession, UnregisterNode as GET and EVAL | Redis, go-redis retries |
| Lease scanner (`redis/node_lease.go`) | in a round: candidates and the records it read | ExpireNodeLeases, RunNodeLeaseLoop | the expiry script |
| Caching router (`memory/cached_router.go`, `memory/cache.go`) | cached routes, reverse index by node, `degraded`, `epoch`, `lastEvent` | Lookup, ResolveRoute, Allocate, HandleEvent, Degrade, Recover | any `Directory`, event subscription |
| Event stream (`redis/event_bus.go`, `redis/lua/stream`) | stream, consumer group per session, pending entries, `degraded` | Publish, Subscribe, CheckContinuity, CheckPending, Trim, ReplaceConsumer, Close | handlers of routers |
| In-memory directory (`memory/directory.go`, `memory/node_registry.go`, `memory/event_bus.go`) | placements and index by node under one mutex, nodes and invalid names under another, handlers | the same operations | the bus, which calls its handlers after the mutexes are released |
| ProtoActor adapter (`adapters/protoactor`) | resolver: cached PIDs, `degraded`, `gate`, `fenced`; activator: the running PID of each grain, `fenced` | ResolvePID, HandleEvent, Degrade, Recover, Fence; Activate, Fence; Remove | any `Directory`, the actor system |
| Strategies (`strategies`, `redis/lua/shared/schedule.lua`) | round-robin counter | choose a node among candidates | |

A route travels like this: a process asks its caching router; on a miss the
router calls the directory client without holding its lock; the client GETs the
placement and sends a script with what it read; the script answers with the
placement and the lease time that is left; the client turns that into a
`ValidUntil` on its own clock; the router stores the route if no event was
handled meanwhile. When anything changes the owner, the script that changes it
appends an event in the same atomic step; each session's consumer group delivers
it, and the router evicts.

### What is hard

* A placement operation is two round trips; the placement may be moved,
  refreshed, released or made anew between them.
* Answers are late, lost, or the script runs twice because go-redis resends it.
* `ValidUntil` mixes a remaining time measured by Redis with a clock of the
  caller.
* The scanner works on snapshots, several scanners run at once, sessions renew,
  restart and are replaced beside them, and Redis' clock may be set back.
* A route is stored in the cache after the lock was released; events arrive
  late, repeated, or not at all while the subscription is down.
* Trimming and handing over consumer groups must not lose an event for a
  session that lags or has crashed between its handler and its XACK.
* Scripts have no rollback: every check must come before the first write.
* The in-memory directory reads the clock before it waits for its mutex, chooses a
  node in one critical section and commits to it in another, and publishes what it
  did after unlocking, so that events pass each other or are cut off with a context.
* A request for an actor waits for the directory twice, for the activator's mutex and
  for the resolver's; the grain may move away and come back meanwhile, a caller may
  remove the actor, and the session may be fenced.

### What makes each part correct

| Part | Promise | Property |
|---|---|---|
| Registry | record, members and lease index never disagree; a lease never shrinks under its session; offline is final | `LeaseIndexCoherent`, `LeaseNeverShortened`, `OfflineIsFinal` |
| Directory | the per-node index is exact; no route is withdrawn silently; drains are complete; the ownership contract | `IndexCoherent`, `RouteLossAnnounced`, `DrainLeavesNothing`, `UnfitNodeOnlyShrinks`, `OwnershipContract` |
| Client | stale snapshots never take effect; id and version name one owner, and an id one lifetime; lost answers apply once; deadlines are conservative | `ScriptsSeeCurrentPlacement`, `VersionNamesOneOwner`, `IdentifierNamesOneLifetime` (it does not hold: a finding), `MutationAppliedOnce`, `RouteConservative` |
| Node processes | a process that believes in its lease has it; it loses its node only by a decision | `GrantConservative`, `GrantLostByDecision` |
| Scanner | equals an atomic expiry, never beats a renewal, reaches every due lease | `ScansAreAtomic`, `RenewalWins`, `DueLeaseExpires` |
| Router | no usable cached route is wrong without an eviction under way | `CacheIndexCoherent`, `CacheCoherent` |
| In-memory directory | as the registry and the directory; a stale route is announced | `ByNodeCoherent`, `SessionKeepsItsLease`, `UnfitNodeOnlyShrinks`, `OwnersPromise`, `StaleRouteAnnounced`; proved only: `DrainLeavesNothing` |
| ProtoActor adapter | one actor for each placement version, started in the order of the owners, never shown under another one; none after the fence; a stale route ends with its lease | `RoutesNameTheirActivation`, `OneActivationEach`, `SpawnsFollowOwners`, `FenceIsFinal`, `StaleRouteEndsWithLease` |
| Stream | nothing lost, skipped or reordered; gaps are noticed | `NothingMissed`, `HandoverLosesNothing`, `HandledInOrder`, `ContinuityMeansComplete`, `EventsReachHandler` |

`PROJECT.json` lists every hazard at its line with the properties that cover it,
or the reason why none does.

## 2. The modules

```
Events                records of placements and events
 ├─ NodeRegistry      the node and lease scripts
 │   ├─ LeaseScanner        scanners with snapshots     -- implements NodeRegistry
 │   ├─ NodeLease           processes and their grants  -- steps of NodeRegistry
 │   ├─ NodeRegistry_proofs
 │   ├─ Lease_proofs        about LeaseScanner and NodeLease
 │   └─ PlacementDirectory  the placement scripts       -- implements Ownership
 │       ├─ PlacementDirectory_proofs
 │       └─ RedisDirectory  clients: GET, EVAL, answer  -- implements PlacementDirectory
 │           └─ RedisDirectory_proofs
 ├─ MemoryDirectory   the in-memory directory, its bus  -- its owners keep Ownership
 │   └─ MemoryDirectory_proofs
 └─ Ownership         the abstract contract
     ├─ CachedRouter        the router over any directory that keeps it
     │   └─ CachedRouter_proofs
     └─ GrainActivation     resolver and activator over any directory that keeps it
         └─ GrainActivation_proofs
EventStream           consumer groups, on its own
 └─ EventStream_proofs
```

**Events.** `PlacementRecord` keeps the fields decisions depend on: identifier,
node, session, version. Timestamps are left out; the scripts compare whole JSON
records, and identifier, version and owner already tell two records of one grain
apart, unless a creation ran twice (see `RedisDirectory`). `Evicts(e, g, n)` is the router's `HandleEvent` switch: which events drop a
route of grain `g` to node `n`.

**NodeRegistry.** One action per script. `node[n]` is the record under the node's
key, `members` the SET of its group, `lease[n]` the score in the ZSET (0 for none),
`invalid` the SET of invalid names, `emitted` the event the last script appended.
A node identity stands for `type/group/name`, so sets the code keeps per group are
sets of identities. Scripts that return an error or only an answer write nothing
and are stuttering steps. `ExpireNodeLease` takes the scanner's snapshot as
arguments. `UnregisterNode` and `CompleteDrain` share `Remove`, as they share
`unregister.lua`. `StepBack` sets Redis' clock back.

**PlacementDirectory.** Adds `placement`, `index` (the ZSET scores), `seq` and
`spent` (identifiers already drawn: `NewPlacementID` draws 128 random bits, which
are taken to be fresh). Actions take `raw`, the placement the caller read, and
compare it as the scripts do. The strategy's choice is any schedulable node, which
covers round robin and resource aware. A script does not ask whether its identifier was
used before: `Recreate` is a creation that runs a second time, and
`RepeatingDirectorySpec` the directory in which it may. `DirectorySpec` is the directory
whose creations each run once; the theorems about the scripts are about the wider one.

**Ownership.** The contract, without keys or scripts: who serves a node and until
when, who owns a grain, what was announced. `OwnershipContract` is the refinement
mapping: `serving` is read off the node records, `owner` is `placement`,
`announced` is `emitted`. `SessionNext` are its steps that leave the owners alone,
`OwnerNext` those that may change one. `RepeatingSpec` is the contract of a directory whose
creations may run twice: `Reclaim` begins a lifetime under a used identifier. The Redis
directory keeps `RepeatingSpec`; it keeps `OwnershipSpec`, on which `CachedRouter` and
`GrainActivation` are built, as long as the first finding of section 3 does not occur. With
a recurring identifier the version of a grain would start over, and `SpawnsFollowOwners`,
which orders actors by it, would say nothing sensible.

**RedisDirectory.** Clients with one operation in flight: `Snapshot` (the GET),
`Eval` (the script), `Receive` (the answer), `Conflict`/`Reread` (the next round of
ResolveRoute), `Resend` (go-redis repeats the EVAL, same arguments), `Fail` (any
error, a lost answer, a cancelled context). `held[c]` is what the process was last
told and what it names in its next Release, Transfer or Recover. One clock stands
for all clocks, since only durations matter. Every operation of `ResendOps` may be sent
again, creations included: `Again` is the request with the identifier it was sent with
(`NoID` where the first script used none, which leaves the draw open). `reused` is history:
the identifiers under which a second lifetime has begun. For such a lifetime the model's
record, which has no timestamps, may equal one of the earlier lifetime although the JSON
texts differ, so both may happen: the script takes the snapshot for current, as when the
times agree to the millisecond, or it finds another text (`Conflict`, or `Fail`).

**NodeLease.** The processes of the nodes. A session is one run of a process on
`NodeOf[s]`; it starts with a register or a replace (`Begin`) and then renews. `Run`
is the script of the call it waits for, `Receive` turns the answer into a grant
(`GrantUntil`: what was left of the lease, counted from before the call), `Fail` gives
up, `Resend` is go-redis sending the script again. A script nobody waits for any longer
goes to `late` and may still run (`RunLate`) or be lost (`Drop`). `Leave` is an orderly
UnregisterNode, whose answer may be lost, so that the process still believes in its grant
(its GET only finds the keys, and is part of the step); operators, the scanner and the
clock act beside them (`OthersStep`).
One clock stands for the processes' and for Redis', and neither jumps: a Redis clock set back only
makes leases last longer than their holders believe, one set forward (which no code
guards against) would end leases their holders still count on.

**LeaseScanner.** `RangeByScore` (ZRANGEBYSCORE with LIMIT), `Read` (one GET),
`Expire` (one EVAL), `Stop` (the loop returns at the first error and is not
restarted). Each element of `Scanner` is one loop of this process; scanners elsewhere
are the `ExpireNodeLease` of `OtherStep`, which is all they amount to as long as
`ScansAreAtomic` holds, and that is proved for any number of loops.

**MemoryDirectory.** Every operation takes `directory.mu` before `registry.mu` and keeps
both from its first guard to its last write, so a critical section is one step:
`node` and `invalid` are the registry's maps, `placement` and `byNode` the
directory's. Three things happen outside: the clock readings `at` that RegisterNode,
RenewNode, ReplaceNodeSession and ExpireNodeLeases take before the mutex may be any of
the past; `Allocate` is two steps, `Choose` and `Allocate`, with the chosen node in
`call[t]` (ResolveRoute chooses under the locks); and a goroutine that changed
something carries its events (`Publishes`) until `Publish` hands one to the handlers
or `PublishFails` drops the rest, when the context has ended or another handler
failed. `routes` is what a caching router that subscribes to the bus has cached;
`CacheRoute` looks a route up and stores it in one step, because the race of the
router's requests with its events is `CachedRouter`'s subject. `missed` is history:
grains whose eviction `PublishFails` lost. Guards that return an error or an answer
that changes nothing are stuttering steps. ResolveRoute reads the clock once in the model; the
code reads it again in `chooseTargetLocked`, under the same locks. That is one reading all
the same: an owner that is out of its lease at the first is so at the second, and the choice
only asks the second.

**GrainActivation.** One node session `SelfSession` of node `Self`, over a directory of
which nothing is known but `Ownership` (`DirectoryStep`). A request is split where
`ResolvePID` waits: `Begin` reads the cache (a hit returns at once and is no step),
`Ask` is the directory's answer, `Receive` goes on with it or refreshes the cached
PID, `LookUp` is the second question, asked under `activator.mu` (`holder`), `Spawn`
finds the running actor or starts one and releases the mutex, `Store` puts the
answer in the cache; `RefuseActor` is a spawn that started an actor but returned an error
or a PID that is not local; `Fail` is every other error on the way. What a request read and carries
is in `request[t]`. `resolver.gate` is not a variable: a goroutine holds it for
reading while it is `Inside`, and `FenceResolver` waits until none is.
`FenceActivator` collects and clears the map, `StopActor` stops one actor and waits for
it. `RemoveFromCache` and `RemoveFromActivator` are the two halves of `Resolver.Remove`.
`HandleEvent` may drop any route at any time, since events come late, twice or never.
`born`, `stopped` and `forgotten` are history: the placement each PID was spawned
under, the actors Fence has stopped, and those that were refused or that a caller had
removed. A route may be stored after its eviction has passed by, as the resolver has no
epoch; `StaleRouteEndsWithLease` says what still bounds it.

**CachedRouter.** Over `Ownership` and a `stream` of events not yet handled. A
request is split where the lock is released: `Begin…` under the lock, `Ask…` the
directory call without it, `StoreRoute` under the lock again. `EpochAllows` is the
epoch test with the exception for the router's own `PlacementCreated`.
`Degrade`, `LoseEvents`, `RecoverRouter` are the life of a broken subscription.

**EventStream.** Entry *i* is the *i*-th append. `group[c]` is the consumer group of
session `c` (where it began, its cursor, its pending set), `sub[c]` the Subscribe
call: `ReadInfo`, `ReadGroups`, `ReadPending`, `Confirm` are the four round trips of
CheckContinuity, then `ReadBacklog`, `ReadNew`, `Handle`, `Ack` are the consume loop,
which leaves through `Broken`, `Fails` or `Cancel`.

Operators named "Mutant of …" in comments are plausible bugs of the code. They are
used by no specification; substituting one for the definition it stands beside must
break the property named for it in `PROJECT.json`.

### External behaviour assumed

* Redis runs a script atomically; `XGROUP CREATE … $` starts after the last entry;
  `XREADGROUP` moves the cursor and the pending set in one step and skips entries
  that are gone.
* `XINFO GROUPS` may report `entries-read` as unknown while a group has read nothing,
  and `lag` as unknown at any time; a known lag counts the stored entries not yet
  delivered. (Versions of Redis that compute it as entries added minus entries read even
  after an XTRIM break this, and `ContinuityMeansComplete` is not claimed for them.) `XTRIM` does not set `max-deleted-entry-id`, `XDEL` does.
* go-redis may send any EVAL again with the same arguments when its answer is lost.

## 3. The runs

Every run finishes within four minutes with two workers.

| Run | Question | Bounds |
|---|---|---|
| `directory` | Index, announcements, drains, leases, and the ownership contract, at the grain of scripts | 2 nodes, 2 sessions, 2 grains, 2 identifiers, sequence limit 3, a clock that may step back |
| `client_race` | A resolving router beside a process that allocates, releases, transfers, recovers; lost answers, and any script sent again | 2 nodes, 1 session, 1 grain, 2 identifiers, sequence limit 3, 1 round of ResolveRoute |
| `session_race` | A client that resolves beside one that looks up and recovers, on a node whose session is replaced, removed or runs out; are deadlines conservative when answers are late? | 1 node, 2 sessions, 1 grain, 1 identifier, sequence limit 2, TTL 2, clock 0..2, 2 rounds of ResolveRoute, resolve scripts sent again |
| `node_lease` | Is what a process believes about its lease true, with answers late or lost and scripts that run late? | 1 node, 2 sessions, TTL 2, clock 0..3, 2 lease versions, 1 late script |
| `lease_scanner` | Are scans atomic in effect, do renewals win, and is a due lease always expired? | 2 nodes, 2 sessions, batch 1, 1 loop beside the expiries of others, TTL 1, clock 0..1, 2 lease versions |
| `memory_directory` | Does the in-memory directory keep the same promises with clocks read too early, choices made too early and events published too late? | 2 nodes, 2 sessions, 1 grain, 1 identifier, 2 goroutines, TTL 1, clock 0..1, 2 owners |
| `cached_router` | Is the cache coherent with events in flight? | 2 nodes, 2 sessions, 1 grain, 2 events in flight, 2 epochs |
| `activation` | Is each placement version given one actor, in order and under its own name, and none after the fence? Does a stale route end with its lease? | 1 node, 2 sessions, 1 grain, 1 identifier, 2 owners, 2 actors, 2 goroutines |
| `event_stream` | Is any event lost, skipped or reordered by trims, crashes, handovers? | 2 sessions, 2 events, batch 2 |
| `subscription` | Does a subscription that begins have everything, and does it get everywhere? | 1 session, 3 events, batch 2, foreign trims and deletes |
| `resent_creation` | finding | as `client_race`, 1 node, only creations sent again |
| `fence` | finding | as `activation`, 1 goroutine |

Why the bounds are enough: the races need one actor to act between two steps of
another, so two actors of each kind, one grain and two identifiers (a lifetime and
its successor) reach every pairing; a third owner only repeats a hand-over. Two
sessions on one node give restart and takeover, two nodes give move and drain.
TTL 2 with three clock values has a lease that is fresh, half spent and due; with
TTL 1 (where time is not the question) it is fresh and due. The sequence limit is
small so that the counter is reached, as the code's limit of 2^53-1 would be. One
identifier is enough for the cache, because a second lifetime of a grain only puts
another placement where the invariant already fails to find the cached one. One node with two
sessions is enough for the adapter: an owner is somebody else as soon as its session or
its version differs, and a hand-over of the grain to its own session is the way it comes
back. Two goroutines in the in-memory directory give one that acts between the two
halves of Allocate, or between a change and its event, of the other. Two
events with batches of two, and three with two, cover a batch that is full, partial
and continued. Symmetry is used in safety runs only, over names no definition tells
apart; the `VIEW`s drop `emitted` (no action reads it) or fields of events no
handler reads, and are explained where they are defined.

`CHECK_DEADLOCK` is on everywhere.

### Fairness

* `ScannerSpec`: weak fairness of each loop. The ticker of `RunNodeLeaseLoop` fires
  until its context ends and each Redis call returns, with an answer or an error; an
  error ends the loop (`Stop`), and nothing excludes errors, so `DueLeaseExpires`
  promises an expiry unless every loop has stopped. Nothing is assumed of nodes:
  sessions may renew for ever, and then their lease is not due.
* `StreamSpec`: weak fairness of `Proceed`, the next step of a Subscribe call that is
  under way: Redis answers and the handler returns. Failing and cancelling are not
  forced and not excluded; `EventsReachHandler` is about subscriptions that go on.

### Findings

* **An identifier names two lifetimes** (`resent_creation`). `model.go:102` says that a
  PlacementID identifies one allocation lifetime of a grain. ResolveRoute
  (`directory.go:364`) and Allocate (`directory.go:447`) send it with their EVAL, and
  go-redis sends the EVAL again when its answer is lost. If another process has been told
  the placement meanwhile and has released it, the repeated script finds no placement,
  which is what the snapshot of a first creation says, and begins a second lifetime under
  the identifier and at version 1 of the first. In TLC's trace a router's ResolveRoute
  creates the grain and loses its answer, the owner process allocates (it is told of the
  placement), releases it, and then the repeated script creates it again.
  `VersionNamesOneOwner` and `MutationAppliedOnce` therefore except identifiers in
  `reused`; `OnlyRepeatsReuse` (section 4) proves that this is the only way into it.
* **Fence forgets actors** (`fence`). `activator.go:72` says that Fence waits for every PID
  created by this node session to stop. `Activate` keeps one entry per grain and
  overwrites it when the placement has another version (`activator.go:68`): a grain that
  was transferred away and came back, or was recovered by its own session, has two
  actors then, and Fence stops and waits for the second only.

Observations that have no run of their own:

* `docs/ontology.md:399` says that the version must advance when a released placement is
  allocated again. Release deletes the key (`mutate.lua:14`) and `allocate.lua:9` stores
  version 1. Identifier and version together still name one owner
  (`VersionNamesOneOwner`), but for the first finding.
* A ReplaceNodeSession script whose answer was lost and which go-redis sends again after a
  newer session has replaced its sender takes the node back: `replace_session.lua` compares
  the caller only with the session that holds the node. `docs/开发需求文档.md:640`, by which
  renewals of a replaced session must fail, speaks of one replacement and not of a later
  one that undoes it, so this is no divergence; every grant is still conservative and the
  loss of a valid one announced (`node_lease`).
* RestoreNode takes a node off the invalid list and leaves its status draining: it gets no
  placements until its session is replaced.
* The in-memory RenewNode compares the deadline with a clock read before it waited for the
  mutex (`memory/node_registry.go:74`), so a session whose lease ran out while it waited is
  renewed; `docs/开发需求文档.md:312` says an expired session cannot come back. Nobody has been told
  that it had gone: `SessionKeepsItsLease` and `OwnersPromise` hold all the same.
* The in-memory bus drops an event when the context of the operation has ended or a handler
  before the router's has failed, and the operation still succeeds. The router's route
  is stale until its lease ends, although `docs/ontology.md:759` asks for the cache to be
  cleared or bypassed when events are missing: nobody tells it. `StaleRouteAnnounced` has
  `missed` for exactly these grains.

## 4. What is proved

By TLAPS, for any nodes, sessions, grains, clients, goroutines and identifiers, any TTL
≥ 1 and any bounds:

| Module | Theorem | Property |
|---|---|---|
| `NodeRegistry_proofs` | `RegistryTypeCorrect` | `RegistryTypeOK` |
| | `LeaseIndexCoherence` | `LeaseIndexCoherent` |
| | `DeadlinesNeverShortened` | `LeaseNeverShortened` |
| | `OfflineSessionsStayOffline` | `OfflineIsFinal` |
| `PlacementDirectory_proofs` | `DirectoryTypeCorrect` | `DirectoryTypeOK` |
| | `IndexCoherence` | `IndexCoherent` |
| | `DrainsAreComplete` | `DrainLeavesNothing` |
| | `RouteLossIsAnnounced` | `RouteLossAnnounced` |
| | `UnfitNodesOnlyShrink` | `UnfitNodeOnlyShrinks` |
| | `ScriptsKeepLeases` | `LeaseIndexCoherent`, `LeaseNeverShortened`, `OfflineIsFinal` |
| | `DirectoryImplementsOwnership` | `OwnershipContract` |
| | `RepeatingImplementsOwnership` | `RepeatingContract` |
| `RedisDirectory_proofs` | `IndexCoherenceUnderClients` | `IndexCoherent` |
| | `VersionsNameOneOwner` | `VersionNamesOneOwner` |
| | `OnlyRepeatsReuse` | where `IdentifierNamesOneLifetime` can fail |
| | `ClientsImplementDirectory` | `ScriptsSeeCurrentPlacement` |
| | `ClientsKeepContract` | `RepeatingContract` and the directory's action properties |
| | `MutationsApplyOnce` | `MutationAppliedOnce` |
| | `RoutesAreConservative` (1) | `RouteConservative` |
| `Lease_proofs` | `RegistryHoldsForProcesses` | `RegistryTypeOK`, `LeaseIndexCoherent`, `OfflineIsFinal` |
| | `GrantsAreConservative` | `GrantConservative` |
| | `GrantsEndByDecision` | `GrantLostByDecision` |
| | `ScannersAreAtomic` | `ScansAreAtomic` |
| | `RenewalsWin` | `RenewalWins` |
| `MemoryDirectory_proofs` | `MemoryIndexCoherence` | `ByNodeCoherent` |
| | `UnfitNodesOnlyShrinkInMemory` | `UnfitNodeOnlyShrinks` |
| | `MemoryDrainsAreComplete` | `DrainLeavesNothing` of this module (no run checks it) |
| | `SessionsKeepTheirLease` | `SessionKeepsItsLease` |
| | `MemoryKeepsOwnersPromise` | `OwnersPromise` |
| | `StaleRoutesAreAnnounced` | `StaleRouteAnnounced` |
| `CachedRouter_proofs` | `CacheIndexIsCoherent` | `CacheIndexCoherent` |
| | `CacheIsCoherent` | `CacheCoherent` |
| `GrainActivation_proofs` | `RoutesKeepTheirActivation` | `RoutesNameTheirActivation` |
| | `ActivationsAreUnique` | `OneActivationEach` |
| | `SpawnsAreOrdered` | `SpawnsFollowOwners` |
| | `FencesAreFinal` | `FenceIsFinal` |
| | `StaleRoutesEnd` | `StaleRouteEndsWithLease` |
| `EventStream_proofs` | `StreamTypeCorrect` | `StreamTypeOK` |
| | `NothingIsMissed` (2) | `NothingMissed` |
| | `EventsAreHandledInOrder` (2) | `HandledInOrder` |
| | `HandoverIsComplete` (2) | `HandoverLosesNothing` |
| | `ContinuityIsComplete` | `ContinuityMeansComplete` |

So every invariant and action property of a passing run is also a theorem. All of them
rest on the assumptions on the constants: `EventsAssumption` (the empty fields are no
names), `RegistryAssumption`, `PlacementAssumption`, `ClientAssumption`,
`LeaseAssumption`, `ScannerAssumption`, `MemoryAssumption`, `RouterAssumption`,
`ActivationAssumption` and `StreamAssumption`. The theorems about clients hold for
every `ResendOps`, all operations included. Four theorems need one more hypothesis:

1. `~ClockMayStepBack`. The one clock of the model is also the monotonic clock a process
   reads with `time.Now`; set back, it would make a process forget time it has seen,
   which Go's does not. For the same
   reason the clock of `NodeLease`, `CachedRouter` and the modules of one process does not
   go back; in the theorems about the scripts and the scanners it may.
2. `Foreign = FALSE`: only the library's own scripts delete entries. Another client's
   XDEL or XTRIM behind a running subscription does lose events (a hazard no property
   covers); what the code promises in that case is that a subscription does not *begin*
   on a stream with a gap, and `ContinuityIsComplete` has no such hypothesis.

*Registry.* The inductive invariant is `RegistryInv`, the type invariant together with
`LeaseIndexCoherent`: each script guards itself by one key and writes all of them
(`unregister.lua` checks the record and clears the index), so neither half is inductive
alone. One lemma per shape of write (`InstallKeepsInv`, `RemoveKeepsInv`, …) says that
it keeps the invariant, and `RegistryInvNext` joins them. The two action properties
follow by cases on the step (`StepKept`): a fresh session is installed only over
another one or none, and `RenewedDeadlineBounds` is the clamp of `renew.lua`.

*Directory.* The inductive invariant is `DirectoryInv`: `RegistryInv`, the types of the
placement keys and `IndexCoherent`. The registry part is needed because a placement is
typed only if the node it is given has a session, which `Schedulable` promises only
for a well-formed record. `IndexCoherent` rests on `StoreEntries`: a stored placement
is filed under a score no other entry has, because every score is at most `seq`. Drains
follow from the first conjunct of `IndexCoherent`; the two others follow from what a
step of the placements (`PlacementStepEffect`) and of the registry
(`RegistryStepEffect`) can change and what it announces.

*Refinement.* `Serving` maps a node to the session of its record while it is active or
draining. One lemma per script names the contract's step it takes: registration and
replacement `Serve`, renewal `Extend`, removal and expiry `Leave`, the rest of the
registry `Notice`; creation `Claim`, Transfer `HandOver`, Recover and both outcomes of
ResolveRoute `TakeOver`, Release `GiveBack`, Renew `Audit`. `LeaseIndexCoherent` is
what makes the mapping sound: a script judges an owner by the lease index, the
contract by the deadline of the session, and `TrustedIsHealthy` shows that they agree.
A creation under a used identifier is the contract's `Reclaim` (`RecreateReclaims`). The
invariant and all the theorems about the scripts are stated for `RepeatingDirectorySpec`,
of which `DirectorySpec` is a special case (`DirectoryMayRepeat`). `ScriptsKeepLeases` carries the registry's own
promises over: the placement scripts leave the nodes alone (`PlacementLeavesNodes`).

*Client.* What a script did is read off the placements (`WritesEffect`): it left them
alone, created one where there was none (`Created`), gave a grain its next version
(`Succeeded`) or deleted it (`Ended`); each of the last two only if the placement was
the snapshot the script came with. `CoherentInv` adds to `DirectoryInv` the shapes of calls and
answers, and with that every step of a client is a step of `PlacementDirectory` or none
(`ClientsImplementDirectory`), a creation under a used identifier being `Recreate`. The
theorems of the scripts then hold for clients by implication (`ClientsKeepContract`).
`VersionNamesOneOwner` speaks of what processes were told, which may be long out of date.
`Lifetimes` says that an identifier somebody still knows - it is stored, held, in an answer
(`Told`), or in a request that may be sent again (`Asks`) - is spent and belongs to one grain.
So a creation under a spent identifier is one that was sent again, for the same grain
(`Begun`, from which `OnlyRepeatsReuse` follows), and what was told under an identifier that
is not `reused` is never contradicted: while the identifier is the one stored, the stored
version is no lower (`Known`), and identifier and version belong to one placement
(`Lineage`). `MutationAppliedOnce` needs `Repeats`: an operation that is sent again after it
took effect carries a snapshot that is `Gone`: its identifier is spent and its version
passed, so no script stores it again unless its identifier recurs. For `RouteConservative` the deadline of every
route that was given out, or that an answer under way will give, is `Backed` by the
session's record (`Routes`): no later than the lease while that session has one, and past
if the session was declared offline.

*Grants.* The inductive invariant is `LeaseInv`. `GrantConservative` alone is not
inductive: an answer under way must promise no more than a grant may. So `Covered` is
asked of every deadline that was granted and of every one an answer under way will
grant: it is no later than the deadline in the session's record, and if the session was
declared offline it has passed (`Backed`, which the client's routes need too).
`RecordSteps` says what a step may do to a record (keep it, install a fresh one, extend
it, end it when it is due) and `BackedKept` that each of these keeps a backed deadline
backed; the clamp of `renew.lua` is what makes an extension one. Both lemmas are in
`NodeRegistry_proofs`. A script that runs late needs no argument of its own: it is a step of
the registry like any other. `GrantsEndByDecision` adds `EarlyEndIsAnnounced`: before
its deadline a record is ended by nothing but a replacement or a removal. Every step
of the processes is one of the registry or none, so `RegistryHoldsForProcesses` follows
from the registry's own theorems.

*Scanner.* The inductive invariant, `ScannerInv`, only types what a loop carries. The
argument is in the script: `DueAsScanned` compares the snapshot with the keys before it
writes, so an `Expire` that writes is the registry's own expiry of that node
(`ExpireIsAtomic`) and every other step of a loop leaves the registry alone, however
old the snapshot was and however many loops there are.

*In-memory directory.* `MemoryInv` joins the types to `ByNodeCoherent`. What
`PlacementStep` may do to a placement is one of three things (`PlacementSteps`): an
available node claims an unowned grain, a grain moves to a node that serves, or its
owner gives it back; `ClaimKeepsContract`, `MoveKeepsContract` and `GiveKeepsContract`
show that each is an owner step of `Ownership` (the contract's `SessionNext` is not
claimed: one ExpireNodeLeases ends several sessions at once). A second Allocate half
that finds its choice withdrawn is excluded by `StillChosen`, whatever happened between
the halves. The lease theorem is about `RenewedExpiry` with any reading `at` of the past: an
early reading can only make the new deadline earlier, where the comparison catches it,
and an expiry with one only later. `StaleRouteAnnounced` is not inductive: it does not
tie the end of a route to the lease it was read from. `RoutesInv` asks of every usable
route to be `Current` (the directory's, ending no later than its owner's lease),
`Pending` (some goroutine carries an event that drops it, and not one of an expired
lease) or `missed`. A goroutine that carries events starts nothing else
(`StarterIsFree`), so a pending event stays until `Publish` or `PublishFails`
(`PendingStays`).

*Router cache.* The inductive invariant is `CachedInv`: the types, `CacheIndexCoherent`
and `CoverInv`. A route is `Covered` while the directory stands by it (`Standing`: it is
the owner, and its session serves until the route ends or later) or an event that evicts it is
in the stream (`Announced`). Every step of the contract that ends the first establishes
the second, and an event leaves the stream only by being handled, which evicts, or by
being lost while the router is degraded and caches nothing. `CoverInv` asks it of every cached route and, by
`RequestOK`, of every answer a goroutine still carries in an epoch that has not passed:
the lock was released meanwhile, but `StoreRoute` stores it only in that epoch or after
the announcement of its own allocation. `Announced` leaves `PlacementCreated` out, so
handling that one event uncovers nothing; this is what makes the exception in
`EpochAllows` sound.

*Adapter.* `ActivationInv` rests on two facts about time. `Past` says of a placement a
request has read that its grain owned it once: no later owner of that lifetime is older,
which follows from `NewOwnerOf`, all that the contract allows to happen to an owner
(`OwnerSteps`). And between the look-up and the spawn of one goroutine, which holds
`activator.mu`, nobody else spawns (`TurnsOK`): no actor is newer than what it looked
up, and if there is one for that very placement it is the one in the map. Without
`ActivatorOK`, that the actor of the present owner is the one in the map unless a caller
had it removed, `TurnsOK` could not be established at `LookUp`; without the second
half of `TurnsOK` it would not survive an owner that changes during the spawn.
`OneActivationEach` and `SpawnsFollowOwners` follow at `Spawn`, the fences from
`ResolverOK` and `ActivatorOK`. A refused actor is forgotten as it is born, so it disturbs
none of this. `StaleRoutesEnd` has an invariant of its own, `LeaseInv`: every deadline that
is cached or carried by a request is `Within` the lease of the session it names, as long as
that session serves the node, and no later than a lease granted now, which a session that
leaves and comes back is given.

*Event stream.* `StreamInv` types the stream and says of each batch that it is a beginning
of what it was read from (`BatchOrdered`): nothing pending comes before its first entry,
while new entries are read nothing else is pending, and the entry of an XACK was handled.
`KeptInv` is `StreamInv` and `NothingMissed`, and gives the order too: the entry that is
handled next is the first of its batch, and every earlier one is handled or would still be
offered. Trim deletes and ReplaceConsumer hands over only when the groups they ask about
have nothing left, which by `NothingMissed` means that their sessions handled everything.
`ContinuityMeansComplete` is about four round trips, and compares a snapshot of the
stream with one of the groups. `Snapshots` says what the world may have done since: the stream
has only been appended to, or only lost entries (`SnapshotOf`, kept by
`SnapshotAges`), and the verdict drawn so far still stands (`VerdictOf`): either there
was no gap and what the group has ahead is there (`NoGapMeansComplete`), or the
subscription was told to go back.

## 5. Model-checked only

The liveness properties `DueLeaseExpires` and `EventsReachHandler`: the prover has no
rules for fairness and `ENABLED`. The two runs that expect a violation have nothing to
prove.

## 6. Not modelled, and why

* JSON decoding, key formatting, type checks of keys, validation of identities: the
  keys hold what the scripts wrote, names are model values.
* Metrics and the choice among candidates (`strategies`, `schedule.lua`): the choice is
  left open, which covers every strategy.
* Queries that only read (`FindByNode` and its pages, `FindNodes`, `ListInvalidNodes`,
  `Exists`) and the Redis client's Renew, whose script is in `PlacementDirectory`.
* `PlacementCacheInvalidated`: a declared event type that nothing publishes.
* In memory: the version of a lease, which nothing reads; several handlers of the bus,
  whose effect on the router's is `PublishFails`.
* In the adapter: `LocalActivationResolver`, which keeps no state and is the comparison at
  the head of `LookUp`; PIDs on other nodes; a `Remove` without a PID; a target group that
  does not fit, which is answered with an error.
* Logging; examples; the Pub/Sub hints, which the code declares unreliable (their
  effect on the router is `ManualCacheClear` or a repeated event).

## 7. Plan

Done: all the modules of section 2, their runs, and the proofs of section 4. Next:

1. Strategies as operators, against reference definitions.
2. `FindByNode` pages under concurrent changes.
