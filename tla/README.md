# A formal model of MonstersDNA

MonstersDNA keeps one shared world of monsters alive for many players. A single
API process owns the world at a time, simulates it at a fixed rate, makes every
birth and death durable before anyone sees it, resets the world each UTC
midnight, and survives crashes, lost database connections and restarts. This
directory holds TLA+ models of that program, the TLC runs that check them and
TLAPS proofs about them.

Paths below are relative to the repository, with these abbreviations:
*runner* = `apps/api/src/world/world-runner.service.ts`, *persistence* =
`apps/api/src/world/world-persistence.service.ts`, *lock* =
`apps/api/src/world/world-lock.service.ts`, *gateway* =
`apps/api/src/world/world.gateway.ts`, *engine* =
`packages/game-core/src/sim/engine.ts`, *service* =
`apps/api/src/world/world.service.ts`, *game* =
`apps/web/src/components/game/game-experience.tsx`.

## 1. Inventory

| component | state it keeps | operations | hard behaviour | what makes it correct |
|---|---|---|---|---|
| World runner (*runner*) | `mode`, `state`, `world`, timer, queued commands, pending `criticalWrite`, `adminMutation`, `dailyReset`, retry timers | `tryStart`, `load`, `onTimer`, `commitCritical`, `commitAdminMutation`, `resetWorld`, `handleLockLost`, `shutdown`, `enqueue` | every `await` is an interleaving point; saves fail or succeed without an answer; the lock is lost in the middle of a flow | no snapshot is ahead of the event log; nothing is published before it is durable; retries record an event once; what is running is durable; a paused world resumes |
| World persistence (*persistence*) | `writeChain`; the tables WorldSnapshot, Monster, WorldEvent, World | `checkpoint`, `commitCriticalEvents`, `resetWorld`, `loadCheckpoint`, `createInitialCheckpoint`, `drain` | transactions queue behind each other and outlive the ownership of the process that queued them | rows, snapshot and log tell the same story |
| World ownership lock (*lock*) | `client`, `owned` | `acquire`, `release`, `handleLoss` | a PostgreSQL session dies before its client learns of it, or outlives it; late `end` events | one process ticks |
| World gateway (*gateway*) | sessions by socket, by monster; `joinVersion`; token buckets | `join`, `leave`, `input`, `action`, `locomotion`, `pairRespond`, `ack`, disconnect, broadcast | joins await the database between check and use; two devices take the same monster; commands are refused while the world is paused | one controller per monster; every controlled entity has a live session; a controller is released |
| Snapshot builder (`world-snapshot.builder.ts`) | a `ConnectionView` per socket | `buildSnapshot`, `buildDelta`, `filterEvents` | entities leave and re-enter the area of interest | the client's mirror equals what it may see |
| World and account services (`world.service.ts`, `account.service.ts`, `guest.service.ts`) | Monster rows, active monster, owners | create, update, copy, select, respawn, spawn, claim, release, admin operations | check-then-act across transactions; row and live entity change separately | quota; one owner; row and live entity agree |
| Simulation engine (`sim/*.ts`) | entities, bodies, eggs, pair requests, controllers | `applyCommand`, `stepWorld`, `catchUp` | long legal sequences of commands and ticks at caps and boundaries | population cap; an egg hatches once; a dead body is not controlled |
| Web connection (`apps/web/src/lib/net`) | mirror of entities, last sequence, session token | connect, join, apply snapshot and delta, send, disconnect | reconnects, late messages | mirror agrees with the server |
| Web agent tools and portraits (`apps/web/src/lib/agent`, `portrait-queue.ts`) | the tool slot; queue, running count, cache | register and unregister, enqueue and cancel | cancellation while running | one writer; the slot is freed once; nothing acts for a creature that is no longer its own; a run that ended stays ended |
| User interface, authentication, genetics, terrain, deployment | - | - | rendering, a library, continuous numeric code, scripts | not modelled |

How they interact: the gateway and the services call `runner.enqueue` (commands
are applied by the next tick) and `runner.killMonster`, `spawnMonster`,
`resetWorld` (keeper actions, which pause the tick). The runner calls the lock
(`acquire`, `isOwned`, its loss callback) and persistence (each durable write
is queued on `writeChain`; its reads are not), and a callback
registered by the gateway publishes each tick's frame and events. Processes share
nothing but PostgreSQL.

`PROJECT.json` lists every hazard met in this survey with the line where it
bites and the properties that cover it, or why none does.

## 2. Modules

| module | models | abstract or composed with | checked by | proofs |
|---|---|---|---|---|
| `WorldRunner` | the runner, the write queue, the ownership flag, for a set of processes | implements `DurableWorld` | `runner`, `runner_handover`, `two_tickers`, `reset_stall` | `WorldRunnerProofs`, `DurableWorldProofs` |
| `DurableWorld` | the promise: one world, one record, nothing shown before it is durable | - | as a property of `runner` | refined: `DurableWorldProofs` |
| `WorldGateway` | sessions, `joinVersion`, takeover, the command queue, the controller of an entity | the runner as phases | `gateway_safety`, `gateway_live`, `lost_detach` | `WorldGatewayProofs` |
| `Inventory` | owners, quota, selection, claim and release, keepers' operations, as interleaved transactions | the runner as running or not | `inventory`, `inventory_quota` | `InventoryProofs` |
| `Simulation` | lives, control, eggs, pair requests and the population, tick by tick | - | `simulation` | `SimulationProofs` |
| `WorldView` | the delta builder, the socket's two channels, the mirror and the joins of a page | the gateway's joins, the runner's lock | `world_view` | `WorldViewProofs` |
| `AgentTools` | the tool slot, the waits of the mutating tools, the run of an agent | the page as what may change meanwhile | `agent_tools` | `AgentToolsProofs` |
| `CommandQueue` | the filter of the runner's queue, for the two modules that have a queue | - | the runs of both | `PrefixInduction` |

`PrefixInduction` has the induction that the proofs about folds and filters share.
`MC*` modules instantiate them for TLC. Every question of the project is a run of
its own; nothing is checked twice.

Every safety invariant and every action property of the passing runs, and the
refinement, is also a theorem; section 9 says under which hypotheses. The liveness
properties stay with TLC. What could be modelled next: the pg clients behind `isOwned`.

## 3. WorldRunner

### State and code

A simulation state is abstracted to an *image*: the generation of the world (a
reset starts the next one) and the set of critical events (births, deaths,
keeper spawns; *runner* `criticalEvents`) that produced it. Every claim about
crashes, retries and resets is a claim about which events an image, a row and a
client have seen; positions, energies and genes do not enter it. `Owned` are the
events about monsters with an owner: a checkpoint refreshes the rows of those
only (`checkpoint`), a critical commit writes the rows of its events.

| variable | code |
|---|---|
| `mode`, `live`, `world`, `backoff`, `retry`, `halt` | `mode` with the timer, `state`, `world.nextResetAt`, `resetRetryAt`, `lockRetryTimer`, `stopping` and how far `shutdown` is |
| `held`, `holder` | `lock.isOwned`; the advisory lock in PostgreSQL, which a session can hold after its client is gone (`Orphan`) |
| `critical`, `admin`, `reset`, `load` | where `commitCritical`, `commitAdminMutation`, `resetWorld` and the `load` calls of `tryStart` and of a failed reset are waiting |
| `chain` | `writeChain`: an entry captures its data when it is queued, the first one is in flight, `landed` says that its transaction committed although the answer has not arrived |
| `snap`, `rows`, `log`, `nextReset` | the tables WorldSnapshot, Monster, WorldEvent, World |
| `today`, `ids`, `published`, `spent` | the UTC day; fresh names handed out; what clients saw; how much of each bound is used |

An action is what the code runs between two awaits: the actions of a flow are
named after it (`CriticalTick`, `CriticalSaved`, `CriticalFails`,
`CriticalRetry`; `AdminMutate`, `AdminDrained`, `AdminSaved`, ...). `Land` is the
commit of the transaction in flight; between `Land` and the answer a process may
crash or the answer may get lost. The first population is written outside of the
queue, by a transaction of its own (`LoadSeeds`, `SeedLands`, `LoadSeeded`,
`SeedFails`). `Quiet` says that a `drain` whose turn has come
resolves before any other callback of that process runs, as a resolved promise
does. `LockLost` is the process learning of a lost connection, `SessionDies` the
session ending in PostgreSQL before that (with `Silent`), `OrphanEnds` PostgreSQL
noticing a dead client. `Restart` is a crash, or the start of a stopped process.

`acquire()` is one step of `TryStart`: it takes the lock, finds it held, or throws, and
when it throws the session of the client that it gives up may hold the lock for a
while. Its connect and its query are not separate awaits.

`RowsAfter` is what a transaction leaves in the Monster rows. A critical save writes
rows from the *final* state, so a monster that was born and is gone again in the same
batch has no row (*persistence* 386-395 and 443-454), while the snapshot and the event
log have both its events; `docs/codebase-review-2026-09-05.md` 245-254 describes it. Only
a catch-up makes such a batch, because a tick that bears or kills is a batch of its own
and a body lies longer than a tick. `Fleeting` are the events about such monsters:
`LoadAdvances` may produce them, a tick and a keeper may not, and `RowsMatchSnapshot`
says that the rows are the snapshot's events *except those*.

### Assumptions and bounds

- `Punctual` (the one timing assumption): a process that lost the lock takes it
  again only when what it had under way has ended. Its retry waits for 2 s at least
  (`LOCK_RETRY_MIN_MS`, `scheduleLockRetry`), and a write is quicker. It binds a process
  to its own past only: *another* process may take the lock at any moment once it is
  free, while the former owner's writes are still queued, in flight or in their back-off.
  The code has no fence against these (`docs/codebase-review-2026-09-05.md` 300-308).
  Without `Punctual`, that is under `Spec`, TLC violates `SnapshotNeverAheadOfLog`: note
  A below. `WorldRunnerProofs` does not use it, `DurableWorldProofs` does.
- `Silent`: PostgreSQL may end the session of a lock before its client hears of it. The
  run of one process and `two_tickers` allow it, `runner_handover` does not: that is
  exactly what two owners need (finding 2).
- `Faulty` and `LostAcks`: the flows whose database operations may fail, and
  those whose commit may succeed without an answer. `runner` leaves out exactly one of
  each, a failing `reload` and a lost answer of an `admin` save, which finding 1 and note B
  show; `runner_handover` leaves out none.
- `MaxWrites`, `MaxFaults`, `MaxLosses`, `MaxRestarts`, `MaxKeeper`, `MaxDays`
  bound one process's queue (interval checkpoints only), failed operations, lost
  connections, crashes and shutdowns, keeper actions, and midnights. One of each
  already combines: a fault in a save, a lock lost during its retry, a crash
  during the reload and a midnight that falls into any of them are one behaviour.
  A second event lets a catch-up or a tick add to a history that is not yet saved.
- One flow of a kind at a time, and one `tryStart` at a time, per process. The
  first holds by the modes (with `Punctual`: the proofs show it); the second is the
  subject of a hazard that no run covers.
- A crash rolls back a transaction that has not landed.

### Fairness

`FairSpec` has weak fairness for each family of steps of a process: Node runs
every timer and callback that is due, and PostgreSQL answers every query, if only
with an error (`Land`, `Settle`). Nothing makes a keeper, a tick with critical
events, a midnight or a fault happen. Faults are bounded, which stands for a
database that eventually recovers. Weak fairness is enough: a flow that waits for
an answer stays enabled until it arrives.

### Runs

| run | question | result |
|---|---|---|
| `runner` | one process, an event about an owned monster and a fleeting one, every interleaving of ticks, saves, keeper actions, resets, faults, lock loss, shutdown and crash: is what is saved, published and run consistent; does a paused world resume, and does the daily reset happen | all ten properties hold |
| `runner_handover` | two processes; any moment for a takeover, orphan sessions, a fault in any flow, writes of the former owner that land late | `OneTicker`, `SnapshotNeverAheadOfLog` hold |
| `two_tickers` | ... when PostgreSQL ends the lock's session before the client hears of it | `OneTicker` is violated: finding 2 |
| `reset_stall` | one process; the reload after a failed reset fails too | `ResumesService` is violated: finding 1 |

What `runner_handover` does not claim, the code does not give: a write of a former
owner that lands after its successor's load replaces the snapshot and the rows under
the running successor. So `RunningIsDurable`, `RowsMatchSnapshot`, `DurableHistoryGrows`
and the refinement are statements about one process, with its losses, restarts and
retries. What survives any handover is that there is one ticker and that no snapshot
has an event that the log has not. `PublishedIsDurable` and `LoggedOnce` survive it too,
without any timing assumption; they are proved for any number of processes (section 9).

`RefinesDurableWorld` is the strongest of them. Its mapping (at the end of
`WorldRunner`) takes the durable snapshot for the world, the events of the event
log for the record and what clients saw for what was shown; processes, locks, the
write queue, batches and retries disappear. Under it every step of the runner is
either invisible or one of the three steps of `DurableWorld`: a seeding or a reset
begins an empty epoch, one commit adds the same new events to the world and to the
record, and a publication shows events that are in both. A checkpoint that drops a
saved event, a retry that records one twice, a snapshot that contains an event
before the log does, or a publication before the commit is none of them.

`CHECK_DEADLOCK FALSE`: a system whose bounds are used up and whose processes are
all stopped may stop.

What the properties say is in the comment above each of them. Each property of a
passing run has a mutant: an operator beside the one it changes, marked
`Mutant:` in the module, that changes the code the way a plausible bug would and
makes TLC find the property violated.

### Findings

1. *A reset that fails twice stalls the world.* `resetWorld`'s `catch` awaits
   `load(false)` and calls `start()` only if that succeeds. If the reload rejects
   too, the process keeps the lock with its timer cleared and nothing scheduled:
   the world stands still until the process is restarted, and no standby can take
   it. The comment above the `catch` promises to "resume service".

2. *Two owners.* "Only the process holding the lock may tick or write a world" (*lock*
   19) holds as far as the client knows: when PostgreSQL ends the session first (a
   terminated backend, a failover, a partition), another process takes the lock and both
   tick until the first hears of it. `verify()` would notice; its comment names the tick
   loop as its caller, but only tests call it.

Two notes, on behaviour that the passing runs exclude and TLC shows when they do
not:

Note A. *A keeper action can save unsaved catch-up events.* After its drain,
`commitAdminMutation` checks that the process owns the lock and has a state, not that
it is the state it paused. If the lock was lost and retaken meanwhile, which needs a
drain slower than the 2 s retry delay (`Spec` in place of `PunctualSpec`, two events, one
keeper action, a lost lock and a fault), its snapshot contains catch-up events whose own
save may still fail: `SnapshotNeverAheadOfLog` fails.

Note B. *A keeper action whose answer is lost is undone* (`LostAcks = Flow`). Unlike
critical saves it is not retried; memory keeps the old state and the next
checkpoint overwrites the committed kill or spawn: `DurableHistoryGrows` fails.

## 4. WorldGateway

### State and code

The module follows the question "who controls this monster" through its three
answers, which the code keeps apart: the sessions and the registry of the
gateway, the `controllerId` of the live entity, and what each client was told.
The monsters are those of one guest, who may connect several sockets; a monster
of another guest is never resolved by `resolveControllableMonster`.

| variable | code |
|---|---|
| `session`, `controllers` | the `sessions` map (`conn` is the lifetime of the socket and of its entry), and `controllers` |
| `joins` | the `onJoin` calls that await something: `wait` (first `waitForPendingCommit`), `lookup` and `read` (`resolveControllableMonster` before and after its query), `held` (second `waitForPendingCommit`), `room` (`socket.join`) |
| `phase` | the runner: `running`; `saving` and `failed` (a `criticalWrite` is pending, its last attempt has failed); `keeper` and `reset` (paused without one); `lost` |
| `commands`, `entity` | `commands`; `state.entities` reduced to body, controller, grace period and whose input moves it |
| `generation` | the identity of `this.state`, which `onJoin` compares |
| `row`, `saved` | `Monster.alive`, and the bodies in the recovery snapshot |
| `told`, `granted` | what each client was last told it controls; the request that the session reflects. They record the past and guard nothing |

A synchronous handler is one action. `OnJoin` starts a call; its later segments
are `JoinLooksUp`, `JoinReads`, `JoinHeld`, then `JoinDropped`, `JoinObserves` or
`JoinControls`, then `JoinEnds`. `Idle` makes the order of Node's event loop
exact: the joins that a settled save releases, and those that return from
`socket.join`, are microtasks and run before any other handler, in any order
among themselves. `Tick` applies the whole queue with a fold of `ApplyCommand` (`Worlds`, a
recursive function, as is the filter `Without`, so that both can be proved about),
ends grace periods and lets any monster die; a critical event (a spawn, a change
of control, a death) pauses the world for its save.

The runner's own flows are here only as phases; `WorldRunner` models them. A
keeper action, a reset and a load therefore commit in one step, and a lock loss
ends whatever was in flight.

### Bounds

- `Socket`, `Monster`: two sockets of one guest make every takeover; two monsters
  make the switch between them. Runs with faults use one monster.
- `MaxRequests` joins and leaves: three allow a join, a takeover and a late
  answer. `MaxFaults` failed saves, `MaxUpheavals` keeper actions, resets and lost
  locks: one each. `Upheavals` chooses which of them a run allows.
- `QueueLimit` stands for 1024; the runs cannot reach it. See the hazards.
- One queued input per session, in place of the rate limit: a second one equals
  the first here.
- A corpse outlasts a join's lookup (`BodyExpires`): it lies for 12 s of
  simulated time (`CORPSE_LINGER_SECONDS`), which stand still while a save holds
  the join, and a query takes milliseconds.

`CHECK_DEADLOCK FALSE`: when the bounds are used up and the sockets are closed,
nothing more need happen.

### Fairness

A running world ticks and its grace periods end, a critical save is retried until
it succeeds (*runner* 605-640; `MaxFaults` stands for a database that recovers),
keeper actions and resets end, awaits return. Weak fairness suffices: each of
these stays enabled until it happens or a pause, which ends itself, replaces it.
Nobody has to connect, join, leave or disconnect.

### Runs

| run | question | result |
|---|---|---|
| `gateway_safety` | two sockets, one monster, every fault and upheaval | `OneController`, `MovedByController`, `NoRival`, `NeverBackwards` hold |
| `gateway_live` | two sockets, two monsters, failing saves and resets | `ReturnsToAI` and `RegistryMatchesWorld` hold, without keeper actions, lost locks and failed resets |
| `lost_detach` | `ReturnsToAI` with a keeper action | violated: the detach is refused |

`RegistryMatchesWorld` is the strongest of them and is false in general: after a
lock loss or a failed reset the reloaded entities have no controller
(`deserializeWorldState`) while the sessions, which did not go away, keep
`isController`; a keeper action drops a queued attach. `NoRival` is what remains
true then: the two sides never name two different sockets.

### Findings

3. *A player who leaves during a keeper action stays in control.* `enqueue`
   refuses every command while the world is paused without a critical save, a
   detach too, and `handleDisconnect` does not look at its result. The entity
   keeps a closed socket as its controller, without a grace period, so AI never
   takes it back; the spec promises that it does, after 10-15 seconds.

Note C. *A client can be told last that it controls what it has just lost.* `onJoin`
emits `joined` after `await socket.join` without looking again. Two joins that wait
for one save run up to that await one after the other, so the first socket is told
`controlTakenOver` and then `joined`. (`ToldTheTruth` in the module states the
contrary; no run checks it.)

## 5. Inventory

### State and code

The REST handlers of WorldService and AccountService run concurrently, over
PostgreSQL and the live world. Nobody but the database orders them.

| variable | code |
|---|---|
| `device`, `row`, `selected` | `GuestPlayer.userId`; the `Monster` rows with both owners (device and account), life and design; `WorldMember.selectedMonsterId` |
| `locked` | the `FOR UPDATE` or the update by which a transaction locks the row of its device |
| `mode`, `live`, `commands` | the runner: running, paused by a keeper action or a reset, or without the lock; the live entities; the queue |
| `call` | the requests under way, each at its next await, with what it has read |
| `unchecked` | the monsters that came to their device, or back to life, on a path that does not count |

An action is what runs between two awaits. The writes of a transaction become
visible together, so its commit is one action; a single statement is its own. The
handlers that read outside of a transaction keep what they read in `call`
(`wasAlive`, `spared`, `dna`), so that it may be stale when it is used: `selectMonster`
binds and chooses in two statements without the device's lock, `respawnMonster`
holds its lock across a keeper action and may time out while that goes on,
`resetWorld` reads the saved monsters before the transaction that deletes the
others, when a keeper asks for it; the daily reset keeps the rows (`preserveHistory`).
`adminCreateMonster` needs a running world only if it is to spawn what it creates.
`Fail` and `MutationFails` reject any of them, a reset in its transaction too.

`Init` has the databases that a few creates, claims and selections leave behind.

### What the properties say

`QuotaKept` is the quota on the paths that count: creates, copies and respawns of
one device may overlap, and each relies on the lock of the device. The handlers
write different columns in different orders, and four properties say that this
loses nothing: `SavedForever` (no step takes a monster from both its owners),
`LocalStays` (a monster without an account does not leave its device),
`DeviceHeld` (one of two claims wins, and only its own logout undoes it) and
`HistoryMovesWithDevice` (an account gains or releases exactly the monsters of the
device it claims or releases, in the same step). `SelectedIsReachable` relates
selections to owners: a release spares the selected monster, a reset clears the
selections it deletes, and a selection may race with both.

### Bounds

Two devices, two accounts, two monsters, one design, two requests at a time and two
in all (a world after any longer history is an initial state), one failure, death or
pause; all are needed for a race of two requests about one monster. The quota is 1
in place of 6. `inventory_quota` has one request at a time and three in all.
`CHECK_DEADLOCK FALSE`: when the requests are used up, nothing more happens.

### Runs and findings

| run | question | result |
|---|---|---|
| `inventory` | every pair of requests, interleaved with ticks, a death, a pause and a failure | all seven properties hold |
| `inventory_quota` | does no request take a device over the quota of living monsters | violated by `selectMonster` |

4. *Selecting passes the quota.* `selectMonster` binds a monster of the account to
   the device that selects it without counting (*service* 313-319), while create,
   copy and respawn count under the device's lock and answer "A guest may keep at
   most 6 living monsters". Claim on one device, select on another that is full.

`DnaInSync`, which no run checks, states what the comment of `updateMonster` says,
"Keep a live entity in sync with its durable row". TLC violates it with two updates
that write in one order and enqueue in the other, or with one whose command meets a
paused world.

## 6. Simulation

### State and code

`entity` is `state.entities`, one record per id, reduced to life, control, age and
cooldown; `eggs` and `requests` are `state.eggs` and `state.pairRequests`. Times are
counted down in ticks instead of compared with `state.time`. `phase` and `living`
are where `stepWorld` is: the phases are in its order (`TickBegins`: time and
ageing; the commands, one action each; `Sweep`: control, requests, visitors;
`Visit`: the loop over the entities that lived when it began; `TickEnds`: hatching
and bodies). Keeper actions and restarts happen between ticks. `life` and `rested`
record the past and guard nothing. A restart (`Restore`) clears control; a long downtime
ages the living by any number of ticks, lets the old die, and begins `catchup`, the steps
that `catchUpWorld` still takes, during which no command and no keeper comes. `Respawn` is
a player's or a keeper's, of an owned monster or a wild one.

Positions, energy, health and designs are left out, and with them who is near,
who is fit and who dies: `PerformAttack`, `PerformBreath`, `UpdateAiEntity` and
`ApplyPlayerMovement` let any of the entities die that the code lets die (another
player's controlled monster never of a blow, for example), and mating and visits
may or may not happen. A request may always be rejected.

### What the properties say

`CapKept`: the check of the population against its cap is made in six places, at
different moments of a tick, some before the entity they make room for exists;
nothing but spawns, one by one, takes living and eggs over it. `LaysOncePerCooldown`
and `AcceptedInOneLife`: a parent may be in several requests, be chosen by an AI and
answer, die, and be respawned under the same id, all before a request expires;
still it lays once per cooldown, and no request is accepted in another life than it
was made in. The second holds because a new life is too young to mate for longer than a request
lasts (`PAIR_REQUEST_TIMEOUT < ADULT_AGE`, 20 s and 15 min), and because a restart, which
ages everyone at once by the time it does not replay (`Aged`; `ageWorldEntities`), then
takes steps that outlast every open request (`FINE_CATCHUP_SECONDS`, 30 s) before any
command: the mutant that ages without these steps breaks it. `DeadAreInert`: no order of
death, attach, detach and grace leaves a body controlled, or with a grace period that
would hand it back.

### Bounds

Two monsters of players, one wild id, two eggs, two requests, a cap of 4, two
commands per tick and two new lives; of the times each is the smallest that keeps
their order (in the code: grace 12 s, request 20 s, hatching 30 s, body 12 s,
adult 15 min, cooldown 20 min, at 0.1 s a tick). Two commands make a tick in which
two requests are answered, or one is answered by a parent that was just paired.
Ids and lives run out, which disables births, never a tick: deadlock is checked.

| run | question | result |
|---|---|---|
| `simulation` | every tick, command, keeper action and restart with its catch-up | all five properties hold |

## 7. WorldView

### State and code

One page and its socket. `session` is the gateway's session with the
`ConnectionView` that `buildSnapshot` and `buildDelta` keep; `joins` and `down` are
the two channels, which deliver in order and lose what is under way when the
connection goes; `page` has the mirror of world-connection.ts, `pendingMonsterId`,
the selected monster of *game*, and whether its join effect and its retry timer are
due. `lookup` is the latest `onJoin` whose query is under way (an earlier one is
superseded by `joinVersion` and does nothing), `entering` the one at
`await socket.join`, between the choice of its monster and its snapshot.

A record has two fields of two values, in place of the fifteen that `diffNetEntity`
compares: a patch can contain none, one or both. Eggs and depleted resources are sets
that are treated alike, and are one set here.

### What the properties say

`MirrorsTheView` is the contract that makes deltas work: applying all the messages
under way to the page's mirror gives exactly the view that the next delta will be
made from, with entities that leave the area of interest and come back, patches of
one field, switches of monster, resets, reloads and reconnections in between. It is
not true from the start of a connection: the page keeps its old mirror until the
first snapshot, so before that the mirror may contain more.

`Rebuilt`: a page that stays connected gets a snapshot of this connection. A join can
meet a world without an owner, be superseded, or find that the world was loaded or
reset while it waited; each of these is answered with an error that starts the retry,
or followed by another join or a reset's snapshot. A lookup that throws is not: the
page listens to no event that it causes. That case is excused by `failed`.

### Fairness and bounds

Weak fairness of delivery, of the handlers and timers of both sides, and of a server
that takes the world again (`runner` is about that). Nothing makes the link stay
up, the player choose, or the world tick. One tick that changes something, one lost
lock or reset, two connections and one choice: each is used up in any order, and a
second connection is what makes a stale mirror. `Window` stops ticks while a message
is under way; snapshots and errors still queue behind one another.
`CHECK_DEADLOCK FALSE`: the page may stay away.

| run | question | result |
|---|---|---|
| `world_view` | is the mirror the view, and is every page rebuilt | all three properties hold |

## 8. AgentTools

### State and code

The page registers its tools while it is connected (`registered`), and each
registration has its own closure with a `busy` flag (webmcp.ts). A tool is a chain of
waits: `Land`, `Approach`, `RunAgentMotion`, the deed and its animation, a rest, or
the request of `create_monster`. `call` is which of them each call is at, with the
creature that the wait began with and the command of its motion. Each tool has an
action that begins it (`Move`, `Explore`, `Flee`, `Rest`, `Eat`, `Attack`, `Breed`,
`BeginCreate`); `Landed` and `Reached` go from one wait to the next, `Done`,
`Interrupted` and `Timeout` end one. Between them anything may happen to the page:
the link, the creature it is told of, the menu, the keys, death, a reset, and the
coach, who clicks on buttons as they were last drawn (`offered`).

JavaScript runs to completion: a step is one task with the promise callbacks it
releases. An abort rejects the pending wait, or the fetch that has its signal, and
the `finally` blocks run in the same step.

### What the properties say

`OneWriter` and `SlotIsFreed` are about the slot: a call that timed out, or whose
registration went with the link, frees it, and not before its callback has ended,
also when the tools were registered anew in between. `SteeredByAMotion`: whichever
way a motion ends, the creature stops, and the `finally` of an old motion does not
stop a newer one. `DeedsAreCurrent`: after any wait the action is sent only for the
creature the call began with, controlled, alive, with the menu closed and the run
going on. `RunStaysOver`: a run that ended by death, a reset or the coach begins
again only with a new creature, or by a click on a button drawn before the end.

### Fairness and bounds

Weak fairness of the timeouts only (20 s in the code): the agent, the server, the
link and the people may do nothing for ever. Two calls, two creatures and two
registrations; one call must be under way, over two registrations, when another
begins. Deadlock is checked: people can always press a key.

| run | question | result |
|---|---|---|
| `agent_tools` | two calls of any tool, in any page | all six properties hold |

## 9. Proofs

Every type invariant, safety invariant and action property of the passing runs is a
theorem for every value of the constants, and so is the refinement of
`DurableWorld`. The assumptions on constants are the named ones of the modules, which
TLC evaluates in every run: `None` and the like are no member of the sets they stand
beside, bounds are natural numbers, the sets that are counted are finite
(`InventoryConstants`, `SimulationConstants`, `AgentToolsConstants`), a request expires
before an adult could have grown (20 s and 15 min in the code) and within the steps of a
long catch-up (30 s, both `SimulationConstants`), a field has a value
(`WorldViewConstants`). Where a theorem needs more, it says so as a hypothesis:

| hypothesis | used by | what fails without it |
|---|---|---|
| `~Silent` | `TicksOnce` | two owners tick (finding 2) |
| `PunctualSpec` in place of `Spec` | all of `DurableWorldProofs` | note A |
| `OneProcess` | all of `DurableWorldProofs` but `SnapshotsAreLogged` | a former owner's write lands under its running successor (section 3) |
| `"admin" \notin LostAcks` | all of `DurableWorldProofs` but `SnapshotsAreLogged` | note B |
| `[]QueueHasRoom` | three theorems of `WorldGatewayProofs` | a refused attach or spawn: the hazard of the full queue |
| `OnlyResets` | `RegistryAlwaysMatches` | the reloaded entities and dropped commands of section 4 |

### WorldRunnerProofs: what is saved

For any number of processes under plain `Spec`, that is with takeovers and retries at any
moment, and for every choice of `Faulty` and `LostAcks`:
`TypeCorrect` (`[]TypeOK`), `PublishedDurably` (`[]PublishedIsDurable`) and
`RecordedOnce` (`[]LoggedOnce`), and with `~Silent` also `TicksOnce` (`[]OneTicker`). The
type invariant is split into `MemoryOK`, `FlowsOK`, `DbOK` and `EnvOK`, each preserved by
each action.

`TicksOnce` rests on `Owning`: a process whose flag is set holds the lock in PostgreSQL,
and one that ticks has its flag set. It says nothing of what else is under way, so that
late writes and old flows of a former owner, and a lock taken at once, are all covered.

Neither `PublishedIsDurable` nor `LoggedOnce` is inductive. The reason a retry records
nothing twice is that an event belongs to one batch from the moment it happens: the batch is *claimed* by the
entries queued for it and by the critical save that waits in its back-off. `SaveInv`
says so:

- every landed entry's events are in the log under its batch;
- every claim, queued, waiting or logged, uses an event and a batch name that has
  been handed out (so that the next fresh ones are unclaimed);
- two claims of one event are for the same batch;
- what was published is logged.

The lemma `SavePromise` proves `Spec => []SaveInv` from `TypeOK`, one step per action.

### DurableWorldProofs: one history

The rest of the runner, on top of these, under `PunctualSpec`. Three more invariants
carry it, two of them for any number of processes.

`ControlOK` is about the control of each process by itself. Its flows exclude each other
(`OneFlow`), and each queued write is one that a flow is waiting for, a calm checkpoint, or
a drain (`QueueOK`): a flow has at most one write in the queue, only drains follow it, and a
load reads or seeds the tables when nothing of its own process is left to be written. This
is where `Punctual` is used: without it a retaken lock would meet the old flows.

`AllRecorded` gives `SnapshotsAreLogged` (`[]SnapshotNeverAheadOfLog`), for any number of
processes, takeovers at any moment and any lost answers. Every image that a process may
still write (queued, in flight, in the memory of a flow, or its live state while it
ticks) is in the log but for the events that this very write records with it. That is a
fact about one process and a log that only grows, so nobody else's writes can break it.

`OneHistory` relates memory, queue and tables of one process (`OneProcess`), if keepers'
saves are answered. `TablesMatch`: the rows are the events of the snapshot but for
`Fleeting`, and all of them are logged. `MemoryMatches`: what ticks is the snapshot; the
image of a save in any phase, queued, in flight, landed without an answer or in its
back-off, is the snapshot with the new events of that save, of which all are durable or
none; a load holds what the tables hold. An interval checkpoint writes the snapshot that is
there. With it come `TicksTheDurableWorld` (`[]RunningIsDurable`), `RowsTellTheSnapshot`
(`[]RowsMatchSnapshot`), and step by step `ImplementsDurableWorld` (`RefinesDurableWorld`):
the landing of a save is `Save` of its events or a stutter, that of a reset or of the seed
`Begin`, a publication `Show`, everything else a stutter. `HistoryGrows`
(`DurableHistoryGrows`) follows from the refinement.

### WorldGatewayProofs: who controls

`OneControllerAlways` (`[]OneController`), `RequestsMoveForward` (`NeverBackwards`) and
`GatewayTypeCorrect` (`[]TypeOK`) need no hypothesis. `GatewayInv` is the types of the
gateway's own variables, `OneController`, and `GrantedWasAsked`: no session reflects a
request later than its last one. The last conjunct is what `NeverBackwards` needs: an
answered call carries the current version of its session, so granting it cannot lower
the grant. `RunnerOK` types the queue and the entities.

The other three are about the queue between the two sides: `MovedOnlyByController`
(`[]MovedByController`), `NoRivalEver` (`[]NoRival`) and `RegistryAlwaysMatches`
(`[]RegistryMatchesWorld`). None of them is inductive, since they speak of an empty
queue. `ControlInv` says what holds of a full one: *once the queue is applied*
(`Final`, the fold of its commands over the entities), no entity is in the hands of a
socket that the registry contradicts, and none is moved by another socket than its
controller; a queued spawn or attach is for something that is not a corpse; and the
queue is empty while the world is replaced. `MatchInv` says the same with equality, where
nothing but resets replaces the world. Every action then needs one fact about folds:
what an appended command changes (`FinalAppend`), that coalescing a movement changes no
control (`InputsDropped`), that commands about one monster leave the others alone
(`FinalIn`, `KeeperFits`), that a tick is the fold itself (`TickFits`).

`QueueHasRoom` is a bound on the load, in place of 1024: with a full queue `enqueue`
refuses an attach and the registry keeps the session that asked. The runs cannot reach a full
queue; TLC has checked `QueueHasRoom` on both gateway instances.

### InventoryProofs: who owns

`InventoryTypeCorrect` (`[]TypeOK`), `SelectedStaysReachable` (`[]SelectedIsReachable`),
`QuotaAlwaysKept` (`[]QuotaKept`), `NothingSavedIsLost` (`SavedForever`),
`LocalNeverLeaves` (`LocalStays`), `DeviceStaysHeld` (`DeviceHeld`) and
`HistoryFollowsDevice` (`HistoryMovesWithDevice`). The invariant `InventoryInv` says
of every request under way what its handler has checked that still holds at its await,
whatever the others did meanwhile: it has what its next part uses (`Served`), one that
will move a monster to its device still reaches it (`MoverOK`: ownership may have
changed, but never to nobody), a claim still finds its device free or its own
(`HolderOK`), one that counted still has room (`RoomOK`). The last two hold because the
request holds the lock of its device (`LocksOK`). The live world and the queue have an invariant of their own, `LiveOK`.

### SimulationProofs: lives

`SimulationTypeCorrect` (`[]TypeOK`), `DeadStayInert` (`[]DeadAreInert`), `CapAlwaysKept`
(`CapKept`), `ParentsRecover` (`LaysOncePerCooldown`), `RequestsBindOneLife`
(`AcceptedInOneLife`), from `SimInv`. Its core is
`RequestsOK`: while a request is open, each of its two sides is still in the life it was
made in, or dead, or in a newer life that will still be too young when the request
expires, or the steps of a catch-up that are left outlast the request. This, with `PAIR_REQUEST_TIMEOUT < ADULT_AGE` and `PAIR_REQUEST_TIMEOUT <= FINE_CATCHUP`, is the whole reason why the code
need not compare lives. `Sound` relates the cooldown of the living to the ticks since
their last egg (`ParentsRecover`) and keeps the dead uncontrolled.

### WorldViewProofs: the mirror

`ViewTypeCorrect` (`[]TypeOK`) and `MirrorAlwaysTracks` (`[]MirrorsTheView`), from
`ViewInv`: the types, `LinkOK` (without a link there is no session, no join and nothing
under way), and `WiredOK`: the messages under way, folded over the mirror of the page, end
at the view of the session; before the first snapshot arrives the mirror may hold more.

### AgentToolsProofs: the slot

`ToolsTypeCorrect` (`[]TypeOK`), `OneWriterAlways` (`[]OneWriter`), `SteeredOnlyByAMotion`
(`[]SteeredByAMotion`), `DeedsStayCurrent` (`DeedsAreCurrent`), `ArenaStaysOver`
(`RunStaysOver`), from `ToolsInv`: a call that runs belongs to the current registration
and holds its slot (`SlotInv`), no two motions have one command, because commands are
numbered by the calls that had one (`CommandInv`), and nothing waits with a creature
before the run has begun (`ArenaInv`).

### Induction

A tick folds its queue, the page folds the messages, a keeper action filters the queue.
The induction theorems of the library take an operator, which the provers here cannot
instantiate. `PrefixInduction` states induction with a set instead (`Inducts`, from the
least element of a set of numbers), and the modules write their folds as recursive
functions over the prefixes of a sequence, so that "this holds of the first `i` elements"
is a set of numbers. Each fold has a lemma that its function exists (`RunsExist`,
`LivesExist`, `KeepsExist`).

### Only model-checked

Liveness: `ResumesService`, `DailyResetHappens`, `ReturnsToAI`, `SlotIsFreed`, `Rebuilt`.
They rest on weak fairness, that is on ENABLED, which the prover does not handle.
TLC checks them on the small instances only, as it does the findings.


## 10. Not modelled, and why

`components` in `PROJECT.json` says it for each part of the system, and `hazards`
for each hazard without a property.

- *User interface*: rendering, terrain and model meshes, translations, dialogs and
  their React state. It is most of the repository's lines and keeps no state that
  another part relies on; what of it drives the socket or the agent's tools is in
  `WorldView` and `AgentTools`.
- *Genetics, terrain, movement, energy, health*: numeric code on continuous values
  without interleaving, out of TLC's reach and covered by unit tests. Whatever
  depends on it is a nondeterministic choice in `Simulation`.
- *Authentication*: delegated to a library; its outcome is an input of `Inventory`.
- *Deployment and load test*: scripts.
- *The portrait queue and the agent's scorecard*: pictures and numbers on one
  screen.
- *The pg clients behind `isOwned`*: a late `end` event of an earlier client, and two
  overlapping `tryStart` calls. Ownership is one flag per process in `WorldRunner`.
- `pruneEvents` (it deletes old events that nothing reads back) and `verify` of the
  lock, which only tests call.

Left out of `WorldGateway`: `onAction`, `onLocomotion` and `onPairRespond` (the
guard and the queue path of `onInput`, and no effect on control), `onAck` (it stores
a tick that nothing reads), token buckets and payload checks (they refuse a message
before anything changes), other guests' monsters, and shutdown, after which no socket
is left. Left out of `Inventory`: names, the read-only lists, `GuestService`, the
owner that a live entity carries, wild births, the wild newcomers of a reset (nobody can come to own them), and the reload of an older snapshot,
which `WorldRunner` has. Left out of `WorldView`: events and population counters in
a message, control (`WorldGateway`) and the rate limit of joins.
