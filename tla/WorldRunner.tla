------------------------------ MODULE WorldRunner ------------------------------
(***************************************************************************)
(* The authoritative world loop of the API: WorldRunnerService, the write  *)
(* queue of WorldPersistenceService and the ownership flag of              *)
(* WorldLockService, for a set of API processes over one PostgreSQL.       *)
(*                                                                         *)
(* A simulation state is abstracted to an image: the world generation it   *)
(* belongs to and the set of critical events (births, deaths, spawns) that *)
(* produced it.  Everything the runner promises about crashes, retries and *)
(* resets is a statement about which events an image, a database row and a *)
(* client have seen.  Every await of the code that other code can          *)
(* interleave with is a step of its own; what runs between two awaits is   *)
(* one action.                                                             *)
(***************************************************************************)
EXTENDS Naturals, Sequences

CONSTANTS
  Process,      \* the API processes
  Nobody,       \* the advisory lock is free
  Orphan,       \* ... or held by a session whose client is already gone
  NoState,      \* null: no snapshot row, no live state
  Event,        \* critical events a simulation can produce
  Owned,        \* those about monsters with an owner
  Fleeting,     \* those about monsters that were born and are gone again
                \* within one catch-up
  Silent,       \* TRUE: PostgreSQL may end the session of a lock before its
                \* client hears of it
  Faulty,       \* the flows whose database operations may fail
  LostAcks,     \* ... and those whose commit may succeed without its answer
  MaxWrites,    \* bound on one process's write queue
  MaxFaults,    \* bound on failed database operations
  MaxLosses,    \* bound on lost lock connections
  MaxRestarts,  \* bound on crashes and restarts
  MaxKeeper,    \* bound on admin kills, admin spawns and manual resets
  MaxDays       \* bound on UTC midnights

Load == {"boot", "reload"}          \* load() of tryStart, and of a failed reset
Flow == {"tick", "critical", "admin", "reset", "final"} \cup Load

ASSUME ConstantsOK ==
  /\ Nobody \notin Process /\ Orphan \notin Process /\ Nobody # Orphan
  /\ Owned \subseteq Event /\ Fleeting \subseteq Event \ Owned
  /\ Silent \in BOOLEAN
  /\ Faulty \subseteq Flow /\ LostAcks \subseteq Flow
  /\ {MaxWrites, MaxFaults, MaxLosses, MaxRestarts, MaxKeeper, MaxDays}
       \subseteq Nat

VARIABLES
  \* WorldRunnerService and WorldLockService, per process
  mode,       \* RunnerMode
  held,       \* lock.isOwned
  retry,      \* onModuleInit's tryStart, or lockRetryTimer, is pending
  halt,       \* how far shutdown() is; "no" is ~stopping
  live,       \* this.state
  world,      \* this.world.nextResetAt
  backoff,    \* Date.now() < resetRetryAt
  critical,   \* the commitCritical loop behind criticalWrite
  admin,      \* the commitAdminMutation in progress
  reset,      \* the resetWorld in progress
  load,       \* the load() calls in progress
  chain,      \* writeChain: the queued durable writes, the first in flight
  \* PostgreSQL
  holder,     \* whose session holds the advisory lock
  snap,       \* the WorldSnapshot row
  rows,       \* the events the Monster rows reflect
  log,        \* WorldEvent rows, as <<batch, event>>; never emptied here
  nextReset,  \* World.nextResetAt
  \* the clock, the fresh names handed out, what clients saw, the bounds used
  today, ids, published, spent

memory == <<mode, held, retry, halt, live, world, backoff>>
flows  == <<critical, admin, reset, load, chain>>
db     == <<snap, rows, log, nextReset>>
env    == <<today, ids, spent>>
vars   == <<memory, flows, holder, db, env, published>>

Image == [epoch : Nat, hist : SUBSET Event]
Op    == {"drain", "checkpoint", "commit", "reset"}
Write == [flow : Flow, op : Op, image : Image \cup {NoState},
          events : SUBSET Event, batch : Nat, due : Nat, landed : BOOLEAN]

\* null is no simulation state.
ASSUME NoStateIsNoImage == NoState \notin Image

RunnerMode    == {"starting", "standby", "running", "stopped"}
CriticalState == [pc : {"none", "write", "backoff"}, events : SUBSET Event,
                  batch : Nat, fresh : BOOLEAN]
ResetState    == [pc : {"none", "drain", "write", "reload"}, daily : BOOLEAN]
LoadState     == [pc : {"none", "read", "got", "write", "seed", "seeded"},
                  image : Image \cup {NoState}]
Names         == [events : SUBSET Event, batches : Nat, epochs : Nat]
Bounds        == [faults : Nat, losses : Nat, restarts : Nat, keeper : Nat]

NoCritical == [pc |-> "none", events |-> {}, batch |-> 0, fresh |-> FALSE]
NoReset    == [pc |-> "none", daily |-> FALSE]
NoLoad     == [pc |-> "none", image |-> NoState]
Seed       == [epoch |-> 0, hist |-> {}]

MemoryOK ==
  /\ mode \in [Process -> RunnerMode]
  /\ held \in [Process -> BOOLEAN]
  /\ retry \in [Process -> BOOLEAN]
  /\ halt \in [Process -> {"no", "flows", "checkpoint", "drain", "done"}]
  /\ live \in [Process -> Image \cup {NoState}]
  /\ world \in [Process -> Nat]
  /\ backoff \in [Process -> BOOLEAN]

FlowsOK ==
  /\ critical \in [Process -> CriticalState]
  /\ admin \in [Process -> {"none", "drain", "write"}]
  /\ reset \in [Process -> ResetState]
  /\ load \in [Process -> [Load -> LoadState]]
  /\ chain \in [Process -> Seq(Write)]

DbOK ==
  /\ holder \in Process \cup {Nobody, Orphan}
  /\ snap \in Image \cup {NoState}
  /\ rows \in SUBSET Event
  /\ log \in SUBSET (Nat \X Event)
  /\ nextReset \in Nat

EnvOK ==
  /\ today \in Nat
  /\ ids \in Names
  /\ published \in SUBSET Event
  /\ spent \in Bounds

TypeOK == MemoryOK /\ FlowsOK /\ DbOK /\ EnvOK

Logged   == {r[2] : r \in log}
NewEvent == Event \ ids.events

Init ==
  /\ mode = [p \in Process |-> "starting"]
  /\ held = [p \in Process |-> FALSE]
  /\ retry = [p \in Process |-> TRUE]
  /\ halt = [p \in Process |-> "no"]
  /\ live = [p \in Process |-> NoState]
  /\ world = [p \in Process |-> 1]
  /\ backoff = [p \in Process |-> FALSE]
  /\ critical = [p \in Process |-> NoCritical]
  /\ admin = [p \in Process |-> "none"]
  /\ reset = [p \in Process |-> NoReset]
  /\ load = [p \in Process |-> [f \in Load |-> NoLoad]]
  /\ chain = [p \in Process |-> <<>>]
  /\ holder = Nobody
  /\ snap = NoState /\ rows = {} /\ log = {} /\ nextReset = 1
  /\ today = 0
  /\ ids = [events |-> {}, batches |-> 0, epochs |-> 0]
  /\ published = {}
  /\ spent = [faults |-> 0, losses |-> 0, restarts |-> 0, keeper |-> 0]

-------------------------------------------------------------------------------
(* The write queue.  Each call captures its data when it is queued; a drain  *)
(* is a place in the queue that writes nothing.                              *)

Stopping(p) == halt[p] # "no"
Due(p)      == world[p] <= today

Entry(f, op, image, E, batch) ==
  [flow |-> f, op |-> op, image |-> image, events |-> E, batch |-> batch,
   due |-> today + 1, landed |-> FALSE]

Drain(f) == Entry(f, "drain", NoState, {}, 0)
Checkpoint(f, image) == Entry(f, "checkpoint", image, {}, 0)

Queue(p, w) == chain' = [chain EXCEPT ![p] = Append(@, w)]
Pop(p)      == chain' = [chain EXCEPT ![p] = Tail(@)]
PopQueue(p, w) == chain' = [chain EXCEPT ![p] = Append(Tail(@), w)]

\* Mutant: answered before the commit.
Answered_BeforeCommit(p, f, op) ==
  /\ chain[p] # <<>>
  /\ Head(chain[p]).flow = f /\ Head(chain[p]).op = op
\* The first write of p's queue is f's op, and PostgreSQL's answer arrives.
Answered(p, f, op) ==
  /\ chain[p] # <<>>
  /\ Head(chain[p]).flow = f /\ Head(chain[p]).op = op
  /\ op = "drain" \/ Head(chain[p]).landed

\* ... or it fails: before it committed, or after, when the answer is lost.
Fails(p, f) ==
  /\ chain[p] # <<>>
  /\ Head(chain[p]).flow = f /\ Head(chain[p]).op # "drain"
  /\ f \in Faulty /\ spent.faults < MaxFaults
  /\ Head(chain[p]).landed => f \in LostAcks

\* A drain with nothing before it resolves before any other callback of p runs.
Quiet(p) == chain[p] # <<>> => Head(chain[p]).op # "drain"

CountFault == spent' = [spent EXCEPT !.faults = @ + 1]

\* Mutant: a reset does not retire the outgoing lives.
RowsAfter_ResetKeepsLives(w) ==
  CASE w.op = "commit" -> rows \cup (w.events \ Fleeting)
    [] w.op = "reset"  -> rows
    [] OTHER           -> (rows \ Owned) \cup (w.image.hist \cap Owned)
\* A save writes no row for a newborn that is gone from the final state.
RowsAfter(w) ==
  CASE w.op = "commit" -> rows \cup (w.events \ Fleeting)
    [] w.op = "reset"  -> {}
    [] OTHER           -> (rows \ Owned) \cup (w.image.hist \cap Owned)

\* The transaction at the head of p's queue commits, whoever owns the world.
Land(p) ==
  /\ chain[p] # <<>>
  /\ LET w == Head(chain[p]) IN
     /\ w.op # "drain" /\ ~w.landed
     /\ chain' = [chain EXCEPT ![p][1].landed = TRUE]
     /\ snap' = w.image
     /\ rows' = RowsAfter(w)
     /\ log' = log \cup {<<w.batch, e>> : e \in w.events}
     /\ nextReset' = IF w.op = "reset" THEN w.due ELSE nextReset
  /\ UNCHANGED <<memory, critical, admin, reset, load, holder, env, published>>

-------------------------------------------------------------------------------
(* Fragments shared by the handlers.                                         *)

\* start(): refused while stopping or without ownership.
Start(p) ==
  mode' = [mode EXCEPT ![p] = IF held[p] /\ ~Stopping(p) THEN "running" ELSE @]

\* Mutant: the timer goes on during a save.
Pause_KeepsTimer(p) == UNCHANGED mode
\* The timer is cleared: nothing ticks until start().
Pause(p) == mode' = [mode EXCEPT ![p] = "starting"]

\* this.state is assigned, so `this.state === state` fails for a pending save.
Assign(p, image) ==
  /\ live' = [live EXCEPT ![p] = image]
  /\ critical' = [critical EXCEPT ![p].fresh = FALSE]

Release(p) ==
  /\ held' = [held EXCEPT ![p] = FALSE]
  /\ holder' = IF holder = p THEN Nobody ELSE holder

\* Mutant: an undeclared mode.
ScheduleLockRetry_Disables(p) ==
  /\ retry' = retry
  /\ mode' = [mode EXCEPT ![p] = "disabled"]
ScheduleLockRetry(p) ==
  IF Stopping(p) \/ retry[p]
  THEN UNCHANGED <<retry, mode>>
  ELSE /\ retry' = [retry EXCEPT ![p] = TRUE]
       /\ mode' = [mode EXCEPT ![p] = "standby"]

\* resetWorld settles; onTimer's catch delays the next daily attempt.
ResetEnds(p, failed) ==
  /\ reset' = [reset EXCEPT ![p] = NoReset]
  /\ backoff' = [backoff EXCEPT ![p] = @ \/ (failed /\ reset[p].daily)]

-------------------------------------------------------------------------------
(* Ownership: tryStart and load.                                             *)

\* The lock is free, or another session holds it, or acquire() throws, which may
\* leave the lock to a session whose client is given up.
\* Bound: a tryStart does not overlap an earlier one of the same process.
TryStart(p) ==
  /\ Quiet(p)
  /\ retry[p] /\ ~Stopping(p) /\ load[p]["boot"].pc = "none"
  /\ \/ /\ holder = Nobody
        /\ holder' = p
        /\ held' = [held EXCEPT ![p] = TRUE]
        /\ retry' = [retry EXCEPT ![p] = FALSE]
        /\ load' = [load EXCEPT ![p]["boot"].pc = "read"]
        /\ UNCHANGED <<mode, spent>>
     \/ /\ holder # Nobody
        /\ mode' = [mode EXCEPT ![p] = "standby"]
        /\ UNCHANGED <<holder, held, retry, load, spent>>
     \/ /\ "boot" \in Faulty /\ spent.faults < MaxFaults /\ CountFault
        /\ mode' = [mode EXCEPT ![p] = "standby"]
        /\ holder' = holder \/ (holder = Nobody /\ holder' = Orphan)
        /\ UNCHANGED <<held, retry, load>>
  /\ UNCHANGED <<halt, live, world, backoff, critical, admin, reset, chain,
                 db, today, ids, published>>

\* load() throws: tryStart releases the lock and retries later; the reset that
\* called load(false) fails, and nothing is scheduled.
LoadThrows(p, f) ==
  /\ load' = [load EXCEPT ![p][f] = NoLoad]
  /\ IF f = "boot"
     THEN /\ Release(p)
          /\ ScheduleLockRetry(p)
          /\ UNCHANGED <<reset, backoff>>
     ELSE /\ ResetEnds(p, TRUE)
          /\ UNCHANGED <<holder, held, retry, mode>>

LoadFinishes(p, f) ==
  /\ load' = [load EXCEPT ![p][f] = NoLoad]
  /\ Start(p)
  /\ IF f = "boot" THEN UNCHANGED <<reset, backoff>> ELSE ResetEnds(p, TRUE)

\* The reads are not in the write queue: an earlier write may still land.
LoadRead(p, f) ==
  /\ Quiet(p)
  /\ load[p][f].pc = "read"
  /\ world' = [world EXCEPT ![p] = nextReset]
  /\ load' = [load EXCEPT ![p][f] = [pc |-> "got", image |-> snap]]
  /\ UNCHANGED <<mode, held, retry, halt, live, backoff, critical, admin, reset,
                 chain, holder, db, env, published>>

LoadReadFails(p, f) ==
  /\ Quiet(p)
  /\ load[p][f].pc = "read"
  /\ f \in Faulty /\ spent.faults < MaxFaults /\ CountFault
  /\ LoadThrows(p, f)
  /\ UNCHANGED <<halt, live, world, critical, admin, chain, db, today, ids,
                 published>>

LoadRefused(p, f) ==
  /\ Quiet(p)
  /\ load[p][f].pc = "got"
  /\ ~held[p] \/ Stopping(p)
  /\ LoadThrows(p, f)
  /\ UNCHANGED <<halt, live, world, critical, admin, chain, db, env, published>>

CanLoad(p, f) ==
  Quiet(p) /\ load[p][f].pc = "got" /\ held[p] /\ ~Stopping(p)
LoadResetDue(p, f) == f = "boot" /\ Due(p)

\* A reset missed while no process owned the world.
LoadResets(p) ==
  /\ CanLoad(p, "boot") /\ LoadResetDue(p, "boot")
  /\ ids' = [ids EXCEPT !.epochs = @ + 1]
  /\ Queue(p, Entry("boot", "reset",
                    [epoch |-> ids.epochs + 1, hist |-> {}], {}, 0))
  /\ load' = [load EXCEPT ![p]["boot"].pc = "write"]
  /\ UNCHANGED <<memory, critical, admin, reset, holder, db, today, published,
                 spent>>

\* createInitialCheckpoint begins its transaction, outside the write queue.
LoadSeeds(p, f) ==
  /\ CanLoad(p, f) /\ ~LoadResetDue(p, f) /\ load[p][f].image = NoState
  /\ load' = [load EXCEPT ![p][f].pc = "seed"]
  /\ UNCHANGED <<memory, critical, admin, reset, chain, holder, db, env, published>>

\* It commits, whoever owns the world; rows of the first population are rewritten.
SeedLands(p, f) ==
  /\ load[p][f].pc = "seed"
  /\ load' = [load EXCEPT ![p][f].pc = "seeded"]
  /\ snap' = Seed
  /\ rows' \in SUBSET rows
  /\ UNCHANGED <<memory, critical, admin, reset, chain, holder, log, nextReset, env,
                 published>>

\* The seed becomes the live state; only start() looks at the ownership again.
LoadSeeded(p, f) ==
  /\ Quiet(p)
  /\ load[p][f].pc = "seeded"
  /\ Assign(p, Seed)
  /\ LoadFinishes(p, f)
  /\ UNCHANGED <<held, retry, halt, world, admin, chain, holder, db, env, published>>

SeedFails(p, f) ==
  /\ Quiet(p)
  /\ load[p][f].pc = "seed" \/ (load[p][f].pc = "seeded" /\ f \in LostAcks)
  /\ f \in Faulty /\ spent.faults < MaxFaults /\ CountFault
  /\ LoadThrows(p, f)
  /\ UNCHANGED <<halt, live, world, critical, admin, chain, db, today, ids, published>>

\* The snapshot becomes the live state and is caught up through the downtime,
\* which may produce critical events E.
LoadAdvances(p, f, E) ==
  /\ CanLoad(p, f) /\ ~LoadResetDue(p, f) /\ load[p][f].image # NoState
  /\ LET image == [load[p][f].image EXCEPT !.hist = @ \cup E] IN
     /\ Assign(p, image)
     /\ IF E = {}
        THEN /\ Queue(p, Checkpoint(f, image))
             /\ UNCHANGED ids
        ELSE /\ ids' = [ids EXCEPT !.events = @ \cup E, !.batches = @ + 1]
             /\ Queue(p, Entry(f, "commit", image, E, ids.batches + 1))
  /\ load' = [load EXCEPT ![p][f].pc = "write"]
  /\ UNCHANGED <<mode, held, retry, halt, world, backoff, admin, reset, holder,
                 db, today, published, spent>>

\* The catch-up events are durable; a lost lock has set this.state to null.
LoadCommitted(p, f) ==
  /\ Answered(p, f, "commit")
  /\ \/ /\ live[p] # NoState
        /\ PopQueue(p, Checkpoint(f, live[p]))
        /\ UNCHANGED <<mode, held, retry, backoff, reset, load, holder>>
     \/ /\ live[p] = NoState
        /\ Pop(p)
        /\ LoadThrows(p, f)
  /\ UNCHANGED <<halt, live, world, critical, admin, db, env, published>>

LoadCheckpointed(p, f) ==
  /\ Answered(p, f, "checkpoint")
  /\ Pop(p)
  /\ LoadFinishes(p, f)
  /\ UNCHANGED <<held, retry, halt, live, world, critical, admin, holder, db,
                 env, published>>

LoadReset(p) ==
  /\ Answered(p, "boot", "reset")
  /\ world' = [world EXCEPT ![p] = Head(chain[p]).due]
  /\ Assign(p, Head(chain[p]).image)
  /\ Pop(p)
  /\ LoadFinishes(p, "boot")
  /\ UNCHANGED <<held, retry, halt, admin, holder, db, env, published>>

LoadWriteFails(p, f) ==
  /\ Fails(p, f) /\ CountFault
  /\ Pop(p)
  /\ LoadThrows(p, f)
  /\ UNCHANGED <<halt, live, world, critical, admin, db, today, ids, published>>

\* Mutant: the lost handler does not stop the loop.
LockLost_KeepsTicking(p) ==
  /\ held[p] /\ spent.losses < MaxLosses
  /\ spent' = [spent EXCEPT !.losses = @ + 1]
  /\ holder' = IF holder = p THEN Orphan ELSE holder
  /\ held' = [held EXCEPT ![p] = FALSE]
  /\ retry' = [retry EXCEPT ![p] = TRUE]
  /\ UNCHANGED <<mode, halt, live, world, backoff, flows, db, today, ids,
                 published>>

\* The lock's connection ends.  Its session may outlive it in PostgreSQL.
LockLost(p) ==
  /\ Quiet(p)
  /\ held[p] /\ spent.losses < MaxLosses
  /\ spent' = [spent EXCEPT !.losses = @ + 1]
  /\ holder' = IF holder = p THEN Orphan ELSE holder
  /\ held' = [held EXCEPT ![p] = FALSE]
  /\ IF Stopping(p)
     THEN UNCHANGED <<mode, retry, live, critical>>
     ELSE /\ Assign(p, NoState)
          /\ mode' = [mode EXCEPT ![p] = "standby"]
          /\ retry' = [retry EXCEPT ![p] = TRUE]
  /\ UNCHANGED <<halt, world, backoff, admin, reset, load, chain, db, today, ids,
                 published>>

\* PostgreSQL ends the session first; LockLost follows, some time.
SessionDies(p) ==
  /\ Silent /\ holder = p /\ spent.losses < MaxLosses
  /\ holder' = Nobody
  /\ UNCHANGED <<memory, flows, db, env, published>>

\* PostgreSQL notices that the session's client is gone.
OrphanEnds ==
  /\ holder = Orphan
  /\ holder' = Nobody
  /\ UNCHANGED <<memory, flows, db, env, published>>

-------------------------------------------------------------------------------
(* The tick loop and its durable save.                                       *)

\* onTimer reaches stepWorld: a due reset goes first, except in its backoff.
CanTick(p) ==
  /\ mode[p] = "running" /\ live[p] # NoState /\ ~Stopping(p)
  /\ ~Due(p) \/ backoff[p]

\* The interval checkpoint of a tick without critical events.
CheckpointTick(p) ==
  /\ Quiet(p)
  /\ CanTick(p) /\ Len(chain[p]) < MaxWrites
  /\ Queue(p, Checkpoint("tick", live[p]))
  /\ UNCHANGED <<memory, critical, admin, reset, load, holder, db, env,
                 published>>

CheckpointSettles(p) ==
  /\ \/ Answered(p, "tick", "checkpoint") /\ UNCHANGED spent
     \/ Fails(p, "tick") /\ CountFault
  /\ Pop(p)
  /\ UNCHANGED <<memory, critical, admin, reset, load, holder, db, today, ids,
                 published>>

\* Critical events pause the world until they are durable.  Bound, here and in
\* AdminMutate and ResetWorld: not before an earlier flow of its kind, left over
\* from a lost lock, has ended (in PunctualSpec it always has).
CriticalTick(p, E) ==
  /\ Quiet(p)
  /\ CanTick(p) /\ E # {} /\ E \cap Fleeting = {} /\ critical[p].pc = "none"
  /\ LET image == [live[p] EXCEPT !.hist = @ \cup E] IN
     /\ live' = [live EXCEPT ![p] = image]
     /\ critical' = [critical EXCEPT ![p] = [pc |-> "write", events |-> E,
                       batch |-> ids.batches + 1, fresh |-> TRUE]]
     /\ Queue(p, Entry("critical", "commit", image, E, ids.batches + 1))
  /\ Pause(p)
  /\ ids' = [ids EXCEPT !.events = @ \cup E, !.batches = @ + 1]
  /\ UNCHANGED <<held, retry, halt, world, backoff, admin, reset, load, holder,
                 db, today, published, spent>>

EndCritical(p) == critical' = [critical EXCEPT ![p] = NoCritical]

\* commitCritical still saves the live state of a running owner.
Unreplaced(p) == ~Stopping(p) /\ held[p] /\ critical[p].fresh

\* Mutant: a fresh batch id per attempt.
RetryBatch_PerAttempt(p) == ids.batches + 1
\* randomUUID() once per batch, not once per attempt.
RetryBatch(p) == critical[p].batch

\* Publish and resume, unless the state was replaced meanwhile.
CriticalSaved(p) ==
  /\ Answered(p, "critical", "commit")
  /\ IF Unreplaced(p)
     THEN /\ published' = published \cup Head(chain[p]).events
          /\ Start(p)
     ELSE UNCHANGED <<published, mode>>
  /\ Pop(p)
  /\ EndCritical(p)
  /\ UNCHANGED <<held, retry, halt, live, world, backoff, admin, reset, load,
                 holder, db, env>>

\* Mutant: ticks on without the save.
CriticalFails_Resumes(p) ==
  /\ Fails(p, "critical") /\ CountFault
  /\ Pop(p) /\ EndCritical(p) /\ Start(p)
  /\ UNCHANGED <<held, retry, halt, live, world, backoff, admin, reset, load,
                 holder, db, today, ids, published>>
\* Mutant: no retry.
CriticalFails_GivesUp(p) ==
  /\ Fails(p, "critical") /\ CountFault
  /\ Pop(p) /\ EndCritical(p)
  /\ UNCHANGED <<memory, admin, reset, load, holder, db, today, ids, published>>
CriticalFails(p) ==
  /\ Fails(p, "critical") /\ CountFault
  /\ Pop(p)
  /\ IF Unreplaced(p)
     THEN critical' = [critical EXCEPT ![p].pc = "backoff"]
     ELSE EndCritical(p)
  /\ UNCHANGED <<memory, admin, reset, load, holder, db, today, ids, published>>

\* The delay ends, or a lost lock or a shutdown cuts it short.
CriticalRetry(p) ==
  /\ Quiet(p)
  /\ critical[p].pc = "backoff"
  /\ IF Unreplaced(p)
     THEN /\ critical' = [critical EXCEPT ![p].pc = "write"]
          /\ Queue(p, Entry("critical", "commit", live[p], critical[p].events,
                            RetryBatch(p)))
     ELSE /\ EndCritical(p)
          /\ UNCHANGED chain
  /\ UNCHANGED <<memory, admin, reset, load, holder, db, env, published>>

-------------------------------------------------------------------------------
(* Keeper actions: killMonster and spawnMonster, on a copy of the state.     *)

AdminMutate(p) ==
  /\ Quiet(p)
  /\ mode[p] = "running" /\ held[p] /\ live[p] # NoState /\ ~Stopping(p)
  /\ admin[p] = "none" /\ spent.keeper < MaxKeeper
  /\ spent' = [spent EXCEPT !.keeper = @ + 1]
  /\ Pause(p)
  /\ admin' = [admin EXCEPT ![p] = "drain"]
  /\ Queue(p, Drain("admin"))
  /\ UNCHANGED <<held, retry, halt, live, world, backoff, critical, reset, load,
                 holder, db, today, ids, published>>

\* The finally block.
AdminEnds(p) ==
  /\ admin' = [admin EXCEPT ![p] = "none"]
  /\ IF live[p] # NoState THEN Start(p) ELSE UNCHANGED mode

\* The change may turn out to be none: E = {} when the monster is dead already.
AdminDrained(p, E) ==
  /\ Answered(p, "admin", "drain") /\ E \cap Fleeting = {}
  /\ IF held[p] /\ live[p] # NoState /\ ~Stopping(p) /\ E # {}
     THEN /\ PopQueue(p, Entry("admin", "commit",
                               [live[p] EXCEPT !.hist = @ \cup E], E,
                               ids.batches + 1))
          /\ ids' = [ids EXCEPT !.events = @ \cup E, !.batches = @ + 1]
          /\ admin' = [admin EXCEPT ![p] = "write"]
          /\ UNCHANGED mode
     ELSE /\ Pop(p)
          /\ AdminEnds(p)
          /\ UNCHANGED ids
  /\ UNCHANGED <<held, retry, halt, live, world, backoff, critical, reset, load,
                 holder, db, today, published, spent>>

\* Mutant: the live state is not replaced.
AdminSaved_KeepsState(p) ==
  /\ Answered(p, "admin", "commit")
  /\ Pop(p)
  /\ AdminEnds(p)
  /\ published' = published \cup Head(chain[p]).events
  /\ UNCHANGED <<held, retry, halt, live, world, backoff, critical, reset, load,
                 holder, db, env>>
AdminSaved(p) ==
  /\ Answered(p, "admin", "commit")
  /\ Pop(p)
  /\ admin' = [admin EXCEPT ![p] = "none"]
  /\ IF held[p] /\ live[p] # NoState
     THEN /\ Assign(p, Head(chain[p]).image)
          /\ published' = published \cup Head(chain[p]).events
          /\ Start(p)
     ELSE UNCHANGED <<live, critical, published, mode>>
  /\ UNCHANGED <<held, retry, halt, world, backoff, reset, load, holder, db, env>>

AdminFails(p) ==
  /\ Fails(p, "admin") /\ CountFault
  /\ Pop(p)
  /\ AdminEnds(p)
  /\ UNCHANGED <<held, retry, halt, live, world, backoff, critical, reset, load,
                 holder, db, today, ids, published>>

-------------------------------------------------------------------------------
(* resetWorld: by onTimer at the daily time, or by an admin.                 *)

ResetWorld(p, daily) ==
  /\ Quiet(p)
  /\ mode[p] = "running" /\ held[p] /\ live[p] # NoState
  /\ reset[p].pc = "none"
  /\ Pause(p)
  /\ reset' = [reset EXCEPT ![p] = [pc |-> "drain", daily |-> daily]]
  /\ Queue(p, Drain("reset"))
  /\ UNCHANGED <<held, retry, halt, live, world, backoff, critical, admin, load,
                 holder, db, today, ids, published>>

DailyReset(p) ==
  /\ Due(p) /\ ~backoff[p] /\ ~Stopping(p)
  /\ ResetWorld(p, TRUE)
  /\ UNCHANGED spent

ManualReset(p) ==
  /\ spent.keeper < MaxKeeper
  /\ spent' = [spent EXCEPT !.keeper = @ + 1]
  /\ ResetWorld(p, FALSE)

\* Mutant: the error is only rethrown.
ResetThrows_NoReload(p) ==
  /\ ResetEnds(p, TRUE)
  /\ UNCHANGED load
\* The catch block: reload what is durable, then resume.
ResetThrows(p) ==
  IF held[p] /\ ~Stopping(p)
  THEN /\ reset' = [reset EXCEPT ![p].pc = "reload"]
       /\ load' = [load EXCEPT ![p]["reload"].pc = "read"]
       /\ UNCHANGED backoff
  ELSE /\ ResetEnds(p, TRUE)
       /\ UNCHANGED load

ResetDrained(p) ==
  /\ Answered(p, "reset", "drain")
  /\ IF held[p] /\ live[p] # NoState /\ ~Stopping(p)
     THEN /\ PopQueue(p, Entry("reset", "reset",
                               [epoch |-> ids.epochs + 1, hist |-> {}], {}, 0))
          /\ ids' = [ids EXCEPT !.epochs = @ + 1]
          /\ reset' = [reset EXCEPT ![p].pc = "write"]
          /\ UNCHANGED <<load, backoff>>
     ELSE /\ Pop(p)
          /\ ResetThrows(p)
          /\ UNCHANGED ids
  /\ UNCHANGED <<mode, held, retry, halt, live, world, critical, admin, holder,
                 db, today, published, spent>>

ResetSaved(p) ==
  /\ Answered(p, "reset", "reset")
  /\ world' = [world EXCEPT ![p] = Head(chain[p]).due]
  /\ Assign(p, Head(chain[p]).image)
  /\ Pop(p)
  /\ ResetEnds(p, FALSE)
  /\ Start(p)
  /\ UNCHANGED <<held, retry, halt, admin, load, holder, db, env, published>>

ResetFails(p) ==
  /\ Fails(p, "reset") /\ CountFault
  /\ Pop(p)
  /\ ResetThrows(p)
  /\ UNCHANGED <<mode, held, retry, halt, live, world, critical, admin, holder,
                 db, today, ids, published>>

BackoffOver(p) ==
  /\ Quiet(p)
  /\ backoff[p]
  /\ backoff' = [backoff EXCEPT ![p] = FALSE]
  /\ UNCHANGED <<mode, held, retry, halt, live, world, flows, holder, db, env,
                 published>>

-------------------------------------------------------------------------------
(* shutdown(), crashes and restarts.                                         *)

Shutdown(p) ==
  /\ Quiet(p)
  /\ mode[p] # "stopped" /\ halt[p] = "no" /\ spent.restarts < MaxRestarts
  /\ halt' = [halt EXCEPT ![p] = "flows"]
  /\ retry' = [retry EXCEPT ![p] = FALSE]
  /\ UNCHANGED <<mode, held, live, world, backoff, flows, holder, db, env,
                 published>>

\* criticalWrite, dailyReset and adminMutation are awaited; a manual reset and
\* a load are not.
ShutdownFlowsDone(p) ==
  /\ Quiet(p)
  /\ halt[p] = "flows"
  /\ critical[p].pc = "none" /\ admin[p] = "none" /\ ~reset[p].daily
  /\ IF mode[p] = "running" /\ live[p] # NoState
     THEN /\ Queue(p, Checkpoint("final", live[p]))
          /\ halt' = [halt EXCEPT ![p] = "checkpoint"]
     ELSE /\ Queue(p, Drain("final"))
          /\ halt' = [halt EXCEPT ![p] = "drain"]
  /\ UNCHANGED <<mode, held, retry, live, world, backoff, critical, admin, reset,
                 load, holder, db, env, published>>

ShutdownCheckpointed(p) ==
  /\ \/ Answered(p, "final", "checkpoint") /\ UNCHANGED spent
     \/ Fails(p, "final") /\ CountFault
  /\ PopQueue(p, Drain("final"))
  /\ halt' = [halt EXCEPT ![p] = "drain"]
  /\ UNCHANGED <<mode, held, retry, live, world, backoff, critical, admin, reset,
                 load, holder, db, today, ids, published>>

ShutdownDrained(p) ==
  /\ Answered(p, "final", "drain")
  /\ Pop(p)
  /\ Release(p)
  /\ mode' = [mode EXCEPT ![p] = "stopped"]
  /\ halt' = [halt EXCEPT ![p] = "done"]
  /\ UNCHANGED <<retry, live, world, backoff, critical, admin, reset, load, db,
                 env, published>>

\* A crash, or the start of a stopped process: memory is lost, PostgreSQL ends
\* the lock's session, and unfinished transactions roll back.
Restart(p) ==
  /\ spent.restarts < MaxRestarts
  /\ spent' = [spent EXCEPT !.restarts = @ + 1]
  /\ mode' = [mode EXCEPT ![p] = "starting"]
  /\ held' = [held EXCEPT ![p] = FALSE]
  /\ retry' = [retry EXCEPT ![p] = TRUE]
  /\ halt' = [halt EXCEPT ![p] = "no"]
  /\ live' = [live EXCEPT ![p] = NoState]
  /\ world' = [world EXCEPT ![p] = nextReset]
  /\ backoff' = [backoff EXCEPT ![p] = FALSE]
  /\ critical' = [critical EXCEPT ![p] = NoCritical]
  /\ admin' = [admin EXCEPT ![p] = "none"]
  /\ reset' = [reset EXCEPT ![p] = NoReset]
  /\ load' = [load EXCEPT ![p] = [f \in Load |-> NoLoad]]
  /\ chain' = [chain EXCEPT ![p] = <<>>]
  /\ holder' = IF holder = p THEN Orphan ELSE holder
  /\ UNCHANGED <<db, today, ids, published>>

Midnight ==
  /\ today < MaxDays
  /\ today' = today + 1
  /\ UNCHANGED <<memory, flows, holder, db, ids, published, spent>>

-------------------------------------------------------------------------------
LoadStep(p) ==
  \/ \E f \in Load : LoadRead(p, f) \/ LoadRefused(p, f) \/ LoadSeeds(p, f)
                      \/ LoadSeeded(p, f)
  \/ \E f \in Load, E \in SUBSET NewEvent : LoadAdvances(p, f, E)
  \/ LoadResets(p)

Commit(p) == Land(p) \/ \E f \in Load : SeedLands(p, f)

Settle(p) ==
  \/ \E f \in Load : LoadCommitted(p, f) \/ LoadCheckpointed(p, f)
  \/ LoadReset(p)
  \/ CheckpointSettles(p) \/ CriticalSaved(p)
  \/ \E E \in SUBSET NewEvent : AdminDrained(p, E)
  \/ AdminSaved(p)
  \/ ResetDrained(p) \/ ResetSaved(p)
  \/ ShutdownCheckpointed(p) \/ ShutdownDrained(p)

Fault(p) ==
  \/ \E f \in Load : LoadReadFails(p, f) \/ LoadWriteFails(p, f) \/ SeedFails(p, f)
  \/ CriticalFails(p) \/ AdminFails(p) \/ ResetFails(p)
  \/ LockLost(p) \/ SessionDies(p) \/ Shutdown(p) \/ Restart(p)

Work(p) ==
  \/ CheckpointTick(p)
  \/ \E E \in SUBSET NewEvent : CriticalTick(p, E)
  \/ AdminMutate(p) \/ ManualReset(p)

Next ==
  \/ \E p \in Process :
       \/ TryStart(p) \/ LoadStep(p) \/ Commit(p) \/ Settle(p) \/ Fault(p)
       \/ Work(p) \/ DailyReset(p) \/ BackoffOver(p) \/ CriticalRetry(p)
       \/ ShutdownFlowsDone(p)
  \/ OrphanEnds
  \/ Midnight

Spec == Init /\ [][Next]_vars

\* A process that lost the lock takes it again only when what it had under way has
\* ended: scheduleLockRetry waits at least 2 s (LOCK_RETRY_MIN_MS) and writes are
\* quicker.  Another process need not wait for that.
OwnSettled(p) ==
  /\ chain[p] = <<>> /\ critical[p].pc = "none" /\ admin[p] = "none"
  /\ reset[p].pc = "none" /\ \A f \in Load : load[p][f].pc = "none"

Punctual == \A p \in Process : ~held[p] /\ held'[p] => OwnSettled(p)

PunctualSpec == Init /\ [][Next /\ Punctual]_vars

\* Node runs every due callback and PostgreSQL answers every query, if only
\* with an error; nothing makes a user, a keeper or a fault act.
Fairness ==
  /\ \A p \in Process :
       /\ WF_vars(TryStart(p) /\ Punctual) /\ WF_vars(LoadStep(p)) /\ WF_vars(Commit(p))
       /\ WF_vars(Settle(p)) /\ WF_vars(DailyReset(p)) /\ WF_vars(BackoffOver(p))
       /\ WF_vars(CriticalRetry(p)) /\ WF_vars(ShutdownFlowsDone(p))
  /\ WF_vars(OrphanEnds)

FairSpec == PunctualSpec /\ Fairness

-------------------------------------------------------------------------------
(* Properties.                                                               *)

\* No recovery snapshot contains a birth or a death that is not durable in the
\* event log, so no later checkpoint skips a critical save that failed.
SnapshotNeverAheadOfLog == snap = NoState \/ snap.hist \subseteq Logged

\* The Monster rows and the recovery snapshot tell the same lives and deaths,
\* whatever failed between the tick and its save, except that a monster which was
\* born and is gone again within one catch-up has no row.
RowsMatchSnapshot ==
  rows = IF snap = NoState THEN {} ELSE snap.hist \ Fleeting

\* A client never learns of a critical event that was not durable first.
PublishedIsDurable == published \subseteq Logged

\* A retried save does not record an event a second time.
LoggedOnce == \A r, s \in log : r[2] = s[2] => r = s

\* While the owner ticks, a crash would lose no critical event: its live world
\* is the durable one.
RunningIsDurable ==
  \A p \in Process : mode[p] = "running" /\ held[p] => live[p] = snap

\* At most one process is ticking the world.
OneTicker ==
  \A p, q \in Process : CanTick(p) /\ CanTick(q) => p = q

\* A durable critical transition never disappears from the recovery snapshot,
\* except by a reset that starts a newer world.
DurableHistoryGrows ==
  [][ snap = NoState \/ snap'.epoch > snap.epoch
      \/ (snap'.epoch = snap.epoch /\ snap.hist \subseteq snap'.hist) ]_snap

\* A paused world resumes: what stopped the owner's loop (a critical save, a
\* keeper action, a reset, a load) ends, and the loop runs again.
ResumesService ==
  \A p \in Process : mode[p] # "running" ~> mode[p] \in {"running", "stopped"}

\* The daily reset happens on its day, through failed attempts and restarts.
DailyResetHappens ==
  nextReset <= today ~> \/ nextReset > today
                        \/ \A p \in Process : mode[p] = "stopped"

Durable == INSTANCE DurableWorld WITH world <- snap, record <- Logged, seen <- published

\* Everything that is durable or published is what one world would show that takes each
\* event once, records it in the same step and publishes it afterwards: the write queue,
\* its retries, the keepers' copies, the catch-up, the resets, lost locks and crashes
\* of the processes do not show (DurableWorld).
RefinesDurableWorld == Durable!Spec

===============================================================================
