--------------------------- MODULE WorldRunnerProofs ---------------------------
(* Theorems about WorldRunner, for every value of its constants. *)
EXTENDS WorldRunner, TLAPS

-------------------------------------------------------------------------------
(* The types of the values and updates that the actions are made of.         *)

\* Every flow and operation that the actions name is one of the declared ones.
LEMMA FlowNames ==
  /\ Load \subseteq Flow /\ "boot" \in Load /\ "reload" \in Load
  /\ {"tick", "critical", "admin", "reset", "final"} \subseteq Flow
  /\ {"drain", "checkpoint", "commit", "reset"} \subseteq Op
  BY DEF Load, Flow, Op

\* What enqueue() captures is a write.
LEMMA EntryType ==
  ASSUME today \in Nat, NEW f \in Flow, NEW op \in Op,
         NEW image \in Image \cup {NoState}, NEW E \in SUBSET Event, NEW b \in Nat
  PROVE  Entry(f, op, image, E, b) \in Write
  BY DEF Entry, Write

LEMMA DrainType ==
  ASSUME today \in Nat, NEW f \in Flow
  PROVE  Drain(f) \in Write
  BY EntryType DEF Drain, Op

LEMMA CheckpointType ==
  ASSUME today \in Nat, NEW f \in Flow, NEW image \in Image \cup {NoState}
  PROVE  Checkpoint(f, image) \in Write
  BY EntryType DEF Checkpoint, Op

\* The write in flight and its parts are typed.
LEMMA HeadType ==
  ASSUME FlowsOK, NEW p \in Process, chain[p] # <<>>
  PROVE  /\ Head(chain[p]) \in Write
         /\ Head(chain[p]).image \in Image \cup {NoState}
         /\ Head(chain[p]).events \in SUBSET Event
         /\ Head(chain[p]).batch \in Nat
         /\ Head(chain[p]).due \in Nat
  <1>1. Head(chain[p]) \in Write
    BY DEF FlowsOK
  <1> QED BY <1>1 DEF Write

\* A step of the simulation leads from an image to an image.
LEMMA GrownType ==
  ASSUME NEW image \in Image, NEW E \in SUBSET Event
  PROVE  [image EXCEPT !.hist = @ \cup E] \in Image
  BY DEF Image

\* The three moves of the write queue keep it typed, and so does a commit.
LEMMA QueueType ==
  ASSUME chain \in [Process -> Seq(Write)], NEW p \in Process, NEW w \in Write,
         Queue(p, w)
  PROVE  chain' \in [Process -> Seq(Write)]
  BY DEF Queue

LEMMA PopType ==
  ASSUME chain \in [Process -> Seq(Write)], NEW p \in Process, chain[p] # <<>>,
         Pop(p)
  PROVE  chain' \in [Process -> Seq(Write)]
  BY DEF Pop

LEMMA PopQueueType ==
  ASSUME chain \in [Process -> Seq(Write)], NEW p \in Process, chain[p] # <<>>,
         NEW w \in Write, PopQueue(p, w)
  PROVE  chain' \in [Process -> Seq(Write)]
  BY DEF PopQueue

LEMMA LandType ==
  ASSUME chain \in [Process -> Seq(Write)], NEW p \in Process, chain[p] # <<>>,
         chain' = [chain EXCEPT ![p][1].landed = TRUE]
  PROVE  chain' \in [Process -> Seq(Write)]
  <1> DEFINE w == [chain[p][1] EXCEPT !.landed = TRUE]
  <1>1. chain[p] \in Seq(Write) /\ chain[p][1] \in Write
    OBVIOUS
  <1>2. w \in Write
    BY <1>1 DEF Write
  <1>3. [chain[p] EXCEPT ![1] = w] \in Seq(Write)
    BY <1>1, <1>2
  <1> QED BY <1>3

\* start(), and clearing the timer, leave a runner mode.
LEMMA StartType ==
  ASSUME mode \in [Process -> RunnerMode], NEW p \in Process, Start(p)
  PROVE  mode' \in [Process -> RunnerMode]
  BY DEF Start, RunnerMode

LEMMA PauseType ==
  ASSUME mode \in [Process -> RunnerMode], NEW p \in Process, Pause(p)
  PROVE  mode' \in [Process -> RunnerMode]
  BY DEF Pause, RunnerMode

\* Replacing this.state.
LEMMA AssignType ==
  ASSUME live \in [Process -> Image \cup {NoState}],
         critical \in [Process -> CriticalState],
         NEW p \in Process, NEW image \in Image \cup {NoState}, Assign(p, image)
  PROVE  /\ live' \in [Process -> Image \cup {NoState}]
         /\ critical' \in [Process -> CriticalState]
  BY DEF Assign, CriticalState

\* Releasing the lock and scheduling the next attempt.
LEMMA ReleaseType ==
  ASSUME held \in [Process -> BOOLEAN], holder \in Process \cup {Nobody, Orphan},
         NEW p \in Process, Release(p)
  PROVE  /\ held' \in [Process -> BOOLEAN]
         /\ holder' \in Process \cup {Nobody, Orphan}
  BY DEF Release

LEMMA ScheduleLockRetryType ==
  ASSUME retry \in [Process -> BOOLEAN], mode \in [Process -> RunnerMode],
         NEW p \in Process, ScheduleLockRetry(p)
  PROVE  retry' \in [Process -> BOOLEAN] /\ mode' \in [Process -> RunnerMode]
  BY DEF ScheduleLockRetry, RunnerMode

\* The end of resetWorld.
LEMMA ResetEndsType ==
  ASSUME reset \in [Process -> ResetState], backoff \in [Process -> BOOLEAN],
         NEW p \in Process, NEW failed \in BOOLEAN, ResetEnds(p, failed)
  PROVE  reset' \in [Process -> ResetState] /\ backoff' \in [Process -> BOOLEAN]
  <1>1. NoReset \in ResetState
    BY DEF NoReset, ResetState
  <1>2. (backoff[p] \/ (failed /\ reset[p].daily)) \in BOOLEAN
    OBVIOUS
  <1>3. reset' \in [Process -> ResetState]
    BY <1>1 DEF ResetEnds
  <1>4. backoff' \in [Process -> BOOLEAN]
    BY <1>2 DEF ResetEnds
  <1> QED BY <1>3, <1>4

\* The end of a critical save.
LEMMA EndCriticalType ==
  ASSUME critical \in [Process -> CriticalState], NEW p \in Process, EndCritical(p)
  PROVE  critical' \in [Process -> CriticalState]
  BY DEF EndCritical, NoCritical, CriticalState

\* The bounds used stay numbers.
LEMMA CountFaultType ==
  ASSUME spent \in Bounds, CountFault
  PROVE  spent' \in Bounds
  BY DEF CountFault, Bounds

LEMMA CountType ==
  ASSUME spent \in Bounds,
         \/ spent' = [spent EXCEPT !.losses = @ + 1]
         \/ spent' = [spent EXCEPT !.restarts = @ + 1]
         \/ spent' = [spent EXCEPT !.keeper = @ + 1]
  PROVE  spent' \in Bounds
  BY DEF Bounds

\* Fresh names: a batch of events, or a new world generation.
LEMMA NamedType ==
  ASSUME ids \in Names, NEW E \in SUBSET Event,
         ids' = [ids EXCEPT !.events = @ \cup E, !.batches = @ + 1]
  PROVE  ids' \in Names
  <1>1. ids.events \cup E \in SUBSET Event /\ ids.batches + 1 \in Nat
    BY DEF Names
  <1>2. ids' = [events |-> ids.events \cup E, batches |-> ids.batches + 1,
                epochs |-> ids.epochs]
    BY DEF Names
  <1> QED BY <1>1, <1>2 DEF Names

LEMMA EpochType ==
  ASSUME ids \in Names, ids' = [ids EXCEPT !.epochs = @ + 1]
  PROVE  ids' \in Names
  BY DEF Names

LEMMA FreshType ==
  ASSUME ids \in Names
  PROVE  /\ ids.batches + 1 \in Nat
         /\ [epoch |-> ids.epochs + 1, hist |-> {}] \in Image
  BY DEF Names, Image

\* A load() moves or ends.
LEMMA LoadEndsType ==
  ASSUME load \in [Process -> [Load -> LoadState]],
         NEW p \in Process, NEW f \in Load, NEW s \in LoadState,
         load' = [load EXCEPT ![p][f] = s]
  PROVE  load' \in [Process -> [Load -> LoadState]]
  OBVIOUS

LEMMA MovedType ==
  ASSUME NEW s \in LoadState, NEW pc \in {"none", "read", "got", "write", "seed", "seeded"}
  PROVE  [s EXCEPT !.pc = pc] \in LoadState
  BY DEF LoadState

LEMMA LoadMovesType ==
  ASSUME load \in [Process -> [Load -> LoadState]],
         NEW p \in Process, NEW f \in Load,
         NEW pc \in {"none", "read", "got", "write", "seed", "seeded"},
         load' = [load EXCEPT ![p][f].pc = pc]
  PROVE  load' \in [Process -> [Load -> LoadState]]
  <1>1. load[p][f] \in LoadState
    OBVIOUS
  <1>2. [load[p][f] EXCEPT !.pc = pc] \in LoadState
    BY <1>1, MovedType
  <1> QED BY <1>2

LEMMA NoLoadType == NoLoad \in LoadState
  BY DEF NoLoad, LoadState

\* The shared endings of a load, a keeper action and a reset.
LEMMA LoadThrowsType ==
  ASSUME MemoryOK, FlowsOK, DbOK, NEW p \in Process, NEW f \in Load,
         LoadThrows(p, f)
  PROVE  /\ mode' \in [Process -> RunnerMode]
         /\ held' \in [Process -> BOOLEAN]
         /\ retry' \in [Process -> BOOLEAN]
         /\ backoff' \in [Process -> BOOLEAN]
         /\ reset' \in [Process -> ResetState]
         /\ load' \in [Process -> [Load -> LoadState]]
         /\ holder' \in Process \cup {Nobody, Orphan}
  <1>1. load' \in [Process -> [Load -> LoadState]]
    BY LoadEndsType, NoLoadType DEF LoadThrows, FlowsOK
  <1>2. CASE f = "boot"
    <2>1. Release(p) /\ ScheduleLockRetry(p) /\ UNCHANGED <<reset, backoff>>
      BY <1>2 DEF LoadThrows
    <2> QED BY <1>1, <2>1, ReleaseType, ScheduleLockRetryType
            DEF MemoryOK, FlowsOK, DbOK
  <1>3. CASE f # "boot"
    BY <1>1, <1>3, ResetEndsType DEF LoadThrows, MemoryOK, FlowsOK, DbOK
  <1> QED BY <1>2, <1>3

LEMMA LoadFinishesType ==
  ASSUME MemoryOK, FlowsOK, NEW p \in Process, NEW f \in Load,
         LoadFinishes(p, f)
  PROVE  /\ mode' \in [Process -> RunnerMode]
         /\ backoff' \in [Process -> BOOLEAN]
         /\ reset' \in [Process -> ResetState]
         /\ load' \in [Process -> [Load -> LoadState]]
  <1>1. load' \in [Process -> [Load -> LoadState]]
    BY LoadEndsType, NoLoadType DEF LoadFinishes, FlowsOK
  <1> QED BY <1>1, StartType, ResetEndsType DEF LoadFinishes, MemoryOK, FlowsOK

LEMMA AdminEndsType ==
  ASSUME MemoryOK, FlowsOK, NEW p \in Process, AdminEnds(p)
  PROVE  /\ admin' \in [Process -> {"none", "drain", "write"}]
         /\ mode' \in [Process -> RunnerMode]
  BY StartType DEF AdminEnds, MemoryOK, FlowsOK

LEMMA ResetThrowsType ==
  ASSUME MemoryOK, FlowsOK, NEW p \in Process, ResetThrows(p)
  PROVE  /\ backoff' \in [Process -> BOOLEAN]
         /\ reset' \in [Process -> ResetState]
         /\ load' \in [Process -> [Load -> LoadState]]
  <1>1. CASE held[p] /\ ~Stopping(p)
    <2>1. reset' \in [Process -> ResetState]
      <3>1. [reset[p] EXCEPT !.pc = "reload"] \in ResetState
        BY DEF FlowsOK, ResetState
      <3> QED BY <1>1, <3>1 DEF ResetThrows, FlowsOK
    <2> QED BY <1>1, <2>1, LoadMovesType DEF ResetThrows, MemoryOK, FlowsOK, Load
  <1>2. CASE ~(held[p] /\ ~Stopping(p))
    BY <1>2, ResetEndsType DEF ResetThrows, MemoryOK, FlowsOK
  <1> QED BY <1>1, <1>2
-------------------------------------------------------------------------------
(* Every action preserves the type invariant.                                *)

\* Ownership: acquiring the lock, losing it, and the delay after a reset.
LEMMA OwnershipTypes ==
  ASSUME TypeOK, NEW p \in Process,
         TryStart(p) \/ LockLost(p) \/ SessionDies(p) \/ BackoffOver(p)
  PROVE  TypeOK'
  <1>0. MemoryOK /\ FlowsOK /\ DbOK /\ EnvOK
    BY DEF TypeOK
  <1>1. CASE TryStart(p)
    <2>1. MemoryOK'
      BY <1>0, <1>1 DEF TryStart, MemoryOK, RunnerMode
    <2>2. FlowsOK'
      BY <1>0, <1>1, LoadMovesType, FlowNames DEF TryStart, FlowsOK
    <2>3. DbOK'
      BY <1>0, <1>1 DEF TryStart, DbOK, db
    <2>4. EnvOK'
      BY <1>0, <1>1, CountFaultType DEF TryStart, EnvOK
    <2> QED BY <2>1, <2>2, <2>3, <2>4 DEF TypeOK
  <1>2. CASE LockLost(p)
    <2>1. /\ live' \in [Process -> Image \cup {NoState}]
          /\ critical' \in [Process -> CriticalState]
      BY <1>0, <1>2, AssignType DEF LockLost, MemoryOK, FlowsOK
    <2>2. MemoryOK'
      BY <1>0, <1>2, <2>1 DEF LockLost, MemoryOK, RunnerMode
    <2>3. FlowsOK'
      BY <1>0, <1>2, <2>1 DEF LockLost, FlowsOK
    <2>4. DbOK'
      BY <1>0, <1>2 DEF LockLost, DbOK, db
    <2>5. EnvOK'
      BY <1>0, <1>2, CountType DEF LockLost, EnvOK
    <2> QED BY <2>2, <2>3, <2>4, <2>5 DEF TypeOK
  <1>3. CASE SessionDies(p)
    <2>1. MemoryOK' /\ FlowsOK' /\ EnvOK'
      BY <1>0, <1>3 DEF SessionDies, MemoryOK, FlowsOK, EnvOK, memory, flows, env
    <2>2. DbOK'
      BY <1>0, <1>3 DEF SessionDies, DbOK, db
    <2> QED BY <2>1, <2>2 DEF TypeOK
  <1>4. CASE BackoffOver(p)
    <2>1. MemoryOK'
      BY <1>0, <1>4 DEF BackoffOver, MemoryOK
    <2>2. FlowsOK' /\ DbOK' /\ EnvOK'
      BY <1>0, <1>4 DEF BackoffOver, FlowsOK, DbOK, EnvOK, flows, db, env
    <2> QED BY <2>1, <2>2 DEF TypeOK
  <1> QED BY <1>1, <1>2, <1>3, <1>4

\* load(): its reads, its refusals and its writes.
LEMMA LoadReadTypes ==
  ASSUME TypeOK, NEW p \in Process, NEW f \in Load,
         LoadRead(p, f) \/ LoadReadFails(p, f) \/ LoadRefused(p, f)
  PROVE  TypeOK'
  <1>0. MemoryOK /\ FlowsOK /\ DbOK /\ EnvOK
    BY DEF TypeOK
  <1>1. CASE LoadRead(p, f)
    <2>1. [pc |-> "got", image |-> snap] \in LoadState
      BY <1>0 DEF DbOK, LoadState
    <2>2. MemoryOK'
      BY <1>0, <1>1 DEF LoadRead, MemoryOK, DbOK
    <2>3. FlowsOK'
      BY <1>0, <1>1, <2>1, LoadEndsType DEF LoadRead, FlowsOK
    <2>4. DbOK' /\ EnvOK'
      BY <1>0, <1>1 DEF LoadRead, DbOK, EnvOK, db, env
    <2> QED BY <2>2, <2>3, <2>4 DEF TypeOK
  <1>2. CASE LoadReadFails(p, f)
    <2>0. LoadThrows(p, f)
      BY <1>2 DEF LoadReadFails
    <2>1. MemoryOK'
      BY <1>0, <1>2, <2>0, LoadThrowsType DEF LoadReadFails, MemoryOK
    <2>2. FlowsOK'
      BY <1>0, <1>2, <2>0, LoadThrowsType DEF LoadReadFails, FlowsOK
    <2>3. DbOK'
      BY <1>0, <1>2, <2>0, LoadThrowsType DEF LoadReadFails, DbOK, db
    <2>4. EnvOK'
      BY <1>0, <1>2, CountFaultType DEF LoadReadFails, EnvOK
    <2> QED BY <2>1, <2>2, <2>3, <2>4 DEF TypeOK
  <1>3. CASE LoadRefused(p, f)
    <2>0. LoadThrows(p, f)
      BY <1>3 DEF LoadRefused
    <2>1. MemoryOK'
      BY <1>0, <1>3, <2>0, LoadThrowsType DEF LoadRefused, MemoryOK
    <2>2. FlowsOK'
      BY <1>0, <1>3, <2>0, LoadThrowsType DEF LoadRefused, FlowsOK
    <2>3. DbOK'
      BY <1>0, <1>3, <2>0, LoadThrowsType DEF LoadRefused, DbOK, db
    <2>4. EnvOK'
      BY <1>0, <1>3 DEF LoadRefused, EnvOK, env
    <2> QED BY <2>1, <2>2, <2>3, <2>4 DEF TypeOK
  <1> QED BY <1>1, <1>2, <1>3

LEMMA LoadStepTypes ==
  ASSUME TypeOK, NEW p \in Process, NEW f \in Load, NEW E \in SUBSET Event,
         LoadResets(p) \/ LoadSeeds(p, f) \/ LoadAdvances(p, f, E)
  PROVE  TypeOK'
  <1>0. MemoryOK /\ FlowsOK /\ DbOK /\ EnvOK
    BY DEF TypeOK
  <1>1. CASE LoadResets(p)
    <2>1. Entry("boot", "reset", [epoch |-> ids.epochs + 1, hist |-> {}], {}, 0)
            \in Write
      BY <1>0, EntryType, FreshType, FlowNames DEF EnvOK
    <2>2. chain' \in [Process -> Seq(Write)]
      BY <1>0, <1>1, <2>1, QueueType DEF LoadResets, FlowsOK
    <2>3. load' \in [Process -> [Load -> LoadState]]
      BY <1>0, <1>1, LoadMovesType, FlowNames DEF LoadResets, FlowsOK
    <2>4. MemoryOK' /\ DbOK'
      BY <1>0, <1>1 DEF LoadResets, MemoryOK, DbOK, memory, db
    <2>5. FlowsOK'
      BY <1>0, <1>1, <2>2, <2>3 DEF LoadResets, FlowsOK
    <2>6. EnvOK'
      BY <1>0, <1>1, EpochType DEF LoadResets, EnvOK
    <2> QED BY <2>4, <2>5, <2>6 DEF TypeOK
  <1>2. CASE LoadSeeds(p, f)
    <2>1. FlowsOK'
      BY <1>0, <1>2, LoadMovesType DEF LoadSeeds, FlowsOK
    <2>2. MemoryOK' /\ DbOK' /\ EnvOK'
      BY <1>0, <1>2 DEF LoadSeeds, MemoryOK, DbOK, EnvOK, memory, db, env
    <2> QED BY <2>1, <2>2 DEF TypeOK
  <1>3. CASE LoadAdvances(p, f, E)
    <2> DEFINE image == [load[p][f].image EXCEPT !.hist = @ \cup E]
    <2>1. load[p][f].image \in Image
      <3>1. load[p][f] \in LoadState
        BY <1>0 DEF FlowsOK
      <3> QED BY <1>3, <3>1 DEF LoadAdvances, LoadState
    <2>2. image \in Image
      BY <2>1, GrownType
    <2>3. Assign(p, image)
      BY <1>3 DEF LoadAdvances
    <2>4. /\ live' \in [Process -> Image \cup {NoState}]
          /\ critical' \in [Process -> CriticalState]
      BY <1>0, <2>2, <2>3, AssignType DEF MemoryOK, FlowsOK
    <2>5. /\ Checkpoint(f, image) \in Write
          /\ Entry(f, "commit", image, E, ids.batches + 1) \in Write
      BY <1>0, <2>2, CheckpointType, EntryType, FreshType, FlowNames DEF EnvOK
    <2>6. \/ Queue(p, Checkpoint(f, image))
          \/ Queue(p, Entry(f, "commit", image, E, ids.batches + 1))
      BY <1>3 DEF LoadAdvances
    <2>7. chain' \in [Process -> Seq(Write)]
      BY <1>0, <2>5, <2>6, QueueType DEF FlowsOK
    <2>8. load' \in [Process -> [Load -> LoadState]]
      BY <1>0, <1>3, LoadMovesType DEF LoadAdvances, FlowsOK
    <2>9. MemoryOK'
      BY <1>0, <1>3, <2>4 DEF LoadAdvances, MemoryOK
    <2>10. FlowsOK'
      BY <1>0, <1>3, <2>4, <2>7, <2>8 DEF LoadAdvances, FlowsOK
    <2>11. DbOK'
      BY <1>0, <1>3 DEF LoadAdvances, DbOK, db
    <2>12. EnvOK'
      BY <1>0, <1>3, NamedType DEF LoadAdvances, EnvOK
    <2> QED BY <2>9, <2>10, <2>11, <2>12 DEF TypeOK
  <1> QED BY <1>1, <1>2, <1>3

\* The checkpoint of a first population.
LEMMA SeedType == Seed \in Image
  BY DEF Seed, Image

LEMMA SeedTypes ==
  ASSUME TypeOK, NEW p \in Process, NEW f \in Load,
         SeedLands(p, f) \/ LoadSeeded(p, f) \/ SeedFails(p, f)
  PROVE  TypeOK'
  <1>0. MemoryOK /\ FlowsOK /\ DbOK /\ EnvOK
    BY DEF TypeOK
  <1>1. CASE SeedLands(p, f)
    <2>1. FlowsOK'
      BY <1>0, <1>1, LoadMovesType DEF SeedLands, FlowsOK
    <2>2. DbOK'
      BY <1>0, <1>1, SeedType DEF SeedLands, DbOK
    <2>3. MemoryOK' /\ EnvOK'
      BY <1>0, <1>1 DEF SeedLands, MemoryOK, EnvOK, memory, env
    <2> QED BY <2>1, <2>2, <2>3 DEF TypeOK
  <1>2. CASE LoadSeeded(p, f)
    <2>1. /\ live' \in [Process -> Image \cup {NoState}]
          /\ critical' \in [Process -> CriticalState]
      BY <1>0, <1>2, SeedType, AssignType DEF LoadSeeded, MemoryOK, FlowsOK
    <2>2. LoadFinishes(p, f)
      BY <1>2 DEF LoadSeeded
    <2>3. MemoryOK'
      BY <1>0, <1>2, <2>1, <2>2, LoadFinishesType DEF LoadSeeded, MemoryOK
    <2>4. FlowsOK'
      BY <1>0, <1>2, <2>1, <2>2, LoadFinishesType DEF LoadSeeded, FlowsOK
    <2>5. DbOK' /\ EnvOK'
      BY <1>0, <1>2 DEF LoadSeeded, DbOK, EnvOK, db, env
    <2> QED BY <2>3, <2>4, <2>5 DEF TypeOK
  <1>3. CASE SeedFails(p, f)
    <2>0. LoadThrows(p, f)
      BY <1>3 DEF SeedFails
    <2>1. MemoryOK'
      BY <1>0, <1>3, <2>0, LoadThrowsType DEF SeedFails, MemoryOK
    <2>2. FlowsOK'
      BY <1>0, <1>3, <2>0, LoadThrowsType DEF SeedFails, FlowsOK
    <2>3. DbOK'
      BY <1>0, <1>3, <2>0, LoadThrowsType DEF SeedFails, DbOK, db
    <2>4. EnvOK'
      BY <1>0, <1>3, CountFaultType DEF SeedFails, EnvOK
    <2> QED BY <2>1, <2>2, <2>3, <2>4 DEF TypeOK
  <1> QED BY <1>1, <1>2, <1>3

\* load()'s writes are answered, or fail.
LEMMA LoadAnswerTypes ==
  ASSUME TypeOK, NEW p \in Process, NEW f \in Load,
         \/ LoadCommitted(p, f) \/ LoadCheckpointed(p, f) \/ LoadReset(p)
         \/ LoadWriteFails(p, f)
  PROVE  TypeOK'
  <1>0. MemoryOK /\ FlowsOK /\ DbOK /\ EnvOK
    BY DEF TypeOK
  <1>1. CASE LoadCommitted(p, f)
    <2>1. chain[p] # <<>>
      BY <1>1 DEF LoadCommitted, Answered
    <2>2. CASE live[p] # NoState
      <3>1. PopQueue(p, Checkpoint(f, live[p]))
        BY <1>1, <2>2 DEF LoadCommitted
      <3>2. Checkpoint(f, live[p]) \in Write
        BY <1>0, CheckpointType, FlowNames DEF EnvOK, MemoryOK
      <3>3. chain' \in [Process -> Seq(Write)]
        BY <1>0, <2>1, <3>1, <3>2, PopQueueType DEF FlowsOK
      <3>4. MemoryOK'
        BY <1>0, <1>1, <2>2 DEF LoadCommitted, MemoryOK
      <3>5. FlowsOK'
        BY <1>0, <1>1, <2>2, <3>3 DEF LoadCommitted, FlowsOK
      <3>6. DbOK' /\ EnvOK'
        BY <1>0, <1>1, <2>2 DEF LoadCommitted, DbOK, EnvOK, db, env
      <3> QED BY <3>4, <3>5, <3>6 DEF TypeOK
    <2>3. CASE live[p] = NoState
      <3>1. Pop(p) /\ LoadThrows(p, f)
        BY <1>1, <2>3 DEF LoadCommitted
      <3>2. chain' \in [Process -> Seq(Write)]
        BY <1>0, <2>1, <3>1, PopType DEF FlowsOK
      <3>3. MemoryOK'
        BY <1>0, <1>1, <3>1, LoadThrowsType DEF LoadCommitted, MemoryOK
      <3>4. FlowsOK'
        BY <1>0, <1>1, <3>1, <3>2, LoadThrowsType DEF LoadCommitted, FlowsOK
      <3>5. DbOK'
        BY <1>0, <1>1, <3>1, LoadThrowsType DEF LoadCommitted, DbOK, db
      <3>6. EnvOK'
        BY <1>0, <1>1 DEF LoadCommitted, EnvOK, env
      <3> QED BY <3>3, <3>4, <3>5, <3>6 DEF TypeOK
    <2> QED BY <2>2, <2>3
  <1>2. CASE LoadCheckpointed(p, f)
    <2>1. chain[p] # <<>> /\ Pop(p) /\ LoadFinishes(p, f)
      BY <1>2 DEF LoadCheckpointed, Answered
    <2>2. chain' \in [Process -> Seq(Write)]
      BY <1>0, <2>1, PopType DEF FlowsOK
    <2>3. MemoryOK'
      BY <1>0, <1>2, <2>1, LoadFinishesType DEF LoadCheckpointed, MemoryOK
    <2>4. FlowsOK'
      BY <1>0, <1>2, <2>1, <2>2, LoadFinishesType DEF LoadCheckpointed, FlowsOK
    <2>5. DbOK' /\ EnvOK'
      BY <1>0, <1>2 DEF LoadCheckpointed, DbOK, EnvOK, db, env
    <2> QED BY <2>3, <2>4, <2>5 DEF TypeOK
  <1>3. CASE LoadReset(p)
    <2>1. chain[p] # <<>> /\ Pop(p) /\ LoadFinishes(p, "boot")
      BY <1>3 DEF LoadReset, Answered
    <2>2. chain' \in [Process -> Seq(Write)]
      BY <1>0, <2>1, PopType DEF FlowsOK
    <2>3. /\ live' \in [Process -> Image \cup {NoState}]
          /\ critical' \in [Process -> CriticalState]
      BY <1>0, <1>3, <2>1, HeadType, AssignType DEF LoadReset, MemoryOK, FlowsOK
    <2>4. world' \in [Process -> Nat]
      BY <1>0, <1>3, <2>1, HeadType DEF LoadReset, MemoryOK
    <2>5. MemoryOK'
      BY <1>0, <1>3, <2>1, <2>3, <2>4, LoadFinishesType, FlowNames
         DEF LoadReset, MemoryOK
    <2>6. FlowsOK'
      BY <1>0, <1>3, <2>1, <2>2, <2>3, LoadFinishesType, FlowNames
         DEF LoadReset, FlowsOK
    <2>7. DbOK' /\ EnvOK'
      BY <1>0, <1>3 DEF LoadReset, DbOK, EnvOK, db, env
    <2> QED BY <2>5, <2>6, <2>7 DEF TypeOK
  <1>4. CASE LoadWriteFails(p, f)
    <2>1. chain[p] # <<>> /\ Pop(p) /\ LoadThrows(p, f)
      BY <1>4 DEF LoadWriteFails, Fails
    <2>2. chain' \in [Process -> Seq(Write)]
      BY <1>0, <2>1, PopType DEF FlowsOK
    <2>3. MemoryOK'
      BY <1>0, <1>4, <2>1, LoadThrowsType DEF LoadWriteFails, MemoryOK
    <2>4. FlowsOK'
      BY <1>0, <1>4, <2>1, <2>2, LoadThrowsType DEF LoadWriteFails, FlowsOK
    <2>5. DbOK'
      BY <1>0, <1>4, <2>1, LoadThrowsType DEF LoadWriteFails, DbOK, db
    <2>6. EnvOK'
      BY <1>0, <1>4, CountFaultType DEF LoadWriteFails, EnvOK
    <2> QED BY <2>3, <2>4, <2>5, <2>6 DEF TypeOK
  <1> QED BY <1>1, <1>2, <1>3, <1>4

\* The tick loop and its critical save.
LEMMA TickTypes ==
  ASSUME TypeOK, NEW p \in Process, NEW E \in SUBSET Event,
         CheckpointTick(p) \/ CheckpointSettles(p) \/ CriticalTick(p, E)
  PROVE  TypeOK'
  <1>0. MemoryOK /\ FlowsOK /\ DbOK /\ EnvOK
    BY DEF TypeOK
  <1>1. CASE CheckpointTick(p)
    <2>1. Checkpoint("tick", live[p]) \in Write
      BY <1>0, CheckpointType, FlowNames DEF EnvOK, MemoryOK
    <2>2. FlowsOK'
      BY <1>0, <1>1, <2>1, QueueType DEF CheckpointTick, FlowsOK
    <2>3. MemoryOK' /\ DbOK' /\ EnvOK'
      BY <1>0, <1>1 DEF CheckpointTick, MemoryOK, DbOK, EnvOK, memory, db, env
    <2> QED BY <2>2, <2>3 DEF TypeOK
  <1>2. CASE CheckpointSettles(p)
    <2>1. chain[p] # <<>> /\ Pop(p)
      BY <1>2 DEF CheckpointSettles, Answered, Fails
    <2>2. FlowsOK'
      BY <1>0, <1>2, <2>1, PopType DEF CheckpointSettles, FlowsOK
    <2>3. EnvOK'
      BY <1>0, <1>2, CountFaultType DEF CheckpointSettles, EnvOK
    <2>4. MemoryOK' /\ DbOK'
      BY <1>0, <1>2 DEF CheckpointSettles, MemoryOK, DbOK, memory, db
    <2> QED BY <2>2, <2>3, <2>4 DEF TypeOK
  <1>3. CASE CriticalTick(p, E)
    <2> DEFINE image == [live[p] EXCEPT !.hist = @ \cup E]
    <2>1. live[p] \in Image
      BY <1>0, <1>3 DEF CriticalTick, CanTick, MemoryOK
    <2>2. image \in Image
      BY <2>1, GrownType
    <2>3. Entry("critical", "commit", image, E, ids.batches + 1) \in Write
      BY <1>0, <2>2, EntryType, FreshType, FlowNames DEF EnvOK
    <2>4. chain' \in [Process -> Seq(Write)]
      BY <1>0, <1>3, <2>3, QueueType DEF CriticalTick, FlowsOK
    <2>5. [pc |-> "write", events |-> E, batch |-> ids.batches + 1,
           fresh |-> TRUE] \in CriticalState
      BY <1>0, FreshType DEF EnvOK, CriticalState
    <2>6. critical' \in [Process -> CriticalState]
      BY <1>0, <1>3, <2>5 DEF CriticalTick, FlowsOK
    <2>7. live' \in [Process -> Image \cup {NoState}]
      BY <1>0, <1>3, <2>2 DEF CriticalTick, MemoryOK
    <2>8. mode' \in [Process -> RunnerMode]
      BY <1>0, <1>3, PauseType DEF CriticalTick, MemoryOK
    <2>9. MemoryOK'
      BY <1>0, <1>3, <2>7, <2>8 DEF CriticalTick, MemoryOK
    <2>10. FlowsOK'
      BY <1>0, <1>3, <2>4, <2>6 DEF CriticalTick, FlowsOK
    <2>11. DbOK'
      BY <1>0, <1>3 DEF CriticalTick, DbOK, db
    <2>12. EnvOK'
      BY <1>0, <1>3, NamedType DEF CriticalTick, EnvOK
    <2> QED BY <2>9, <2>10, <2>11, <2>12 DEF TypeOK
  <1> QED BY <1>1, <1>2, <1>3

LEMMA CriticalTypes ==
  ASSUME TypeOK, NEW p \in Process,
         CriticalSaved(p) \/ CriticalFails(p) \/ CriticalRetry(p)
  PROVE  TypeOK'
  <1>0. MemoryOK /\ FlowsOK /\ DbOK /\ EnvOK
    BY DEF TypeOK
  <1>1. CASE CriticalSaved(p)
    <2>1. chain[p] # <<>> /\ Pop(p) /\ EndCritical(p)
      BY <1>1 DEF CriticalSaved, Answered
    <2>2. MemoryOK'
      BY <1>0, <1>1, StartType DEF CriticalSaved, MemoryOK
    <2>3. FlowsOK'
      BY <1>0, <1>1, <2>1, PopType, EndCriticalType DEF CriticalSaved, FlowsOK
    <2>4. DbOK'
      BY <1>0, <1>1 DEF CriticalSaved, DbOK, db
    <2>5. published' \in SUBSET Event
      BY <1>0, <1>1, <2>1, HeadType DEF CriticalSaved, EnvOK
    <2>6. EnvOK'
      BY <1>0, <1>1, <2>5 DEF CriticalSaved, EnvOK, env
    <2> QED BY <2>2, <2>3, <2>4, <2>6 DEF TypeOK
  <1>2. CASE CriticalFails(p)
    <2>1. chain[p] # <<>> /\ Pop(p)
      BY <1>2 DEF CriticalFails, Fails
    <2>2. [critical[p] EXCEPT !.pc = "backoff"] \in CriticalState
      <3>1. critical[p] \in CriticalState
        BY <1>0 DEF FlowsOK
      <3> QED BY <3>1 DEF CriticalState
    <2>3. critical' \in [Process -> CriticalState]
      BY <1>0, <1>2, <2>2, EndCriticalType DEF CriticalFails, FlowsOK
    <2>4. FlowsOK'
      BY <1>0, <1>2, <2>1, <2>3, PopType DEF CriticalFails, FlowsOK
    <2>5. EnvOK'
      BY <1>0, <1>2, CountFaultType DEF CriticalFails, EnvOK
    <2>6. MemoryOK' /\ DbOK'
      BY <1>0, <1>2 DEF CriticalFails, MemoryOK, DbOK, memory, db
    <2> QED BY <2>4, <2>5, <2>6 DEF TypeOK
  <1>3. CASE CriticalRetry(p)
    <2>1. critical[p] \in CriticalState
      BY <1>0 DEF FlowsOK
    <2>2. [critical[p] EXCEPT !.pc = "write"] \in CriticalState
      BY <2>1 DEF CriticalState
    <2>3. critical' \in [Process -> CriticalState]
      BY <1>0, <1>3, <2>2, EndCriticalType DEF CriticalRetry, FlowsOK
    <2>4. RetryBatch(p) \in Nat /\ critical[p].events \in SUBSET Event
      BY <2>1 DEF RetryBatch, CriticalState
    <2>5. Entry("critical", "commit", live[p], critical[p].events, RetryBatch(p))
            \in Write
      BY <1>0, <2>4, EntryType, FlowNames DEF EnvOK, MemoryOK
    <2>6. chain' \in [Process -> Seq(Write)]
      BY <1>0, <1>3, <2>5, QueueType DEF CriticalRetry, FlowsOK
    <2>7. FlowsOK'
      BY <1>0, <1>3, <2>3, <2>6 DEF CriticalRetry, FlowsOK
    <2>8. MemoryOK' /\ DbOK' /\ EnvOK'
      BY <1>0, <1>3 DEF CriticalRetry, MemoryOK, DbOK, EnvOK, memory, db, env
    <2> QED BY <2>7, <2>8 DEF TypeOK
  <1> QED BY <1>1, <1>2, <1>3

\* Keeper actions.
LEMMA AdminTypes ==
  ASSUME TypeOK, NEW p \in Process, NEW E \in SUBSET Event,
         \/ AdminMutate(p) \/ AdminDrained(p, E) \/ AdminSaved(p)
         \/ AdminFails(p)
  PROVE  TypeOK'
  <1>0. MemoryOK /\ FlowsOK /\ DbOK /\ EnvOK
    BY DEF TypeOK
  <1>1. CASE AdminMutate(p)
    <2>1. Drain("admin") \in Write
      BY <1>0, DrainType, FlowNames DEF EnvOK
    <2>2. MemoryOK'
      BY <1>0, <1>1, PauseType DEF AdminMutate, MemoryOK
    <2>3. FlowsOK'
      BY <1>0, <1>1, <2>1, QueueType DEF AdminMutate, FlowsOK
    <2>4. DbOK'
      BY <1>0, <1>1 DEF AdminMutate, DbOK, db
    <2>5. EnvOK'
      BY <1>0, <1>1, CountType DEF AdminMutate, EnvOK
    <2> QED BY <2>2, <2>3, <2>4, <2>5 DEF TypeOK
  <1>2. CASE AdminDrained(p, E)
    <2>1. chain[p] # <<>>
      BY <1>2 DEF AdminDrained, Answered
    <2>2. DbOK'
      BY <1>0, <1>2 DEF AdminDrained, DbOK, db
    <2>3. CASE held[p] /\ live[p] # NoState /\ ~Stopping(p) /\ E # {}
      <3> DEFINE image == [live[p] EXCEPT !.hist = @ \cup E]
      <3>1. image \in Image
        BY <1>0, <2>3, GrownType DEF MemoryOK
      <3>2. Entry("admin", "commit", image, E, ids.batches + 1) \in Write
        BY <1>0, <3>1, EntryType, FreshType, FlowNames DEF EnvOK
      <3>3. PopQueue(p, Entry("admin", "commit", image, E, ids.batches + 1))
        BY <1>2, <2>3 DEF AdminDrained
      <3>4. chain' \in [Process -> Seq(Write)]
        BY <1>0, <2>1, <3>2, <3>3, PopQueueType DEF FlowsOK
      <3>5. MemoryOK'
        BY <1>0, <1>2, <2>3 DEF AdminDrained, MemoryOK
      <3>6. FlowsOK'
        BY <1>0, <1>2, <2>3, <3>4 DEF AdminDrained, FlowsOK
      <3>7. EnvOK'
        BY <1>0, <1>2, <2>3, NamedType DEF AdminDrained, EnvOK
      <3> QED BY <2>2, <3>5, <3>6, <3>7 DEF TypeOK
    <2>4. CASE ~(held[p] /\ live[p] # NoState /\ ~Stopping(p) /\ E # {})
      <3>1. Pop(p) /\ AdminEnds(p)
        BY <1>2, <2>4 DEF AdminDrained
      <3>2. MemoryOK'
        BY <1>0, <1>2, <3>1, AdminEndsType DEF AdminDrained, MemoryOK
      <3>3. FlowsOK'
        BY <1>0, <1>2, <2>1, <3>1, AdminEndsType, PopType DEF AdminDrained, FlowsOK
      <3>4. EnvOK'
        BY <1>0, <1>2, <2>4 DEF AdminDrained, EnvOK
      <3> QED BY <2>2, <3>2, <3>3, <3>4 DEF TypeOK
    <2> QED BY <2>3, <2>4
  <1>3. CASE AdminSaved(p)
    <2>1. chain[p] # <<>> /\ Pop(p)
      BY <1>3 DEF AdminSaved, Answered
    <2>2. /\ live' \in [Process -> Image \cup {NoState}]
          /\ critical' \in [Process -> CriticalState]
      BY <1>0, <1>3, <2>1, HeadType, AssignType DEF AdminSaved, MemoryOK, FlowsOK
    <2>3. MemoryOK'
      BY <1>0, <1>3, <2>2, StartType DEF AdminSaved, MemoryOK
    <2>4. FlowsOK'
      BY <1>0, <1>3, <2>1, <2>2, PopType DEF AdminSaved, FlowsOK
    <2>5. DbOK'
      BY <1>0, <1>3 DEF AdminSaved, DbOK, db
    <2>6. published' \in SUBSET Event
      BY <1>0, <1>3, <2>1, HeadType DEF AdminSaved, EnvOK
    <2>7. EnvOK'
      BY <1>0, <1>3, <2>6 DEF AdminSaved, EnvOK, env
    <2> QED BY <2>3, <2>4, <2>5, <2>7 DEF TypeOK
  <1>4. CASE AdminFails(p)
    <2>1. chain[p] # <<>> /\ Pop(p) /\ AdminEnds(p)
      BY <1>4 DEF AdminFails, Fails
    <2>2. MemoryOK'
      BY <1>0, <1>4, <2>1, AdminEndsType DEF AdminFails, MemoryOK
    <2>3. FlowsOK'
      BY <1>0, <1>4, <2>1, AdminEndsType, PopType DEF AdminFails, FlowsOK
    <2>4. DbOK'
      BY <1>0, <1>4 DEF AdminFails, DbOK, db
    <2>5. EnvOK'
      BY <1>0, <1>4, CountFaultType DEF AdminFails, EnvOK
    <2> QED BY <2>2, <2>3, <2>4, <2>5 DEF TypeOK
  <1> QED BY <1>1, <1>2, <1>3, <1>4

\* Resets.
LEMMA ResetWorldTypes ==
  ASSUME TypeOK, NEW p \in Process, DailyReset(p) \/ ManualReset(p)
  PROVE  TypeOK'
  <1>0. MemoryOK /\ FlowsOK /\ DbOK /\ EnvOK
    BY DEF TypeOK
  <1>1. PICK daily \in BOOLEAN : ResetWorld(p, daily)
    BY DEF DailyReset, ManualReset
  <1>2. Drain("reset") \in Write
    BY <1>0, DrainType, FlowNames DEF EnvOK
  <1>3. MemoryOK'
    BY <1>0, <1>1, PauseType DEF ResetWorld, MemoryOK
  <1>4. reset' \in [Process -> ResetState]
    <2>1. [pc |-> "drain", daily |-> daily] \in ResetState
      BY DEF ResetState
    <2> QED BY <1>0, <1>1, <2>1 DEF ResetWorld, FlowsOK
  <1>5. FlowsOK'
    BY <1>0, <1>1, <1>2, <1>4, QueueType DEF ResetWorld, FlowsOK
  <1>6. DbOK'
    BY <1>0, <1>1 DEF ResetWorld, DbOK, db
  <1>7. spent' \in Bounds
    BY <1>0, CountType DEF DailyReset, ManualReset, EnvOK
  <1>8. EnvOK'
    BY <1>0, <1>1, <1>7 DEF ResetWorld, EnvOK
  <1> QED BY <1>3, <1>5, <1>6, <1>8 DEF TypeOK

LEMMA ResetTypes ==
  ASSUME TypeOK, NEW p \in Process,
         ResetDrained(p) \/ ResetSaved(p) \/ ResetFails(p)
  PROVE  TypeOK'
  <1>0. MemoryOK /\ FlowsOK /\ DbOK /\ EnvOK
    BY DEF TypeOK
  <1>1. CASE ResetDrained(p)
    <2>1. chain[p] # <<>>
      BY <1>1 DEF ResetDrained, Answered
    <2>2. DbOK'
      BY <1>0, <1>1 DEF ResetDrained, DbOK, db
    <2>3. CASE held[p] /\ live[p] # NoState /\ ~Stopping(p)
      <3> DEFINE w == Entry("reset", "reset",
                            [epoch |-> ids.epochs + 1, hist |-> {}], {}, 0)
      <3>1. w \in Write
        BY <1>0, EntryType, FreshType, FlowNames DEF EnvOK
      <3>2. PopQueue(p, w)
        BY <1>1, <2>3 DEF ResetDrained
      <3>3. chain' \in [Process -> Seq(Write)]
        BY <1>0, <2>1, <3>1, <3>2, PopQueueType DEF FlowsOK
      <3>4. reset' \in [Process -> ResetState]
        <4>1. [reset[p] EXCEPT !.pc = "write"] \in ResetState
          <5>1. reset[p] \in ResetState
            BY <1>0 DEF FlowsOK
          <5> QED BY <5>1 DEF ResetState
        <4> QED BY <1>0, <1>1, <2>3, <4>1 DEF ResetDrained, FlowsOK
      <3>5. MemoryOK'
        BY <1>0, <1>1, <2>3 DEF ResetDrained, MemoryOK
      <3>6. FlowsOK'
        BY <1>0, <1>1, <2>3, <3>3, <3>4 DEF ResetDrained, FlowsOK
      <3>7. EnvOK'
        BY <1>0, <1>1, <2>3, EpochType DEF ResetDrained, EnvOK
      <3> QED BY <2>2, <3>5, <3>6, <3>7 DEF TypeOK
    <2>4. CASE ~(held[p] /\ live[p] # NoState /\ ~Stopping(p))
      <3>1. Pop(p) /\ ResetThrows(p)
        BY <1>1, <2>4 DEF ResetDrained
      <3>2. MemoryOK'
        BY <1>0, <1>1, <3>1, ResetThrowsType DEF ResetDrained, MemoryOK
      <3>3. FlowsOK'
        BY <1>0, <1>1, <2>1, <3>1, ResetThrowsType, PopType
           DEF ResetDrained, FlowsOK
      <3>4. EnvOK'
        BY <1>0, <1>1, <2>4 DEF ResetDrained, EnvOK
      <3> QED BY <2>2, <3>2, <3>3, <3>4 DEF TypeOK
    <2> QED BY <2>3, <2>4
  <1>2. CASE ResetSaved(p)
    <2>1. /\ chain[p] # <<>> /\ Pop(p) /\ Start(p) /\ ResetEnds(p, FALSE)
          /\ Assign(p, Head(chain[p]).image)
      BY <1>2 DEF ResetSaved, Answered
    <2>2. /\ live' \in [Process -> Image \cup {NoState}]
          /\ critical' \in [Process -> CriticalState]
      BY <1>0, <2>1, HeadType, AssignType DEF MemoryOK, FlowsOK
    <2>3. world' \in [Process -> Nat]
      BY <1>0, <1>2, <2>1, HeadType DEF ResetSaved, MemoryOK
    <2>4. reset' \in [Process -> ResetState] /\ backoff' \in [Process -> BOOLEAN]
      BY <1>0, <2>1, ResetEndsType DEF MemoryOK, FlowsOK
    <2>5. MemoryOK'
      BY <1>0, <1>2, <2>1, <2>2, <2>3, <2>4, StartType DEF ResetSaved, MemoryOK
    <2>6. FlowsOK'
      BY <1>0, <1>2, <2>1, <2>2, <2>4, PopType DEF ResetSaved, FlowsOK
    <2>7. DbOK' /\ EnvOK'
      BY <1>0, <1>2 DEF ResetSaved, DbOK, EnvOK, db, env
    <2> QED BY <2>5, <2>6, <2>7 DEF TypeOK
  <1>3. CASE ResetFails(p)
    <2>1. chain[p] # <<>> /\ Pop(p) /\ ResetThrows(p)
      BY <1>3 DEF ResetFails, Fails
    <2>2. MemoryOK'
      BY <1>0, <1>3, <2>1, ResetThrowsType DEF ResetFails, MemoryOK
    <2>3. FlowsOK'
      BY <1>0, <1>3, <2>1, ResetThrowsType, PopType DEF ResetFails, FlowsOK
    <2>4. DbOK'
      BY <1>0, <1>3 DEF ResetFails, DbOK, db
    <2>5. EnvOK'
      BY <1>0, <1>3, CountFaultType DEF ResetFails, EnvOK
    <2> QED BY <2>2, <2>3, <2>4, <2>5 DEF TypeOK
  <1> QED BY <1>1, <1>2, <1>3

\* shutdown(), and the end of a process.
LEMMA ShutdownTypes ==
  ASSUME TypeOK, NEW p \in Process,
         \/ Shutdown(p) \/ ShutdownFlowsDone(p) \/ ShutdownCheckpointed(p)
         \/ ShutdownDrained(p) \/ Restart(p)
  PROVE  TypeOK'
  <1>0. MemoryOK /\ FlowsOK /\ DbOK /\ EnvOK
    BY DEF TypeOK
  <1>d. Drain("final") \in Write
    BY <1>0, DrainType, FlowNames DEF EnvOK
  <1>1. CASE Shutdown(p)
    <2>1. MemoryOK'
      BY <1>0, <1>1 DEF Shutdown, MemoryOK
    <2>2. FlowsOK' /\ DbOK' /\ EnvOK'
      BY <1>0, <1>1 DEF Shutdown, FlowsOK, DbOK, EnvOK, flows, db, env
    <2> QED BY <2>1, <2>2 DEF TypeOK
  <1>2. CASE ShutdownFlowsDone(p)
    <2>1. Checkpoint("final", live[p]) \in Write
      BY <1>0, CheckpointType, FlowNames DEF EnvOK, MemoryOK
    <2>2. Queue(p, Checkpoint("final", live[p])) \/ Queue(p, Drain("final"))
      BY <1>2 DEF ShutdownFlowsDone
    <2>3. chain' \in [Process -> Seq(Write)]
      BY <1>0, <1>d, <2>1, <2>2, QueueType DEF FlowsOK
    <2>4. halt' \in [Process -> {"no", "flows", "checkpoint", "drain", "done"}]
      BY <1>0, <1>2 DEF ShutdownFlowsDone, MemoryOK
    <2>5. MemoryOK'
      BY <1>0, <1>2, <2>4 DEF ShutdownFlowsDone, MemoryOK
    <2>6. FlowsOK'
      BY <1>0, <1>2, <2>3 DEF ShutdownFlowsDone, FlowsOK
    <2>7. DbOK' /\ EnvOK'
      BY <1>0, <1>2 DEF ShutdownFlowsDone, DbOK, EnvOK, db, env
    <2> QED BY <2>5, <2>6, <2>7 DEF TypeOK
  <1>3. CASE ShutdownCheckpointed(p)
    <2>1. chain[p] # <<>>
      BY <1>3 DEF ShutdownCheckpointed, Answered, Fails
    <2>2. MemoryOK'
      BY <1>0, <1>3 DEF ShutdownCheckpointed, MemoryOK
    <2>3. FlowsOK'
      BY <1>0, <1>3, <1>d, <2>1, PopQueueType DEF ShutdownCheckpointed, FlowsOK
    <2>4. DbOK'
      BY <1>0, <1>3 DEF ShutdownCheckpointed, DbOK, db
    <2>5. EnvOK'
      BY <1>0, <1>3, CountFaultType DEF ShutdownCheckpointed, EnvOK
    <2> QED BY <2>2, <2>3, <2>4, <2>5 DEF TypeOK
  <1>4. CASE ShutdownDrained(p)
    <2>1. chain[p] # <<>> /\ Pop(p) /\ Release(p)
      BY <1>4 DEF ShutdownDrained, Answered
    <2>2. /\ held' \in [Process -> BOOLEAN]
          /\ holder' \in Process \cup {Nobody, Orphan}
      BY <1>0, <2>1, ReleaseType DEF MemoryOK, DbOK
    <2>3. MemoryOK'
      BY <1>0, <1>4, <2>2 DEF ShutdownDrained, MemoryOK, RunnerMode
    <2>4. FlowsOK'
      BY <1>0, <1>4, <2>1, PopType DEF ShutdownDrained, FlowsOK
    <2>5. DbOK'
      BY <1>0, <1>4, <2>2 DEF ShutdownDrained, DbOK, db
    <2>6. EnvOK'
      BY <1>0, <1>4 DEF ShutdownDrained, EnvOK, env
    <2> QED BY <2>3, <2>4, <2>5, <2>6 DEF TypeOK
  <1>5. CASE Restart(p)
    <2>1. NoCritical \in CriticalState /\ NoReset \in ResetState
      BY DEF NoCritical, CriticalState, NoReset, ResetState
    <2>2. world' \in [Process -> Nat]
      BY <1>0, <1>5 DEF Restart, MemoryOK, DbOK
    <2>3. MemoryOK'
      BY <1>0, <1>5, <2>2 DEF Restart, MemoryOK, RunnerMode
    <2>4. load' \in [Process -> [Load -> LoadState]]
      BY <1>0, <1>5, NoLoadType DEF Restart, FlowsOK
    <2>5. chain' \in [Process -> Seq(Write)]
      BY <1>0, <1>5 DEF Restart, FlowsOK
    <2>6. FlowsOK'
      BY <1>0, <1>5, <2>1, <2>4, <2>5 DEF Restart, FlowsOK
    <2>7. DbOK'
      BY <1>0, <1>5 DEF Restart, DbOK, db
    <2>8. EnvOK'
      BY <1>0, <1>5, CountType DEF Restart, EnvOK
    <2> QED BY <2>3, <2>6, <2>7, <2>8 DEF TypeOK
  <1> QED BY <1>1, <1>2, <1>3, <1>4, <1>5

\* PostgreSQL, and the clock.
LEMMA LandTypes ==
  ASSUME TypeOK, NEW p \in Process, Land(p)
  PROVE  TypeOK'
  <1>0. MemoryOK /\ FlowsOK /\ DbOK /\ EnvOK
    BY DEF TypeOK
  <1> DEFINE w == Head(chain[p])
  <1>1. /\ w.image \in Image \cup {NoState} /\ w.events \in SUBSET Event
        /\ w.batch \in Nat /\ w.due \in Nat
    BY <1>0, HeadType DEF Land
  <1>2. FlowsOK'
    BY <1>0, LandType DEF Land, FlowsOK
  <1>3. rows' \in SUBSET Event
    <2>1. rows' = RowsAfter(w)
      BY DEF Land
    <2> QED BY <1>0, <1>1, <2>1, ConstantsOK DEF RowsAfter, DbOK
  <1>4. log' \in SUBSET (Nat \X Event)
    <2>1. log' = log \cup {<<w.batch, e>> : e \in w.events}
      BY DEF Land
    <2> QED BY <1>0, <1>1, <2>1 DEF DbOK
  <1>5. snap' \in Image \cup {NoState} /\ nextReset' \in Nat
    BY <1>0, <1>1 DEF Land, DbOK
  <1>6. DbOK'
    BY <1>0, <1>3, <1>4, <1>5 DEF Land, DbOK
  <1>7. MemoryOK' /\ EnvOK'
    BY <1>0 DEF Land, MemoryOK, EnvOK, memory, env
  <1> QED BY <1>2, <1>6, <1>7 DEF TypeOK

LEMMA ClockTypes ==
  ASSUME TypeOK, OrphanEnds \/ Midnight
  PROVE  TypeOK'
  <1>0. MemoryOK /\ FlowsOK /\ DbOK /\ EnvOK
    BY DEF TypeOK
  <1>1. MemoryOK' /\ FlowsOK' /\ DbOK'
    BY <1>0 DEF OrphanEnds, Midnight, MemoryOK, FlowsOK, DbOK, memory, flows, db
  <1>2. EnvOK'
    BY <1>0 DEF OrphanEnds, Midnight, EnvOK, env
  <1> QED BY <1>1, <1>2 DEF TypeOK

LEMMA InitTypes == Init => TypeOK
  <1> SUFFICES ASSUME Init PROVE TypeOK
    OBVIOUS
  <1>1. /\ NoCritical \in CriticalState /\ NoReset \in ResetState
        /\ NoLoad \in LoadState
    BY NoLoadType DEF NoCritical, CriticalState, NoReset, ResetState
  <1>2. MemoryOK
    BY DEF Init, MemoryOK, RunnerMode
  <1>3. FlowsOK
    BY <1>1 DEF Init, FlowsOK
  <1>4. DbOK
    BY DEF Init, DbOK
  <1>5. EnvOK
    BY DEF Init, EnvOK, Names, Bounds
  <1> QED BY <1>2, <1>3, <1>4, <1>5 DEF TypeOK

\* The runner's variables always have their types.
THEOREM TypeCorrect == Spec => []TypeOK
  <1>1. TypeOK /\ [Next]_vars => TypeOK'
    <2> SUFFICES ASSUME TypeOK, [Next]_vars PROVE TypeOK'
      OBVIOUS
    <2>1. CASE UNCHANGED vars
      BY <2>1 DEF vars, memory, flows, db, env, TypeOK, MemoryOK, FlowsOK, DbOK,
                  EnvOK
    <2>2. ASSUME NEW p \in Process, LoadStep(p) PROVE TypeOK'
      <3>0. "boot" \in Load /\ {} \in SUBSET Event
        BY FlowNames
      <3>1. CASE \E f \in Load : LoadRead(p, f) \/ LoadRefused(p, f)
        BY <3>1, LoadReadTypes
      <3>2. CASE \E f \in Load : LoadSeeds(p, f) \/ LoadSeeded(p, f)
        BY <3>0, <3>2, LoadStepTypes, SeedTypes
      <3>3. CASE \E f \in Load, E \in SUBSET NewEvent : LoadAdvances(p, f, E)
        BY <3>3, LoadStepTypes DEF NewEvent
      <3>4. CASE LoadResets(p)
        BY <3>0, <3>4, LoadStepTypes
      <3> QED BY <2>2, <3>1, <3>2, <3>3, <3>4 DEF LoadStep
    <2>3. ASSUME NEW p \in Process, Settle(p) PROVE TypeOK'
      <3>0. "boot" \in Load /\ {} \in SUBSET Event
        BY FlowNames
      <3>1. CASE \/ \E f \in Load : LoadCommitted(p, f) \/ LoadCheckpointed(p, f)
                 \/ LoadReset(p)
        BY <3>0, <3>1, LoadAnswerTypes
      <3>2. CASE \/ \E E \in SUBSET NewEvent : AdminDrained(p, E)
                 \/ AdminSaved(p)
        BY <3>0, <3>2, AdminTypes DEF NewEvent
      <3>3. CASE CheckpointSettles(p)
        BY <3>0, <3>3, TickTypes
      <3>4. CASE CriticalSaved(p)
        BY <3>4, CriticalTypes
      <3>5. CASE ResetDrained(p) \/ ResetSaved(p)
        BY <3>5, ResetTypes
      <3>6. CASE ShutdownCheckpointed(p) \/ ShutdownDrained(p)
        BY <3>6, ShutdownTypes
      <3> QED BY <2>3, <3>1, <3>2, <3>3, <3>4, <3>5, <3>6 DEF Settle
    <2>4. ASSUME NEW p \in Process, Fault(p) PROVE TypeOK'
      <3>1. CASE \E f \in Load : LoadReadFails(p, f) \/ LoadWriteFails(p, f)
                               \/ SeedFails(p, f)
        BY <3>1, LoadReadTypes, LoadAnswerTypes, SeedTypes
      <3>2. CASE CriticalFails(p)
        BY <3>2, CriticalTypes
      <3>3. CASE AdminFails(p)
        <4>1. {} \in SUBSET Event
          OBVIOUS
        <4> QED BY <3>3, <4>1, AdminTypes
      <3>4. CASE ResetFails(p)
        BY <3>4, ResetTypes
      <3>5. CASE LockLost(p) \/ SessionDies(p)
        BY <3>5, OwnershipTypes
      <3>6. CASE Shutdown(p) \/ Restart(p)
        BY <3>6, ShutdownTypes
      <3> QED BY <2>4, <3>1, <3>2, <3>3, <3>4, <3>5, <3>6 DEF Fault
    <2>5. ASSUME NEW p \in Process, Work(p) PROVE TypeOK'
      BY <2>5, TickTypes, AdminTypes, ResetWorldTypes DEF Work, NewEvent
    <2>6. ASSUME NEW p \in Process,
                 \/ TryStart(p) \/ BackoffOver(p) \/ Commit(p) \/ DailyReset(p)
                 \/ CriticalRetry(p) \/ ShutdownFlowsDone(p)
          PROVE  TypeOK'
      <3>1. CASE Commit(p)
        BY <3>1, LandTypes, SeedTypes DEF Commit
      <3> QED BY <2>6, <3>1, OwnershipTypes, ResetWorldTypes, CriticalTypes, ShutdownTypes
    <2>7. CASE OrphanEnds \/ Midnight
      BY <2>7, ClockTypes
    <2> QED BY <2>1, <2>2, <2>3, <2>4, <2>5, <2>6, <2>7 DEF Next
  <1> QED BY InitTypes, <1>1, PTL DEF Spec

-------------------------------------------------------------------------------
(* What a critical save promises.  A batch of events claims a place in the   *)
(* log from the tick that produced it until it is durable: while it waits in *)
(* a write queue, and between the attempts of commitCritical.                *)

Writes(p) == {chain[p][i] : i \in 1..Len(chain[p])}

\* Event e is in the log with batch b, or a pending save will put it there.
Claims(b, e) ==
  \/ <<b, e>> \in log
  \/ \E p \in Process : \E w \in Writes(p) : w.batch = b /\ e \in w.events
  \/ \E p \in Process : critical[p].batch = b /\ e \in critical[p].events

LandedIsLogged ==
  \A p \in Process : \A w \in Writes(p) :
    w.landed => \A e \in w.events : <<w.batch, e>> \in log
ClaimedIsNamed == \A b \in Nat, e \in Event : Claims(b, e) => e \in ids.events
OneBatch       == \A b, c \in Nat, e \in Event : Claims(b, e) /\ Claims(c, e) => b = c

SaveInv == LandedIsLogged /\ ClaimedIsNamed /\ OneBatch /\ PublishedIsDurable

\* The write in flight is one of the queue's, and the moves of the queue add
\* none but the one that is queued.
LEMMA HeadWrite ==
  ASSUME chain \in [Process -> Seq(Write)], NEW p \in Process, chain[p] # <<>>
  PROVE  Head(chain[p]) \in Writes(p)
  <1>1. Head(chain[p]) = chain[p][1] /\ 1 \in 1..Len(chain[p])
    OBVIOUS
  <1> QED BY <1>1 DEF Writes

LEMMA QueueWrites ==
  ASSUME chain \in [Process -> Seq(Write)], NEW p \in Process, NEW v \in Write,
         Queue(p, v), NEW q \in Process, NEW w \in Writes(q)'
  PROVE  w \in Writes(q) \/ (q = p /\ w = v)
  <1>1. chain[p] \in Seq(Write) /\ chain' = [chain EXCEPT ![p] = Append(@, v)]
    BY DEF Queue
  <1>2. PICK i \in 1..Len(chain'[q]) : w = chain'[q][i]
    BY DEF Writes
  <1>3. CASE q # p
    BY <1>1, <1>2, <1>3 DEF Writes
  <1>4. CASE q = p
    <2>1. /\ Len(chain'[p]) = Len(chain[p]) + 1
          /\ \A j \in 1..Len(chain'[p]) :
               chain'[p][j] = IF j <= Len(chain[p]) THEN chain[p][j] ELSE v
      BY <1>1
    <2> QED BY <1>1, <1>2, <1>4, <2>1 DEF Writes
  <1> QED BY <1>3, <1>4

LEMMA PopWrites ==
  ASSUME chain \in [Process -> Seq(Write)], NEW p \in Process, chain[p] # <<>>,
         Pop(p), NEW q \in Process, NEW w \in Writes(q)'
  PROVE  w \in Writes(q)
  <1>1. chain[p] \in Seq(Write) /\ chain' = [chain EXCEPT ![p] = Tail(@)]
    BY DEF Pop
  <1>2. PICK i \in 1..Len(chain'[q]) : w = chain'[q][i]
    BY DEF Writes
  <1>3. CASE q # p
    BY <1>1, <1>2, <1>3 DEF Writes
  <1>4. CASE q = p
    <2>1. /\ Len(chain'[p]) = Len(chain[p]) - 1
          /\ \A j \in 1..Len(chain'[p]) : chain'[p][j] = chain[p][j + 1]
      BY <1>1
    <2>2. i + 1 \in 1..Len(chain[p]) /\ w = chain[p][i + 1]
      BY <1>1, <1>2, <1>4, <2>1
    <2> QED BY <1>4, <2>2 DEF Writes
  <1> QED BY <1>3, <1>4

LEMMA PopQueueWrites ==
  ASSUME chain \in [Process -> Seq(Write)], NEW p \in Process, chain[p] # <<>>,
         NEW v \in Write, PopQueue(p, v), NEW q \in Process, NEW w \in Writes(q)'
  PROVE  w \in Writes(q) \/ (q = p /\ w = v)
  <1>1. /\ chain[p] \in Seq(Write) /\ Tail(chain[p]) \in Seq(Write)
        /\ chain' = [chain EXCEPT ![p] = Append(Tail(@), v)]
    BY DEF PopQueue
  <1>2. PICK i \in 1..Len(chain'[q]) : w = chain'[q][i]
    BY DEF Writes
  <1>3. CASE q # p
    BY <1>1, <1>2, <1>3 DEF Writes
  <1>4. CASE q = p
    <2>1. /\ Len(chain'[p]) = Len(chain[p])
          /\ \A j \in 1..Len(chain'[p]) :
               chain'[p][j] = IF j < Len(chain[p]) THEN chain[p][j + 1] ELSE v
      BY <1>1
    <2>2. CASE i < Len(chain[p])
      <3>0. Len(chain'[q]) = Len(chain[p])
        BY <1>4, <2>1
      <3>1. i \in 1..Len(chain[p]) /\ Len(chain[p]) \in Nat
        BY <1>1, <1>2, <3>0
      <3>2. i + 1 \in 1..Len(chain[p])
        BY <2>2, <3>1
      <3>3. w = chain[p][i + 1]
        BY <1>2, <1>4, <2>1, <2>2
      <3> QED BY <1>4, <3>2, <3>3 DEF Writes
    <2>3. CASE ~(i < Len(chain[p]))
      BY <1>2, <1>4, <2>1, <2>3
    <2> QED BY <2>2, <2>3
  <1> QED BY <1>3, <1>4

\* A step that queues no event, keeps or ends the critical saves, writes
\* nothing and publishes only what is logged preserves the promise.
CriticalKept ==
  \A q \in Process :
    critical'[q].events = {} \/ (/\ critical'[q].events = critical[q].events
                                 /\ critical'[q].batch = critical[q].batch)
WritesKept ==
  \A q \in Process : \A w \in Writes(q)' : w \in Writes(q) \/ w.events = {}

LEMMA QuietStep ==
  ASSUME SaveInv, CriticalKept, WritesKept, log' = log,
         ids'.events = ids.events, published' \subseteq published \cup Logged
  PROVE  SaveInv'
  <1>1. ASSUME NEW b \in Nat, NEW e \in Event, Claims(b, e)' PROVE Claims(b, e)
    <2>1. CASE <<b, e>> \in log'
      BY <2>1 DEF Claims
    <2>2. CASE \E p \in Process : \E w \in Writes(p)' : w.batch = b /\ e \in w.events
      BY <2>2 DEF Claims, WritesKept
    <2>3. CASE \E p \in Process : critical'[p].batch = b /\ e \in critical'[p].events
      BY <2>3 DEF Claims, CriticalKept
    <2> QED BY <1>1, <2>1, <2>2, <2>3 DEF Claims
  <1>2. LandedIsLogged'
    BY DEF SaveInv, LandedIsLogged, WritesKept
  <1>3. ClaimedIsNamed'
    BY <1>1 DEF SaveInv, ClaimedIsNamed
  <1>4. OneBatch'
    BY <1>1 DEF SaveInv, OneBatch
  <1>5. PublishedIsDurable'
    BY DEF SaveInv, PublishedIsDurable, Logged
  <1> QED BY <1>2, <1>3, <1>4, <1>5 DEF SaveInv

\* The fragments of the actions, as such steps.
LEMMA EventlessEntry ==
  ASSUME NEW f, NEW op, NEW image, NEW b
  PROVE  /\ Entry(f, op, image, {}, b).events = {}
         /\ Checkpoint(f, image).events = {}
         /\ Drain(f).events = {}
  BY DEF Entry, Checkpoint, Drain

LEMMA PopKeeps ==
  ASSUME FlowsOK, NEW p \in Process, chain[p] # <<>>, Pop(p)
  PROVE  WritesKept
  BY PopWrites DEF WritesKept, FlowsOK

LEMMA QueueKeeps ==
  ASSUME FlowsOK, NEW p \in Process, NEW v \in Write, v.events = {}, Queue(p, v)
  PROVE  WritesKept
  BY QueueWrites DEF WritesKept, FlowsOK

LEMMA PopQueueKeeps ==
  ASSUME FlowsOK, NEW p \in Process, chain[p] # <<>>, NEW v \in Write,
         v.events = {}, PopQueue(p, v)
  PROVE  WritesKept
  BY PopQueueWrites DEF WritesKept, FlowsOK

LEMMA SameFlows ==
  /\ chain' = chain => WritesKept
  /\ critical' = critical => CriticalKept
  BY DEF WritesKept, Writes, CriticalKept

LEMMA AssignSaves ==
  ASSUME FlowsOK, NEW p \in Process, NEW image, Assign(p, image),
         NEW q \in Process
  PROVE  /\ critical'[q].events = critical[q].events
         /\ critical'[q].batch = critical[q].batch
  <1>1. critical \in [Process -> CriticalState] /\ critical[q] \in CriticalState
    BY DEF FlowsOK
  <1>2. critical' = [critical EXCEPT ![p] = [critical[p] EXCEPT !.fresh = FALSE]]
    BY DEF Assign
  <1> QED BY <1>1, <1>2 DEF CriticalState

LEMMA AssignKeeps ==
  ASSUME FlowsOK, NEW p \in Process, NEW image, Assign(p, image)
  PROVE  CriticalKept
  BY AssignSaves DEF CriticalKept

LEMMA EndCriticalKeeps ==
  ASSUME FlowsOK, NEW p \in Process, EndCritical(p)
  PROVE  CriticalKept
  BY DEF FlowsOK, EndCritical, NoCritical, CriticalKept

LEMMA MoveCriticalKeeps ==
  ASSUME FlowsOK, NEW p \in Process, NEW pc,
         critical' = [critical EXCEPT ![p].pc = pc]
  PROVE  CriticalKept
  <1>1. critical \in [Process -> CriticalState]
    BY DEF FlowsOK
  <1>2. ASSUME NEW q \in Process
        PROVE  /\ critical'[q].events = critical[q].events
               /\ critical'[q].batch = critical[q].batch
    <2>1. critical[q] \in CriticalState
      BY <1>1
    <2> QED BY <1>1, <2>1 DEF CriticalState
  <1> QED BY <1>2 DEF CriticalKept

LEMMA EpochKeeps ==
  ASSUME ids \in Names, ids' = [ids EXCEPT !.epochs = @ + 1]
  PROVE  ids'.events = ids.events
  BY DEF Names

\* The write whose answer arrives is in the log.
LEMMA AnsweredLogged ==
  ASSUME TypeOK, SaveInv, NEW p \in Process, NEW f, Answered(p, f, "commit")
  PROVE  Head(chain[p]).events \subseteq Logged
  <1>1. chain[p] # <<>> /\ Head(chain[p]).landed
    BY DEF Answered
  <1>2. Head(chain[p]) \in Writes(p)
    BY <1>1, HeadWrite DEF TypeOK, FlowsOK
  <1>3. ASSUME NEW e \in Head(chain[p]).events PROVE e \in Logged
    <2>1. <<Head(chain[p]).batch, e>> \in log
      BY <1>1, <1>2 DEF SaveInv, LandedIsLogged
    <2>2. e = <<Head(chain[p]).batch, e>>[2]
      OBVIOUS
    <2> QED BY <2>1, <2>2 DEF Logged
  <1> QED BY <1>3

\* The actions that start no critical save and land none.
LEMMA LoadKeeps ==
  ASSUME TypeOK, SaveInv, NEW p \in Process, NEW f \in Load,
         \/ TryStart(p) \/ LoadRead(p, f) \/ LoadReadFails(p, f)
         \/ LoadRefused(p, f) \/ LoadResets(p) \/ LoadSeeds(p, f)
         \/ LoadAdvances(p, f, {}) \/ LoadCommitted(p, f)
         \/ LoadCheckpointed(p, f) \/ LoadReset(p) \/ LoadWriteFails(p, f)
         \/ SeedLands(p, f) \/ LoadSeeded(p, f) \/ SeedFails(p, f)
  PROVE  SaveInv'
  <1>0. MemoryOK /\ FlowsOK /\ EnvOK /\ today \in Nat /\ ids \in Names
    BY DEF TypeOK, EnvOK
  <1>1. CASE TryStart(p)
    BY <1>1, SameFlows, QuietStep DEF TryStart, db, env
  <1>2. CASE LoadRead(p, f)
    BY <1>2, SameFlows, QuietStep DEF LoadRead, db, env
  <1>3. CASE LoadReadFails(p, f)
    BY <1>3, SameFlows, QuietStep DEF LoadReadFails, db
  <1>4. CASE LoadRefused(p, f)
    BY <1>4, SameFlows, QuietStep DEF LoadRefused, db, env
  <1>5. CASE LoadResets(p)
    <2>1. Entry("boot", "reset", [epoch |-> ids.epochs + 1, hist |-> {}], {}, 0)
            \in Write
      BY <1>0, EntryType, FreshType, FlowNames
    <2>2. WritesKept
      BY <1>0, <1>5, <2>1, QueueKeeps, EventlessEntry DEF LoadResets
    <2>3. ids'.events = ids.events
      BY <1>0, <1>5, EpochKeeps DEF LoadResets
    <2> QED BY <1>5, <2>2, <2>3, SameFlows, QuietStep DEF LoadResets, db
  <1>6. CASE LoadSeeds(p, f) \/ SeedLands(p, f) \/ SeedFails(p, f)
    <2>1. UNCHANGED <<chain, critical, log, ids, published>>
      BY <1>6 DEF LoadSeeds, SeedLands, SeedFails, db, env
    <2> QED BY <2>1, SameFlows, QuietStep
  <1>11. CASE LoadSeeded(p, f)
    <2>1. CriticalKept
      BY <1>0, <1>11, AssignKeeps DEF LoadSeeded
    <2>2. UNCHANGED <<chain, log, ids, published>>
      BY <1>11 DEF LoadSeeded, db, env
    <2> QED BY <2>1, <2>2, SameFlows, QuietStep
  <1>7. CASE LoadAdvances(p, f, {})
    <2> DEFINE image == [load[p][f].image EXCEPT !.hist = @ \cup {}]
    <2>1. /\ Assign(p, image) /\ Queue(p, Checkpoint(f, image))
          /\ UNCHANGED <<log, ids, published>>
      BY <1>7 DEF LoadAdvances, db
    <2>2. image \in Image
      <3>1. load[p][f].image \in Image
        <4>1. load[p][f] \in LoadState
          BY <1>0 DEF FlowsOK
        <4> QED BY <1>7, <4>1 DEF LoadAdvances, LoadState
      <3> QED BY <3>1, GrownType
    <2>3. Checkpoint(f, image) \in Write
      BY <1>0, <2>2, CheckpointType, FlowNames
    <2>4. WritesKept
      BY <1>0, <2>1, <2>3, QueueKeeps, EventlessEntry
    <2>5. CriticalKept
      BY <1>0, <2>1, AssignKeeps
    <2> QED BY <2>1, <2>4, <2>5, QuietStep
  <1>8. CASE LoadCommitted(p, f)
    <2>1. /\ chain[p] # <<>>
          /\ PopQueue(p, Checkpoint(f, live[p])) \/ Pop(p)
          /\ UNCHANGED <<critical, log, ids, published>>
      BY <1>8 DEF LoadCommitted, Answered, db, env
    <2>2. Checkpoint(f, live[p]) \in Write
      BY <1>0, CheckpointType, FlowNames DEF MemoryOK
    <2>3. WritesKept
      BY <1>0, <2>1, <2>2, PopKeeps, PopQueueKeeps, EventlessEntry
    <2> QED BY <2>1, <2>3, SameFlows, QuietStep
  <1>9. CASE LoadCheckpointed(p, f) \/ LoadWriteFails(p, f)
    <2>1. chain[p] # <<>> /\ Pop(p) /\ UNCHANGED <<critical, log, ids, published>>
      BY <1>9 DEF LoadCheckpointed, LoadWriteFails, Answered, Fails, db, env
    <2> QED BY <1>0, <2>1, PopKeeps, SameFlows, QuietStep
  <1>10. CASE LoadReset(p)
    <2>1. /\ chain[p] # <<>> /\ Pop(p) /\ Assign(p, Head(chain[p]).image)
          /\ UNCHANGED <<log, ids, published>>
      BY <1>10 DEF LoadReset, Answered, db, env
    <2> QED BY <1>0, <2>1, PopKeeps, AssignKeeps, QuietStep
  <1> QED BY <1>1, <1>2, <1>3, <1>4, <1>5, <1>6, <1>7, <1>8, <1>9, <1>10, <1>11

LEMMA RunnerKeeps ==
  ASSUME TypeOK, SaveInv, NEW p \in Process,
         \/ CheckpointTick(p) \/ CheckpointSettles(p) \/ CriticalSaved(p)
         \/ CriticalFails(p) \/ AdminMutate(p) \/ AdminDrained(p, {})
         \/ AdminSaved(p) \/ AdminFails(p)
  PROVE  SaveInv'
  <1>0. MemoryOK /\ FlowsOK /\ EnvOK /\ today \in Nat /\ ids \in Names
    BY DEF TypeOK, EnvOK
  <1>1. CASE CheckpointTick(p)
    <2>1. /\ Queue(p, Checkpoint("tick", live[p]))
          /\ UNCHANGED <<critical, log, ids, published>>
      BY <1>1 DEF CheckpointTick, db, env
    <2>2. Checkpoint("tick", live[p]) \in Write
      BY <1>0, CheckpointType, FlowNames DEF MemoryOK
    <2>3. WritesKept
      BY <1>0, <2>1, <2>2, QueueKeeps, EventlessEntry
    <2> QED BY <2>1, <2>3, SameFlows, QuietStep
  <1>2. CASE CheckpointSettles(p)
    <2>1. chain[p] # <<>> /\ Pop(p) /\ UNCHANGED <<critical, log, ids, published>>
      BY <1>2 DEF CheckpointSettles, Answered, Fails, db
    <2> QED BY <1>0, <2>1, PopKeeps, SameFlows, QuietStep
  <1>3. CASE CriticalSaved(p)
    <2>1. /\ chain[p] # <<>> /\ Pop(p) /\ EndCritical(p)
          /\ UNCHANGED <<log, ids>>
      BY <1>3 DEF CriticalSaved, Answered, db, env
    <2>2. published' \subseteq published \cup Logged
      BY <1>3, AnsweredLogged DEF CriticalSaved
    <2> QED BY <1>0, <2>1, <2>2, PopKeeps, EndCriticalKeeps, QuietStep
  <1>4. CASE CriticalFails(p)
    <2>1. chain[p] # <<>> /\ Pop(p) /\ UNCHANGED <<log, ids, published>>
      BY <1>4 DEF CriticalFails, Fails, db
    <2>2. CriticalKept
      BY <1>0, <1>4, EndCriticalKeeps, MoveCriticalKeeps DEF CriticalFails
    <2> QED BY <1>0, <2>1, <2>2, PopKeeps, QuietStep
  <1>5. CASE AdminMutate(p)
    <2>1. /\ Queue(p, Drain("admin"))
          /\ UNCHANGED <<critical, log, ids, published>>
      BY <1>5 DEF AdminMutate, db
    <2>2. WritesKept
      BY <1>0, <2>1, QueueKeeps, EventlessEntry, DrainType, FlowNames
    <2> QED BY <2>1, <2>2, SameFlows, QuietStep
  <1>6. CASE AdminDrained(p, {})
    <2>1. chain[p] # <<>> /\ Pop(p) /\ UNCHANGED <<critical, log, ids, published>>
      BY <1>6 DEF AdminDrained, Answered, db
    <2> QED BY <1>0, <2>1, PopKeeps, SameFlows, QuietStep
  <1>7. CASE AdminSaved(p)
    <2>1. chain[p] # <<>> /\ Pop(p) /\ UNCHANGED <<log, ids>>
      BY <1>7 DEF AdminSaved, Answered, db, env
    <2>2. CriticalKept
      BY <1>0, <1>7, AssignKeeps, SameFlows DEF AdminSaved
    <2>3. published' \subseteq published \cup Logged
      BY <1>7, AnsweredLogged DEF AdminSaved
    <2> QED BY <1>0, <2>1, <2>2, <2>3, PopKeeps, QuietStep
  <1>8. CASE AdminFails(p)
    <2>1. chain[p] # <<>> /\ Pop(p) /\ UNCHANGED <<critical, log, ids, published>>
      BY <1>8 DEF AdminFails, Fails, db
    <2> QED BY <1>0, <2>1, PopKeeps, SameFlows, QuietStep
  <1> QED BY <1>1, <1>2, <1>3, <1>4, <1>5, <1>6, <1>7, <1>8

LEMMA OthersKeep ==
  ASSUME TypeOK, SaveInv, NEW p \in Process,
         \/ DailyReset(p) \/ ManualReset(p) \/ ResetDrained(p) \/ ResetSaved(p)
         \/ ResetFails(p) \/ BackoffOver(p) \/ LockLost(p) \/ SessionDies(p)
         \/ Shutdown(p) \/ ShutdownFlowsDone(p) \/ ShutdownCheckpointed(p)
         \/ ShutdownDrained(p) \/ Restart(p) \/ OrphanEnds \/ Midnight
  PROVE  SaveInv'
  <1>0. MemoryOK /\ FlowsOK /\ EnvOK /\ today \in Nat /\ ids \in Names
    BY DEF TypeOK, EnvOK
  <1>1. CASE DailyReset(p) \/ ManualReset(p)
    <2>1. /\ Queue(p, Drain("reset"))
          /\ UNCHANGED <<critical, log, ids, published>>
      BY <1>1 DEF DailyReset, ManualReset, ResetWorld, db
    <2>2. WritesKept
      BY <1>0, <2>1, QueueKeeps, EventlessEntry, DrainType, FlowNames
    <2> QED BY <2>1, <2>2, SameFlows, QuietStep
  <1>2. CASE ResetDrained(p)
    <2> DEFINE w == Entry("reset", "reset",
                          [epoch |-> ids.epochs + 1, hist |-> {}], {}, 0)
    <2>1. /\ chain[p] # <<>>
          /\ PopQueue(p, w) \/ Pop(p)
          /\ UNCHANGED <<critical, log, published>>
      BY <1>2 DEF ResetDrained, Answered, db
    <2>2. w \in Write
      BY <1>0, EntryType, FreshType, FlowNames
    <2>3. WritesKept
      BY <1>0, <2>1, <2>2, PopKeeps, PopQueueKeeps, EventlessEntry
    <2>4. ids'.events = ids.events
      BY <1>0, <1>2, EpochKeeps DEF ResetDrained
    <2> QED BY <2>1, <2>3, <2>4, SameFlows, QuietStep
  <1>3. CASE ResetSaved(p)
    <2>1. /\ chain[p] # <<>> /\ Pop(p) /\ Assign(p, Head(chain[p]).image)
          /\ UNCHANGED <<log, ids, published>>
      BY <1>3 DEF ResetSaved, Answered, db, env
    <2> QED BY <1>0, <2>1, PopKeeps, AssignKeeps, QuietStep
  <1>4. CASE ResetFails(p)
    <2>1. chain[p] # <<>> /\ Pop(p) /\ UNCHANGED <<critical, log, ids, published>>
      BY <1>4 DEF ResetFails, Fails, db
    <2> QED BY <1>0, <2>1, PopKeeps, SameFlows, QuietStep
  <1>5. CASE \/ BackoffOver(p) \/ SessionDies(p) \/ Shutdown(p) \/ OrphanEnds
             \/ Midnight
    <2>1. UNCHANGED <<chain, critical, log, ids, published>>
      BY <1>5 DEF BackoffOver, SessionDies, Shutdown, OrphanEnds, Midnight, flows,
                  db, env
    <2> QED BY <2>1, SameFlows, QuietStep
  <1>6. CASE LockLost(p)
    <2>1. UNCHANGED <<chain, log, ids, published>>
      BY <1>6 DEF LockLost, db
    <2>2. CriticalKept
      BY <1>0, <1>6, AssignKeeps, SameFlows DEF LockLost
    <2> QED BY <2>1, <2>2, SameFlows, QuietStep
  <1>7. CASE ShutdownFlowsDone(p)
    <2>1. /\ Queue(p, Checkpoint("final", live[p])) \/ Queue(p, Drain("final"))
          /\ UNCHANGED <<critical, log, ids, published>>
      BY <1>7 DEF ShutdownFlowsDone, db, env
    <2>2. Checkpoint("final", live[p]) \in Write /\ Drain("final") \in Write
      BY <1>0, CheckpointType, DrainType, FlowNames DEF MemoryOK
    <2>3. WritesKept
      BY <1>0, <2>1, <2>2, QueueKeeps, EventlessEntry
    <2> QED BY <2>1, <2>3, SameFlows, QuietStep
  <1>8. CASE ShutdownCheckpointed(p)
    <2>1. /\ chain[p] # <<>> /\ PopQueue(p, Drain("final"))
          /\ UNCHANGED <<critical, log, ids, published>>
      BY <1>8 DEF ShutdownCheckpointed, Answered, Fails, db
    <2>2. WritesKept
      BY <1>0, <2>1, PopQueueKeeps, EventlessEntry, DrainType, FlowNames
    <2> QED BY <2>1, <2>2, SameFlows, QuietStep
  <1>9. CASE ShutdownDrained(p)
    <2>1. chain[p] # <<>> /\ Pop(p) /\ UNCHANGED <<critical, log, ids, published>>
      BY <1>9 DEF ShutdownDrained, Answered, db, env
    <2> QED BY <1>0, <2>1, PopKeeps, SameFlows, QuietStep
  <1>10. CASE Restart(p)
    <2>1. UNCHANGED <<log, ids, published>>
      BY <1>10 DEF Restart, db
    <2>2. CriticalKept
      BY <1>0, <1>10 DEF Restart, NoCritical, CriticalKept, FlowsOK
    <2>3. WritesKept
      <3>1. chain' = [chain EXCEPT ![p] = <<>>] /\ chain \in [Process -> Seq(Write)]
        BY <1>0, <1>10 DEF Restart, FlowsOK
      <3>2. ASSUME NEW q \in Process, NEW w \in Writes(q)' PROVE w \in Writes(q)
        BY <3>1, <3>2 DEF Writes
      <3> QED BY <3>2 DEF WritesKept
    <2> QED BY <2>1, <2>2, <2>3, QuietStep
  <1> QED BY <1>1, <1>2, <1>3, <1>4, <1>5, <1>6, <1>7, <1>8, <1>9, <1>10

\* A new batch: its events are new, and nothing claims them yet.
LEMMA FreshBatch ==
  ASSUME TypeOK, SaveInv, NEW E \in SUBSET NewEvent,
         ids' = [ids EXCEPT !.events = @ \cup E, !.batches = @ + 1],
         UNCHANGED <<log, published>>,
         \A q \in Process : \A w \in Writes(q)' :
           \/ w \in Writes(q)
           \/ w.events = E /\ w.batch = ids.batches + 1 /\ ~w.landed,
         \A q \in Process :
           \/ /\ critical'[q].events = critical[q].events
              /\ critical'[q].batch = critical[q].batch
           \/ critical'[q].events = E /\ critical'[q].batch = ids.batches + 1
  PROVE  SaveInv'
  <1>0. ids'.events = ids.events \cup E
    BY DEF TypeOK, EnvOK, Names
  <1>1. ASSUME NEW b \in Nat, NEW e \in Event, Claims(b, e)'
        PROVE  Claims(b, e) \/ (e \in E /\ b = ids.batches + 1)
    <2>1. CASE <<b, e>> \in log'
      BY <2>1 DEF Claims
    <2>2. CASE \E p \in Process : \E w \in Writes(p)' : w.batch = b /\ e \in w.events
      BY <2>2 DEF Claims
    <2>3. CASE \E p \in Process : critical'[p].batch = b /\ e \in critical'[p].events
      BY <2>3 DEF Claims
    <2> QED BY <1>1, <2>1, <2>2, <2>3 DEF Claims
  <1>2. LandedIsLogged'
    BY DEF SaveInv, LandedIsLogged
  <1>3. ClaimedIsNamed'
    BY <1>0, <1>1 DEF SaveInv, ClaimedIsNamed
  <1>4. OneBatch'
    <2> SUFFICES ASSUME NEW b \in Nat, NEW c \in Nat, NEW e \in Event,
                        Claims(b, e)', Claims(c, e)'
                 PROVE  b = c
      BY DEF OneBatch
    <2>1. CASE e \in E
      <3>1. ~Claims(b, e) /\ ~Claims(c, e)
        BY <2>1 DEF SaveInv, ClaimedIsNamed, NewEvent
      <3> QED BY <1>1, <3>1
    <2>2. CASE e \notin E
      BY <1>1, <2>2 DEF SaveInv, OneBatch
    <2> QED BY <2>1, <2>2
  <1>5. PublishedIsDurable'
    BY DEF SaveInv, PublishedIsDurable, Logged
  <1> QED BY <1>2, <1>3, <1>4, <1>5 DEF SaveInv

\* The actions that produce critical events: a tick, a catch-up, a keeper.
LEMMA EventsKeep ==
  ASSUME TypeOK, SaveInv, NEW p \in Process, NEW f \in Load,
         NEW E \in SUBSET NewEvent, E # {},
         CriticalTick(p, E) \/ LoadAdvances(p, f, E) \/ AdminDrained(p, E)
  PROVE  SaveInv'
  <1>0. MemoryOK /\ FlowsOK /\ EnvOK /\ today \in Nat /\ ids \in Names
        /\ E \in SUBSET Event /\ chain \in [Process -> Seq(Write)]
    BY DEF TypeOK, EnvOK, FlowsOK, NewEvent
  <1>1. ASSUME NEW g, NEW op, NEW image
        PROVE  LET w == Entry(g, op, image, E, ids.batches + 1)
               IN  w.events = E /\ w.batch = ids.batches + 1 /\ ~w.landed
    BY DEF Entry
  <1>2. CASE CriticalTick(p, E)
    <2> DEFINE w == Entry("critical", "commit", [live[p] EXCEPT !.hist = @ \cup E],
                          E, ids.batches + 1)
               c == [pc |-> "write", events |-> E, batch |-> ids.batches + 1,
                     fresh |-> TRUE]
    <2>1. /\ Queue(p, w) /\ critical' = [critical EXCEPT ![p] = c]
          /\ ids' = [ids EXCEPT !.events = @ \cup E, !.batches = @ + 1]
          /\ UNCHANGED <<log, published>>
      BY <1>2 DEF CriticalTick, db
    <2>2. w \in Write
      <3>1. live[p] \in Image
        BY <1>0, <1>2 DEF CriticalTick, CanTick, MemoryOK
      <3> QED BY <1>0, <3>1, GrownType, EntryType, FreshType, FlowNames
    <2>3. \A q \in Process : \A v \in Writes(q)' : v \in Writes(q) \/ v = w
      BY <1>0, <2>1, <2>2, QueueWrites
    <2>4. \A q \in Process : q # p => critical'[q] = critical[q]
      BY <1>0, <2>1 DEF FlowsOK
    <2>5. critical'[p].events = E /\ critical'[p].batch = ids.batches + 1
      BY <1>0, <2>1 DEF FlowsOK
    <2>6. w.events = E /\ w.batch = ids.batches + 1 /\ ~w.landed
      BY <1>1
    <2> HIDE DEF w, c
    <2> QED BY <2>1, <2>3, <2>4, <2>5, <2>6, FreshBatch
  <1>3. CASE LoadAdvances(p, f, E)
    <2> DEFINE image == [load[p][f].image EXCEPT !.hist = @ \cup E]
               w == Entry(f, "commit", image, E, ids.batches + 1)
    <2>1. /\ Queue(p, w) /\ Assign(p, image)
          /\ ids' = [ids EXCEPT !.events = @ \cup E, !.batches = @ + 1]
          /\ UNCHANGED <<log, published>>
      BY <1>3 DEF LoadAdvances, db
    <2>2. w \in Write
      <3>1. load[p][f].image \in Image
        <4>1. load[p][f] \in LoadState
          BY <1>0 DEF FlowsOK
        <4> QED BY <1>3, <4>1 DEF LoadAdvances, LoadState
      <3>2. image \in Image
        BY <1>0, <3>1, GrownType
      <3> QED BY <1>0, <3>2, EntryType, FreshType, FlowNames
    <2>3. \A q \in Process : \A v \in Writes(q)' : v \in Writes(q) \/ v = w
      BY <1>0, <2>1, <2>2, QueueWrites
    <2>4. \A q \in Process : /\ critical'[q].events = critical[q].events
                             /\ critical'[q].batch = critical[q].batch
      BY <1>0, <2>1, AssignSaves
    <2>5. w.events = E /\ w.batch = ids.batches + 1 /\ ~w.landed
      BY <1>1
    <2> HIDE DEF w, image
    <2> QED BY <2>1, <2>3, <2>4, <2>5, FreshBatch
  <1>4. CASE AdminDrained(p, E)
    <2>1. CASE held[p] /\ live[p] # NoState /\ ~Stopping(p)
      <3> DEFINE w == Entry("admin", "commit", [live[p] EXCEPT !.hist = @ \cup E],
                            E, ids.batches + 1)
      <3>1. /\ chain[p] # <<>> /\ PopQueue(p, w)
            /\ ids' = [ids EXCEPT !.events = @ \cup E, !.batches = @ + 1]
            /\ UNCHANGED <<critical, log, published>>
        BY <1>4, <2>1 DEF AdminDrained, Answered, db
      <3>2. w \in Write
        <4>1. live[p] \in Image
          BY <1>0, <2>1 DEF MemoryOK
        <4> QED BY <1>0, <4>1, GrownType, EntryType, FreshType, FlowNames
      <3>3. \A q \in Process : \A v \in Writes(q)' : v \in Writes(q) \/ v = w
        BY <1>0, <3>1, <3>2, PopQueueWrites
      <3>4. w.events = E /\ w.batch = ids.batches + 1 /\ ~w.landed
        BY <1>1
      <3> HIDE DEF w
      <3> QED BY <3>1, <3>3, <3>4, FreshBatch
    <2>2. CASE ~(held[p] /\ live[p] # NoState /\ ~Stopping(p))
      <3>1. chain[p] # <<>> /\ Pop(p) /\ UNCHANGED <<critical, log, ids, published>>
        BY <1>4, <2>2 DEF AdminDrained, Answered, db
      <3> QED BY <1>0, <3>1, PopKeeps, SameFlows, QuietStep
    <2> QED BY <2>1, <2>2
  <1> QED BY <1>2, <1>3, <1>4

\* A retry queues the batch that its first attempt claimed.
LEMMA RetryKeeps ==
  ASSUME TypeOK, SaveInv, NEW p \in Process, CriticalRetry(p)
  PROVE  SaveInv'
  <1>0. MemoryOK /\ FlowsOK /\ EnvOK /\ today \in Nat
        /\ chain \in [Process -> Seq(Write)]
    BY DEF TypeOK, EnvOK, FlowsOK
  <1>1. UNCHANGED <<log, ids, published>>
    BY DEF CriticalRetry, db, env
  <1>2. CASE ~Unreplaced(p)
    <2>1. EndCritical(p) /\ chain' = chain
      BY <1>2 DEF CriticalRetry
    <2> QED BY <1>0, <1>1, <2>1, SameFlows, EndCriticalKeeps, QuietStep
  <1>3. CASE Unreplaced(p)
    <2> DEFINE w == Entry("critical", "commit", live[p], critical[p].events,
                          RetryBatch(p))
    <2>1. Queue(p, w) /\ critical' = [critical EXCEPT ![p].pc = "write"]
      BY <1>3 DEF CriticalRetry
    <2>2. /\ critical[p].batch \in Nat /\ critical[p].events \in SUBSET Event
      <3>1. critical[p] \in CriticalState
        BY <1>0 DEF FlowsOK
      <3> QED BY <3>1 DEF CriticalState
    <2>3. w \in Write
      BY <1>0, <2>2, EntryType, FlowNames DEF RetryBatch, MemoryOK
    <2>4. w.events = critical[p].events /\ w.batch = critical[p].batch /\ ~w.landed
      BY DEF Entry, RetryBatch
    <2>5. \A q \in Process : \A v \in Writes(q)' : v \in Writes(q) \/ v = w
      BY <1>0, <2>1, <2>3, QueueWrites
    <2>6. CriticalKept
      BY <1>0, <2>1, MoveCriticalKeeps
    <2> HIDE DEF w
    <2>7. ASSUME NEW b \in Nat, NEW e \in Event, Claims(b, e)' PROVE Claims(b, e)
      <3>1. CASE <<b, e>> \in log'
        BY <1>1, <3>1 DEF Claims
      <3>2. CASE \E q \in Process : \E v \in Writes(q)' : v.batch = b /\ e \in v.events
        BY <2>4, <2>5, <3>2 DEF Claims
      <3>3. CASE \E q \in Process : critical'[q].batch = b /\ e \in critical'[q].events
        BY <2>6, <3>3 DEF Claims, CriticalKept
      <3> QED BY <2>7, <3>1, <3>2, <3>3 DEF Claims
    <2>8. LandedIsLogged'
      BY <1>1, <2>4, <2>5 DEF SaveInv, LandedIsLogged
    <2>9. ClaimedIsNamed' /\ OneBatch'
      BY <1>1, <2>7 DEF SaveInv, ClaimedIsNamed, OneBatch
    <2>10. PublishedIsDurable'
      BY <1>1 DEF SaveInv, PublishedIsDurable, Logged
    <2> QED BY <2>8, <2>9, <2>10 DEF SaveInv
  <1> QED BY <1>2, <1>3

\* The commit of the write in flight: its claims become the log's.
LEMMA LandWrites ==
  ASSUME chain \in [Process -> Seq(Write)], NEW p \in Process, chain[p] # <<>>,
         chain' = [chain EXCEPT ![p][1].landed = TRUE],
         NEW q \in Process, NEW w \in Writes(q)'
  PROVE  \/ w \in Writes(q)
         \/ q = p /\ w.batch = Head(chain[p]).batch /\ w.events = Head(chain[p]).events
  <1> DEFINE h == [chain[p][1] EXCEPT !.landed = TRUE]
  <1>1. chain[p] \in Seq(Write) /\ chain[p][1] \in Write /\ Head(chain[p]) = chain[p][1]
    OBVIOUS
  <1>2. h.batch = chain[p][1].batch /\ h.events = chain[p][1].events
    BY <1>1 DEF Write
  <1>h. h \in Write
    BY <1>1 DEF Write
  <1>3. chain' = [chain EXCEPT ![p] = [chain[p] EXCEPT ![1] = h]]
    OBVIOUS
  <1> HIDE DEF h
  <1>4. PICK i \in 1..Len(chain'[q]) : w = chain'[q][i]
    BY DEF Writes
  <1>5. CASE q # p
    BY <1>3, <1>4, <1>5 DEF Writes
  <1>6. CASE q = p
    <2>1. /\ chain'[p] = [chain[p] EXCEPT ![1] = h]
          /\ Len(chain'[p]) = Len(chain[p])
      <3>1. chain'[p] = [chain[p] EXCEPT ![1] = h]
        BY <1>3
      <3>2. Len([chain[p] EXCEPT ![1] = h]) = Len(chain[p])
        BY <1>1, <1>h
      <3> QED BY <3>1, <3>2
    <2>2. i \in 1..Len(chain[p]) /\ w = [chain[p] EXCEPT ![1] = h][i]
      BY <1>4, <1>6, <2>1
    <2>3. CASE i = 1
      BY <1>1, <1>2, <1>6, <2>2, <2>3
    <2>4. CASE i # 1
      <3>1. w = chain[p][i]
        BY <1>1, <2>2, <2>4
      <3> QED BY <1>6, <2>2, <3>1 DEF Writes
    <2> QED BY <2>3, <2>4
  <1> QED BY <1>5, <1>6

LEMMA LandKeeps ==
  ASSUME TypeOK, SaveInv, NEW p \in Process, Land(p)
  PROVE  SaveInv'
  <1>0. FlowsOK /\ chain \in [Process -> Seq(Write)]
    BY DEF TypeOK, FlowsOK
  <1> DEFINE h == Head(chain[p])
  <1>1. /\ chain[p] # <<>>
        /\ chain' = [chain EXCEPT ![p][1].landed = TRUE]
        /\ log' = log \cup {<<h.batch, e>> : e \in h.events}
        /\ UNCHANGED <<critical, ids, published>>
    BY DEF Land, env
  <1>2. h \in Writes(p)
    BY <1>0, <1>1, HeadWrite
  <1>3. ASSUME NEW q \in Process, NEW w \in Writes(q)'
        PROVE  \/ w \in Writes(q)
               \/ q = p /\ w.batch = h.batch /\ w.events = h.events
    BY <1>0, <1>1, <1>3, LandWrites
  <1> HIDE DEF h
  <1>4. ASSUME NEW b \in Nat, NEW e \in Event, Claims(b, e)' PROVE Claims(b, e)
    <2>1. CASE <<b, e>> \in log'
      <3>1. CASE <<b, e>> \in log
        BY <3>1 DEF Claims
      <3>2. CASE <<b, e>> \notin log
        <4>1. h.batch = b /\ e \in h.events
          BY <1>1, <2>1, <3>2
        <4> QED BY <1>2, <4>1 DEF Claims
      <3> QED BY <3>1, <3>2
    <2>2. CASE \E q \in Process : \E w \in Writes(q)' : w.batch = b /\ e \in w.events
      BY <1>2, <1>3, <2>2 DEF Claims
    <2>3. CASE \E q \in Process : critical'[q].batch = b /\ e \in critical'[q].events
      BY <1>1, <2>3 DEF Claims
    <2> QED BY <1>4, <2>1, <2>2, <2>3 DEF Claims
  <1>5. LandedIsLogged'
    <2> SUFFICES ASSUME NEW q \in Process, NEW w \in Writes(q)', w.landed,
                        NEW e \in w.events
                 PROVE  <<w.batch, e>> \in log'
      BY DEF LandedIsLogged
    <2>1. CASE w \in Writes(q)
      BY <1>1, <2>1 DEF SaveInv, LandedIsLogged
    <2>2. CASE w \notin Writes(q)
      BY <1>1, <1>3, <2>2
    <2> QED BY <2>1, <2>2
  <1>6. ClaimedIsNamed' /\ OneBatch'
    BY <1>1, <1>4 DEF SaveInv, ClaimedIsNamed, OneBatch
  <1>7. PublishedIsDurable'
    <2>1. Logged \subseteq Logged'
      BY <1>1 DEF Logged
    <2> QED BY <1>1, <2>1 DEF SaveInv, PublishedIsDurable
  <1> QED BY <1>5, <1>6, <1>7 DEF SaveInv

LEMMA InitSaves == Init => SaveInv
  <1> SUFFICES ASSUME Init PROVE SaveInv
    OBVIOUS
  <1>1. ASSUME NEW p \in Process PROVE Writes(p) = {}
    <2>1. chain[p] = <<>>
      BY DEF Init
    <2>2. 1..Len(chain[p]) = {}
      BY <2>1
    <2> QED BY <2>2 DEF Writes
  <1>2. \A b, e : ~Claims(b, e)
    BY <1>1 DEF Init, Claims, NoCritical
  <1> QED BY <1>1, <1>2 DEF Init, SaveInv, LandedIsLogged, ClaimedIsNamed, OneBatch,
                            PublishedIsDurable

\* Every step keeps what a critical save promises.
LEMMA SavePromise == Spec => []SaveInv
  <1>1. TypeOK /\ SaveInv /\ [Next]_vars => SaveInv'
    <2> SUFFICES ASSUME TypeOK, SaveInv, [Next]_vars PROVE SaveInv'
      OBVIOUS
    <2>0. "boot" \in Load /\ {} \in SUBSET NewEvent
      BY FlowNames
    <2>1. CASE UNCHANGED vars
      BY <2>1, SameFlows, QuietStep DEF vars, flows, db, env
    <2>2. ASSUME NEW p \in Process, LoadStep(p) PROVE SaveInv'
      <3>1. CASE \/ \E f \in Load : LoadRead(p, f) \/ LoadRefused(p, f) \/ LoadSeeds(p, f)
                                 \/ LoadSeeded(p, f)
                 \/ LoadResets(p)
        BY <2>0, <3>1, LoadKeeps
      <3>2. ASSUME NEW f \in Load, NEW E \in SUBSET NewEvent, LoadAdvances(p, f, E)
            PROVE  SaveInv'
        <4>1. CASE E = {}
          <5>1. LoadAdvances(p, f, {})
            BY <3>2, <4>1
          <5> QED BY <5>1, LoadKeeps
        <4>2. CASE E # {}
          BY <3>2, <4>2, EventsKeep
        <4> QED BY <4>1, <4>2
      <3> QED BY <2>2, <3>1, <3>2 DEF LoadStep
    <2>3. ASSUME NEW p \in Process, Settle(p) PROVE SaveInv'
      <3>1. CASE \/ \E f \in Load : LoadCommitted(p, f) \/ LoadCheckpointed(p, f)
                 \/ LoadReset(p)
        BY <2>0, <3>1, LoadKeeps
      <3>2. CASE CheckpointSettles(p) \/ CriticalSaved(p) \/ AdminSaved(p)
        BY <3>2, RunnerKeeps
      <3>3. ASSUME NEW E \in SUBSET NewEvent, AdminDrained(p, E) PROVE SaveInv'
        <4>1. CASE E = {}
          <5>1. AdminDrained(p, {})
            BY <3>3, <4>1
          <5> QED BY <5>1, RunnerKeeps
        <4>2. CASE E # {}
          BY <2>0, <3>3, <4>2, EventsKeep
        <4> QED BY <4>1, <4>2
      <3>4. CASE \/ ResetDrained(p) \/ ResetSaved(p) \/ ShutdownCheckpointed(p)
                 \/ ShutdownDrained(p)
        BY <3>4, OthersKeep
      <3> QED BY <2>3, <3>1, <3>2, <3>3, <3>4 DEF Settle
    <2>4. ASSUME NEW p \in Process, Fault(p) PROVE SaveInv'
      <3>1. CASE \E f \in Load : LoadReadFails(p, f) \/ LoadWriteFails(p, f)
                               \/ SeedFails(p, f)
        BY <3>1, LoadKeeps
      <3>2. CASE CriticalFails(p) \/ AdminFails(p)
        BY <3>2, RunnerKeeps
      <3>3. CASE \/ ResetFails(p) \/ LockLost(p) \/ SessionDies(p) \/ Shutdown(p)
                 \/ Restart(p)
        BY <3>3, OthersKeep
      <3> QED BY <2>4, <3>1, <3>2, <3>3 DEF Fault
    <2>5. ASSUME NEW p \in Process, Work(p) PROVE SaveInv'
      <3>1. CASE CheckpointTick(p) \/ AdminMutate(p)
        BY <3>1, RunnerKeeps
      <3>2. ASSUME NEW E \in SUBSET NewEvent, CriticalTick(p, E) PROVE SaveInv'
        <4>1. E # {}
          BY <3>2 DEF CriticalTick
        <4> QED BY <2>0, <3>2, <4>1, EventsKeep
      <3>3. CASE ManualReset(p)
        BY <3>3, OthersKeep
      <3> QED BY <2>5, <3>1, <3>2, <3>3 DEF Work
    <2>6. ASSUME NEW p \in Process, TryStart(p) PROVE SaveInv'
      BY <2>0, <2>6, LoadKeeps
    <2>7. ASSUME NEW p \in Process, Commit(p) PROVE SaveInv'
      BY <2>7, LandKeeps, LoadKeeps DEF Commit
    <2>8. ASSUME NEW p \in Process, CriticalRetry(p) PROVE SaveInv'
      BY <2>8, RetryKeeps
    <2>9. ASSUME NEW p \in Process, DailyReset(p) \/ BackoffOver(p) \/ ShutdownFlowsDone(p)
          PROVE  SaveInv'
      BY <2>9, OthersKeep
    <2>10. CASE OrphanEnds \/ Midnight
      <3>1. UNCHANGED <<chain, critical, log, ids, published>>
        BY <2>10 DEF OrphanEnds, Midnight, flows, db, env
      <3> QED BY <3>1, SameFlows, QuietStep
    <2> QED BY <2>1, <2>2, <2>3, <2>4, <2>5, <2>6, <2>7, <2>8, <2>9, <2>10 DEF Next
  <1> QED BY InitSaves, TypeCorrect, <1>1, PTL DEF Spec

\* No client learns of a birth or a death before it is durable, whatever fails
\* between the tick and its save, and also when the lock is lost and retaken
\* while a save is in flight, by the same process or another: Punctual is not used.
THEOREM PublishedDurably == Spec => []PublishedIsDurable
  <1>1. SaveInv => PublishedIsDurable
    BY DEF SaveInv
  <1> QED BY SavePromise, <1>1, PTL

\* A save that is retried, even one whose first attempt committed without an
\* answer, records each of its events once.
THEOREM RecordedOnce == Spec => []LoggedOnce
  <1>1. TypeOK /\ SaveInv => LoggedOnce
    <2> SUFFICES ASSUME TypeOK, SaveInv, NEW r \in log, NEW s \in log, r[2] = s[2]
                 PROVE  r = s
      BY DEF LoggedOnce
    <2>1. /\ r = <<r[1], r[2]>> /\ r[1] \in Nat /\ r[2] \in Event
          /\ s = <<s[1], s[2]>> /\ s[1] \in Nat
      BY DEF TypeOK, DbOK
    <2>2. Claims(r[1], r[2]) /\ Claims(s[1], r[2])
      BY <2>1 DEF Claims
    <2>3. r[1] = s[1]
      BY <2>1, <2>2 DEF SaveInv, OneBatch
    <2> QED BY <2>1, <2>3
  <1> QED BY SavePromise, TypeCorrect, <1>1, PTL
-------------------------------------------------------------------------------
(* Ownership.                                                                  *)

\* A process that ticks owns the world, one that owns it is not about to try again, and
\* if no session ends behind the back of its client, the owner's session holds the lock.
Own(p) ==
  /\ retry[p] => ~held[p]
  /\ mode[p] = "running" /\ ~Stopping(p) => held[p]
  /\ ~Silent /\ held[p] => holder = p

Owning == \A p \in Process : Own(p)

\* The mode of q is as it was, or it is an owner that start() lets run, or it stands.
Runs(q) == mode'[q] = "running" => mode[q] = "running" \/ (held[q] /\ ~Stopping(q))

\* Nothing but the mode of a process changes, and a shutdown may begin.
LEMMA OwnKept ==
  ASSUME Owning, UNCHANGED <<held, retry, holder>>,
         \A q \in Process : Runs(q) /\ (Stopping(q) => Stopping(q)')
  PROVE  Owning'
  <1> SUFFICES ASSUME NEW q \in Process PROVE Own(q)'
    BY DEF Owning
  <1>1. Own(q) /\ Runs(q) /\ (Stopping(q) => Stopping(q)')
    BY DEF Owning
  <1> QED BY <1>1 DEF Own, Runs

\* The ownership of p ends, and nobody else's.
LEMMA OwnGiven ==
  ASSUME Owning, NEW p \in Process, ~held'[p], mode'[p] = "running" => Stopping(p)',
         \A q \in Process \ {p} :
           /\ held'[q] = held[q] /\ retry'[q] = retry[q] /\ mode'[q] = mode[q]
           /\ halt'[q] = halt[q],
         holder' = holder \/ holder = p
  PROVE  Owning'
  <1>1. Own(p)'
    BY DEF Own
  <1>2. ASSUME NEW q \in Process \ {p} PROVE Own(q)'
    <2>1. Own(q)
      BY DEF Owning
    <2> QED BY <2>1 DEF Own, Stopping
  <1> QED BY <1>1, <1>2 DEF Owning

LEMMA StartRuns ==
  ASSUME MemoryOK, NEW p \in Process, Start(p) \/ Pause(p) \/ UNCHANGED mode
  PROVE  \A q \in Process : Runs(q)
  BY DEF MemoryOK, Start, Pause, Runs

LEMMA StopsKept ==
  ASSUME UNCHANGED halt
  PROVE  \A q \in Process : Stopping(q) => Stopping(q)'
  BY DEF Stopping

\* The steps that leave the ownership alone, and start(), pause or leave the mode.
LEMMA StartOwns ==
  ASSUME MemoryOK, Owning, NEW p \in Process,
         UNCHANGED <<held, retry, holder, halt>>, Start(p) \/ Pause(p) \/ UNCHANGED mode
  PROVE  Owning'
  BY StartRuns, StopsKept, OwnKept

\* load() throws: the lock that a tryStart holds is released, and a retry is scheduled.
LEMMA LoadThrowsOwns ==
  ASSUME MemoryOK, Owning, NEW p \in Process, NEW f \in Load, LoadThrows(p, f),
         UNCHANGED halt
  PROVE  Owning'
  <1>1. CASE f # "boot"
    <2>1. UNCHANGED <<holder, held, retry, mode>>
      BY <1>1 DEF LoadThrows
    <2> QED BY <2>1, StartOwns
  <1>2. CASE f = "boot"
    <2>1. Release(p) /\ ScheduleLockRetry(p)
      BY <1>2 DEF LoadThrows
    <2>2. ~held'[p] /\ \A q \in Process \ {p} : held'[q] = held[q]
      BY <2>1 DEF Release, MemoryOK
    <2>3. holder' = holder \/ holder = p
      BY <2>1 DEF Release
    <2>4. \A q \in Process \ {p} : retry'[q] = retry[q] /\ mode'[q] = mode[q]
      BY <2>1 DEF ScheduleLockRetry, MemoryOK
    <2>5. Own(p)
      BY DEF Owning
    <2>6. mode'[p] = "running" => Stopping(p)'
      <3>1. CASE Stopping(p)
        BY <3>1 DEF Stopping
      <3>2. CASE ~Stopping(p) /\ retry[p]
        <4>1. UNCHANGED mode
          BY <2>1, <3>2 DEF ScheduleLockRetry
        <4> QED BY <2>5, <3>2, <4>1 DEF Own
      <3>3. CASE ~Stopping(p) /\ ~retry[p]
        <4>1. mode' = [mode EXCEPT ![p] = "standby"]
          BY <2>1, <3>3 DEF ScheduleLockRetry
        <4> QED BY <4>1 DEF MemoryOK
      <3> QED BY <3>1, <3>2, <3>3
    <2> QED BY <2>2, <2>3, <2>4, <2>6, OwnGiven
  <1> QED BY <1>1, <1>2

LEMMA TryStartOwns ==
  ASSUME MemoryOK, Owning, NEW p \in Process, TryStart(p)
  PROVE  Owning'
  <1>0. UNCHANGED halt /\ Own(p) /\ p # Nobody
    BY ConstantsOK DEF TryStart, Owning
  <1>1. CASE /\ holder = Nobody /\ holder' = p /\ held' = [held EXCEPT ![p] = TRUE]
             /\ retry' = [retry EXCEPT ![p] = FALSE] /\ UNCHANGED mode
    <2>1. held'[p] /\ ~retry'[p]
      BY <1>1 DEF MemoryOK
    <2>2. Own(p)'
      BY <1>1, <2>1 DEF Own
    <2>3. ASSUME NEW q \in Process \ {p} PROVE Own(q)'
      <3>1. Own(q) /\ held'[q] = held[q] /\ retry'[q] = retry[q] /\ mode'[q] = mode[q]
        BY <1>1 DEF Owning, MemoryOK
      <3>2. Stopping(q)' = Stopping(q) /\ q # Nobody
        BY <1>0, ConstantsOK DEF Stopping
      <3> QED BY <1>1, <3>1, <3>2 DEF Own
    <2> QED BY <2>2, <2>3 DEF Owning
  <1>2. CASE /\ holder # Nobody /\ UNCHANGED <<holder, held, retry>>
             /\ mode' = [mode EXCEPT ![p] = "standby"]
    <2>1. \A q \in Process : Runs(q)
      BY <1>2 DEF Runs, MemoryOK
    <2> QED BY <1>0, <1>2, <2>1, StopsKept, OwnKept
  <1>3. CASE /\ (holder' = holder \/ holder = Nobody) /\ UNCHANGED <<held, retry>>
             /\ mode' = [mode EXCEPT ![p] = "standby"]
    <2> SUFFICES ASSUME NEW q \in Process PROVE Own(q)'
      BY DEF Owning
    <2>1. Own(q) /\ Runs(q) /\ q # Nobody /\ Stopping(q)' = Stopping(q)
      BY <1>0, <1>3, ConstantsOK DEF Owning, Runs, MemoryOK, Stopping
    <2> QED BY <1>3, <2>1 DEF Own, Runs
  <1> QED BY <1>1, <1>2, <1>3 DEF TryStart

LEMMA LoadOwns ==
  ASSUME MemoryOK, Owning, NEW p \in Process, LoadStep(p)
  PROVE  Owning'
  <1>1. ASSUME NEW f \in Load, LoadRead(p, f) PROVE Owning'
    BY <1>1, StartOwns DEF LoadRead
  <1>2. ASSUME NEW f \in Load, LoadRefused(p, f) PROVE Owning'
    BY <1>2, LoadThrowsOwns DEF LoadRefused
  <1>3. ASSUME NEW f \in Load, LoadSeeds(p, f) PROVE Owning'
    BY <1>3, StartOwns DEF LoadSeeds, memory
  <1>4. ASSUME NEW f \in Load, LoadSeeded(p, f) PROVE Owning'
    BY <1>4, StartOwns DEF LoadSeeded, LoadFinishes
  <1>5. ASSUME NEW f \in Load, NEW E \in SUBSET NewEvent, LoadAdvances(p, f, E)
        PROVE  Owning'
    BY <1>5, StartOwns DEF LoadAdvances
  <1>6. CASE LoadResets(p)
    BY <1>6, StartOwns DEF LoadResets, memory
  <1> QED BY <1>1, <1>2, <1>3, <1>4, <1>5, <1>6 DEF LoadStep

LEMMA CommitOwns ==
  ASSUME MemoryOK, Owning, NEW p \in Process, Commit(p)
  PROVE  Owning'
  <1>1. UNCHANGED <<memory, holder>>
    BY DEF Commit, Land, SeedLands
  <1> QED BY <1>1, StartOwns DEF memory

LEMMA SettleOwns ==
  ASSUME MemoryOK, Owning, NEW p \in Process, Settle(p)
  PROVE  Owning'
  <1>1. ASSUME NEW f \in Load, LoadCommitted(p, f) PROVE Owning'
    <2>1. CASE UNCHANGED <<mode, held, retry, holder>>
      BY <1>1, <2>1, StartOwns DEF LoadCommitted
    <2>2. CASE LoadThrows(p, f)
      BY <1>1, <2>2, LoadThrowsOwns DEF LoadCommitted
    <2> QED BY <1>1, <2>1, <2>2 DEF LoadCommitted
  <1>2. ASSUME NEW f \in Load, LoadCheckpointed(p, f) PROVE Owning'
    BY <1>2, StartOwns DEF LoadCheckpointed, LoadFinishes
  <1>3. CASE LoadReset(p)
    BY <1>3, StartOwns DEF LoadReset, LoadFinishes
  <1>4. CASE CheckpointSettles(p)
    BY <1>4, StartOwns DEF CheckpointSettles, memory
  <1>5. CASE CriticalSaved(p)
    BY <1>5, StartOwns DEF CriticalSaved
  <1>6. ASSUME NEW E \in SUBSET NewEvent, AdminDrained(p, E) PROVE Owning'
    BY <1>6, StartOwns DEF AdminDrained, AdminEnds
  <1>7. CASE AdminSaved(p)
    BY <1>7, StartOwns DEF AdminSaved
  <1>8. CASE ResetDrained(p)
    BY <1>8, StartOwns DEF ResetDrained
  <1>11. CASE ShutdownCheckpointed(p)
    <2>1. \A q \in Process : Stopping(q) => Stopping(q)'
      BY <1>11 DEF ShutdownCheckpointed, MemoryOK, Stopping
    <2>2. UNCHANGED <<mode, held, retry, holder>>
      BY <1>11 DEF ShutdownCheckpointed
    <2> QED BY <2>1, <2>2, OwnKept DEF Runs
  <1>9. CASE ResetSaved(p)
    BY <1>9, StartOwns DEF ResetSaved
  <1>10. CASE ShutdownDrained(p)
    <2>1. Release(p) /\ mode' = [mode EXCEPT ![p] = "stopped"]
          /\ halt' = [halt EXCEPT ![p] = "done"] /\ UNCHANGED retry
      BY <1>10 DEF ShutdownDrained
    <2>2. /\ ~held'[p] /\ mode'[p] = "stopped" /\ (holder' = holder \/ holder = p)
          /\ \A q \in Process \ {p} : /\ held'[q] = held[q] /\ mode'[q] = mode[q]
                                      /\ retry'[q] = retry[q] /\ halt'[q] = halt[q]
      BY <2>1 DEF Release, MemoryOK
    <2> QED BY <2>1, <2>2, OwnGiven
  <1> QED BY <1>1, <1>2, <1>3, <1>4, <1>5, <1>6, <1>7, <1>8, <1>9, <1>10, <1>11 DEF Settle

LEMMA FaultOwns ==
  ASSUME MemoryOK, Owning, NEW p \in Process, Fault(p)
  PROVE  Owning'
  <1>1. ASSUME NEW f \in Load,
               LoadReadFails(p, f) \/ LoadWriteFails(p, f) \/ SeedFails(p, f)
        PROVE  Owning'
    <2>1. LoadThrows(p, f) /\ UNCHANGED halt
      BY <1>1 DEF LoadReadFails, LoadWriteFails, SeedFails
    <2> QED BY <2>1, LoadThrowsOwns
  <1>2. CASE CriticalFails(p)
    BY <1>2, StartOwns DEF CriticalFails, memory
  <1>3. CASE AdminFails(p)
    BY <1>3, StartOwns DEF AdminFails, AdminEnds
  <1>4. CASE ResetFails(p)
    BY <1>4, StartOwns DEF ResetFails
  <1>5. CASE LockLost(p)
    <2>1. /\ held' = [held EXCEPT ![p] = FALSE] /\ UNCHANGED halt
          /\ holder' = holder \/ holder = p
          /\ \/ Stopping(p) /\ UNCHANGED <<mode, retry>>
             \/ /\ mode' = [mode EXCEPT ![p] = "standby"]
                /\ retry' = [retry EXCEPT ![p] = TRUE]
      BY <1>5 DEF LockLost
    <2>2. /\ ~held'[p] /\ (mode'[p] = "running" => Stopping(p)')
          /\ \A q \in Process \ {p} : /\ held'[q] = held[q] /\ mode'[q] = mode[q]
                                      /\ retry'[q] = retry[q] /\ halt'[q] = halt[q]
      BY <2>1 DEF MemoryOK, Stopping
    <2> QED BY <2>1, <2>2, OwnGiven
  <1>6. CASE SessionDies(p)
    <2>1. Silent /\ UNCHANGED <<mode, held, retry, halt>>
      BY <1>6 DEF SessionDies, memory
    <2> QED BY <2>1 DEF Owning, Own, Stopping
  <1>7. CASE Shutdown(p)
    <2>1. /\ halt' = [halt EXCEPT ![p] = "flows"] /\ UNCHANGED <<mode, held, holder>>
          /\ retry' = [retry EXCEPT ![p] = FALSE]
      BY <1>7 DEF Shutdown
    <2> SUFFICES ASSUME NEW q \in Process PROVE Own(q)'
      BY DEF Owning
    <2>2. Own(q) /\ (retry'[q] => retry[q]) /\ (Stopping(q) => Stopping(q)')
      BY <2>1 DEF Owning, MemoryOK, Stopping
    <2> QED BY <2>1, <2>2 DEF Own
  <1>8. CASE Restart(p)
    <2>1. /\ mode' = [mode EXCEPT ![p] = "starting"] /\ held' = [held EXCEPT ![p] = FALSE]
          /\ retry' = [retry EXCEPT ![p] = TRUE] /\ halt' = [halt EXCEPT ![p] = "no"]
          /\ holder' = holder \/ holder = p
      BY <1>8 DEF Restart
    <2>2. /\ ~held'[p] /\ mode'[p] = "starting"
          /\ \A q \in Process \ {p} : /\ held'[q] = held[q] /\ mode'[q] = mode[q]
                                      /\ retry'[q] = retry[q] /\ halt'[q] = halt[q]
      BY <2>1 DEF MemoryOK
    <2> QED BY <2>1, <2>2, OwnGiven
  <1> QED BY <1>1, <1>2, <1>3, <1>4, <1>5, <1>6, <1>7, <1>8 DEF Fault

LEMMA WorkOwns ==
  ASSUME MemoryOK, Owning, NEW p \in Process, Work(p) \/ DailyReset(p)
  PROVE  Owning'
  <1>1. CASE CheckpointTick(p)
    BY <1>1, StartOwns DEF CheckpointTick, memory
  <1>2. ASSUME NEW E \in SUBSET NewEvent, CriticalTick(p, E) PROVE Owning'
    BY <1>2, StartOwns DEF CriticalTick
  <1>3. CASE AdminMutate(p)
    BY <1>3, StartOwns DEF AdminMutate
  <1>4. CASE ManualReset(p) \/ DailyReset(p)
    BY <1>4, StartOwns DEF ManualReset, DailyReset, ResetWorld
  <1> QED BY <1>1, <1>2, <1>3, <1>4 DEF Work

LEMMA OwnNext ==
  ASSUME TypeOK, Owning, [Next]_vars
  PROVE  Owning'
  <1>0. MemoryOK
    BY DEF TypeOK
  <1>1. CASE UNCHANGED vars
    BY <1>1 DEF vars, memory, Owning, Own, Stopping
  <1>2. ASSUME NEW p \in Process, TryStart(p) \/ LoadStep(p) \/ Commit(p) PROVE Owning'
    BY <1>0, <1>2, TryStartOwns, LoadOwns, CommitOwns
  <1>3. ASSUME NEW p \in Process, Settle(p) \/ Fault(p) \/ Work(p) \/ DailyReset(p)
        PROVE  Owning'
    BY <1>0, <1>3, SettleOwns, FaultOwns, WorkOwns
  <1>4. ASSUME NEW p \in Process, BackoffOver(p) \/ CriticalRetry(p) \/ ShutdownFlowsDone(p)
        PROVE  Owning'
    <2>1. CASE BackoffOver(p)
      BY <1>0, <2>1, StartOwns DEF BackoffOver
    <2>2. CASE CriticalRetry(p)
      BY <1>0, <2>2, StartOwns DEF CriticalRetry, memory
    <2>3. CASE ShutdownFlowsDone(p)
      <3>1. UNCHANGED <<mode, held, retry, holder>>
            /\ \A q \in Process : Stopping(q) => Stopping(q)'
        BY <1>0, <2>3 DEF ShutdownFlowsDone, MemoryOK, Stopping
      <3> QED BY <3>1, OwnKept DEF Runs
    <2> QED BY <1>4, <2>1, <2>2, <2>3
  <1>5. CASE OrphanEnds
    <2>1. holder = Orphan /\ UNCHANGED <<mode, held, retry, halt>>
      BY <1>5 DEF OrphanEnds, memory
    <2>2. \A q \in Process : q # Orphan
      BY ConstantsOK
    <2> QED BY <2>1, <2>2 DEF Owning, Own, Stopping
  <1>6. CASE Midnight
    <2>1. UNCHANGED <<mode, held, retry, halt, holder>>
      BY <1>6 DEF Midnight, memory
    <2> QED BY <2>1 DEF Owning, Own, Stopping
  <1> QED BY <1>1, <1>2, <1>3, <1>4, <1>5, <1>6 DEF Next

LEMMA OwningAlways == Spec => []Owning
  <1>1. Init => Owning
    BY DEF Init, Owning, Own
  <1>2. TypeOK /\ Owning /\ [Next]_vars => Owning'
    BY OwnNext
  <1> QED BY TypeCorrect, <1>1, <1>2, PTL DEF Spec

\* Two processes never tick the world at once, in every interleaving of retries, handovers,
\* lost connections, failed loads, shutdowns and crashes, as long as a session of the lock
\* ends only with its client's connection or after it.
THEOREM TicksOnce == ASSUME ~Silent PROVE Spec => []OneTicker
  <1>1. Owning => OneTicker
    <2> SUFFICES ASSUME Owning, NEW p \in Process, NEW q \in Process,
                        CanTick(p), CanTick(q)
                 PROVE  p = q
      BY DEF OneTicker
    <2>1. held[p] /\ held[q] /\ Own(p) /\ Own(q)
      BY DEF Owning, Own, CanTick
    <2> QED BY <2>1 DEF Own
  <1> QED BY OwningAlways, <1>1, PTL

===============================================================================
