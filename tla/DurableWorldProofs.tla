--------------------------- MODULE DurableWorldProofs ---------------------------
(* The flows of every process exclude each other, if a process that retakes the lock  *)
(* has ended what it had under way; no snapshot then gets ahead of the event log,     *)
(* however many processes hand the world over.  With one process whose keepers' saves *)
(* are always answered, its memory, its write queue and the durable tables tell one   *)
(* history, and the runner implements DurableWorld.                                   *)
EXTENDS WorldRunnerProofs

Free(p) ==
  /\ critical[p].pc = "none" /\ admin[p] = "none" /\ reset[p].pc = "none"
  /\ load[p]["boot"].pc = "none" /\ load[p]["reload"].pc = "none"

\* The flows of a process exclude each other.
OneFlow(p) ==
  /\ mode[p] = "running" => Free(p)
  /\ critical[p].pc # "none" =>
       /\ admin[p] = "none" /\ reset[p].pc = "none"
       /\ load[p]["boot"].pc = "none" /\ load[p]["reload"].pc = "none"
  /\ admin[p] # "none" =>
       /\ reset[p].pc = "none"
       /\ load[p]["boot"].pc = "none" /\ load[p]["reload"].pc = "none"
  /\ reset[p].pc # "none" => load[p]["boot"].pc = "none"
  /\ load[p]["reload"].pc # "none" <=> reset[p].pc = "reload"

\* A process that is not stopping ticks only while it owns the world.
TicksOwned(p) ==
  /\ mode[p] = "running" => held[p] \/ halt[p] \in {"flows", "checkpoint", "drain"}
  /\ halt[p] = "done" => mode[p] # "running"

\* A write that no flow of the tick loop, the keepers or a load waits for.
Calm(w) ==
  \/ w.flow = "tick" /\ w.op = "checkpoint"
  \/ w.flow = "final" /\ w.op \in {"checkpoint", "drain"}

\* Which flow waits for a write.
Waits(p, w) ==
  \/ Calm(w)
  \/ w.flow = "critical" /\ w.op = "commit" /\ critical[p].pc = "write"
  \/ w.flow = "admin" /\ w.op = "drain" /\ admin[p] = "drain"
  \/ w.flow = "admin" /\ w.op = "commit" /\ admin[p] = "write"
  \/ w.flow = "reset" /\ w.op = "drain" /\ reset[p].pc = "drain"
  \/ w.flow = "reset" /\ w.op = "reset" /\ reset[p].pc = "write"
  \/ w.flow = "boot" /\ w.op \in {"commit", "checkpoint", "reset"}
     /\ load[p]["boot"].pc = "write"
  \/ w.flow = "reload" /\ w.op \in {"commit", "checkpoint"}
     /\ load[p]["reload"].pc = "write"

\* A flow waits for one write at a time, and nothing but drains is behind it.
Ordered(s) ==
  \A i, j \in 1..Len(s) :
    i < j /\ ~Calm(s[i]) => s[j].op = "drain" /\ s[j].flow # s[i].flow

\* A load reads the tables, or seeds them, when nothing else is left to be written.
ReadsSettled(p) ==
  \A f \in Load : load[p][f].pc \in {"read", "got", "seed", "seeded"} =>
    \A w \in Writes(p) : w.op = "drain"

QueueOK(p) ==
  (\A w \in Writes(p) : Waits(p, w)) /\ Ordered(chain[p]) /\ ReadsSettled(p)

Control(p) == OneFlow(p) /\ TicksOwned(p) /\ QueueOK(p)

ControlOK == \A p \in Process : Control(p)

-------------------------------------------------------------------------------
(* Memory, queue and tables.                                                   *)

\* The new events E of an image that follows the snapshot: all of them are saved, or none.
Follows(image, E) ==
  /\ image # NoState /\ snap # NoState
  /\ image.epoch = snap.epoch /\ image.hist = snap.hist \cup E
  /\ E \cap Logged = {} \/ (E \subseteq Logged /\ image = snap)

WriteOK(w) ==
  /\ w.op # "commit" => w.events = {}
  /\ w.op = "drain" => ~w.landed
  /\ w.op = "checkpoint" => w.image = snap /\ snap # NoState
  /\ w.op = "commit" => Follows(w.image, w.events)
  /\ w.op = "reset" =>
       /\ w.image # NoState /\ w.image.hist = {} /\ w.image.epoch <= ids.epochs
       /\ ~w.landed => snap = NoState \/ snap.epoch < w.image.epoch
  /\ w.landed => w.image = snap /\ w.events \subseteq Logged

\* What the flow that waits for w remembers.
RemembersOK(p, w) ==
  /\ w.flow = "critical" =>
       w.events = critical[p].events /\ (critical[p].fresh => w.image = live[p])
  /\ w.flow = "admin" /\ ~w.landed /\ live[p] # NoState => live[p] = snap
  /\ w.flow \in Load /\ w.op # "reset" =>
       /\ live[p] # NoState => live[p] = w.image
       /\ held[p] => live[p] # NoState

\* The owner ticks the durable world.
TicksDurable(p) == mode[p] = "running" => live[p] = snap /\ snap # NoState

\* A critical save whose state was not replaced would save the live state.
CriticalFollows(p) ==
  critical[p].pc # "none" /\ critical[p].fresh => Follows(live[p], critical[p].events)

\* What a load has read is still what is durable.
ReadCurrent(p) ==
  \A f \in Load : /\ load[p][f].pc = "got" => load[p][f].image = snap
                  /\ load[p][f].pc = "seed" => snap = NoState
                  /\ load[p][f].pc = "seeded" => snap = Seed

MemoryMatches(p) ==
  /\ \A w \in Writes(p) : WriteOK(w) /\ RemembersOK(p, w)
  /\ TicksDurable(p) /\ CriticalFollows(p) /\ ReadCurrent(p)

TablesMatch ==
  /\ Logged \subseteq ids.events
  /\ snap = NoState => rows = {}
  /\ snap # NoState => /\ rows = snap.hist \ Fleeting /\ snap.hist \subseteq Logged
                       /\ snap.epoch <= ids.epochs

OneHistory == TablesMatch /\ \A p \in Process : MemoryMatches(p)

-------------------------------------------------------------------------------
(* The write queue as a sequence.                                              *)

Elems(s) == {s[i] : i \in 1..Len(s)}

LEMMA WritesAre == \A p : Writes(p) = Elems(chain[p]) /\ Writes(p)' = Elems(chain'[p])
  BY DEF Writes, Elems

\* A write joins the queue: calm ones may be before it, or it is a drain of another flow.
LEMMA Appended ==
  ASSUME NEW s \in Seq(Write), NEW w \in Write, Ordered(s),
         \A v \in Elems(s) : Calm(v) \/ (w.op = "drain" /\ w.flow # v.flow)
  PROVE  /\ Append(s, w) \in Seq(Write) /\ Ordered(Append(s, w))
         /\ \A v \in Elems(Append(s, w)) : v \in Elems(s) \/ v = w
         /\ Elems(s) \subseteq Elems(Append(s, w)) /\ w \in Elems(Append(s, w))
  <1> DEFINE t == Append(s, w)
  <1>1. /\ t \in Seq(Write) /\ Len(t) = Len(s) + 1 /\ Len(s) \in Nat
        /\ \A i \in 1..Len(t) : t[i] = IF i <= Len(s) THEN s[i] ELSE w
    OBVIOUS
  <1> HIDE DEF t
  <1>2. \A i \in 1..Len(t) : t[i] = w \/ (i \in 1..Len(s) /\ t[i] = s[i])
    BY <1>1
  <1>3. \A i \in 1..Len(s) : i \in 1..Len(t) /\ t[i] = s[i] /\ s[i] \in Elems(s)
    BY <1>1 DEF Elems
  <1>4. Len(t) \in 1..Len(t) /\ t[Len(t)] = w
    BY <1>1
  <1>5. Ordered(t)
    <2> SUFFICES ASSUME NEW i \in 1..Len(t), NEW j \in 1..Len(t), i < j,
                        ~Calm(t[i])
                 PROVE  t[j].op = "drain" /\ t[j].flow # t[i].flow
      BY DEF Ordered
    <2>1. i \in 1..Len(s) /\ t[i] = s[i]
      BY <1>1
    <2>2. CASE j <= Len(s)
      BY <1>1, <2>1, <2>2 DEF Ordered
    <2>3. CASE ~(j <= Len(s))
      BY <1>1, <1>3, <2>1, <2>3
    <2> QED BY <2>2, <2>3
  <1>6. \A v \in Elems(t) : v \in Elems(s) \/ v = w
    BY <1>2 DEF Elems
  <1>7. Elems(s) \subseteq Elems(t) /\ w \in Elems(t)
    BY <1>3, <1>4 DEF Elems
  <1> QED BY <1>1, <1>5, <1>6, <1>7 DEF t

\* The first write leaves the queue: what was behind a flow's write is a drain.
LEMMA Popped ==
  ASSUME NEW s \in Seq(Write), s # <<>>, Ordered(s)
  PROVE  /\ Tail(s) \in Seq(Write) /\ Ordered(Tail(s))
         /\ Head(s) \in Write /\ Head(s) \in Elems(s)
         /\ Elems(Tail(s)) \subseteq Elems(s)
         /\ \A v \in Elems(Tail(s)) : Calm(Head(s)) \/ (v.op = "drain" /\ v.flow # Head(s).flow)
  <1> DEFINE t == Tail(s)
  <1>1. /\ t \in Seq(Write) /\ Len(t) = Len(s) - 1 /\ Len(s) \in Nat /\ Len(t) \in Nat
        /\ \A i \in 1..Len(t) : i + 1 \in 1..Len(s) /\ t[i] = s[i + 1]
        /\ Head(s) = s[1] /\ 1 \in 1..Len(s) /\ s[1] \in Write
    OBVIOUS
  <1> HIDE DEF t
  <1>2. Ordered(t)
    <2> SUFFICES ASSUME NEW i \in 1..Len(t), NEW j \in 1..Len(t), i < j,
                        ~Calm(t[i])
                 PROVE  t[j].op = "drain" /\ t[j].flow # t[i].flow
      BY DEF Ordered
    <2>1. /\ i + 1 < j + 1 /\ i + 1 \in 1..Len(s) /\ j + 1 \in 1..Len(s)
          /\ t[i] = s[i + 1] /\ t[j] = s[j + 1]
      BY <1>1
    <2>2. s[j + 1].op = "drain" /\ s[j + 1].flow # s[i + 1].flow
      BY <2>1 DEF Ordered
    <2> QED BY <2>1, <2>2
  <1>3. Elems(t) \subseteq Elems(s) /\ Head(s) \in Elems(s)
    BY <1>1 DEF Elems
  <1>4. \A v \in Elems(t) : Calm(Head(s)) \/ (v.op = "drain" /\ v.flow # Head(s).flow)
    <2> SUFFICES ASSUME NEW i \in 1..Len(t), ~Calm(Head(s))
                 PROVE  t[i].op = "drain" /\ t[i].flow # Head(s).flow
      BY DEF Elems
    <2>1. i + 1 \in 1..Len(s) /\ 1 < i + 1 /\ t[i] = s[i + 1]
      BY <1>1
    <2> QED BY <1>1, <2>1 DEF Ordered
  <1> QED BY <1>1, <1>2, <1>3, <1>4 DEF t

\* A write that nobody waits for is calm.
LEMMA Unwaited ==
  ASSUME NEW p \in Process, Control(p), NEW w \in Elems(chain[p]),
         critical[p].pc # "write", admin[p] = "none", reset[p].pc \notin {"drain", "write"},
         load[p]["boot"].pc # "write", load[p]["reload"].pc # "write"
  PROVE  Calm(w)
  BY WritesAre DEF Control, QueueOK, Waits

\* Behind the write that a flow waits for, only shutdown() waits, for its last drain.
LEMMA Behind ==
  ASSUME FlowsOK, NEW p \in Process, Control(p), chain[p] # <<>>, ~Calm(Head(chain[p]))
  PROVE  /\ Waits(p, Head(chain[p]))
         /\ \A v \in Elems(Tail(chain[p])) :
              v \in Elems(chain[p]) /\ v.flow = "final" /\ v.op = "drain" /\ Calm(v)
  <1> DEFINE h == Head(chain[p])
  <1>1. chain[p] \in Seq(Write) /\ Ordered(chain[p])
    BY DEF FlowsOK, Control, QueueOK
  <1>2. /\ h \in Elems(chain[p]) /\ Elems(Tail(chain[p])) \subseteq Elems(chain[p])
        /\ \A v \in Elems(Tail(chain[p])) : v.op = "drain" /\ v.flow # h.flow
    BY <1>1, Popped
  <1>3. \A v \in Elems(chain[p]) : Waits(p, v)
    BY WritesAre DEF Control, QueueOK
  <1>4. ~Calm(h)
    OBVIOUS
  <1> HIDE DEF h
  <1>5. ASSUME NEW v \in Elems(Tail(chain[p])) PROVE v.flow = "final"
    <2>1. Waits(p, v) /\ v.op = "drain" /\ v.flow # h.flow /\ Waits(p, h)
      BY <1>2, <1>3, <1>5
    <2>2. OneFlow(p)
      BY DEF Control
    <2> QED BY <1>4, <2>1, <2>2 DEF Waits, Calm, OneFlow
  <1> QED BY <1>2, <1>3, <1>5 DEF h, Calm

\* A load that reads, or that has read, has only shutdown()'s drain before it.
LEMMA Resting ==
  ASSUME NEW p \in Process, Control(p), NEW f \in Load,
         load[p][f].pc \in {"read", "got", "seed", "seeded"}, NEW v \in Elems(chain[p])
  PROVE  v.flow = "final" /\ v.op = "drain" /\ Calm(v)
  <1>1. Waits(p, v) /\ v.op = "drain"
    BY WritesAre DEF Control, QueueOK, ReadsSettled
  <1>2. OneFlow(p)
    BY DEF Control
  <1> QED BY <1>1, <1>2 DEF Waits, Calm, OneFlow, Load

-------------------------------------------------------------------------------
(* What the fragments of the actions do to the process that takes them.        *)

\* Everything this invariant says of q but its write queue is as before.
SameFlow(q) ==
  /\ mode'[q] = mode[q] /\ held'[q] = held[q] /\ halt'[q] = halt[q]
  /\ live'[q] = live[q] /\ critical'[q] = critical[q] /\ admin'[q] = admin[q]
  /\ reset'[q] = reset[q] /\ load'[q] = load[q]

Same(q) == SameFlow(q) /\ chain'[q] = chain[q]

Elsewhere(p) == \A q \in Process \ {p} : Same(q)

LEMMA QueueDoes ==
  ASSUME FlowsOK, NEW p \in Process, NEW w, Queue(p, w)
  PROVE  /\ chain'[p] = Append(chain[p], w) /\ chain[p] \in Seq(Write)
         /\ \A q \in Process \ {p} : chain'[q] = chain[q]
  BY DEF Queue, FlowsOK

LEMMA PopDoes ==
  ASSUME FlowsOK, NEW p \in Process, Pop(p)
  PROVE  /\ chain'[p] = Tail(chain[p]) /\ chain[p] \in Seq(Write)
         /\ \A q \in Process \ {p} : chain'[q] = chain[q]
  BY DEF Pop, FlowsOK

LEMMA PopQueueDoes ==
  ASSUME FlowsOK, NEW p \in Process, NEW w, PopQueue(p, w)
  PROVE  /\ chain'[p] = Append(Tail(chain[p]), w) /\ chain[p] \in Seq(Write)
         /\ \A q \in Process \ {p} : chain'[q] = chain[q]
  BY DEF PopQueue, FlowsOK

LEMMA AssignDoes ==
  ASSUME MemoryOK, FlowsOK, NEW p \in Process, NEW image, Assign(p, image)
  PROVE  /\ live'[p] = image /\ critical'[p].pc = critical[p].pc
         /\ critical'[p].events = critical[p].events /\ ~critical'[p].fresh
         /\ \A q \in Process \ {p} : live'[q] = live[q] /\ critical'[q] = critical[q]
  <1>1. critical[p] \in CriticalState /\ critical \in [Process -> CriticalState]
    BY DEF FlowsOK
  <1>2. critical' = [critical EXCEPT ![p] = [critical[p] EXCEPT !.fresh = FALSE]]
    BY DEF Assign
  <1>3. critical'[p] = [critical[p] EXCEPT !.fresh = FALSE]
    BY <1>1, <1>2
  <1>4. /\ critical'[p].pc = critical[p].pc /\ critical'[p].events = critical[p].events
        /\ ~critical'[p].fresh
    BY <1>1, <1>3 DEF CriticalState
  <1>5. \A q \in Process \ {p} : critical'[q] = critical[q]
    BY <1>1, <1>2
  <1>6. live'[p] = image /\ \A q \in Process \ {p} : live'[q] = live[q]
    BY DEF Assign, MemoryOK
  <1> QED BY <1>4, <1>5, <1>6

LEMMA StartDoes ==
  ASSUME MemoryOK, NEW p \in Process, Start(p)
  PROVE  /\ mode'[p] = IF held[p] /\ ~Stopping(p) THEN "running" ELSE mode[p]
         /\ \A q \in Process \ {p} : mode'[q] = mode[q]
  BY DEF Start, MemoryOK

LEMMA PauseDoes ==
  ASSUME MemoryOK, NEW p \in Process, Pause(p)
  PROVE  mode'[p] = "starting" /\ \A q \in Process \ {p} : mode'[q] = mode[q]
  BY DEF Pause, MemoryOK

LEMMA ReleaseDoes ==
  ASSUME MemoryOK, NEW p \in Process, Release(p)
  PROVE  ~held'[p] /\ \A q \in Process \ {p} : held'[q] = held[q]
  BY DEF Release, MemoryOK

LEMMA ScheduleLockRetryDoes ==
  ASSUME MemoryOK, NEW p \in Process, ScheduleLockRetry(p)
  PROVE  /\ mode'[p] \in {mode[p], "standby"}
         /\ \A q \in Process \ {p} : mode'[q] = mode[q]
  BY DEF ScheduleLockRetry, MemoryOK

LEMMA ResetEndsDoes ==
  ASSUME FlowsOK, NEW p \in Process, NEW failed, ResetEnds(p, failed)
  PROVE  reset'[p].pc = "none" /\ \A q \in Process \ {p} : reset'[q] = reset[q]
  BY DEF ResetEnds, NoReset, FlowsOK

LEMMA ResetMoves ==
  ASSUME FlowsOK, NEW p \in Process, NEW pc, reset' = [reset EXCEPT ![p].pc = pc]
  PROVE  reset'[p].pc = pc /\ \A q \in Process \ {p} : reset'[q] = reset[q]
  BY DEF FlowsOK, ResetState

LEMMA CriticalMoves ==
  ASSUME FlowsOK, NEW p \in Process, NEW pc, critical' = [critical EXCEPT ![p].pc = pc]
  PROVE  /\ critical'[p].pc = pc /\ critical'[p].events = critical[p].events
         /\ critical'[p].fresh = critical[p].fresh
         /\ \A q \in Process \ {p} : critical'[q] = critical[q]
  BY DEF FlowsOK, CriticalState

LEMMA EndCriticalDoes ==
  ASSUME FlowsOK, NEW p \in Process, EndCritical(p)
  PROVE  critical'[p].pc = "none" /\ \A q \in Process \ {p} : critical'[q] = critical[q]
  BY DEF FlowsOK, EndCritical, NoCritical

LoadTo(p, f, pc) == load' = [load EXCEPT ![p][f].pc = pc]

LEMMA LoadMoves ==
  ASSUME FlowsOK, NEW p \in Process, NEW f \in Load, NEW pc, LoadTo(p, f, pc)
  PROVE  /\ load'[p][f].pc = pc
         /\ \A g \in Load \ {f} : load'[p][g] = load[p][g]
         /\ \A q \in Process \ {p} : load'[q] = load[q]
  <1>1. load \in [Process -> [Load -> LoadState]] /\ load[p] \in [Load -> LoadState]
        /\ load[p][f] \in LoadState
    BY DEF FlowsOK
  <1>2. load' = [load EXCEPT ![p] = [load[p] EXCEPT ![f] = [load[p][f] EXCEPT !.pc = pc]]]
    BY DEF LoadTo
  <1>3. load'[p] = [load[p] EXCEPT ![f] = [load[p][f] EXCEPT !.pc = pc]]
    BY <1>1, <1>2
  <1>4. load'[p][f] = [load[p][f] EXCEPT !.pc = pc]
    BY <1>1, <1>3
  <1> QED BY <1>1, <1>2, <1>3, <1>4 DEF LoadState

LEMMA LoadBecomes ==
  ASSUME FlowsOK, NEW p \in Process, NEW f \in Load, NEW s, load' = [load EXCEPT ![p][f] = s]
  PROVE  /\ load'[p][f] = s
         /\ \A g \in Load \ {f} : load'[p][g] = load[p][g]
         /\ \A q \in Process \ {p} : load'[q] = load[q]
  <1>1. load \in [Process -> [Load -> LoadState]] /\ load[p] \in [Load -> LoadState]
    BY DEF FlowsOK
  <1>2. load' = [load EXCEPT ![p] = [load[p] EXCEPT ![f] = s]]
    OBVIOUS
  <1>3. load'[p] = [load[p] EXCEPT ![f] = s]
    BY <1>1, <1>2
  <1> QED BY <1>1, <1>2, <1>3

LEMMA LoadThrowsDoes ==
  ASSUME MemoryOK, FlowsOK, NEW p \in Process, NEW f \in Load, LoadThrows(p, f)
  PROVE  /\ load'[p][f].pc = "none"
         /\ \A g \in Load \ {f} : load'[p][g] = load[p][g]
         /\ mode'[p] \in {mode[p], "standby"}
         /\ held'[p] => held[p]
         /\ reset'[p].pc = IF f = "boot" THEN reset[p].pc ELSE "none"
         /\ \A q \in Process \ {p} : /\ mode'[q] = mode[q] /\ held'[q] = held[q]
                                     /\ reset'[q] = reset[q] /\ load'[q] = load[q]
  <1>1. /\ load'[p][f] = NoLoad
        /\ \A g \in Load \ {f} : load'[p][g] = load[p][g]
        /\ \A q \in Process \ {p} : load'[q] = load[q]
    BY LoadBecomes DEF LoadThrows
  <1>2. NoLoad.pc = "none"
    BY DEF NoLoad
  <1>3. CASE f = "boot"
    <2>1. Release(p) /\ ScheduleLockRetry(p) /\ UNCHANGED reset
      BY <1>3 DEF LoadThrows
    <2> QED BY <1>1, <1>2, <1>3, <2>1, ReleaseDoes, ScheduleLockRetryDoes
  <1>4. CASE f # "boot"
    <2>1. ResetEnds(p, TRUE) /\ UNCHANGED <<held, mode>>
      BY <1>4 DEF LoadThrows
    <2> QED BY <1>1, <1>2, <1>4, <2>1, ResetEndsDoes
  <1> QED BY <1>3, <1>4

LEMMA LoadFinishesDoes ==
  ASSUME MemoryOK, FlowsOK, NEW p \in Process, NEW f \in Load, LoadFinishes(p, f)
  PROVE  /\ load'[p][f].pc = "none"
         /\ \A g \in Load \ {f} : load'[p][g] = load[p][g]
         /\ mode'[p] = IF held[p] /\ ~Stopping(p) THEN "running" ELSE mode[p]
         /\ reset'[p].pc = IF f = "boot" THEN reset[p].pc ELSE "none"
         /\ \A q \in Process \ {p} : /\ mode'[q] = mode[q]
                                     /\ reset'[q] = reset[q] /\ load'[q] = load[q]
  <1>1. /\ load'[p][f] = NoLoad
        /\ \A g \in Load \ {f} : load'[p][g] = load[p][g]
        /\ \A q \in Process \ {p} : load'[q] = load[q]
    BY LoadBecomes DEF LoadFinishes
  <1>2. NoLoad.pc = "none"
    BY DEF NoLoad
  <1>3. Start(p)
    BY DEF LoadFinishes
  <1>4. /\ reset'[p].pc = IF f = "boot" THEN reset[p].pc ELSE "none"
        /\ \A q \in Process \ {p} : reset'[q] = reset[q]
    BY ResetEndsDoes DEF LoadFinishes
  <1> QED BY <1>1, <1>2, <1>3, <1>4, StartDoes

LEMMA AdminEndsDoes ==
  ASSUME MemoryOK, FlowsOK, NEW p \in Process, AdminEnds(p)
  PROVE  /\ admin'[p] = "none"
         /\ mode'[p] = IF live[p] # NoState /\ held[p] /\ ~Stopping(p)
                       THEN "running" ELSE mode[p]
         /\ \A q \in Process \ {p} : mode'[q] = mode[q] /\ admin'[q] = admin[q]
  <1>1. admin'[p] = "none" /\ \A q \in Process \ {p} : admin'[q] = admin[q]
    BY DEF AdminEnds, FlowsOK
  <1>2. CASE live[p] # NoState
    BY <1>1, <1>2, StartDoes DEF AdminEnds
  <1>3. CASE live[p] = NoState
    BY <1>1, <1>3 DEF AdminEnds
  <1> QED BY <1>2, <1>3

LEMMA ResetThrowsDoes ==
  ASSUME FlowsOK, NEW p \in Process, ResetThrows(p), load[p]["reload"].pc = "none"
  PROVE  /\ \/ reset'[p].pc = "reload" /\ load'[p]["reload"].pc = "read" /\ held[p]
            \/ reset'[p].pc = "none" /\ load'[p]["reload"].pc = "none"
         /\ load'[p]["boot"] = load[p]["boot"]
         /\ \A q \in Process \ {p} : reset'[q] = reset[q] /\ load'[q] = load[q]
  <1>0. "boot" \in Load \ {"reload"} /\ "reload" \in Load
    BY DEF Load
  <1>1. CASE held[p] /\ ~Stopping(p)
    <2>1. /\ reset' = [reset EXCEPT ![p].pc = "reload"]
          /\ load' = [load EXCEPT ![p]["reload"].pc = "read"]
      BY <1>1 DEF ResetThrows
    <2>2. /\ load'[p]["reload"].pc = "read"
          /\ \A g \in Load \ {"reload"} : load'[p][g] = load[p][g]
          /\ \A q \in Process \ {p} : load'[q] = load[q]
      <3>1. LoadTo(p, "reload", "read")
        BY <2>1 DEF LoadTo
      <3> QED BY <1>0, <3>1, LoadMoves
    <2> QED BY <1>0, <1>1, <2>1, <2>2, ResetMoves
  <1>2. CASE ~(held[p] /\ ~Stopping(p))
    BY <1>2, ResetEndsDoes DEF ResetThrows
  <1> QED BY <1>1, <1>2

-------------------------------------------------------------------------------
(* A step of one process keeps the control invariant, if it keeps its own part. *)

LEMMA ControlStep ==
  ASSUME ControlOK, NEW p \in Process, Elsewhere(p), Control(p)'
  PROVE  ControlOK'
  <1>1. ASSUME NEW q \in Process \ {p}
        PROVE  Control(q)'
    <2>1. Same(q) /\ Control(q)
      BY DEF Elsewhere, ControlOK
    <2>2. Writes(q)' = Writes(q)
      BY <2>1 DEF Writes, Same
    <2>3. Free(q)' <=> Free(q)
      BY <2>1 DEF Free, Same, SameFlow
    <2>5. OneFlow(q)' /\ TicksOwned(q)'
      BY <2>1, <2>3 DEF Control, OneFlow, TicksOwned, Same, SameFlow
    <2>6. \A w \in Writes(q)' : Waits(q, w)'
      BY <2>1, <2>2 DEF Control, QueueOK, Waits, Same, SameFlow
    <2>7. Ordered(chain[q])' /\ ReadsSettled(q)'
      BY <2>1, <2>2 DEF Control, QueueOK, Ordered, ReadsSettled, Same, SameFlow
    <2> QED BY <2>5, <2>6, <2>7 DEF Control, QueueOK
  <1> QED BY <1>1 DEF ControlOK

\* The queue of p as far as flows are concerned: it is as it was, or it lost its head.
LEMMA QueueShrinks ==
  ASSUME NEW p \in Process, QueueOK(p), Ordered(chain'[p]),
         Elems(chain'[p]) \subseteq Elems(chain[p]),
         \A w \in Elems(chain'[p]) : Waits(p, w)', ReadsSettled(p)'
  PROVE  QueueOK(p)'
  BY WritesAre DEF QueueOK, Ordered

\* A queue of calm writes.
LEMMA QueueCalms ==
  ASSUME NEW p \in Process, \A w \in Elems(chain'[p]) : Calm(w), ReadsSettled(p)'
  PROVE  QueueOK(p)'
  <1>1. \A w \in Writes(p)' : Waits(p, w)'
    BY WritesAre DEF Waits, Calm
  <1>2. Ordered(chain[p])'
    BY DEF Ordered, Elems
  <1> QED BY <1>1, <1>2 DEF QueueOK

\* Calm writes and a last one that a flow waits for.
LEMMA QueueGains ==
  ASSUME NEW p \in Process, NEW s \in Seq(Write), NEW w \in Write,
         chain'[p] = Append(s, w), \A v \in Elems(s) : Calm(v),
         Waits(p, w)', ReadsSettled(p)'
  PROVE  QueueOK(p)'
  <1>1. Ordered(s)
    BY DEF Ordered, Elems
  <1>2. Ordered(Append(s, w)) /\ \A v \in Elems(Append(s, w)) : v \in Elems(s) \/ v = w
    BY <1>1, Appended
  <1>3. ASSUME NEW v \in Writes(p)' PROVE Waits(p, v)'
    <2>1. v \in Elems(Append(s, w))
      BY <1>3, WritesAre
    <2>2. CASE v = w
      BY <2>2
    <2>3. CASE Calm(v)
      BY <2>3 DEF Waits, Calm
    <2> QED BY <1>2, <2>1, <2>2, <2>3
  <1>4. Ordered(chain[p])'
    BY <1>2 DEF Ordered
  <1> QED BY <1>3, <1>4 DEF QueueOK

-------------------------------------------------------------------------------
(* Every action keeps the control invariant.                                   *)

\* No process is touched.
LEMMA UntouchedControl ==
  ASSUME ControlOK, UNCHANGED <<memory, flows>>
  PROVE  ControlOK'
  <1>1. UNCHANGED <<mode, held, halt, critical, admin, reset, load, chain>>
    BY DEF memory, flows
  <1> QED BY <1>1 DEF ControlOK, Control, Free, OneFlow, TicksOwned, QueueOK,
                      ReadsSettled, Waits, Ordered, Writes, Calm

\* The flows and the queue of p go on as they are.
LEMMA QuietControl ==
  ASSUME ControlOK, NEW p \in Process, Elsewhere(p), chain'[p] = chain[p],
         critical'[p].pc = critical[p].pc, admin'[p] = admin[p],
         reset'[p] = reset[p], load'[p] = load[p],
         mode'[p] = "running" => mode[p] = "running", TicksOwned(p)'
  PROVE  ControlOK'
  <1>1. OneFlow(p) /\ QueueOK(p)
    BY DEF ControlOK, Control
  <1>2. Writes(p)' = Writes(p)
    BY DEF Writes
  <1>3. Free(p)' <=> Free(p)
    BY DEF Free
  <1>5. OneFlow(p)'
    BY <1>1, <1>3 DEF OneFlow
  <1>6. \A w \in Writes(p)' : Waits(p, w)'
    BY <1>1, <1>2 DEF QueueOK, Waits
  <1>7. Ordered(chain[p])' /\ ReadsSettled(p)'
    BY <1>1, <1>2 DEF QueueOK, Ordered, ReadsSettled
  <1> QED BY <1>5, <1>6, <1>7, ControlStep DEF Control, QueueOK

\* Losing the lock, the start of shutdown() and the end of a reset's delay.
LEMMA LockLostControl ==
  ASSUME TypeOK, ControlOK, NEW p \in Process, LockLost(p)
  PROVE  Elsewhere(p) /\ ControlOK'
  <1>0. MemoryOK /\ FlowsOK /\ TicksOwned(p)
    BY DEF TypeOK, ControlOK, Control
  <1>1. /\ held'[p] = FALSE
        /\ \A q \in Process \ {p} : held'[q] = held[q]
        /\ UNCHANGED <<halt, admin, reset, load, chain>>
    BY <1>0 DEF LockLost, MemoryOK
  <1>2. CASE Stopping(p)
    <2>1. UNCHANGED <<mode, live, critical>>
      BY <1>2 DEF LockLost
    <2>2. TicksOwned(p)'
      BY <1>0, <1>1, <1>2, <2>1 DEF TicksOwned, Stopping, MemoryOK
    <2> QED BY <1>1, <2>1, <2>2, QuietControl DEF Elsewhere, Same, SameFlow
  <1>3. CASE ~Stopping(p)
    <2>1. Assign(p, NoState) /\ mode' = [mode EXCEPT ![p] = "standby"]
      BY <1>3 DEF LockLost
    <2>2. mode'[p] = "standby" /\ \A q \in Process \ {p} : mode'[q] = mode[q]
      BY <1>0, <2>1 DEF MemoryOK
    <2>3. /\ critical'[p].pc = critical[p].pc
          /\ \A q \in Process \ {p} : live'[q] = live[q] /\ critical'[q] = critical[q]
      BY <1>0, <2>1, AssignDoes
    <2>4. TicksOwned(p)'
      BY <2>2 DEF TicksOwned
    <2> QED BY <1>1, <2>2, <2>3, <2>4, QuietControl DEF Elsewhere, Same, SameFlow
  <1> QED BY <1>2, <1>3

LEMMA ShutdownControl ==
  ASSUME TypeOK, ControlOK, NEW p \in Process, Shutdown(p)
  PROVE  Elsewhere(p) /\ ControlOK'
  <1>0. MemoryOK /\ TicksOwned(p)
    BY DEF TypeOK, ControlOK, Control
  <1>1. /\ halt'[p] = "flows" /\ \A q \in Process \ {p} : halt'[q] = halt[q]
        /\ UNCHANGED <<mode, held, live, critical, admin, reset, load, chain>>
    BY <1>0 DEF Shutdown, MemoryOK, flows
  <1>2. TicksOwned(p)'
    BY <1>1 DEF TicksOwned
  <1> QED BY <1>1, <1>2, QuietControl DEF Elsewhere, Same, SameFlow

LEMMA BackoffOverControl ==
  ASSUME TypeOK, ControlOK, NEW p \in Process, BackoffOver(p)
  PROVE  Elsewhere(p) /\ ControlOK'
  <1>1. UNCHANGED <<mode, held, halt, live, critical, admin, reset, load, chain>>
    BY DEF BackoffOver, flows
  <1>2. TicksOwned(p)'
    BY <1>1 DEF TicksOwned, ControlOK, Control
  <1> QED BY <1>1, <1>2, QuietControl DEF Elsewhere, Same, SameFlow

\* A crash leaves nothing of p's memory.
LEMMA RestartControl ==
  ASSUME TypeOK, ControlOK, NEW p \in Process, Restart(p)
  PROVE  Elsewhere(p) /\ ControlOK'
  <1>0. MemoryOK /\ FlowsOK
    BY DEF TypeOK
  <1>1. /\ mode'[p] = "starting" /\ held'[p] = FALSE /\ halt'[p] = "no"
        /\ \A q \in Process \ {p} : /\ mode'[q] = mode[q] /\ held'[q] = held[q]
                                    /\ halt'[q] = halt[q] /\ live'[q] = live[q]
    BY <1>0 DEF Restart, MemoryOK
  <1>2. /\ critical'[p] = NoCritical /\ admin'[p] = "none" /\ reset'[p] = NoReset
        /\ load'[p] = [f \in Load |-> NoLoad] /\ chain'[p] = <<>>
        /\ \A q \in Process \ {p} : /\ critical'[q] = critical[q] /\ admin'[q] = admin[q]
                                    /\ reset'[q] = reset[q] /\ load'[q] = load[q]
                                    /\ chain'[q] = chain[q]
    BY <1>0 DEF Restart, FlowsOK
  <1>3. /\ critical'[p].pc = "none" /\ admin'[p] = "none" /\ reset'[p].pc = "none"
        /\ load'[p]["boot"].pc = "none" /\ load'[p]["reload"].pc = "none"
    BY <1>2 DEF NoCritical, NoReset, NoLoad, Load
  <1>4. Elems(chain'[p]) = {}
    <2>1. Len(chain'[p]) = 0
      BY <1>2
    <2> QED BY <2>1 DEF Elems
  <1>5. Free(p)'
    BY <1>3 DEF Free
  <1>6. OneFlow(p)' /\ TicksOwned(p)'
    BY <1>1, <1>3, <1>5 DEF OneFlow, TicksOwned
  <1>7. ReadsSettled(p)'
    BY <1>4, WritesAre DEF ReadsSettled
  <1>8. QueueOK(p)'
    BY <1>4, <1>7, QueueCalms
  <1> QED BY <1>1, <1>2, <1>6, <1>8, ControlStep DEF Elsewhere, Same, SameFlow, Control

\* The lock is taken, or somebody else holds it, or acquire() throws.  Only here is
\* Punctual needed: nothing that the process had under way as an earlier owner is left.
LEMMA TryStartControl ==
  ASSUME TypeOK, ControlOK, Owning, Punctual, NEW p \in Process, TryStart(p)
  PROVE  Elsewhere(p) /\ ControlOK'
  <1>0. MemoryOK /\ FlowsOK /\ TicksOwned(p) /\ ~held[p] /\ ~Stopping(p)
    BY DEF TypeOK, ControlOK, Control, Owning, Own, TryStart
  <1>1. UNCHANGED <<halt, live, critical, admin, reset, chain>>
    BY DEF TryStart
  <1>2. CASE mode' = [mode EXCEPT ![p] = "standby"] /\ UNCHANGED <<held, load>>
    <2>1. mode'[p] = "standby" /\ \A q \in Process \ {p} : mode'[q] = mode[q]
      BY <1>0, <1>2 DEF MemoryOK
    <2>2. TicksOwned(p)'
      BY <2>1 DEF TicksOwned
    <2> QED BY <1>1, <1>2, <2>1, <2>2, QuietControl DEF Elsewhere, Same, SameFlow
  <1>3. CASE /\ held' = [held EXCEPT ![p] = TRUE] /\ mode' = mode
             /\ load' = [load EXCEPT ![p]["boot"].pc = "read"]
    <2>1. held'[p] /\ \A q \in Process \ {p} : held'[q] = held[q]
      BY <1>0, <1>3 DEF MemoryOK
    <2>2. LoadTo(p, "boot", "read")
      BY <1>3 DEF LoadTo
    <2>3. /\ load'[p]["boot"].pc = "read"
          /\ \A g \in Load \ {"boot"} : load'[p][g] = load[p][g]
          /\ \A q \in Process \ {p} : load'[q] = load[q]
      BY <1>0, <2>2, FlowNames, LoadMoves
    <2>4. Free(p) /\ chain'[p] = <<>> /\ mode'[p] # "running"
      <3>1. OwnSettled(p)
        BY <1>0, <2>1 DEF Punctual
      <3>2. mode[p] # "running"
        BY <1>0 DEF TicksOwned, Stopping
      <3> QED BY <1>1, <1>3, <3>1, <3>2, FlowNames DEF OwnSettled, Free
    <2>5. Elems(chain'[p]) = {}
      <3>1. Len(chain'[p]) = 0
        BY <2>4
      <3> QED BY <3>1 DEF Elems
    <2>6. QueueOK(p)'
      <3>1. ReadsSettled(p)'
        BY <2>5, WritesAre DEF ReadsSettled
      <3> QED BY <2>5, <3>1, QueueCalms
    <2>7. OneFlow(p)' /\ TicksOwned(p)'
      <3>1. "reload" \in Load \ {"boot"}
        BY DEF Load
      <3> QED BY <1>1, <2>3, <2>4, <3>1 DEF OneFlow, TicksOwned, Free
    <2> QED BY <1>1, <1>3, <2>1, <2>3, <2>6, <2>7, ControlStep
            DEF Elsewhere, Same, SameFlow, Control
  <1> QED BY <1>2, <1>3 DEF TryStart

\* The write in flight leaves the queue of p with its flow, and only calm writes stay.
LEMMA HeadLeaves ==
  ASSUME FlowsOK, NEW p \in Process, Control(p), chain[p] # <<>>,
         chain'[p] = Tail(chain[p]), ~Calm(Head(chain[p]))
  PROVE  /\ \A v \in Elems(chain'[p]) : v \in Elems(chain[p]) /\ Calm(v)
         /\ ReadsSettled(p)' /\ QueueOK(p)'
  <1>1. \A v \in Elems(chain'[p]) :
          v \in Elems(chain[p]) /\ v.flow = "final" /\ v.op = "drain" /\ Calm(v)
    BY Behind
  <1>2. ReadsSettled(p)'
    BY <1>1, WritesAre DEF ReadsSettled
  <1> QED BY <1>1, <1>2, QueueCalms

\* ... or is replaced by the next write of its flow.
LEMMA HeadReplaced ==
  ASSUME FlowsOK, NEW p \in Process, Control(p), chain[p] # <<>>, NEW w \in Write,
         chain'[p] = Append(Tail(chain[p]), w), ~Calm(Head(chain[p])),
         Waits(p, w)', \A f \in Load : load'[p][f].pc \notin {"read", "got", "seed", "seeded"}
  PROVE  /\ \A v \in Elems(chain'[p]) : (v \in Elems(chain[p]) /\ Calm(v)) \/ v = w
         /\ QueueOK(p)'
  <1>1. \A v \in Elems(Tail(chain[p])) : v \in Elems(chain[p]) /\ Calm(v)
    BY Behind
  <1>2. chain[p] \in Seq(Write) /\ Tail(chain[p]) \in Seq(Write) /\ Ordered(Tail(chain[p]))
    BY Popped DEF FlowsOK, Control, QueueOK
  <1>3. ReadsSettled(p)'
    BY DEF ReadsSettled
  <1>4. QueueOK(p)'
    BY <1>1, <1>2, <1>3, QueueGains
  <1>5. \A v \in Elems(Append(Tail(chain[p]), w)) : v \in Elems(Tail(chain[p])) \/ v = w
    <2>1. Ordered(Tail(chain[p])) /\ \A v \in Elems(Tail(chain[p])) : Calm(v)
      BY <1>1, <1>2
    <2> QED BY <1>2, <2>1, Appended
  <1> QED BY <1>1, <1>4, <1>5

\* A write joins a queue of calm writes.
LEMMA WriteJoins ==
  ASSUME FlowsOK, NEW p \in Process, NEW w \in Write, chain'[p] = Append(chain[p], w),
         \A v \in Elems(chain[p]) : Calm(v),
         Waits(p, w)', \A f \in Load : load'[p][f].pc \notin {"read", "got", "seed", "seeded"}
  PROVE  /\ \A v \in Elems(chain'[p]) : (v \in Elems(chain[p]) /\ Calm(v)) \/ v = w
         /\ QueueOK(p)'
  <1>1. chain[p] \in Seq(Write) /\ Ordered(chain[p])
    BY DEF FlowsOK, Ordered, Elems
  <1>2. ReadsSettled(p)'
    BY DEF ReadsSettled
  <1>3. QueueOK(p)'
    BY <1>1, <1>2, QueueGains
  <1> QED BY <1>1, <1>3, Appended

\* An answered or failed write of a flow other than the tick loop and shutdown() is not calm,
\* and its flow waits for it.
LEMMA InFlight ==
  ASSUME FlowsOK, NEW p \in Process, Control(p), NEW f \in Flow, f \notin {"tick", "final"},
         chain[p] # <<>>, Head(chain[p]).flow = f
  PROVE  /\ ~Calm(Head(chain[p])) /\ Waits(p, Head(chain[p])) /\ Head(chain[p]).flow = f
         /\ Head(chain[p]) \in Elems(chain[p]) /\ Head(chain[p]) \in Write
  <1>1. ~Calm(Head(chain[p]))
    BY DEF Calm
  <1>2. Head(chain[p]) \in Elems(chain[p]) /\ Head(chain[p]) \in Write
    BY Popped DEF FlowsOK, Control, QueueOK
  <1> QED BY <1>1, <1>2, Behind

-------------------------------------------------------------------------------
(* The critical save.                                                          *)

LEMMA CriticalSavedControl ==
  ASSUME TypeOK, ControlOK, NEW p \in Process, CriticalSaved(p)
  PROVE  Elsewhere(p) /\ ControlOK'
  <1>0. MemoryOK /\ FlowsOK /\ Control(p) /\ OneFlow(p) /\ TicksOwned(p)
    BY DEF TypeOK, ControlOK, Control
  <1>1. /\ chain[p] # <<>> /\ Head(chain[p]).flow = "critical"
        /\ Pop(p) /\ EndCritical(p)
        /\ UNCHANGED <<held, halt, live, admin, reset, load>>
    BY DEF CriticalSaved, Answered
  <1>2. ~Calm(Head(chain[p])) /\ Waits(p, Head(chain[p]))
    BY <1>0, <1>1, FlowNames, InFlight
  <1>3. critical[p].pc = "write"
    BY <1>1, <1>2 DEF Waits
  <1>4. chain'[p] = Tail(chain[p]) /\ \A q \in Process \ {p} : chain'[q] = chain[q]
    BY <1>0, <1>1, PopDoes
  <1>5. critical'[p].pc = "none" /\ \A q \in Process \ {p} : critical'[q] = critical[q]
    BY <1>0, <1>1, EndCriticalDoes
  <1>6. /\ mode'[p] = "running" => held[p] /\ ~Stopping(p)
        /\ \A q \in Process \ {p} : mode'[q] = mode[q]
    <2>1. mode[p] # "running"
      BY <1>0, <1>3 DEF OneFlow, Free
    <2>2. Start(p) \/ UNCHANGED mode
      BY DEF CriticalSaved
    <2> QED BY <1>0, <2>1, <2>2, StartDoes
  <1>7. QueueOK(p)'
    BY <1>0, <1>1, <1>2, <1>4, HeadLeaves
  <1>8. OneFlow(p)' /\ TicksOwned(p)'
    BY <1>0, <1>1, <1>3, <1>5, <1>6 DEF OneFlow, TicksOwned, Free, Stopping
  <1> QED BY <1>1, <1>4, <1>5, <1>6, <1>7, <1>8, ControlStep
          DEF Elsewhere, Same, SameFlow, Control

LEMMA CriticalFailsControl ==
  ASSUME TypeOK, ControlOK, NEW p \in Process, CriticalFails(p)
  PROVE  Elsewhere(p) /\ ControlOK'
  <1>0. MemoryOK /\ FlowsOK /\ Control(p) /\ OneFlow(p) /\ TicksOwned(p)
    BY DEF TypeOK, ControlOK, Control
  <1>1. /\ chain[p] # <<>> /\ Head(chain[p]).flow = "critical" /\ Pop(p)
        /\ UNCHANGED <<mode, held, halt, live, admin, reset, load>>
    BY DEF CriticalFails, Fails, memory
  <1>2. ~Calm(Head(chain[p])) /\ Waits(p, Head(chain[p]))
    BY <1>0, <1>1, FlowNames, InFlight
  <1>3. critical[p].pc = "write"
    BY <1>1, <1>2 DEF Waits
  <1>4. chain'[p] = Tail(chain[p]) /\ \A q \in Process \ {p} : chain'[q] = chain[q]
    BY <1>0, <1>1, PopDoes
  <1>5. \A q \in Process \ {p} : critical'[q] = critical[q]
    <2>1. CASE Unreplaced(p)
      BY <1>0, <2>1, CriticalMoves DEF CriticalFails
    <2>2. CASE ~Unreplaced(p)
      BY <1>0, <2>2, EndCriticalDoes DEF CriticalFails
    <2> QED BY <2>1, <2>2
  <1>6. QueueOK(p)'
    BY <1>0, <1>1, <1>2, <1>4, HeadLeaves
  <1>7. OneFlow(p)' /\ TicksOwned(p)'
    BY <1>0, <1>1, <1>3 DEF OneFlow, TicksOwned, Free
  <1> QED BY <1>1, <1>4, <1>5, <1>6, <1>7, ControlStep DEF Elsewhere, Same, SameFlow, Control

LEMMA CriticalRetryControl ==
  ASSUME TypeOK, ControlOK, NEW p \in Process, CriticalRetry(p)
  PROVE  Elsewhere(p) /\ ControlOK'
  <1>0. MemoryOK /\ FlowsOK /\ EnvOK /\ Control(p) /\ OneFlow(p) /\ TicksOwned(p)
    BY DEF TypeOK, ControlOK, Control
  <1>1. /\ critical[p].pc = "backoff"
        /\ UNCHANGED <<mode, held, halt, live, admin, reset, load>>
    BY DEF CriticalRetry, memory
  <1>2. \A v \in Elems(chain[p]) : Calm(v)
    BY <1>0, <1>1, Unwaited DEF OneFlow
  <1>3. \A f \in Load : load'[p][f].pc \notin {"read", "got", "seed", "seeded"}
    BY <1>0, <1>1 DEF OneFlow, Load
  <1>4. OneFlow(p)' /\ TicksOwned(p)'
    BY <1>0, <1>1 DEF OneFlow, TicksOwned, Free
  <1>5. CASE Unreplaced(p)
    <2>1. PICK w \in Write :
            w = Entry("critical", "commit", live[p], critical[p].events, RetryBatch(p))
      <3>1. critical[p] \in CriticalState
        BY <1>0 DEF FlowsOK
      <3>2. critical[p].events \in SUBSET Event /\ RetryBatch(p) \in Nat
        BY <3>1 DEF CriticalState, RetryBatch
      <3> QED BY <1>0, <3>2, EntryType, FlowNames DEF MemoryOK, EnvOK
    <2>2. /\ Queue(p, w) /\ critical' = [critical EXCEPT ![p].pc = "write"]
          /\ w.flow = "critical" /\ w.op = "commit"
      BY <1>5, <2>1 DEF CriticalRetry, Entry
    <2>3. critical'[p].pc = "write" /\ \A q \in Process \ {p} : critical'[q] = critical[q]
      BY <1>0, <2>2, CriticalMoves
    <2>4. chain'[p] = Append(chain[p], w) /\ \A q \in Process \ {p} : chain'[q] = chain[q]
      BY <1>0, <2>2, QueueDoes
    <2>5. Waits(p, w)'
      BY <2>2, <2>3 DEF Waits
    <2>6. QueueOK(p)'
      BY <1>0, <1>2, <1>3, <2>2, <2>4, <2>5, WriteJoins
    <2> QED BY <1>1, <1>4, <2>3, <2>4, <2>6, ControlStep DEF Elsewhere, Same, SameFlow, Control
  <1>6. CASE ~Unreplaced(p)
    <2>1. EndCritical(p) /\ chain' = chain
      BY <1>6 DEF CriticalRetry
    <2>2. \A q \in Process \ {p} : critical'[q] = critical[q]
      BY <1>0, <2>1, EndCriticalDoes
    <2>3. ReadsSettled(p)'
      BY <1>3 DEF ReadsSettled
    <2>4. QueueOK(p)'
      BY <1>2, <2>1, <2>3, QueueCalms
    <2> QED BY <1>1, <1>4, <2>1, <2>2, <2>4, ControlStep DEF Elsewhere, Same, SameFlow, Control
  <1> QED BY <1>5, <1>6

\* The tick loop, which runs when no flow does.
LEMMA TickingIsFree ==
  ASSUME NEW p \in Process, Control(p), mode[p] = "running"
  PROVE  /\ Free(p) /\ \A v \in Elems(chain[p]) : Calm(v)
         /\ \A f \in Load : load[p][f].pc = "none"
  <1>1. OneFlow(p) /\ Free(p)
    BY DEF Control, OneFlow
  <1> QED BY <1>1, Unwaited DEF Free, Load

LEMMA CriticalTickControl ==
  ASSUME TypeOK, ControlOK, NEW p \in Process, NEW E \in SUBSET Event, CriticalTick(p, E)
  PROVE  Elsewhere(p) /\ ControlOK'
  <1>0. MemoryOK /\ FlowsOK /\ EnvOK /\ Control(p) /\ OneFlow(p) /\ TicksOwned(p)
    BY DEF TypeOK, ControlOK, Control
  <1> DEFINE image == [live[p] EXCEPT !.hist = @ \cup E]
             c == [pc |-> "write", events |-> E, batch |-> ids.batches + 1, fresh |-> TRUE]
  <1>1. PICK w \in Write : w = Entry("critical", "commit", image, E, ids.batches + 1)
    <2>1. image \in Image
      BY <1>0, GrownType DEF MemoryOK, CriticalTick, CanTick
    <2> QED BY <1>0, <2>1, EntryType, FreshType, FlowNames DEF EnvOK
  <1>2. /\ mode[p] = "running" /\ Pause(p) /\ Queue(p, w)
        /\ live' = [live EXCEPT ![p] = image] /\ critical' = [critical EXCEPT ![p] = c]
        /\ w.flow = "critical" /\ w.op = "commit" /\ c.pc = "write"
        /\ UNCHANGED <<held, halt, admin, reset, load>>
    BY <1>1 DEF CriticalTick, CanTick, Entry
  <1>3. Free(p) /\ (\A v \in Elems(chain[p]) : Calm(v)) /\ \A f \in Load : load[p][f].pc = "none"
    BY <1>0, <1>2, TickingIsFree
  <1>4. /\ mode'[p] = "starting" /\ \A q \in Process \ {p} : mode'[q] = mode[q]
        /\ chain'[p] = Append(chain[p], w) /\ \A q \in Process \ {p} : chain'[q] = chain[q]
    BY <1>0, <1>2, PauseDoes, QueueDoes
  <1>5. /\ critical'[p].pc = "write"
        /\ \A q \in Process \ {p} : live'[q] = live[q] /\ critical'[q] = critical[q]
    BY <1>0, <1>2 DEF MemoryOK, FlowsOK
  <1>6. Waits(p, w)'
    BY <1>2, <1>5 DEF Waits
  <1>7. QueueOK(p)'
    <2>1. \A f \in Load : load'[p][f].pc \notin {"read", "got", "seed", "seeded"}
      BY <1>2, <1>3
    <2> QED BY <1>0, <1>3, <1>4, <1>6, <2>1, WriteJoins
  <1>8. OneFlow(p)' /\ TicksOwned(p)'
    BY <1>0, <1>2, <1>3, <1>4 DEF OneFlow, TicksOwned, Free
  <1> QED BY <1>2, <1>4, <1>5, <1>7, <1>8, ControlStep DEF Elsewhere, Same, SameFlow, Control

\* The flows of p are as they were; only its queue moved.
LEMMA QueueOnlyControl ==
  ASSUME ControlOK, NEW p \in Process, \A q \in Process : SameFlow(q),
         \A q \in Process \ {p} : chain'[q] = chain[q], QueueOK(p)'
  PROVE  Elsewhere(p) /\ ControlOK'
  <1>1. OneFlow(p)' /\ TicksOwned(p)'
    BY DEF ControlOK, Control, OneFlow, TicksOwned, Free, SameFlow
  <1> QED BY <1>1, ControlStep DEF Elsewhere, Same, Control

LEMMA CheckpointControl ==
  ASSUME TypeOK, ControlOK, NEW p \in Process, CheckpointTick(p) \/ CheckpointSettles(p)
  PROVE  Elsewhere(p) /\ ControlOK'
  <1>0. MemoryOK /\ FlowsOK /\ EnvOK /\ Control(p) /\ QueueOK(p)
    BY DEF TypeOK, ControlOK, Control
  <1>1. UNCHANGED <<mode, held, halt, live, critical, admin, reset, load>>
    BY DEF CheckpointTick, CheckpointSettles, memory
  <1>2. \A q \in Process : SameFlow(q)
    BY <1>1 DEF SameFlow
  <1>3. CASE CheckpointTick(p)
    <2>1. PICK w \in Write : w = Checkpoint("tick", live[p])
      BY <1>0, CheckpointType, FlowNames DEF MemoryOK, EnvOK
    <2>2. mode[p] = "running" /\ Queue(p, w) /\ Calm(w)
      BY <1>3, <2>1 DEF CheckpointTick, CanTick, Checkpoint, Entry, Calm
    <2>3. (\A v \in Elems(chain[p]) : Calm(v)) /\ \A f \in Load : load[p][f].pc = "none"
      BY <1>0, <2>2, TickingIsFree
    <2>4. chain'[p] = Append(chain[p], w) /\ \A q \in Process \ {p} : chain'[q] = chain[q]
      BY <1>0, <2>2, QueueDoes
    <2>5. Waits(p, w)'
      BY <2>2 DEF Waits, Calm
    <2>6. QueueOK(p)'
      <3>1. \A f \in Load : load'[p][f].pc \notin {"read", "got", "seed", "seeded"}
        BY <1>1, <2>3
      <3> QED BY <1>0, <2>2, <2>3, <2>4, <2>5, <3>1, WriteJoins
    <2> QED BY <1>2, <2>2, <2>4, <2>6, QueueOnlyControl
  <1>4. CASE CheckpointSettles(p)
    <2>1. chain[p] # <<>> /\ Pop(p) /\ Head(chain[p]).op # "drain"
      BY <1>4 DEF CheckpointSettles, Answered, Fails
    <2>2. chain'[p] = Tail(chain[p]) /\ \A q \in Process \ {p} : chain'[q] = chain[q]
      BY <1>0, <2>1, PopDoes
    <2>3. /\ Ordered(chain'[p]) /\ Elems(chain'[p]) \subseteq Elems(chain[p])
          /\ Head(chain[p]) \in Elems(chain[p])
      BY <1>0, <2>1, <2>2, Popped DEF QueueOK, FlowsOK
    <2>4. \A w \in Elems(chain'[p]) : Waits(p, w)'
      BY <1>0, <1>1, <2>3, WritesAre DEF QueueOK, Waits
    <2>5. ReadsSettled(p)'
      BY <1>0, <1>1, <2>3, WritesAre DEF QueueOK, ReadsSettled
    <2>6. QueueOK(p)'
      BY <1>0, <2>3, <2>4, <2>5, QueueShrinks
    <2> QED BY <1>2, <2>2, <2>6, QueueOnlyControl
  <1> QED BY <1>3, <1>4

-------------------------------------------------------------------------------
(* Keeper actions.                                                             *)

LEMMA AdminMutateControl ==
  ASSUME TypeOK, ControlOK, NEW p \in Process, AdminMutate(p)
  PROVE  Elsewhere(p) /\ ControlOK'
  <1>0. MemoryOK /\ FlowsOK /\ EnvOK /\ Control(p) /\ OneFlow(p) /\ TicksOwned(p)
    BY DEF TypeOK, ControlOK, Control
  <1>1. PICK w \in Write : w = Drain("admin")
    BY <1>0, DrainType, FlowNames DEF EnvOK
  <1>2. /\ mode[p] = "running" /\ Pause(p) /\ Queue(p, w)
        /\ admin' = [admin EXCEPT ![p] = "drain"]
        /\ w.flow = "admin" /\ w.op = "drain"
        /\ UNCHANGED <<held, halt, live, critical, reset, load>>
    BY <1>1 DEF AdminMutate, Drain, Entry
  <1>3. Free(p) /\ (\A v \in Elems(chain[p]) : Calm(v)) /\ \A f \in Load : load[p][f].pc = "none"
    BY <1>0, <1>2, TickingIsFree
  <1>4. /\ mode'[p] = "starting" /\ \A q \in Process \ {p} : mode'[q] = mode[q]
        /\ chain'[p] = Append(chain[p], w) /\ \A q \in Process \ {p} : chain'[q] = chain[q]
    BY <1>0, <1>2, PauseDoes, QueueDoes
  <1>5. admin'[p] = "drain" /\ \A q \in Process \ {p} : admin'[q] = admin[q]
    BY <1>0, <1>2 DEF FlowsOK
  <1>6. Waits(p, w)'
    BY <1>2, <1>5 DEF Waits
  <1>7. QueueOK(p)'
    <2>1. \A f \in Load : load'[p][f].pc \notin {"read", "got", "seed", "seeded"}
      BY <1>2, <1>3
    <2> QED BY <1>0, <1>3, <1>4, <1>6, <2>1, WriteJoins
  <1>8. OneFlow(p)' /\ TicksOwned(p)'
    BY <1>0, <1>2, <1>3, <1>4 DEF OneFlow, TicksOwned, Free
  <1> QED BY <1>2, <1>4, <1>5, <1>7, <1>8, ControlStep DEF Elsewhere, Same, SameFlow, Control

\* The write that a keeper action waits for is the first of the queue.
LEMMA AdminWaits ==
  ASSUME FlowsOK, NEW p \in Process, Control(p), chain[p] # <<>>,
         Head(chain[p]).flow = "admin"
  PROVE  /\ ~Calm(Head(chain[p])) /\ mode[p] # "running"
         /\ critical[p].pc = "none" /\ reset[p].pc = "none"
         /\ \A f \in Load : load[p][f].pc = "none"
  <1>1. ~Calm(Head(chain[p])) /\ Waits(p, Head(chain[p]))
    BY FlowNames, InFlight
  <1>2. admin[p] # "none" /\ OneFlow(p)
    BY <1>1 DEF Waits, Control
  <1> QED BY <1>1, <1>2 DEF OneFlow, Free, Load

LEMMA AdminDrainedControl ==
  ASSUME TypeOK, ControlOK, NEW p \in Process, NEW E \in SUBSET Event, AdminDrained(p, E)
  PROVE  Elsewhere(p) /\ ControlOK'
  <1>0. MemoryOK /\ FlowsOK /\ EnvOK /\ Control(p) /\ OneFlow(p) /\ TicksOwned(p)
    BY DEF TypeOK, ControlOK, Control
  <1>1. /\ chain[p] # <<>> /\ Head(chain[p]).flow = "admin"
        /\ UNCHANGED <<held, halt, live, critical, reset, load>>
    BY DEF AdminDrained, Answered
  <1>2. /\ ~Calm(Head(chain[p])) /\ mode[p] # "running"
        /\ critical[p].pc = "none" /\ reset[p].pc = "none"
        /\ \A f \in Load : load[p][f].pc = "none"
    BY <1>0, <1>1, AdminWaits
  <1>3. CASE held[p] /\ live[p] # NoState /\ ~Stopping(p) /\ E # {}
    <2>1. PICK w \in Write : w = Entry("admin", "commit", [live[p] EXCEPT !.hist = @ \cup E], E,
                                       ids.batches + 1)
      <3>1. [live[p] EXCEPT !.hist = @ \cup E] \in Image
        BY <1>0, <1>3, GrownType DEF MemoryOK
      <3> QED BY <1>0, <3>1, EntryType, FreshType, FlowNames DEF EnvOK
    <2>2. /\ PopQueue(p, w) /\ admin' = [admin EXCEPT ![p] = "write"] /\ mode' = mode
          /\ w.flow = "admin" /\ w.op = "commit"
      BY <1>3, <2>1 DEF AdminDrained, Entry
    <2>3. /\ chain'[p] = Append(Tail(chain[p]), w)
          /\ \A q \in Process \ {p} : chain'[q] = chain[q]
      BY <1>0, <2>2, PopQueueDoes
    <2>4. admin'[p] = "write" /\ \A q \in Process \ {p} : admin'[q] = admin[q]
      BY <1>0, <2>2 DEF FlowsOK
    <2>5. Waits(p, w)'
      BY <2>2, <2>4 DEF Waits
    <2>6. QueueOK(p)'
      <3>1. \A f \in Load : load'[p][f].pc \notin {"read", "got", "seed", "seeded"}
        BY <1>1, <1>2
      <3> QED BY <1>0, <1>1, <1>2, <2>3, <2>5, <3>1, HeadReplaced
    <2>7. OneFlow(p)' /\ TicksOwned(p)'
      BY <1>0, <1>1, <1>2, <2>2 DEF OneFlow, TicksOwned, Free, Load
    <2> QED BY <1>1, <1>2, <2>2, <2>3, <2>4, <2>6, <2>7, ControlStep
            DEF Elsewhere, Same, SameFlow, Control
  <1>4. CASE ~(held[p] /\ live[p] # NoState /\ ~Stopping(p) /\ E # {})
    <2>1. Pop(p) /\ AdminEnds(p)
      BY <1>4 DEF AdminDrained
    <2>2. chain'[p] = Tail(chain[p]) /\ \A q \in Process \ {p} : chain'[q] = chain[q]
      BY <1>0, <2>1, PopDoes
    <2>3. /\ admin'[p] = "none" /\ (mode'[p] = "running" => held[p] /\ ~Stopping(p))
          /\ \A q \in Process \ {p} : mode'[q] = mode[q] /\ admin'[q] = admin[q]
      BY <1>0, <1>2, <2>1, AdminEndsDoes
    <2>4. QueueOK(p)'
      BY <1>0, <1>1, <1>2, <2>2, HeadLeaves
    <2>5. OneFlow(p)' /\ TicksOwned(p)'
      BY <1>0, <1>1, <1>2, <2>3 DEF OneFlow, TicksOwned, Free, Load, Stopping
    <2> QED BY <1>1, <1>2, <2>2, <2>3, <2>4, <2>5, ControlStep
            DEF Elsewhere, Same, SameFlow, Control
  <1> QED BY <1>3, <1>4

LEMMA AdminSettlesControl ==
  ASSUME TypeOK, ControlOK, NEW p \in Process, AdminSaved(p) \/ AdminFails(p)
  PROVE  Elsewhere(p) /\ ControlOK'
  <1>0. MemoryOK /\ FlowsOK /\ Control(p) /\ OneFlow(p) /\ TicksOwned(p)
    BY DEF TypeOK, ControlOK, Control
  <1>1. /\ chain[p] # <<>> /\ Head(chain[p]).flow = "admin" /\ Pop(p)
        /\ UNCHANGED <<held, halt, reset, load>>
    BY DEF AdminSaved, AdminFails, Answered, Fails
  <1>2. /\ ~Calm(Head(chain[p])) /\ mode[p] # "running"
        /\ critical[p].pc = "none" /\ reset[p].pc = "none"
        /\ \A f \in Load : load[p][f].pc = "none"
    BY <1>0, <1>1, AdminWaits
  <1>3. chain'[p] = Tail(chain[p]) /\ \A q \in Process \ {p} : chain'[q] = chain[q]
    BY <1>0, <1>1, PopDoes
  <1>4. QueueOK(p)'
    BY <1>0, <1>1, <1>2, <1>3, HeadLeaves
  <1>5. /\ admin'[p] = "none" /\ (mode'[p] = "running" => held[p] /\ ~Stopping(p))
        /\ critical'[p].pc = "none"
        /\ \A q \in Process \ {p} : /\ mode'[q] = mode[q] /\ admin'[q] = admin[q]
                                    /\ live'[q] = live[q] /\ critical'[q] = critical[q]
    <2>1. CASE AdminFails(p)
      <3>1. AdminEnds(p) /\ UNCHANGED <<live, critical>>
        BY <2>1 DEF AdminFails
      <3> QED BY <1>0, <1>2, <3>1, AdminEndsDoes
    <2>2. CASE AdminSaved(p)
      <3>1. admin'[p] = "none" /\ \A q \in Process \ {p} : admin'[q] = admin[q]
        BY <1>0, <2>2 DEF AdminSaved, FlowsOK
      <3>2. CASE held[p] /\ live[p] # NoState
        <4>1. Assign(p, Head(chain[p]).image) /\ Start(p)
          BY <2>2, <3>2 DEF AdminSaved
        <4> QED BY <1>0, <1>2, <3>1, <4>1, AssignDoes, StartDoes
      <3>3. CASE ~(held[p] /\ live[p] # NoState)
        BY <1>2, <2>2, <3>1, <3>3 DEF AdminSaved
      <3> QED BY <3>2, <3>3
    <2> QED BY <2>1, <2>2
  <1>6. OneFlow(p)' /\ TicksOwned(p)'
    BY <1>0, <1>1, <1>2, <1>5 DEF OneFlow, TicksOwned, Free, Load, Stopping
  <1> QED BY <1>1, <1>2, <1>3, <1>4, <1>5, <1>6, ControlStep
          DEF Elsewhere, Same, SameFlow, Control

-------------------------------------------------------------------------------
(* Resets.                                                                     *)

LEMMA ResetWorldControl ==
  ASSUME TypeOK, ControlOK, NEW p \in Process, NEW daily \in BOOLEAN, ResetWorld(p, daily)
  PROVE  Elsewhere(p) /\ ControlOK'
  <1>0. MemoryOK /\ FlowsOK /\ EnvOK /\ Control(p) /\ OneFlow(p) /\ TicksOwned(p)
    BY DEF TypeOK, ControlOK, Control
  <1>1. PICK w \in Write : w = Drain("reset")
    BY <1>0, DrainType, FlowNames DEF EnvOK
  <1>2. /\ mode[p] = "running" /\ Pause(p) /\ Queue(p, w)
        /\ reset' = [reset EXCEPT ![p] = [pc |-> "drain", daily |-> daily]]
        /\ w.flow = "reset" /\ w.op = "drain"
        /\ UNCHANGED <<held, halt, live, critical, admin, load>>
    BY <1>1 DEF ResetWorld, Drain, Entry
  <1>3. Free(p) /\ (\A v \in Elems(chain[p]) : Calm(v)) /\ \A f \in Load : load[p][f].pc = "none"
    BY <1>0, <1>2, TickingIsFree
  <1>4. /\ mode'[p] = "starting" /\ \A q \in Process \ {p} : mode'[q] = mode[q]
        /\ chain'[p] = Append(chain[p], w) /\ \A q \in Process \ {p} : chain'[q] = chain[q]
    BY <1>0, <1>2, PauseDoes, QueueDoes
  <1>5. reset'[p].pc = "drain" /\ \A q \in Process \ {p} : reset'[q] = reset[q]
    BY <1>0, <1>2 DEF FlowsOK
  <1>6. Waits(p, w)'
    BY <1>2, <1>5 DEF Waits
  <1>7. QueueOK(p)'
    <2>1. \A f \in Load : load'[p][f].pc \notin {"read", "got", "seed", "seeded"}
      BY <1>2, <1>3
    <2> QED BY <1>0, <1>3, <1>4, <1>6, <2>1, WriteJoins
  <1>8. OneFlow(p)' /\ TicksOwned(p)'
    BY <1>0, <1>2, <1>3, <1>4, <1>5 DEF OneFlow, TicksOwned, Free
  <1> QED BY <1>2, <1>4, <1>5, <1>7, <1>8, ControlStep DEF Elsewhere, Same, SameFlow, Control

\* The write that a reset waits for is the first of the queue.
LEMMA ResetWaits ==
  ASSUME FlowsOK, NEW p \in Process, Control(p), chain[p] # <<>>,
         Head(chain[p]).flow = "reset"
  PROVE  /\ ~Calm(Head(chain[p])) /\ mode[p] # "running"
         /\ critical[p].pc = "none" /\ admin[p] = "none"
         /\ \A f \in Load : load[p][f].pc = "none"
  <1>1. ~Calm(Head(chain[p])) /\ Waits(p, Head(chain[p]))
    BY FlowNames, InFlight
  <1>2. reset[p].pc \in {"drain", "write"} /\ OneFlow(p)
    BY <1>1 DEF Waits, Control
  <1> QED BY <1>1, <1>2 DEF OneFlow, Free, Load

\* A reset that fails ends, or reads the tables again.
LEMMA ResetThrowsControl ==
  ASSUME TypeOK, ControlOK, NEW p \in Process, chain[p] # <<>>,
         Head(chain[p]).flow = "reset", Pop(p), ResetThrows(p),
         UNCHANGED <<mode, held, halt, live, critical, admin>>
  PROVE  Elsewhere(p) /\ ControlOK'
  <1>0. MemoryOK /\ FlowsOK /\ Control(p) /\ OneFlow(p) /\ TicksOwned(p)
    BY DEF TypeOK, ControlOK, Control
  <1>2. /\ ~Calm(Head(chain[p])) /\ mode[p] # "running"
        /\ critical[p].pc = "none" /\ admin[p] = "none"
        /\ load[p]["boot"].pc = "none" /\ load[p]["reload"].pc = "none"
    BY <1>0, ResetWaits, FlowNames
  <1>3. chain'[p] = Tail(chain[p]) /\ \A q \in Process \ {p} : chain'[q] = chain[q]
    BY <1>0, PopDoes
  <1>4. QueueOK(p)'
    BY <1>0, <1>2, <1>3, HeadLeaves
  <1>5. /\ \/ reset'[p].pc = "reload" /\ load'[p]["reload"].pc = "read"
           \/ reset'[p].pc = "none" /\ load'[p]["reload"].pc = "none"
        /\ load'[p]["boot"] = load[p]["boot"]
        /\ \A q \in Process \ {p} : reset'[q] = reset[q] /\ load'[q] = load[q]
    BY <1>0, <1>2, ResetThrowsDoes
  <1>6. OneFlow(p)' /\ TicksOwned(p)'
    BY <1>0, <1>2, <1>5 DEF OneFlow, TicksOwned, Free
  <1> QED BY <1>2, <1>3, <1>4, <1>5, <1>6, ControlStep DEF Elsewhere, Same, SameFlow, Control

LEMMA ResetDrainedControl ==
  ASSUME TypeOK, ControlOK, NEW p \in Process, ResetDrained(p)
  PROVE  Elsewhere(p) /\ ControlOK'
  <1>0. MemoryOK /\ FlowsOK /\ EnvOK /\ Control(p) /\ OneFlow(p) /\ TicksOwned(p)
    BY DEF TypeOK, ControlOK, Control
  <1>1. /\ chain[p] # <<>> /\ Head(chain[p]).flow = "reset"
        /\ UNCHANGED <<mode, held, halt, live, critical, admin>>
    BY DEF ResetDrained, Answered
  <1>3. CASE held[p] /\ live[p] # NoState /\ ~Stopping(p)
    <2>1. PICK w \in Write : w = Entry("reset", "reset",
                                       [epoch |-> ids.epochs + 1, hist |-> {}], {}, 0)
      BY <1>0, EntryType, FreshType, FlowNames DEF EnvOK
    <2>2. /\ PopQueue(p, w) /\ reset' = [reset EXCEPT ![p].pc = "write"] /\ load' = load
          /\ w.flow = "reset" /\ w.op = "reset"
      BY <1>3, <2>1 DEF ResetDrained, Entry
    <2>3. /\ chain'[p] = Append(Tail(chain[p]), w)
          /\ \A q \in Process \ {p} : chain'[q] = chain[q]
      BY <1>0, <2>2, PopQueueDoes
    <2>4. reset'[p].pc = "write" /\ \A q \in Process \ {p} : reset'[q] = reset[q]
      BY <1>0, <2>2, ResetMoves
    <2>5. Waits(p, w)'
      BY <2>2, <2>4 DEF Waits
    <2>6. /\ ~Calm(Head(chain[p])) /\ mode[p] # "running"
          /\ critical[p].pc = "none" /\ admin[p] = "none"
          /\ \A f \in Load : load[p][f].pc = "none"
      BY <1>0, <1>1, ResetWaits
    <2>7. QueueOK(p)'
      <3>1. \A f \in Load : load'[p][f].pc \notin {"read", "got", "seed", "seeded"}
        BY <2>2, <2>6
      <3> QED BY <1>0, <1>1, <2>3, <2>5, <2>6, <3>1, HeadReplaced
    <2>8. OneFlow(p)' /\ TicksOwned(p)'
      BY <1>0, <1>1, <2>2, <2>4, <2>6 DEF OneFlow, TicksOwned, Free, Load
    <2> QED BY <1>1, <2>2, <2>3, <2>4, <2>6, <2>7, <2>8, ControlStep
            DEF Elsewhere, Same, SameFlow, Control
  <1>4. CASE ~(held[p] /\ live[p] # NoState /\ ~Stopping(p))
    <2>1. Pop(p) /\ ResetThrows(p)
      BY <1>4 DEF ResetDrained
    <2> QED BY <1>1, <2>1, ResetThrowsControl
  <1> QED BY <1>3, <1>4

LEMMA ResetFailsControl ==
  ASSUME TypeOK, ControlOK, NEW p \in Process, ResetFails(p)
  PROVE  Elsewhere(p) /\ ControlOK'
  BY ResetThrowsControl DEF ResetFails, Fails

LEMMA ResetSavedControl ==
  ASSUME TypeOK, ControlOK, NEW p \in Process, ResetSaved(p)
  PROVE  Elsewhere(p) /\ ControlOK'
  <1>0. MemoryOK /\ FlowsOK /\ Control(p) /\ OneFlow(p) /\ TicksOwned(p)
    BY DEF TypeOK, ControlOK, Control
  <1>1. /\ chain[p] # <<>> /\ Head(chain[p]).flow = "reset" /\ Pop(p)
        /\ Assign(p, Head(chain[p]).image) /\ ResetEnds(p, FALSE) /\ Start(p)
        /\ UNCHANGED <<held, halt, admin, load>>
    BY DEF ResetSaved, Answered
  <1>2. /\ ~Calm(Head(chain[p])) /\ mode[p] # "running"
        /\ critical[p].pc = "none" /\ admin[p] = "none"
        /\ load[p]["boot"].pc = "none" /\ load[p]["reload"].pc = "none"
    BY <1>0, <1>1, ResetWaits, FlowNames
  <1>3. chain'[p] = Tail(chain[p]) /\ \A q \in Process \ {p} : chain'[q] = chain[q]
    BY <1>0, <1>1, PopDoes
  <1>4. QueueOK(p)'
    BY <1>0, <1>1, <1>2, <1>3, HeadLeaves
  <1>5. /\ reset'[p].pc = "none" /\ critical'[p].pc = "none"
        /\ \A q \in Process \ {p} : /\ reset'[q] = reset[q]
                                    /\ live'[q] = live[q] /\ critical'[q] = critical[q]
    BY <1>0, <1>1, <1>2, ResetEndsDoes, AssignDoes
  <1>6. /\ mode'[p] = "running" => held[p] /\ ~Stopping(p)
        /\ \A q \in Process \ {p} : mode'[q] = mode[q]
    BY <1>0, <1>1, <1>2, StartDoes
  <1>7. OneFlow(p)' /\ TicksOwned(p)'
    BY <1>0, <1>1, <1>2, <1>5, <1>6 DEF OneFlow, TicksOwned, Free, Stopping
  <1> QED BY <1>1, <1>2, <1>3, <1>4, <1>5, <1>6, <1>7, ControlStep
          DEF Elsewhere, Same, SameFlow, Control

-------------------------------------------------------------------------------
(* shutdown().                                                                 *)

\* shutdown() queues a write that only it waits for, behind whatever is queued: a drain,
\* or the checkpoint of a world that was ticking.
LEMMA FinalJoins ==
  ASSUME FlowsOK, NEW p \in Process, NEW s \in Seq(Write), NEW w \in Write, Ordered(s),
         Elems(s) \subseteq Elems(chain[p]), \A v \in Elems(s) : Calm(v) \/ w.op = "drain",
         w.flow = "final", w.op \in {"checkpoint", "drain"},
         chain'[p] = Append(s, w), QueueOK(p),
         critical'[p].pc = critical[p].pc, admin'[p] = admin[p],
         reset'[p].pc = reset[p].pc, load'[p] = load[p],
         \A f \in Load : load[p][f].pc \in {"read", "got", "seed", "seeded"} => w.op = "drain"
  PROVE  /\ QueueOK(p)'
         /\ \A v \in Elems(chain'[p]) : v \in Elems(chain[p]) \/ (v = w /\ Calm(v))
  <1>1. ASSUME NEW v \in Elems(s) PROVE Calm(v) \/ (w.op = "drain" /\ w.flow # v.flow)
    <2>1. v \in Elems(chain[p])
      BY <1>1
    <2>2. Waits(p, v)
      BY <2>1, WritesAre DEF QueueOK
    <2> QED BY <1>1, <2>2 DEF Waits
  <1>2. /\ Ordered(Append(s, w))
        /\ \A v \in Elems(Append(s, w)) : v \in Elems(s) \/ v = w
    BY <1>1, Appended
  <1>3. ASSUME NEW v \in Elems(chain'[p]) PROVE v \in Elems(chain[p]) \/ (v = w /\ Calm(v))
    BY <1>2, <1>3 DEF Calm
  <1>4. \A v \in Writes(p)' : Waits(p, v)'
    <2> SUFFICES ASSUME NEW v \in Writes(p)' PROVE Waits(p, v)'
      OBVIOUS
    <2>1. v \in Elems(chain'[p])
      BY WritesAre
    <2>2. CASE Calm(v)
      BY <2>2 DEF Waits, Calm
    <2>3. CASE v \in Elems(chain[p])
      BY <2>3, WritesAre DEF QueueOK, Waits, Calm
    <2> QED BY <1>3, <2>1, <2>2, <2>3
  <1>5. ReadsSettled(p)'
    <2> SUFFICES ASSUME NEW f \in Load, load'[p][f].pc \in {"read", "got", "seed", "seeded"},
                        NEW v \in Writes(p)'
                 PROVE  v.op = "drain"
      BY DEF ReadsSettled
    <2>1. v \in Elems(chain'[p])
      BY WritesAre
    <2> QED BY <1>3, <2>1, WritesAre DEF QueueOK, ReadsSettled
  <1>6. Ordered(chain[p])'
    BY <1>2 DEF Ordered, Calm
  <1> QED BY <1>3, <1>4, <1>5, <1>6 DEF QueueOK

LEMMA ShutdownFlowsDoneControl ==
  ASSUME TypeOK, ControlOK, NEW p \in Process, ShutdownFlowsDone(p)
  PROVE  Elsewhere(p) /\ ControlOK'
  <1>0. /\ MemoryOK /\ FlowsOK /\ EnvOK
        /\ Control(p) /\ OneFlow(p) /\ TicksOwned(p) /\ QueueOK(p)
    BY DEF TypeOK, ControlOK, Control
  <1>1. /\ halt[p] = "flows"
        /\ UNCHANGED <<mode, held, live, critical, admin, reset, load>>
    BY DEF ShutdownFlowsDone
  <1>2. chain[p] \in Seq(Write) /\ Ordered(chain[p])
    BY <1>0 DEF FlowsOK, QueueOK
  <1>3. CASE mode[p] = "running" /\ live[p] # NoState
    <2>1. PICK w \in Write : w = Checkpoint("final", live[p])
      BY <1>0, CheckpointType, FlowNames DEF MemoryOK, EnvOK
    <2>2. /\ Queue(p, w) /\ halt' = [halt EXCEPT ![p] = "checkpoint"]
          /\ w.flow = "final" /\ w.op = "checkpoint"
      BY <1>3, <2>1 DEF ShutdownFlowsDone, Checkpoint, Entry
    <2>3. (\A v \in Elems(chain[p]) : Calm(v)) /\ \A f \in Load : load[p][f].pc = "none"
      BY <1>0, <1>3, TickingIsFree
    <2>4. chain'[p] = Append(chain[p], w) /\ \A q \in Process \ {p} : chain'[q] = chain[q]
      BY <1>0, <2>2, QueueDoes
    <2>5. halt'[p] = "checkpoint" /\ \A q \in Process \ {p} : halt'[q] = halt[q]
      BY <1>0, <2>2 DEF MemoryOK
    <2>6. QueueOK(p)'
      <3>1. \A v \in Elems(chain[p]) : Calm(v) \/ w.op = "drain"
        BY <2>3
      <3>2. \A f \in Load : load[p][f].pc \in {"read", "got", "seed", "seeded"} => w.op = "drain"
        BY <2>3
      <3> QED BY <1>0, <1>1, <1>2, <2>2, <2>4, <3>1, <3>2, FinalJoins
    <2>7. OneFlow(p)' /\ TicksOwned(p)'
      BY <1>0, <1>1, <1>3, <2>5 DEF OneFlow, TicksOwned, Free
    <2> QED BY <1>1, <2>4, <2>5, <2>6, <2>7, ControlStep DEF Elsewhere, Same, SameFlow, Control
  <1>4. CASE ~(mode[p] = "running" /\ live[p] # NoState)
    <2>1. PICK w \in Write : w = Drain("final")
      BY <1>0, DrainType, FlowNames DEF EnvOK
    <2>2. /\ Queue(p, w) /\ halt' = [halt EXCEPT ![p] = "drain"]
          /\ w.flow = "final" /\ w.op = "drain"
      BY <1>4, <2>1 DEF ShutdownFlowsDone, Drain, Entry
    <2>3. chain'[p] = Append(chain[p], w) /\ \A q \in Process \ {p} : chain'[q] = chain[q]
      BY <1>0, <2>2, QueueDoes
    <2>4. halt'[p] = "drain" /\ \A q \in Process \ {p} : halt'[q] = halt[q]
      BY <1>0, <2>2 DEF MemoryOK
    <2>5. /\ QueueOK(p)'
          /\ \A v \in Elems(chain'[p]) : v \in Elems(chain[p]) \/ (v = w /\ Calm(v))
      BY <1>0, <1>1, <1>2, <2>2, <2>3, FinalJoins
    <2>6. OneFlow(p)' /\ TicksOwned(p)'
      BY <1>0, <1>1, <2>4 DEF OneFlow, TicksOwned, Free
    <2> QED BY <1>1, <2>3, <2>4, <2>5, <2>6, ControlStep
            DEF Elsewhere, Same, SameFlow, Control
  <1> QED BY <1>3, <1>4

LEMMA ShutdownCheckpointedControl ==
  ASSUME TypeOK, ControlOK, NEW p \in Process, ShutdownCheckpointed(p)
  PROVE  Elsewhere(p) /\ ControlOK'
  <1>0. /\ MemoryOK /\ FlowsOK /\ EnvOK
        /\ Control(p) /\ OneFlow(p) /\ TicksOwned(p) /\ QueueOK(p)
    BY DEF TypeOK, ControlOK, Control
  <1>1. PICK w \in Write : w = Drain("final")
    BY <1>0, DrainType, FlowNames DEF EnvOK
  <1>2. /\ chain[p] # <<>> /\ Head(chain[p]).op # "drain"
        /\ PopQueue(p, w) /\ halt' = [halt EXCEPT ![p] = "drain"]
        /\ w.flow = "final" /\ w.op = "drain"
        /\ UNCHANGED <<mode, held, live, critical, admin, reset, load>>
    BY <1>1 DEF ShutdownCheckpointed, Answered, Fails, Drain, Entry
  <1>3. /\ chain'[p] = Append(Tail(chain[p]), w)
        /\ \A q \in Process \ {p} : chain'[q] = chain[q]
    BY <1>0, <1>2, PopQueueDoes
  <1>4. /\ Tail(chain[p]) \in Seq(Write) /\ Ordered(Tail(chain[p]))
        /\ Elems(Tail(chain[p])) \subseteq Elems(chain[p])
        /\ Head(chain[p]) \in Elems(chain[p])
    BY <1>0, <1>2, Popped DEF QueueOK, FlowsOK
  <1>5. halt'[p] = "drain" /\ \A q \in Process \ {p} : halt'[q] = halt[q]
    BY <1>0, <1>2 DEF MemoryOK
  <1>6. QueueOK(p)'
    BY <1>0, <1>2, <1>3, <1>4, FinalJoins
  <1>7. OneFlow(p)' /\ TicksOwned(p)'
    BY <1>0, <1>2, <1>5 DEF OneFlow, TicksOwned, Free
  <1> QED BY <1>2, <1>3, <1>5, <1>6, <1>7, ControlStep DEF Elsewhere, Same, SameFlow, Control

LEMMA ShutdownDrainedControl ==
  ASSUME TypeOK, ControlOK, NEW p \in Process, ShutdownDrained(p)
  PROVE  Elsewhere(p) /\ ControlOK'
  <1>0. /\ MemoryOK /\ FlowsOK /\ EnvOK
        /\ Control(p) /\ OneFlow(p) /\ TicksOwned(p) /\ QueueOK(p)
    BY DEF TypeOK, ControlOK, Control
  <1>1. /\ chain[p] # <<>> /\ Pop(p) /\ Release(p)
        /\ mode' = [mode EXCEPT ![p] = "stopped"] /\ halt' = [halt EXCEPT ![p] = "done"]
        /\ UNCHANGED <<live, critical, admin, reset, load>>
    BY DEF ShutdownDrained, Answered
  <1>2. chain'[p] = Tail(chain[p]) /\ \A q \in Process \ {p} : chain'[q] = chain[q]
    BY <1>0, <1>1, PopDoes
  <1>3. Ordered(chain'[p]) /\ Elems(chain'[p]) \subseteq Elems(chain[p])
    BY <1>0, <1>1, <1>2, Popped DEF QueueOK, FlowsOK
  <1>4. /\ mode'[p] = "stopped" /\ ~held'[p]
        /\ \A q \in Process \ {p} : mode'[q] = mode[q] /\ held'[q] = held[q] /\ halt'[q] = halt[q]
    BY <1>0, <1>1, ReleaseDoes DEF MemoryOK
  <1>5. \A w \in Elems(chain'[p]) : Waits(p, w)'
    BY <1>0, <1>1, <1>3, WritesAre DEF QueueOK, Waits
  <1>6. ReadsSettled(p)'
    BY <1>0, <1>1, <1>3, WritesAre DEF QueueOK, ReadsSettled
  <1>7. QueueOK(p)'
    BY <1>0, <1>3, <1>5, <1>6, QueueShrinks
  <1>8. OneFlow(p)' /\ TicksOwned(p)'
    BY <1>0, <1>1, <1>4 DEF OneFlow, TicksOwned, Free
  <1> QED BY <1>1, <1>2, <1>4, <1>7, <1>8, ControlStep DEF Elsewhere, Same, SameFlow, Control

-------------------------------------------------------------------------------
(* load().                                                                     *)

LEMMA LoadIsAlone ==
  ASSUME NEW p \in Process, Control(p), NEW f \in Load, load[p][f].pc # "none"
  PROVE  /\ critical[p].pc = "none" /\ admin[p] = "none" /\ mode[p] # "running"
         /\ \A g \in Load \ {f} : load[p][g].pc = "none"
         /\ reset[p].pc = IF f = "boot" THEN "none" ELSE "reload"
  <1>1. OneFlow(p) /\ f \in {"boot", "reload"}
    BY DEF Control, Load
  <1>2. CASE f = "boot"
    BY <1>1, <1>2 DEF OneFlow, Free, Load
  <1>3. CASE f = "reload"
    BY <1>1, <1>3 DEF OneFlow, Free, Load
  <1> QED BY <1>1, <1>2, <1>3

\* The two endings of a load, when its queue is in order.
LEMMA LoadThrowsControl ==
  ASSUME TypeOK, ControlOK, NEW p \in Process, NEW f \in Load, load[p][f].pc # "none",
         LoadThrows(p, f), UNCHANGED <<halt, live, critical, admin>>,
         \A q \in Process \ {p} : chain'[q] = chain[q], QueueOK(p)'
  PROVE  Elsewhere(p) /\ ControlOK'
  <1>0. MemoryOK /\ FlowsOK /\ Control(p) /\ OneFlow(p) /\ TicksOwned(p)
    BY DEF TypeOK, ControlOK, Control
  <1>1. /\ critical[p].pc = "none" /\ admin[p] = "none" /\ mode[p] # "running"
        /\ \A g \in Load \ {f} : load[p][g].pc = "none"
        /\ reset[p].pc = IF f = "boot" THEN "none" ELSE "reload"
    BY <1>0, LoadIsAlone
  <1>2. /\ load'[p][f].pc = "none"
        /\ \A g \in Load \ {f} : load'[p][g] = load[p][g]
        /\ mode'[p] \in {mode[p], "standby"}
        /\ reset'[p].pc = IF f = "boot" THEN reset[p].pc ELSE "none"
        /\ \A q \in Process \ {p} : /\ mode'[q] = mode[q] /\ held'[q] = held[q]
                                    /\ reset'[q] = reset[q] /\ load'[q] = load[q]
    BY <1>0, LoadThrowsDoes
  <1>3. reset'[p].pc = "none" /\ \A g \in Load : load'[p][g].pc = "none"
    BY <1>1, <1>2
  <1>4. OneFlow(p)' /\ TicksOwned(p)'
    BY <1>1, <1>2, <1>3 DEF OneFlow, TicksOwned, Free, Load
  <1> QED BY <1>1, <1>2, <1>4, ControlStep DEF Elsewhere, Same, SameFlow, Control

LEMMA LoadFinishesControl ==
  ASSUME TypeOK, ControlOK, NEW p \in Process, NEW f \in Load, load[p][f].pc # "none",
         LoadFinishes(p, f), UNCHANGED <<held, halt, admin>>,
         critical'[p].pc = critical[p].pc,
         \A q \in Process \ {p} : /\ live'[q] = live[q] /\ critical'[q] = critical[q]
                                  /\ chain'[q] = chain[q],
         QueueOK(p)'
  PROVE  Elsewhere(p) /\ ControlOK'
  <1>0. MemoryOK /\ FlowsOK /\ Control(p) /\ OneFlow(p) /\ TicksOwned(p)
    BY DEF TypeOK, ControlOK, Control
  <1>1. /\ critical[p].pc = "none" /\ admin[p] = "none" /\ mode[p] # "running"
        /\ \A g \in Load \ {f} : load[p][g].pc = "none"
        /\ reset[p].pc = IF f = "boot" THEN "none" ELSE "reload"
    BY <1>0, LoadIsAlone
  <1>2. /\ load'[p][f].pc = "none"
        /\ \A g \in Load \ {f} : load'[p][g] = load[p][g]
        /\ mode'[p] = "running" => held[p] /\ ~Stopping(p)
        /\ reset'[p].pc = IF f = "boot" THEN reset[p].pc ELSE "none"
        /\ \A q \in Process \ {p} : /\ mode'[q] = mode[q]
                                    /\ reset'[q] = reset[q] /\ load'[q] = load[q]
    BY <1>0, <1>1, LoadFinishesDoes
  <1>3. reset'[p].pc = "none" /\ \A g \in Load : load'[p][g].pc = "none"
    BY <1>1, <1>2
  <1>4. OneFlow(p)' /\ TicksOwned(p)'
    BY <1>1, <1>2, <1>3 DEF OneFlow, TicksOwned, Free, Load, Stopping
  <1> QED BY <1>1, <1>2, <1>4, ControlStep DEF Elsewhere, Same, SameFlow, Control

\* Before it writes, nothing but shutdown()'s drain is in its queue, and stays so.
LEMMA RestingControl ==
  ASSUME NEW p \in Process, Control(p), NEW f \in Load, load[p][f].pc \in {"read", "got", "seed", "seeded"},
         chain'[p] = chain[p]
  PROVE  QueueOK(p)'
  <1>1. \A v \in Elems(chain'[p]) : v.op = "drain" /\ Calm(v)
    BY Resting
  <1>2. ReadsSettled(p)'
    BY <1>1, WritesAre DEF ReadsSettled
  <1> QED BY <1>1, <1>2, QueueCalms

LEMMA LoadReadControl ==
  ASSUME TypeOK, ControlOK, NEW p \in Process, NEW f \in Load, LoadRead(p, f)
  PROVE  Elsewhere(p) /\ ControlOK'
  <1>0. MemoryOK /\ FlowsOK /\ Control(p) /\ OneFlow(p) /\ TicksOwned(p)
    BY DEF TypeOK, ControlOK, Control
  <1> DEFINE got == [pc |-> "got", image |-> snap]
  <1>1. /\ load[p][f].pc = "read" /\ load' = [load EXCEPT ![p][f] = got] /\ got.pc = "got"
        /\ UNCHANGED <<mode, held, halt, live, critical, admin, reset, chain>>
    BY DEF LoadRead
  <1> HIDE DEF got
  <1>2. /\ load'[p][f] = got
        /\ \A g \in Load \ {f} : load'[p][g] = load[p][g]
        /\ \A q \in Process \ {p} : load'[q] = load[q]
    BY <1>0, <1>1, LoadBecomes
  <1>3. QueueOK(p)'
    BY <1>0, <1>1, RestingControl
  <1>4. /\ mode[p] # "running"
        /\ critical[p].pc = "none" /\ admin[p] = "none"
        /\ \A g \in Load \ {f} : load[p][g].pc = "none"
        /\ reset[p].pc = IF f = "boot" THEN "none" ELSE "reload"
    BY <1>0, <1>1, LoadIsAlone
  <1>5. OneFlow(p)' /\ TicksOwned(p)'
    <2>1. load'[p][f].pc = "got" /\ \A g \in Load \ {f} : load'[p][g].pc = "none"
      BY <1>1, <1>2, <1>4
    <2>2. CASE f = "boot"
      BY <1>1, <1>4, <2>1, <2>2 DEF OneFlow, TicksOwned, Free, Load
    <2>3. CASE f = "reload"
      BY <1>1, <1>4, <2>1, <2>3 DEF OneFlow, TicksOwned, Free, Load
    <2> QED BY <2>2, <2>3 DEF Load
  <1> QED BY <1>1, <1>2, <1>3, <1>4, <1>5, ControlStep DEF Elsewhere, Same, SameFlow, Control

LEMMA LoadRefusedControl ==
  ASSUME TypeOK, ControlOK, NEW p \in Process, NEW f \in Load,
         LoadReadFails(p, f) \/ LoadRefused(p, f) \/ SeedFails(p, f)
  PROVE  Elsewhere(p) /\ ControlOK'
  <1>0. Control(p)
    BY DEF ControlOK
  <1>1. /\ load[p][f].pc \in {"read", "got", "seed", "seeded"} /\ LoadThrows(p, f)
        /\ UNCHANGED <<halt, live, critical, admin, chain>>
    BY DEF LoadReadFails, LoadRefused, SeedFails
  <1>2. QueueOK(p)'
    BY <1>0, <1>1, RestingControl
  <1> QED BY <1>1, <1>2, LoadThrowsControl

\* The transaction of the first population begins, and commits.
LEMMA LoadSeedsControl ==
  ASSUME TypeOK, ControlOK, NEW p \in Process, NEW f \in Load,
         LoadSeeds(p, f) \/ SeedLands(p, f)
  PROVE  Elsewhere(p) /\ ControlOK'
  <1>0. MemoryOK /\ FlowsOK /\ Control(p) /\ OneFlow(p) /\ TicksOwned(p)
    BY DEF TypeOK, ControlOK, Control
  <1>1. PICK pc \in {"seed", "seeded"} : LoadTo(p, f, pc)
    BY DEF LoadSeeds, SeedLands, LoadTo
  <1>2. /\ load[p][f].pc \in {"got", "seed"}
        /\ UNCHANGED <<mode, held, halt, live, critical, admin, reset, chain>>
    BY DEF LoadSeeds, SeedLands, CanLoad, memory
  <1>3. /\ load'[p][f].pc = pc
        /\ \A g \in Load \ {f} : load'[p][g] = load[p][g]
        /\ \A q \in Process \ {p} : load'[q] = load[q]
    BY <1>0, <1>1, LoadMoves
  <1>4. QueueOK(p)'
    BY <1>0, <1>2, RestingControl
  <1>5. /\ mode[p] # "running"
        /\ critical[p].pc = "none" /\ admin[p] = "none"
        /\ \A g \in Load \ {f} : load[p][g].pc = "none"
        /\ reset[p].pc = IF f = "boot" THEN "none" ELSE "reload"
    BY <1>0, <1>2, LoadIsAlone
  <1>6. OneFlow(p)' /\ TicksOwned(p)'
    <2>1. load'[p][f].pc # "none" /\ \A g \in Load \ {f} : load'[p][g].pc = "none"
      BY <1>3, <1>5
    <2>2. CASE f = "boot"
      BY <1>2, <1>5, <2>1, <2>2 DEF OneFlow, TicksOwned, Free, Load
    <2>3. CASE f = "reload"
      BY <1>2, <1>5, <2>1, <2>3 DEF OneFlow, TicksOwned, Free, Load
    <2> QED BY <2>2, <2>3 DEF Load
  <1> QED BY <1>2, <1>3, <1>4, <1>6, ControlStep DEF Elsewhere, Same, SameFlow, Control

LEMMA LoadSeededControl ==
  ASSUME TypeOK, ControlOK, NEW p \in Process, NEW f \in Load, LoadSeeded(p, f)
  PROVE  Elsewhere(p) /\ ControlOK'
  <1>0. MemoryOK /\ FlowsOK /\ Control(p)
    BY DEF TypeOK, ControlOK
  <1>1. /\ load[p][f].pc = "seeded" /\ LoadFinishes(p, f) /\ Assign(p, Seed)
        /\ UNCHANGED <<held, halt, admin, chain>>
    BY DEF LoadSeeded
  <1>2. QueueOK(p)'
    BY <1>0, <1>1, RestingControl
  <1>3. /\ critical'[p].pc = critical[p].pc
        /\ \A q \in Process \ {p} : live'[q] = live[q] /\ critical'[q] = critical[q]
    BY <1>0, <1>1, AssignDoes
  <1> QED BY <1>1, <1>2, <1>3, LoadFinishesControl

\* A load queues its first write behind shutdown()'s drain, if that is there.
LEMMA LoadWritesControl ==
  ASSUME TypeOK, ControlOK, NEW p \in Process, NEW f \in Load, load[p][f].pc = "got",
         NEW w \in Write, Queue(p, w), LoadTo(p, f, "write"),
         w.flow = f, w.op \in {"commit", "checkpoint"} \/ (f = "boot" /\ w.op = "reset"),
         UNCHANGED <<mode, held, halt, admin, reset>>,
         critical'[p].pc = critical[p].pc,
         \A q \in Process \ {p} : live'[q] = live[q] /\ critical'[q] = critical[q]
  PROVE  Elsewhere(p) /\ ControlOK'
  <1>0. MemoryOK /\ FlowsOK /\ Control(p) /\ OneFlow(p) /\ TicksOwned(p)
    BY DEF TypeOK, ControlOK, Control
  <1>1. /\ mode[p] # "running"
        /\ critical[p].pc = "none" /\ admin[p] = "none"
        /\ \A g \in Load \ {f} : load[p][g].pc = "none"
        /\ reset[p].pc = IF f = "boot" THEN "none" ELSE "reload"
    BY <1>0, LoadIsAlone
  <1>2. /\ load'[p][f].pc = "write"
        /\ \A g \in Load \ {f} : load'[p][g] = load[p][g]
        /\ \A q \in Process \ {p} : load'[q] = load[q]
    BY <1>0, LoadMoves
  <1>3. chain'[p] = Append(chain[p], w) /\ \A q \in Process \ {p} : chain'[q] = chain[q]
    BY <1>0, QueueDoes
  <1>4. \A v \in Elems(chain[p]) : Calm(v)
    BY <1>0, Resting
  <1>5. Waits(p, w)'
    BY <1>2 DEF Waits, Load
  <1>6. QueueOK(p)'
    <2>1. \A g \in Load : load'[p][g].pc \notin {"read", "got", "seed", "seeded"}
      BY <1>1, <1>2
    <2> QED BY <1>0, <1>3, <1>4, <1>5, <2>1, WriteJoins
  <1>7. OneFlow(p)' /\ TicksOwned(p)'
    <2>1. \A g \in Load \ {f} : load'[p][g].pc = "none"
      BY <1>1, <1>2
    <2>2. CASE f = "boot"
      BY <1>1, <1>2, <2>1, <2>2 DEF OneFlow, TicksOwned, Free, Load
    <2>3. CASE f = "reload"
      BY <1>1, <1>2, <2>1, <2>3 DEF OneFlow, TicksOwned, Free, Load
    <2> QED BY <2>2, <2>3 DEF Load
  <1> QED BY <1>1, <1>2, <1>3, <1>6, <1>7, ControlStep DEF Elsewhere, Same, SameFlow, Control

\* The first write of a load.
LEMMA LoadResetsWrite ==
  ASSUME TypeOK, NEW p \in Process, LoadResets(p)
  PROVE  \E w \in Write :
           /\ w = Entry("boot", "reset", [epoch |-> ids.epochs + 1, hist |-> {}], {}, 0)
           /\ Queue(p, w) /\ w.flow = "boot" /\ w.op = "reset"
  <1>1. PICK w \in Write :
          w = Entry("boot", "reset", [epoch |-> ids.epochs + 1, hist |-> {}], {}, 0)
    BY EntryType, FreshType, FlowNames DEF TypeOK, EnvOK
  <1>2. Queue(p, w) /\ w.flow = "boot" /\ w.op = "reset"
    BY <1>1 DEF LoadResets, Entry
  <1> QED BY <1>1, <1>2

AdvancedWrite(p, f, E, w) ==
  /\ w.image = [load[p][f].image EXCEPT !.hist = @ \cup E]
  /\ w.events = E /\ ~w.landed /\ w.flow = f
  /\ w.op = IF E = {} THEN "checkpoint" ELSE "commit"

LEMMA LoadAdvancesWrite ==
  ASSUME TypeOK, NEW p \in Process, NEW f \in Load, NEW E \in SUBSET Event,
         LoadAdvances(p, f, E)
  PROVE  \E w \in Write : AdvancedWrite(p, f, E, w) /\ Queue(p, w)
  <1> DEFINE image == [load[p][f].image EXCEPT !.hist = @ \cup E]
  <1>1. image \in Image
    <2>1. load[p][f] \in LoadState
      BY DEF TypeOK, FlowsOK
    <2>2. load[p][f].image \in Image
      BY <2>1 DEF LoadAdvances, LoadState
    <2> QED BY <2>2, GrownType
  <1>2. f \in Flow
    BY FlowNames
  <1>3. CASE E = {}
    <2>1. PICK w \in Write : w = Checkpoint(f, image)
      BY <1>1, <1>2, CheckpointType DEF TypeOK, EnvOK
    <2>2. Queue(p, w)
      BY <1>3, <2>1 DEF LoadAdvances
    <2>3. /\ w.image = image /\ w.events = E /\ ~w.landed
          /\ w.flow = f /\ w.op = "checkpoint"
      BY <1>3, <2>1 DEF Checkpoint, Entry
    <2> QED BY <1>3, <2>2, <2>3 DEF AdvancedWrite
  <1>4. CASE E # {}
    <2>1. PICK w \in Write : w = Entry(f, "commit", image, E, ids.batches + 1)
      BY <1>1, <1>2, EntryType, FreshType, FlowNames DEF TypeOK, EnvOK
    <2>2. Queue(p, w)
      BY <1>4, <2>1 DEF LoadAdvances
    <2>3. /\ w.image = image /\ w.events = E /\ ~w.landed
          /\ w.flow = f /\ w.op = "commit"
      BY <2>1 DEF Entry
    <2> QED BY <1>4, <2>2, <2>3 DEF AdvancedWrite
  <1> QED BY <1>3, <1>4

LEMMA LoadResetsControl ==
  ASSUME TypeOK, ControlOK, NEW p \in Process, LoadResets(p)
  PROVE  Elsewhere(p) /\ ControlOK'
  <1>1. PICK w \in Write : Queue(p, w) /\ w.flow = "boot" /\ w.op = "reset"
    BY LoadResetsWrite
  <1>2. /\ load[p]["boot"].pc = "got"
        /\ UNCHANGED <<mode, held, halt, live, critical, admin, reset>>
    BY DEF LoadResets, CanLoad, memory
  <1>3. LoadTo(p, "boot", "write")
    BY DEF LoadResets, LoadTo
  <1> QED BY <1>1, <1>2, <1>3, FlowNames, LoadWritesControl

LEMMA LoadAdvancesControl ==
  ASSUME TypeOK, ControlOK, NEW p \in Process, NEW f \in Load, NEW E \in SUBSET Event,
         LoadAdvances(p, f, E)
  PROVE  Elsewhere(p) /\ ControlOK'
  <1> DEFINE image == [load[p][f].image EXCEPT !.hist = @ \cup E]
  <1>1. PICK w \in Write : AdvancedWrite(p, f, E, w) /\ Queue(p, w)
    BY LoadAdvancesWrite
  <1>2. /\ load[p][f].pc = "got" /\ Assign(p, image)
        /\ UNCHANGED <<mode, held, halt, admin, reset>>
    BY DEF LoadAdvances, CanLoad
  <1> HIDE DEF image
  <1>3. LoadTo(p, f, "write")
    BY DEF LoadAdvances, LoadTo
  <1>4. /\ critical'[p].pc = critical[p].pc
        /\ \A q \in Process \ {p} : live'[q] = live[q] /\ critical'[q] = critical[q]
    BY <1>2, AssignDoes DEF TypeOK
  <1>5. w.flow = f /\ w.op \in {"commit", "checkpoint"}
    BY <1>1 DEF AdvancedWrite
  <1> QED BY <1>1, <1>2, <1>3, <1>4, <1>5, LoadWritesControl

\* The write that a load waits for is the first of the queue.
LEMMA LoadWaits ==
  ASSUME FlowsOK, NEW p \in Process, Control(p), NEW f \in Load, chain[p] # <<>>,
         Head(chain[p]).flow = f
  PROVE  ~Calm(Head(chain[p])) /\ load[p][f].pc = "write"
  <1>1. f \in Flow /\ f \notin {"tick", "final"}
    BY FlowNames DEF Load
  <1>2. ~Calm(Head(chain[p])) /\ Waits(p, Head(chain[p]))
    BY <1>1, InFlight
  <1> QED BY <1>2 DEF Waits, Load

LEMMA LoadAnswersControl ==
  ASSUME TypeOK, ControlOK, NEW p \in Process, NEW f \in Load,
         \/ LoadCommitted(p, f) \/ LoadCheckpointed(p, f) \/ LoadReset(p)
         \/ LoadWriteFails(p, f)
  PROVE  Elsewhere(p) /\ ControlOK'
  <1>0. MemoryOK /\ FlowsOK /\ EnvOK /\ Control(p) /\ OneFlow(p) /\ TicksOwned(p)
    BY DEF TypeOK, ControlOK, Control
  <1>1. ASSUME NEW g \in Load, chain[p] # <<>>, Head(chain[p]).flow = g, Pop(p)
        PROVE  /\ QueueOK(p)' /\ load[p][g].pc # "none"
               /\ \A q \in Process \ {p} : chain'[q] = chain[q]
    <2>1. ~Calm(Head(chain[p])) /\ load[p][g].pc = "write"
      BY <1>0, <1>1, LoadWaits
    <2>2. chain'[p] = Tail(chain[p]) /\ \A q \in Process \ {p} : chain'[q] = chain[q]
      BY <1>0, <1>1, PopDoes
    <2> QED BY <1>0, <1>1, <2>1, <2>2, HeadLeaves
  <1>2. CASE LoadCheckpointed(p, f)
    <2>1. /\ chain[p] # <<>> /\ Head(chain[p]).flow = f /\ Pop(p) /\ LoadFinishes(p, f)
          /\ UNCHANGED <<held, halt, live, critical, admin>>
      BY <1>2 DEF LoadCheckpointed, Answered
    <2> QED BY <1>1, <2>1, LoadFinishesControl
  <1>3. CASE LoadReset(p)
    <2>1. /\ chain[p] # <<>> /\ Head(chain[p]).flow = "boot" /\ Pop(p)
          /\ LoadFinishes(p, "boot") /\ Assign(p, Head(chain[p]).image)
          /\ UNCHANGED <<held, halt, admin>>
      BY <1>3 DEF LoadReset, Answered
    <2>2. /\ critical'[p].pc = critical[p].pc
          /\ \A q \in Process \ {p} : live'[q] = live[q] /\ critical'[q] = critical[q]
      BY <1>0, <2>1, AssignDoes
    <2> QED BY <1>1, <2>1, <2>2, FlowNames, LoadFinishesControl
  <1>4. CASE LoadWriteFails(p, f)
    <2>1. /\ chain[p] # <<>> /\ Head(chain[p]).flow = f /\ Pop(p) /\ LoadThrows(p, f)
          /\ UNCHANGED <<halt, live, critical, admin>>
      BY <1>4 DEF LoadWriteFails, Fails
    <2> QED BY <1>1, <2>1, LoadThrowsControl
  <1>5. CASE LoadCommitted(p, f)
    <2>1. /\ chain[p] # <<>> /\ Head(chain[p]).flow = f
          /\ UNCHANGED <<halt, live, critical, admin>>
      BY <1>5 DEF LoadCommitted, Answered
    <2>2. CASE live[p] = NoState
      <3>1. Pop(p) /\ LoadThrows(p, f)
        BY <1>5, <2>2 DEF LoadCommitted
      <3> QED BY <1>1, <2>1, <3>1, LoadThrowsControl
    <2>3. CASE live[p] # NoState
      <3>1. PICK w \in Write : w = Checkpoint(f, live[p])
        BY <1>0, FlowNames, CheckpointType DEF MemoryOK, EnvOK
      <3>2. /\ PopQueue(p, w) /\ w.flow = f /\ w.op = "checkpoint"
            /\ UNCHANGED <<mode, held, reset, load>>
        BY <1>5, <2>3, <3>1 DEF LoadCommitted, Checkpoint, Entry
      <3>3. ~Calm(Head(chain[p])) /\ load[p][f].pc = "write"
        BY <1>0, <2>1, LoadWaits
      <3>4. /\ chain'[p] = Append(Tail(chain[p]), w)
            /\ \A q \in Process \ {p} : chain'[q] = chain[q]
        BY <1>0, <3>2, PopQueueDoes
      <3>5. \A g \in Load \ {f} : load[p][g].pc = "none"
        BY <1>0, <3>3, LoadIsAlone
      <3>6. Waits(p, w)'
        BY <3>2, <3>3 DEF Waits, Load
      <3>7. QueueOK(p)'
        <4>1. \A g \in Load : load'[p][g].pc \notin {"read", "got", "seed", "seeded"}
          BY <3>2, <3>3, <3>5
        <4> QED BY <1>0, <2>1, <3>3, <3>4, <3>6, <4>1, HeadReplaced
      <3>8. \A q \in Process : SameFlow(q)
        BY <2>1, <3>2 DEF SameFlow
      <3> QED BY <3>4, <3>5, <3>7, <3>8, QueueOnlyControl
    <2> QED BY <2>2, <2>3
  <1> QED BY <1>2, <1>3, <1>4, <1>5

-------------------------------------------------------------------------------
(* PostgreSQL.                                                                 *)

\* The write in flight commits.
LEMMA LandMoves ==
  ASSUME FlowsOK, NEW p \in Process, Land(p)
  PROVE  \E h \in Write :
           /\ Head(chain[p]) = chain[p][1] /\ 1 \in 1..Len(chain[p])
           /\ h.flow = Head(chain[p]).flow /\ h.op = Head(chain[p]).op
           /\ h.image = Head(chain[p]).image /\ h.events = Head(chain[p]).events
           /\ h.landed
           /\ Len(chain'[p]) = Len(chain[p]) /\ chain'[p][1] = h
           /\ \A i \in 1..Len(chain[p]) : i # 1 => chain'[p][i] = chain[p][i]
           /\ \A q \in Process \ {p} : chain'[q] = chain[q]
  <1> DEFINE s == chain[p]
             h == [s[1] EXCEPT !.landed = TRUE]
  <1>1. s \in Seq(Write) /\ s # <<>> /\ Head(s) = s[1] /\ 1 \in 1..Len(s) /\ s[1] \in Write
    BY DEF Land, FlowsOK
  <1>2. h \in Write /\ h.flow = s[1].flow /\ h.op = s[1].op /\ h.image = s[1].image
        /\ h.events = s[1].events /\ h.landed
    BY <1>1 DEF Write
  <1>3. chain' = [chain EXCEPT ![p] = [chain[p] EXCEPT ![1] = h]]
    BY DEF Land
  <1> HIDE DEF h
  <1>4. chain'[p] = [s EXCEPT ![1] = h] /\ \A q \in Process \ {p} : chain'[q] = chain[q]
    BY <1>3 DEF FlowsOK
  <1> HIDE DEF s
  <1>5. /\ Len([s EXCEPT ![1] = h]) = Len(s) /\ [s EXCEPT ![1] = h][1] = h
        /\ \A i \in 1..Len(s) : i # 1 => [s EXCEPT ![1] = h][i] = s[i]
    BY <1>1, <1>2
  <1> QED BY <1>1, <1>2, <1>4, <1>5 DEF s

LEMMA LandControl ==
  ASSUME TypeOK, ControlOK, NEW p \in Process, Land(p)
  PROVE  Elsewhere(p) /\ ControlOK'
  <1>0. /\ MemoryOK /\ FlowsOK
        /\ Control(p) /\ OneFlow(p) /\ TicksOwned(p) /\ QueueOK(p)
    BY DEF TypeOK, ControlOK, Control
  <1> DEFINE s == chain[p]
  <1>1. PICK h \in Write :
           /\ Head(s) = s[1] /\ 1 \in 1..Len(s)
           /\ h.flow = Head(s).flow /\ h.op = Head(s).op
           /\ Len(chain'[p]) = Len(s) /\ chain'[p][1] = h
           /\ \A i \in 1..Len(s) : i # 1 => chain'[p][i] = s[i]
           /\ \A q \in Process \ {p} : chain'[q] = chain[q]
    BY <1>0, LandMoves
  <1>2. Head(s).op # "drain" /\ UNCHANGED <<mode, held, halt, live, critical, admin, reset, load>>
    BY DEF Land, memory
  <1>3. Head(s) \in Elems(s)
    BY <1>1 DEF Elems
  <1>4. \A i \in 1..Len(s) : chain'[p][i].flow = s[i].flow /\ chain'[p][i].op = s[i].op
    BY <1>1
  <1>5. \A i \in 1..Len(s) : Calm(chain'[p][i]) <=> Calm(s[i])
    BY <1>4 DEF Calm
  <1>6. \A v \in Elems(chain'[p]) : \E u \in Elems(s) : v.flow = u.flow /\ v.op = u.op
    BY <1>1, <1>4 DEF Elems
  <1>8. QueueOK(p)'
    <2>1. ASSUME NEW v \in Writes(p)' PROVE Waits(p, v)'
      <3>1. PICK u \in Elems(s) : v.flow = u.flow /\ v.op = u.op
        BY <1>6, <2>1, WritesAre
      <3>2. Waits(p, u)
        BY <1>0, WritesAre DEF QueueOK
      <3> QED BY <1>2, <3>1, <3>2 DEF Waits, Calm
    <2>2. Ordered(chain[p])'
      <3>1. Ordered(s)
        BY <1>0 DEF QueueOK
      <3>2. ASSUME NEW i \in 1..Len(s), NEW j \in 1..Len(s), i < j, ~Calm(chain'[p][i])
            PROVE  chain'[p][j].op = "drain" /\ chain'[p][j].flow # chain'[p][i].flow
        <4>1. ~Calm(s[i])
          BY <1>5, <3>2
        <4>2. s[j].op = "drain" /\ s[j].flow # s[i].flow
          BY <3>1, <3>2, <4>1 DEF Ordered
        <4> QED BY <1>4, <4>2
      <3> QED BY <1>1, <3>2 DEF Ordered, Calm
    <2>3. ReadsSettled(p)'
      <3> SUFFICES ASSUME NEW f \in Load, load'[p][f].pc \in {"read", "got", "seed", "seeded"},
                          NEW v \in Writes(p)'
                   PROVE  v.op = "drain"
        BY DEF ReadsSettled
      <3>1. PICK u \in Elems(s) : v.flow = u.flow /\ v.op = u.op
        BY <1>6, WritesAre
      <3> QED BY <1>0, <1>2, <3>1, Resting
    <2> QED BY <2>1, <2>2, <2>3 DEF QueueOK
  <1>9. \A q \in Process : SameFlow(q)
    BY <1>2 DEF SameFlow
  <1> QED BY <1>1, <1>8, <1>9, QueueOnlyControl

-------------------------------------------------------------------------------
(* The control invariant.                                                      *)

LEMMA InitControl == Init => ControlOK
  <1> SUFFICES ASSUME Init PROVE ControlOK
    OBVIOUS
  <1>1. ASSUME NEW p \in Process
        PROVE  /\ ~held[p] /\ mode[p] = "starting" /\ Free(p) /\ Elems(chain[p]) = {}
               /\ chain[p] = <<>> /\ halt[p] = "no" /\ \A f \in Load : load[p][f].pc = "none"
    <2>1. /\ critical[p] = NoCritical /\ admin[p] = "none" /\ reset[p] = NoReset
          /\ load[p] = [f \in Load |-> NoLoad] /\ chain[p] = <<>>
      BY DEF Init
    <2>2. Elems(chain[p]) = {}
      <3>1. Len(chain[p]) = 0
        BY <2>1
      <3> QED BY <3>1 DEF Elems
    <2>3. Free(p) /\ \A f \in Load : load[p][f].pc = "none"
      BY <2>1 DEF Free, NoCritical, NoReset, NoLoad, Load
    <2> QED BY <2>1, <2>2, <2>3 DEF Init
  <1>2. ASSUME NEW p \in Process PROVE Control(p)
    <2>1. /\ ~held[p] /\ mode[p] = "starting" /\ Free(p) /\ Writes(p) = {}
          /\ halt[p] = "no" /\ \A f \in Load : load[p][f].pc = "none"
      BY <1>1, WritesAre
    <2>2. OneFlow(p) /\ TicksOwned(p)
      BY <2>1 DEF OneFlow, TicksOwned, Free
    <2>3. Ordered(chain[p])
      BY <1>1 DEF Ordered
    <2>4. ReadsSettled(p)
      BY <2>1 DEF ReadsSettled
    <2> QED BY <2>1, <2>2, <2>3, <2>4 DEF Control, QueueOK
  <1> QED BY <1>2 DEF ControlOK

LEMMA ControlNext ==
  ASSUME TypeOK, Owning, ControlOK, [Next /\ Punctual]_vars
  PROVE  ControlOK'
  <1>0. SUBSET NewEvent \subseteq SUBSET Event
    BY DEF NewEvent
  <1>1. CASE UNCHANGED vars
    BY <1>1, UntouchedControl DEF vars
  <1>2. ASSUME NEW p \in Process, LoadStep(p) PROVE ControlOK'
    <2>1. CASE \E f \in Load : LoadRead(p, f) \/ LoadRefused(p, f) \/ LoadSeeds(p, f)
                             \/ LoadSeeded(p, f)
      BY <2>1, LoadReadControl, LoadRefusedControl, LoadSeedsControl, LoadSeededControl
    <2>2. CASE \E f \in Load, E \in SUBSET NewEvent : LoadAdvances(p, f, E)
      BY <1>0, <2>2, LoadAdvancesControl
    <2> QED BY <1>2, <2>1, <2>2, LoadResetsControl DEF LoadStep
  <1>3. ASSUME NEW p \in Process, Settle(p) PROVE ControlOK'
    <2>1. CASE \E f \in Load : LoadCommitted(p, f) \/ LoadCheckpointed(p, f)
      BY <2>1, LoadAnswersControl
    <2>2. CASE LoadReset(p)
      BY <2>2, FlowNames, LoadAnswersControl
    <2>3. CASE CheckpointSettles(p) \/ CriticalSaved(p)
      BY <2>3, CheckpointControl, CriticalSavedControl
    <2>4. CASE \E E \in SUBSET NewEvent : AdminDrained(p, E)
      BY <1>0, <2>4, AdminDrainedControl
    <2>5. CASE AdminSaved(p) \/ ResetDrained(p) \/ ResetSaved(p)
      BY <2>5, AdminSettlesControl, ResetDrainedControl, ResetSavedControl
    <2>6. CASE ShutdownCheckpointed(p) \/ ShutdownDrained(p)
      BY <2>6, ShutdownCheckpointedControl, ShutdownDrainedControl
    <2> QED BY <1>3, <2>1, <2>2, <2>3, <2>4, <2>5, <2>6 DEF Settle
  <1>4. ASSUME NEW p \in Process, Fault(p) PROVE ControlOK'
    <2>1. CASE \E f \in Load : LoadReadFails(p, f) \/ LoadWriteFails(p, f) \/ SeedFails(p, f)
      BY <2>1, LoadRefusedControl, LoadAnswersControl
    <2>2. CASE CriticalFails(p) \/ AdminFails(p) \/ ResetFails(p)
      BY <2>2, CriticalFailsControl, AdminSettlesControl, ResetFailsControl
    <2>3. CASE SessionDies(p)
      BY <2>3, UntouchedControl DEF SessionDies
    <2>4. CASE LockLost(p) \/ Shutdown(p) \/ Restart(p)
      BY <2>4, LockLostControl, ShutdownControl, RestartControl
    <2> QED BY <1>4, <2>1, <2>2, <2>3, <2>4 DEF Fault
  <1>5. ASSUME NEW p \in Process, Work(p) PROVE ControlOK'
    <2>1. CASE CheckpointTick(p) \/ AdminMutate(p)
      BY <2>1, CheckpointControl, AdminMutateControl
    <2>2. CASE \E E \in SUBSET NewEvent : CriticalTick(p, E)
      BY <1>0, <2>2, CriticalTickControl
    <2>3. CASE ManualReset(p)
      BY <2>3, ResetWorldControl DEF ManualReset
    <2> QED BY <1>5, <2>1, <2>2, <2>3 DEF Work
  <1>6. ASSUME NEW p \in Process, DailyReset(p) PROVE ControlOK'
    BY <1>6, ResetWorldControl DEF DailyReset
  <1>7. ASSUME NEW p \in Process, \/ BackoffOver(p) \/ CriticalRetry(p)
                                  \/ ShutdownFlowsDone(p)
        PROVE  ControlOK'
    BY <1>7, BackoffOverControl, CriticalRetryControl, ShutdownFlowsDoneControl
  <1>9. ASSUME NEW p \in Process, TryStart(p), Punctual PROVE ControlOK'
    BY <1>9, TryStartControl
  <1>10. ASSUME NEW p \in Process, Commit(p) PROVE ControlOK'
    BY <1>10, LandControl, LoadSeedsControl DEF Commit
  <1>8. CASE OrphanEnds \/ Midnight
    BY <1>8, UntouchedControl DEF OrphanEnds, Midnight
  <1> QED BY <1>1, <1>2, <1>3, <1>4, <1>5, <1>6, <1>7, <1>8, <1>9, <1>10 DEF Next

LEMMA PunctualIsSpec == PunctualSpec => Spec
  <1>1. [Next /\ Punctual]_vars => [Next]_vars
    OBVIOUS
  <1> QED BY <1>1, PTL DEF PunctualSpec, Spec

LEMMA ControlAlways == PunctualSpec => []ControlOK
  <1>1. TypeOK /\ Owning /\ ControlOK /\ [Next /\ Punctual]_vars => ControlOK'
    BY ControlNext
  <1> QED BY InitControl, PunctualIsSpec, TypeCorrect, OwningAlways, <1>1, PTL
          DEF PunctualSpec

-------------------------------------------------------------------------------
(* What is saved is in the event log, however many processes hand the world over. *)

\* The events of an image are in the log, but for those that are saved with it.
InLog(image, E) == image # NoState => image.hist \subseteq Logged \cup E

\* What the flow that waits for w goes on with.
Knows(p, w) ==
  /\ w.flow = "critical" => w.events = critical[p].events
  /\ w.flow \in Load /\ w.op # "reset" => InLog(live[p], w.events)

Recorded(p) ==
  /\ \A w \in Writes(p) : InLog(w.image, w.events) /\ Knows(p, w)
  /\ mode[p] = "running" \/ admin[p] # "none" => InLog(live[p], {})
  /\ critical[p].pc # "none" /\ critical[p].fresh => InLog(live[p], critical[p].events)
  /\ \A f \in Load : load[p][f].pc = "got" => InLog(load[p][f].image, {})

AllRecorded == InLog(snap, {}) /\ \A p \in Process : Recorded(p)

LEMMA LogGrows == ASSUME log \subseteq log' PROVE Logged \subseteq Logged'
  BY DEF Logged

\* The log only grows, so a step of one process leaves the others' part as it is.
LEMMA RecordedStep ==
  ASSUME AllRecorded, log \subseteq log', InLog(snap, {})', NEW p \in Process,
         Elsewhere(p), Recorded(p)'
  PROVE  AllRecorded'
  <1>1. ASSUME NEW q \in Process \ {p} PROVE Recorded(q)'
    <2>1. Same(q) /\ SameFlow(q) /\ Recorded(q) /\ Logged \subseteq Logged'
      BY LogGrows DEF Elsewhere, Same, AllRecorded
    <2>2. ASSUME NEW w \in Writes(q)' PROVE InLog(w.image, w.events)' /\ Knows(q, w)'
      <3>1. w \in Writes(q)
        BY <2>1, <2>2, WritesAre DEF Same
      <3>2. InLog(w.image, w.events) /\ Knows(q, w)
        BY <2>1, <3>1 DEF Recorded
      <3> QED BY <2>1, <3>2 DEF InLog, Knows, SameFlow
    <2>3. mode'[q] = "running" \/ admin'[q] # "none" => InLog(live[q], {})'
      BY <2>1 DEF Recorded, InLog, SameFlow
    <2>4. critical'[q].pc # "none" /\ critical'[q].fresh => InLog(live[q], critical[q].events)'
      BY <2>1 DEF Recorded, InLog, SameFlow
    <2>5. \A f \in Load : load'[q][f].pc = "got" => InLog(load[q][f].image, {})'
      BY <2>1 DEF Recorded, InLog, SameFlow
    <2> QED BY <2>2, <2>3, <2>4, <2>5 DEF Recorded
  <1> QED BY <1>1 DEF AllRecorded

\* p goes on with the state that it has, or with none.
Keeps(p) ==
  /\ \A v \in Elems(chain'[p]) :
       v \in Elems(chain[p]) \/ (InLog(v.image, v.events)' /\ Knows(p, v)')
  /\ live'[p] = live[p] \/ live'[p] = NoState
  /\ mode'[p] = "running" \/ admin'[p] # "none" =>
       mode[p] = "running" \/ admin[p] # "none" \/ InLog(live[p], {})'
  /\ critical'[p].pc # "none" /\ critical'[p].fresh =>
       critical[p].pc # "none" /\ critical[p].fresh
  /\ \/ critical'[p].events = critical[p].events
     \/ critical'[p].pc = "none" /\ \A v \in Elems(chain'[p]) : v.flow # "critical"
  /\ \A f \in Load : load'[p][f].pc = "got" =>
       load'[p][f] = load[p][f] \/ InLog(load[p][f].image, {})'

LEMMA KeepsRecorded ==
  ASSUME AllRecorded, UNCHANGED <<snap, log>>, NEW p \in Process, Elsewhere(p), Keeps(p)
  PROVE  AllRecorded'
  <1>1. Recorded(p) /\ Logged' = Logged /\ InLog(snap, {})'
    BY DEF AllRecorded, Logged, InLog
  <1>2. ASSUME NEW v \in Writes(p)' PROVE InLog(v.image, v.events)' /\ Knows(p, v)'
    <2>1. CASE v \in Elems(chain[p])
      <3>1. InLog(v.image, v.events) /\ Knows(p, v)
        BY <1>1, <2>1, WritesAre DEF Recorded
      <3>2. v \in Elems(chain'[p])
        BY <1>2, WritesAre
      <3>3. v.flow = "critical" => v.events = critical'[p].events
        BY <3>1, <3>2 DEF Keeps, Knows
      <3> QED BY <1>1, <3>1, <3>3 DEF InLog, Knows, Keeps
    <2> QED BY <1>2, <2>1, WritesAre DEF Keeps
  <1>3. mode'[p] = "running" \/ admin'[p] # "none" => InLog(live[p], {})'
    BY <1>1 DEF Recorded, InLog, Keeps
  <1>4. critical'[p].pc # "none" /\ critical'[p].fresh => InLog(live[p], critical[p].events)'
    BY <1>1 DEF Recorded, InLog, Keeps
  <1>5. \A f \in Load : load'[p][f].pc = "got" => InLog(load[p][f].image, {})'
    BY <1>1 DEF Recorded, InLog, Keeps
  <1>6. Recorded(p)'
    BY <1>2, <1>3, <1>4, <1>5 DEF Recorded
  <1> QED BY <1>1, <1>6, RecordedStep

\* p goes on with another state, when no flow of the old one is left.
LEMMA AnewRecorded ==
  ASSUME AllRecorded, UNCHANGED <<snap, log>>, NEW p \in Process, Elsewhere(p),
         \A v \in Elems(chain'[p]) :
           \/ v \in Elems(chain[p]) /\ Calm(v)
           \/ InLog(v.image, v.events)' /\ Knows(p, v)',
         mode'[p] = "running" \/ admin'[p] # "none" => InLog(live[p], {})',
         critical'[p].pc # "none" /\ critical'[p].fresh =>
           InLog(live[p], critical[p].events)',
         \A f \in Load : load'[p][f].pc # "got"
  PROVE  AllRecorded'
  <1>1. Recorded(p) /\ Logged' = Logged /\ InLog(snap, {})'
    BY DEF AllRecorded, Logged, InLog
  <1>2. ASSUME NEW v \in Writes(p)' PROVE InLog(v.image, v.events)' /\ Knows(p, v)'
    <2>1. CASE v \in Elems(chain[p]) /\ Calm(v)
      <3>1. InLog(v.image, v.events)
        BY <1>1, <2>1, WritesAre DEF Recorded
      <3> QED BY <1>1, <2>1, <3>1 DEF InLog, Knows, Calm, Load
    <2> QED BY <1>2, <2>1, WritesAre
  <1>3. Recorded(p)'
    BY <1>2 DEF Recorded
  <1> QED BY <1>1, <1>3, RecordedStep

\* The parts of the hypotheses that the proofs below cite.
LEMMA Held ==
  ASSUME TypeOK, ControlOK, AllRecorded, NEW p \in Process
  PROVE  /\ MemoryOK /\ FlowsOK /\ EnvOK /\ DbOK /\ ids \in Names
         /\ Control(p) /\ OneFlow(p) /\ QueueOK(p) /\ Recorded(p)
         /\ \A v \in Elems(chain[p]) : InLog(v.image, v.events) /\ Knows(p, v) /\ v \in Write
  <1>1. Recorded(p) /\ FlowsOK
    BY DEF TypeOK, AllRecorded
  <1>2. \A v \in Elems(chain[p]) : v \in Write
    BY <1>1 DEF FlowsOK, Elems
  <1>3. \A v \in Elems(chain[p]) : InLog(v.image, v.events) /\ Knows(p, v)
    BY <1>1, WritesAre DEF Recorded
  <1> QED BY <1>1, <1>2, <1>3 DEF TypeOK, EnvOK, ControlOK, Control

LEMMA LandedLogged ==
  ASSUME SaveInv, NEW p \in Process, NEW w \in Elems(chain[p]), w.landed
  PROVE  w.events \subseteq Logged
  <1>1. ASSUME NEW e \in w.events PROVE e \in Logged
    <2>1. <<w.batch, e>> \in log
      BY <1>1, WritesAre DEF SaveInv, LandedIsLogged
    <2>2. e = <<w.batch, e>>[2]
      OBVIOUS
    <2> QED BY <2>1, <2>2 DEF Logged
  <1> QED BY <1>1

\* The queue of p keeps its writes, or loses its head, and p its state.
LEMMA IdleRecorded ==
  ASSUME TypeOK, ControlOK, AllRecorded, NEW p \in Process, Elsewhere(p),
         \/ LockLost(p) \/ Shutdown(p) \/ BackoffOver(p) \/ TryStart(p)
         \/ CheckpointSettles(p) \/ ShutdownDrained(p) \/ Restart(p)
  PROVE  AllRecorded'
  <1>0. /\ MemoryOK /\ FlowsOK /\ chain[p] \in Seq(Write) /\ Ordered(chain[p])
    BY Held DEF FlowsOK, QueueOK
  <1>1. CASE LockLost(p)
    <2>1. UNCHANGED <<snap, log, admin, load, chain>>
      BY <1>1 DEF LockLost, db
    <2>2. CASE Stopping(p)
      <3>1. UNCHANGED <<mode, live, critical>>
        BY <1>1, <2>2 DEF LockLost
      <3> QED BY <2>1, <3>1, KeepsRecorded DEF Keeps
    <2>3. CASE ~Stopping(p)
      <3>1. Assign(p, NoState) /\ mode' = [mode EXCEPT ![p] = "standby"]
        BY <1>1, <2>3 DEF LockLost
      <3>2. /\ live'[p] = NoState /\ critical'[p].pc = critical[p].pc
            /\ critical'[p].events = critical[p].events /\ ~critical'[p].fresh
            /\ mode'[p] = "standby"
        BY <1>0, <3>1, AssignDoes DEF MemoryOK
      <3> QED BY <2>1, <3>2, KeepsRecorded DEF Keeps
    <2> QED BY <2>2, <2>3
  <1>2. CASE Shutdown(p) \/ BackoffOver(p)
    <2>1. UNCHANGED <<snap, log, mode, live, critical, admin, load, chain>>
      BY <1>2 DEF Shutdown, BackoffOver, flows, db
    <2> QED BY <2>1, KeepsRecorded DEF Keeps
  <1>3. CASE TryStart(p)
    <2>1. UNCHANGED <<snap, log, live, critical, admin, chain>>
      BY <1>3 DEF TryStart, db
    <2>2. mode'[p] \in {mode[p], "standby"}
      BY <1>0, <1>3 DEF TryStart, MemoryOK
    <2>3. \A f \in Load : load'[p][f].pc = "got" => load'[p][f] = load[p][f]
      <3>1. CASE load' = load
        BY <3>1
      <3>2. CASE LoadTo(p, "boot", "read")
        BY <1>0, <3>2, FlowNames, LoadMoves
      <3> QED BY <1>3, <3>1, <3>2 DEF TryStart, LoadTo
    <2> QED BY <2>1, <2>2, <2>3, KeepsRecorded DEF Keeps
  <1>4. CASE CheckpointSettles(p)
    <2>1. chain[p] # <<>> /\ Pop(p) /\ UNCHANGED <<snap, log, mode, live, critical, admin, load>>
      BY <1>4 DEF CheckpointSettles, Answered, Fails, memory, db
    <2>2. Elems(chain'[p]) \subseteq Elems(chain[p])
      BY <1>0, <2>1, PopDoes, Popped
    <2> QED BY <2>1, <2>2, KeepsRecorded DEF Keeps
  <1>5. CASE ShutdownDrained(p)
    <2>1. /\ chain[p] # <<>> /\ Pop(p) /\ mode' = [mode EXCEPT ![p] = "stopped"]
          /\ UNCHANGED <<snap, log, live, critical, admin, load>>
      BY <1>5 DEF ShutdownDrained, Answered, db
    <2>2. Elems(chain'[p]) \subseteq Elems(chain[p]) /\ mode'[p] = "stopped"
      BY <1>0, <2>1, PopDoes, Popped DEF MemoryOK
    <2> QED BY <2>1, <2>2, KeepsRecorded DEF Keeps
  <1>6. CASE Restart(p)
    <2>1. /\ UNCHANGED <<snap, log>>
          /\ mode' = [mode EXCEPT ![p] = "starting"] /\ live' = [live EXCEPT ![p] = NoState]
          /\ critical' = [critical EXCEPT ![p] = NoCritical]
          /\ admin' = [admin EXCEPT ![p] = "none"]
          /\ load' = [load EXCEPT ![p] = [f \in Load |-> NoLoad]]
          /\ chain' = [chain EXCEPT ![p] = <<>>]
      BY <1>6 DEF Restart, db
    <2>2. /\ mode'[p] = "starting" /\ live'[p] = NoState /\ critical'[p].pc = "none"
          /\ admin'[p] = "none" /\ chain'[p] = <<>>
          /\ \A f \in Load : load'[p][f].pc = "none"
      BY <1>0, <2>1 DEF MemoryOK, FlowsOK, NoCritical, NoLoad
    <2>3. Elems(chain'[p]) = {}
      <3>1. Len(chain'[p]) = 0
        BY <2>2
      <3> QED BY <3>1 DEF Elems
    <2> QED BY <2>1, <2>2, <2>3, AnewRecorded
  <1> QED BY <1>1, <1>2, <1>3, <1>4, <1>5, <1>6

\* p queues a write of its own while its state stays.
LEMMA QueuesRecorded ==
  ASSUME TypeOK, ControlOK, AllRecorded, NEW p \in Process, Elsewhere(p), NEW w \in Write,
         Queue(p, w) \/ (chain[p] # <<>> /\ PopQueue(p, w)),
         InLog(w.image, w.events), Knows(p, w),
         UNCHANGED <<snap, log, live>>, critical'[p].events = critical[p].events,
         critical'[p].pc # "none" /\ critical'[p].fresh =>
           critical[p].pc # "none" /\ critical[p].fresh,
         mode'[p] = "running" \/ admin'[p] # "none" => mode[p] = "running" \/ admin[p] # "none",
         \A f \in Load : load'[p][f].pc = "got" => load'[p][f] = load[p][f]
  PROVE  AllRecorded'
  <1>0. FlowsOK /\ chain[p] \in Seq(Write) /\ Ordered(chain[p])
    BY Held DEF FlowsOK, QueueOK
  <1>1. ASSUME NEW v \in Elems(chain'[p]) PROVE v \in Elems(chain[p]) \/ v = w
    <2>1. CASE Queue(p, w)
      <3>1. chain'[p] = Append(chain[p], w)
        BY <1>0, <2>1, QueueDoes
      <3> QED BY <1>0, <1>1, <3>1 DEF Elems
    <2>2. CASE chain[p] # <<>> /\ PopQueue(p, w)
      <3>1. /\ chain'[p] = Append(Tail(chain[p]), w) /\ Tail(chain[p]) \in Seq(Write)
            /\ Elems(Tail(chain[p])) \subseteq Elems(chain[p])
        <4>1. chain'[p] = Append(Tail(chain[p]), w)
          BY <1>0, <2>2, PopQueueDoes
        <4>2. Tail(chain[p]) \in Seq(Write) /\ Elems(Tail(chain[p])) \subseteq Elems(chain[p])
          BY <1>0, <2>2, Popped
        <4> QED BY <4>1, <4>2
      <3>2. v \in Elems(Tail(chain[p])) \/ v = w
        <4>1. PICK s \in Seq(Write) : s = Tail(chain[p])
          BY <3>1
        <4>2. chain'[p] = Append(s, w)
          BY <3>1, <4>1
        <4>3. v \in Elems(s) \/ v = w
          BY <1>1, <4>2 DEF Elems
        <4> QED BY <4>1, <4>3
      <3> QED BY <3>1, <3>2
    <2> QED BY <2>1, <2>2
  <1>2. InLog(w.image, w.events)' /\ Knows(p, w)'
    BY DEF InLog, Knows, Logged
  <1>3. Keeps(p)
    BY <1>1, <1>2 DEF Keeps
  <1> QED BY <1>3, KeepsRecorded

\* A write that a flow other than the tick loop and shutdown() waits for.
LEMMA HeadKnown ==
  ASSUME FlowsOK, NEW p \in Process, Control(p), chain[p] # <<>>, NEW f \in Flow,
         f \notin {"tick", "final"}, Head(chain[p]).flow = f
  PROVE  /\ Waits(p, Head(chain[p])) /\ Head(chain[p]) \in Elems(chain[p])
         /\ \A v \in Elems(Tail(chain[p])) : v \in Elems(chain[p]) /\ Calm(v)
  <1>1. ~Calm(Head(chain[p])) /\ Waits(p, Head(chain[p])) /\ Head(chain[p]) \in Elems(chain[p])
    BY InFlight
  <1>2. \A v \in Elems(Tail(chain[p])) : v \in Elems(chain[p]) /\ Calm(v)
    BY <1>1, Behind
  <1> QED BY <1>1, <1>2

LEMMA SeedIsAState == Seed # NoState /\ Seed.hist = {} /\ Seed.epoch = 0
  BY SeedType, NoStateIsNoImage DEF Seed

\* What is saved is in the log without it.
LEMMA SavedLogged ==
  ASSUME NEW image, NEW E, InLog(image, E), E \subseteq Logged
  PROVE  InLog(image, {})
  BY DEF InLog

\* Drains and checkpoints of the tick loop, of shutdown() and of the flows that pause it.
LEMMA QueuedRecorded ==
  ASSUME TypeOK, ControlOK, AllRecorded, NEW p \in Process, Elsewhere(p),
         \/ CheckpointTick(p) \/ ShutdownFlowsDone(p) \/ ShutdownCheckpointed(p)
         \/ AdminMutate(p) \/ \E daily \in BOOLEAN : ResetWorld(p, daily)
  PROVE  AllRecorded'
  <1>0. MemoryOK /\ FlowsOK /\ EnvOK /\ Recorded(p)
    BY Held
  <1>1. CASE CheckpointTick(p)
    <2>1. PICK w \in Write : w = Checkpoint("tick", live[p])
      BY <1>0, FlowNames, CheckpointType DEF MemoryOK, EnvOK
    <2>2. /\ Queue(p, w) /\ mode[p] = "running" /\ w.flow = "tick" /\ w.image = live[p]
          /\ UNCHANGED <<mode, live, critical, admin, load, snap, log>>
      BY <1>1, <2>1 DEF CheckpointTick, CanTick, Checkpoint, Entry, memory, db
    <2>3. InLog(w.image, w.events) /\ Knows(p, w)
      BY <1>0, <2>2 DEF Recorded, InLog, Knows, Load
    <2> QED BY <2>2, <2>3, QueuesRecorded
  <1>2. CASE ShutdownFlowsDone(p)
    <2>0. UNCHANGED <<mode, live, critical, admin, load, snap, log>>
      BY <1>2 DEF ShutdownFlowsDone, db
    <2>1. CASE mode[p] = "running" /\ live[p] # NoState
      <3>1. PICK w \in Write : w = Checkpoint("final", live[p])
        BY <1>0, FlowNames, CheckpointType DEF MemoryOK, EnvOK
      <3>2. Queue(p, w) /\ w.flow = "final" /\ w.image = live[p]
        BY <1>2, <2>1, <3>1 DEF ShutdownFlowsDone, Checkpoint, Entry
      <3>3. InLog(w.image, w.events) /\ Knows(p, w)
        BY <1>0, <2>1, <3>2 DEF Recorded, InLog, Knows, Load
      <3> QED BY <2>0, <3>2, <3>3, QueuesRecorded
    <2>2. CASE ~(mode[p] = "running" /\ live[p] # NoState)
      <3>1. PICK w \in Write : w = Drain("final")
        BY <1>0, FlowNames, DrainType DEF EnvOK
      <3>2. Queue(p, w) /\ w.flow = "final" /\ w.image = NoState
        BY <1>2, <2>2, <3>1 DEF ShutdownFlowsDone, Drain, Entry
      <3>3. InLog(w.image, w.events) /\ Knows(p, w)
        BY <3>2 DEF InLog, Knows, Load
      <3> QED BY <2>0, <3>2, <3>3, QueuesRecorded
    <2> QED BY <2>1, <2>2
  <1>3. CASE ShutdownCheckpointed(p)
    <2>1. PICK w \in Write : w = Drain("final")
      BY <1>0, FlowNames, DrainType DEF EnvOK
    <2>2. /\ chain[p] # <<>> /\ PopQueue(p, w) /\ w.flow = "final" /\ w.image = NoState
          /\ UNCHANGED <<mode, live, critical, admin, load, snap, log>>
      BY <1>3, <2>1 DEF ShutdownCheckpointed, Answered, Fails, Drain, Entry, db
    <2>3. InLog(w.image, w.events) /\ Knows(p, w)
      BY <2>2 DEF InLog, Knows, Load
    <2> QED BY <2>2, <2>3, QueuesRecorded
  <1>4. ASSUME NEW f \in {"admin", "reset"}, Queue(p, Drain(f)), mode[p] = "running", Pause(p),
               UNCHANGED <<live, critical, load, snap, log>>
        PROVE  AllRecorded'
    <2>1. PICK w \in Write : w = Drain(f)
      BY <1>0, FlowNames, DrainType DEF EnvOK
    <2>2. Queue(p, w) /\ w.flow = f /\ w.image = NoState
      BY <1>4, <2>1 DEF Drain, Entry
    <2>3. InLog(w.image, w.events) /\ Knows(p, w)
      BY <2>2 DEF InLog, Knows, Load
    <2> QED BY <1>4, <2>2, <2>3, QueuesRecorded
  <1>5. CASE AdminMutate(p)
    <2>1. /\ Queue(p, Drain("admin")) /\ mode[p] = "running" /\ Pause(p)
          /\ UNCHANGED <<live, critical, load, snap, log>>
      BY <1>5 DEF AdminMutate, db
    <2> QED BY <1>4, <2>1
  <1>6. ASSUME NEW daily \in BOOLEAN, ResetWorld(p, daily) PROVE AllRecorded'
    <2>1. /\ Queue(p, Drain("reset")) /\ mode[p] = "running" /\ Pause(p)
          /\ UNCHANGED <<live, critical, load, snap, log>>
      BY <1>6 DEF ResetWorld, db
    <2> QED BY <1>4, <2>1
  <1> QED BY <1>1, <1>2, <1>3, <1>5, <1>6

\* The critical save: a failed or a cut one keeps what it has to save.
LEMMA CriticalRetryRecorded ==
  ASSUME TypeOK, ControlOK, AllRecorded, NEW p \in Process, Elsewhere(p), CriticalRetry(p)
  PROVE  AllRecorded'
  <1>0. /\ MemoryOK /\ FlowsOK /\ EnvOK /\ Control(p) /\ OneFlow(p) /\ Recorded(p)
    BY Held
  <1>1. /\ critical[p].pc = "backoff"
        /\ UNCHANGED <<mode, live, admin, load, snap, log>>
    BY DEF CriticalRetry, memory, db
  <1>2. CASE Unreplaced(p)
    <2>1. PICK w \in Write :
            w = Entry("critical", "commit", live[p], critical[p].events, RetryBatch(p))
      <3>1. critical[p] \in CriticalState
        BY <1>0 DEF FlowsOK
      <3>2. critical[p].events \in SUBSET Event /\ RetryBatch(p) \in Nat
        BY <3>1 DEF CriticalState, RetryBatch
      <3> QED BY <1>0, <3>2, EntryType, FlowNames DEF MemoryOK, EnvOK
    <2>2. /\ Queue(p, w) /\ critical' = [critical EXCEPT ![p].pc = "write"]
          /\ w.flow = "critical" /\ w.image = live[p] /\ w.events = critical[p].events
      BY <1>2, <2>1 DEF CriticalRetry, Entry
    <2>3. /\ critical'[p].events = critical[p].events
          /\ critical'[p].fresh = critical[p].fresh
      BY <1>0, <2>2, CriticalMoves
    <2>4. InLog(w.image, w.events) /\ Knows(p, w)
      BY <1>0, <1>1, <1>2, <2>2 DEF Recorded, Unreplaced, Knows, Load
    <2> QED BY <1>1, <2>2, <2>3, <2>4, QueuesRecorded
  <1>3. CASE ~Unreplaced(p)
    <2>1. critical'[p].pc = "none" /\ chain' = chain
      BY <1>0, <1>3, EndCriticalDoes DEF CriticalRetry
    <2>2. \A v \in Elems(chain[p]) : Calm(v)
      BY <1>0, <1>1, Unwaited DEF OneFlow
    <2>3. \A v \in Elems(chain[p]) : v.flow # "critical"
      BY <2>2 DEF Calm
    <2> QED BY <1>1, <2>1, <2>3, KeepsRecorded DEF Keeps
  <1> QED BY <1>2, <1>3

LEMMA CriticalFailsRecorded ==
  ASSUME TypeOK, ControlOK, AllRecorded, NEW p \in Process, Elsewhere(p), CriticalFails(p)
  PROVE  AllRecorded'
  <1>0. /\ MemoryOK /\ FlowsOK /\ Control(p) /\ OneFlow(p) /\ Recorded(p)
    BY Held
  <1>1. /\ chain[p] # <<>> /\ Head(chain[p]).flow = "critical" /\ Pop(p)
        /\ UNCHANGED <<mode, live, admin, load, snap, log>>
    BY DEF CriticalFails, Fails, memory, db
  <1>2. /\ Waits(p, Head(chain[p]))
        /\ \A v \in Elems(Tail(chain[p])) : v \in Elems(chain[p]) /\ Calm(v)
    BY <1>0, <1>1, HeadKnown, FlowNames
  <1>3. critical[p].pc = "write"
    BY <1>1, <1>2 DEF Waits, Calm
  <1>4. chain'[p] = Tail(chain[p])
    BY <1>0, <1>1, PopDoes
  <1>5. CASE Unreplaced(p)
    <2>1. /\ critical'[p].events = critical[p].events
          /\ critical'[p].fresh = critical[p].fresh
      BY <1>0, <1>5, CriticalMoves DEF CriticalFails
    <2> QED BY <1>1, <1>2, <1>3, <1>4, <2>1, KeepsRecorded DEF Keeps
  <1>6. CASE ~Unreplaced(p)
    <2>1. critical'[p].pc = "none"
      BY <1>0, <1>6, EndCriticalDoes DEF CriticalFails
    <2>2. \A v \in Elems(chain'[p]) : v.flow # "critical"
      BY <1>2, <1>4 DEF Calm
    <2> QED BY <1>1, <1>2, <1>4, <2>1, <2>2, KeepsRecorded DEF Keeps
  <1> QED BY <1>5, <1>6

\* The events of a saved batch are in the log, so the live state that goes on is.
LEMMA CriticalSavedRecorded ==
  ASSUME TypeOK, SaveInv, ControlOK, AllRecorded, NEW p \in Process, Elsewhere(p),
         CriticalSaved(p)
  PROVE  AllRecorded'
  <1>0. /\ MemoryOK /\ FlowsOK /\ Control(p) /\ OneFlow(p) /\ Recorded(p)
        /\ \A v \in Elems(chain[p]) : InLog(v.image, v.events) /\ Knows(p, v)
    BY Held
  <1> DEFINE h == Head(chain[p])
  <1>1. /\ chain[p] # <<>> /\ h.flow = "critical" /\ h.landed /\ Pop(p) /\ EndCritical(p)
        /\ UNCHANGED <<live, admin, load, snap, log>>
    BY DEF CriticalSaved, Answered, db
  <1>2. /\ Waits(p, h) /\ h \in Elems(chain[p])
        /\ \A v \in Elems(Tail(chain[p])) : v \in Elems(chain[p]) /\ Calm(v)
    BY <1>0, <1>1, HeadKnown, FlowNames
  <1> HIDE DEF h
  <1>3. /\ critical[p].pc = "write" /\ h.events = critical[p].events
        /\ critical[p].events \subseteq Logged
    BY <1>0, <1>1, <1>2, LandedLogged DEF Waits, Calm, Knows
  <1>4. chain'[p] = Tail(chain[p]) /\ critical'[p].pc = "none"
    BY <1>0, <1>1, PopDoes, EndCriticalDoes
  <1>5. mode[p] # "running" /\ admin[p] = "none" /\ \A f \in Load : load[p][f].pc = "none"
    BY <1>0, <1>3 DEF OneFlow, Free, Load
  <1>6. mode'[p] = "running" => InLog(live[p], {})
    <2>1. CASE Unreplaced(p)
      <3>1. InLog(live[p], critical[p].events)
        BY <1>0, <1>3, <2>1 DEF Recorded, Unreplaced
      <3> QED BY <1>3, <3>1, SavedLogged
    <2>2. CASE ~Unreplaced(p)
      BY <1>5, <2>2 DEF CriticalSaved
    <2> QED BY <2>1, <2>2
  <1>7. mode'[p] = "running" \/ admin'[p] # "none" => InLog(live[p], {})'
    BY <1>1, <1>5, <1>6 DEF InLog, Logged
  <1>8. \A f \in Load : load'[p][f].pc # "got"
    BY <1>1, <1>5
  <1> QED BY <1>1, <1>2, <1>4, <1>7, <1>8, AnewRecorded

\* A tick with critical events: they are in the save that it queues.
LEMMA CriticalTickRecorded ==
  ASSUME TypeOK, ControlOK, AllRecorded, NEW p \in Process, Elsewhere(p),
         NEW E \in SUBSET Event, CriticalTick(p, E)
  PROVE  AllRecorded'
  <1>0. MemoryOK /\ FlowsOK /\ EnvOK /\ ids \in Names /\ Control(p) /\ Recorded(p)
    BY Held
  <1> DEFINE image == [live[p] EXCEPT !.hist = @ \cup E]
             c == [pc |-> "write", events |-> E, batch |-> ids.batches + 1, fresh |-> TRUE]
  <1>1. PICK w \in Write : w = Entry("critical", "commit", image, E, ids.batches + 1)
    <2>1. image \in Image
      BY <1>0, GrownType DEF MemoryOK, CriticalTick, CanTick
    <2> QED BY <1>0, <2>1, EntryType, FreshType, FlowNames DEF EnvOK
  <1>2. /\ mode[p] = "running" /\ live[p] # NoState /\ Pause(p) /\ Queue(p, w)
        /\ live' = [live EXCEPT ![p] = image] /\ critical' = [critical EXCEPT ![p] = c]
        /\ w.flow = "critical" /\ w.image = image /\ w.events = E
        /\ UNCHANGED <<admin, load, snap, log>>
    BY <1>1 DEF CriticalTick, CanTick, Entry, db
  <1>3. live'[p] = image /\ critical'[p].events = E
    BY <1>0, <1>2 DEF MemoryOK, FlowsOK
  <1>4. InLog(image, E)
    <2>1. live[p] \in Image /\ InLog(live[p], {})
      BY <1>0, <1>2 DEF MemoryOK, Recorded
    <2>2. image.hist = live[p].hist \cup E
      BY <2>1 DEF Image
    <2> QED BY <1>2, <2>1, <2>2 DEF InLog
  <1> HIDE DEF image, c
  <1>5. chain'[p] = Append(chain[p], w) /\ chain[p] \in Seq(Write) /\ mode'[p] = "starting"
    BY <1>0, <1>2, QueueDoes, PauseDoes
  <1>6. \A v \in Elems(chain'[p]) : v \in Elems(chain[p]) \/ v = w
    BY <1>5 DEF Elems
  <1>7. /\ Free(p) /\ (\A v \in Elems(chain[p]) : Calm(v))
        /\ \A f \in Load : load[p][f].pc = "none"
    BY <1>0, <1>2, TickingIsFree
  <1>8. InLog(w.image, w.events)' /\ Knows(p, w)' /\ InLog(live[p], critical[p].events)'
    BY <1>2, <1>3, <1>4 DEF InLog, Knows, Load, Logged
  <1>9. mode'[p] # "running" /\ admin'[p] = "none" /\ \A f \in Load : load'[p][f].pc # "got"
    BY <1>2, <1>5, <1>7 DEF Free
  <1> QED BY <1>2, <1>6, <1>7, <1>8, <1>9, AnewRecorded

\* The keepers' copies: a saved one is in the log, and a failed one leaves the state that was.
LEMMA AdminDrainedRecorded ==
  ASSUME TypeOK, ControlOK, AllRecorded, NEW p \in Process, Elsewhere(p),
         NEW E \in SUBSET Event, AdminDrained(p, E)
  PROVE  AllRecorded'
  <1>0. /\ MemoryOK /\ FlowsOK /\ EnvOK /\ ids \in Names /\ Control(p) /\ Recorded(p)
    BY Held
  <1> DEFINE h == Head(chain[p])
  <1>1. /\ chain[p] # <<>> /\ h.flow = "admin" /\ h.op = "drain"
        /\ UNCHANGED <<live, critical, load, snap, log>>
    BY DEF AdminDrained, Answered, db
  <1>2. /\ Waits(p, h) /\ \A v \in Elems(Tail(chain[p])) : v \in Elems(chain[p]) /\ Calm(v)
    BY <1>0, <1>1, HeadKnown, FlowNames
  <1>3. admin[p] = "drain"
    BY <1>1, <1>2 DEF Waits, Calm
  <1>4. InLog(live[p], {})
    BY <1>0, <1>3 DEF Recorded
  <1> HIDE DEF h
  <1>5. CASE held[p] /\ live[p] # NoState /\ ~Stopping(p) /\ E # {}
    <2> DEFINE image == [live[p] EXCEPT !.hist = @ \cup E]
    <2>1. live[p] \in Image /\ image \in Image
      BY <1>0, <1>5, GrownType DEF MemoryOK
    <2>2. InLog(image, E)
      <3>1. image.hist = live[p].hist \cup E
        BY <2>1 DEF Image
      <3> QED BY <1>4, <1>5, <3>1 DEF InLog
    <2>3. PICK w \in Write : w = Entry("admin", "commit", image, E, ids.batches + 1)
      BY <1>0, <2>1, EntryType, FreshType, FlowNames DEF EnvOK
    <2>4. /\ PopQueue(p, w) /\ mode' = mode
          /\ w.flow = "admin" /\ w.events = E /\ w.image = image
      BY <1>5, <2>3 DEF AdminDrained, Entry
    <2> HIDE DEF image
    <2>5. InLog(w.image, w.events) /\ Knows(p, w)
      BY <2>2, <2>4 DEF Knows, Load
    <2> QED BY <1>1, <1>3, <2>4, <2>5, QueuesRecorded
  <1>6. CASE ~(held[p] /\ live[p] # NoState /\ ~Stopping(p) /\ E # {})
    <2>1. Pop(p) /\ AdminEnds(p)
      BY <1>6 DEF AdminDrained
    <2>2. chain'[p] = Tail(chain[p]) /\ admin'[p] = "none"
      BY <1>0, <2>1, PopDoes, AdminEndsDoes
    <2> QED BY <1>1, <1>2, <1>3, <2>2, KeepsRecorded DEF Keeps
  <1> QED BY <1>5, <1>6

LEMMA AdminSettlesRecorded ==
  ASSUME TypeOK, SaveInv, ControlOK, AllRecorded, NEW p \in Process, Elsewhere(p),
         AdminSaved(p) \/ AdminFails(p)
  PROVE  AllRecorded'
  <1>0. /\ MemoryOK /\ FlowsOK /\ Control(p) /\ Recorded(p)
        /\ \A v \in Elems(chain[p]) : InLog(v.image, v.events) /\ Knows(p, v)
    BY Held
  <1> DEFINE h == Head(chain[p])
  <1>1. /\ chain[p] # <<>> /\ h.flow = "admin" /\ h.op # "drain" /\ Pop(p)
        /\ UNCHANGED <<load, snap, log>>
    BY DEF AdminSaved, AdminFails, Answered, Fails, db
  <1>2. /\ Waits(p, h) /\ h \in Elems(chain[p])
        /\ \A v \in Elems(Tail(chain[p])) : v \in Elems(chain[p]) /\ Calm(v)
    BY <1>0, <1>1, HeadKnown, FlowNames
  <1>3. admin[p] = "write" /\ InLog(live[p], {})
    BY <1>0, <1>1, <1>2 DEF Waits, Calm, Recorded
  <1>4. /\ critical[p].pc = "none" /\ mode[p] # "running"
        /\ \A f \in Load : load[p][f].pc = "none"
    BY <1>0, <1>1, AdminWaits
  <1>5. chain'[p] = Tail(chain[p])
    BY <1>0, <1>1, PopDoes
  <1>6. CASE AdminSaved(p) /\ held[p] /\ live[p] # NoState
    <2>1. Assign(p, h.image) /\ h.landed
      BY <1>6 DEF AdminSaved, Answered
    <2>2. InLog(h.image, h.events) /\ h.events \subseteq Logged
      BY <1>0, <1>2, <2>1, LandedLogged
    <2> HIDE DEF h
    <2>3. live'[p] = h.image /\ critical'[p].pc = "none"
      BY <1>0, <1>4, <2>1, AssignDoes
    <2>4. InLog(live[p], {})'
      BY <1>1, <2>2, <2>3 DEF InLog, Logged
    <2> QED BY <1>1, <1>2, <1>4, <1>5, <2>3, <2>4, AnewRecorded
  <1>7. CASE AdminSaved(p) /\ ~(held[p] /\ live[p] # NoState)
    <2>1. UNCHANGED <<live, critical, mode>> /\ admin'[p] = "none"
      BY <1>0, <1>7 DEF AdminSaved, FlowsOK
    <2> QED BY <1>1, <1>2, <1>4, <1>5, <2>1, KeepsRecorded DEF Keeps
  <1>8. CASE AdminFails(p)
    <2>1. UNCHANGED <<live, critical>> /\ admin'[p] = "none"
      BY <1>0, <1>8, AdminEndsDoes DEF AdminFails
    <2> QED BY <1>1, <1>2, <1>3, <1>5, <2>1, KeepsRecorded DEF Keeps
  <1> QED BY <1>6, <1>7, <1>8

\* resetWorld: the new generation has no events, and a failed one ends with a reload.
LEMMA ResetThrowsRecorded ==
  ASSUME TypeOK, ControlOK, AllRecorded, NEW p \in Process, Elsewhere(p),
         chain[p] # <<>>, Head(chain[p]).flow = "reset", Pop(p), ResetThrows(p),
         UNCHANGED <<mode, live, critical, admin, snap, log>>
  PROVE  AllRecorded'
  <1>0. MemoryOK /\ FlowsOK /\ Control(p)
    BY Held
  <1>1. \A v \in Elems(Tail(chain[p])) : v \in Elems(chain[p]) /\ Calm(v)
    BY <1>0, HeadKnown, FlowNames
  <1>2. load[p]["boot"].pc = "none" /\ load[p]["reload"].pc = "none"
    BY <1>0, ResetWaits, FlowNames
  <1>3. chain'[p] = Tail(chain[p])
    BY <1>0, PopDoes
  <1>4. \A f \in Load : load'[p][f].pc # "got"
    <2>1. load'[p]["boot"].pc = "none" /\ load'[p]["reload"].pc \in {"none", "read"}
      BY <1>0, <1>2, ResetThrowsDoes
    <2> QED BY <2>1 DEF Load
  <1> QED BY <1>1, <1>3, <1>4, KeepsRecorded DEF Keeps

LEMMA ResetDrainedRecorded ==
  ASSUME TypeOK, ControlOK, AllRecorded, NEW p \in Process, Elsewhere(p),
         ResetDrained(p) \/ ResetFails(p)
  PROVE  AllRecorded'
  <1>0. FlowsOK /\ EnvOK /\ ids \in Names
    BY Held
  <1>1. /\ chain[p] # <<>> /\ Head(chain[p]).flow = "reset"
        /\ UNCHANGED <<mode, live, critical, admin, snap, log>>
    BY DEF ResetDrained, ResetFails, Answered, Fails, db
  <1>2. CASE ResetDrained(p) /\ held[p] /\ live[p] # NoState /\ ~Stopping(p)
    <2> DEFINE image == [epoch |-> ids.epochs + 1, hist |-> {}]
    <2>1. PICK w \in Write : w = Entry("reset", "reset", image, {}, 0)
      BY <1>0, EntryType, FreshType, FlowNames DEF EnvOK
    <2>2. /\ PopQueue(p, w) /\ load' = load
          /\ w.flow = "reset" /\ w.op = "reset" /\ w.image = image
      BY <1>2, <2>1 DEF ResetDrained, Entry
    <2>3. InLog(w.image, w.events) /\ Knows(p, w)
      BY <2>2 DEF InLog, Knows, Load
    <2> QED BY <1>1, <2>2, <2>3, QueuesRecorded
  <1>3. CASE ResetDrained(p) /\ ~(held[p] /\ live[p] # NoState /\ ~Stopping(p))
    <2>1. Pop(p) /\ ResetThrows(p)
      BY <1>3 DEF ResetDrained
    <2> QED BY <1>1, <2>1, ResetThrowsRecorded
  <1>4. CASE ResetFails(p)
    <2>1. Pop(p) /\ ResetThrows(p)
      BY <1>4 DEF ResetFails
    <2> QED BY <1>1, <2>1, ResetThrowsRecorded
  <1> QED BY <1>2, <1>3, <1>4

LEMMA ResetSavedRecorded ==
  ASSUME TypeOK, SaveInv, ControlOK, AllRecorded, NEW p \in Process, Elsewhere(p),
         ResetSaved(p)
  PROVE  AllRecorded'
  <1>0. /\ MemoryOK /\ FlowsOK /\ Control(p)
        /\ \A v \in Elems(chain[p]) : InLog(v.image, v.events)
    BY Held
  <1> DEFINE h == Head(chain[p])
  <1>1. /\ chain[p] # <<>> /\ h.flow = "reset" /\ h.landed /\ Pop(p) /\ Assign(p, h.image)
        /\ UNCHANGED <<load, snap, log>>
    BY DEF ResetSaved, Answered, db
  <1>2. /\ h \in Elems(chain[p])
        /\ \A v \in Elems(Tail(chain[p])) : v \in Elems(chain[p]) /\ Calm(v)
    BY <1>0, <1>1, HeadKnown, FlowNames
  <1>3. critical[p].pc = "none" /\ \A f \in Load : load[p][f].pc = "none"
    BY <1>0, <1>1, ResetWaits
  <1>4. InLog(h.image, h.events) /\ h.events \subseteq Logged
    BY <1>0, <1>1, <1>2, LandedLogged
  <1> HIDE DEF h
  <1>5. chain'[p] = Tail(chain[p])
    BY <1>0, <1>1, PopDoes
  <1>6. live'[p] = h.image /\ critical'[p].pc = "none"
    BY <1>0, <1>1, <1>3, AssignDoes
  <1>7. InLog(live[p], {})'
    BY <1>1, <1>4, <1>6 DEF InLog, Logged
  <1> QED BY <1>1, <1>2, <1>3, <1>5, <1>6, <1>7, AnewRecorded

\* load(): what it has read is in the log, and what it adds is saved before it ticks.
LEMMA LoadReadRecorded ==
  ASSUME TypeOK, ControlOK, AllRecorded, NEW p \in Process, Elsewhere(p), NEW f \in Load,
         LoadRead(p, f) \/ LoadSeeds(p, f) \/ LoadRefused(p, f) \/ LoadReadFails(p, f)
           \/ SeedFails(p, f)
  PROVE  AllRecorded'
  <1>0. MemoryOK /\ FlowsOK /\ Control(p) /\ InLog(snap, {})
    BY Held DEF AllRecorded
  <1>1. /\ load[p][f].pc \in {"read", "got", "seed", "seeded"}
        /\ UNCHANGED <<live, critical, admin, chain, snap, log>>
    BY DEF LoadRead, LoadSeeds, CanLoad, LoadRefused, LoadReadFails, SeedFails, memory, db
  <1>2. mode[p] # "running" /\ \A g \in Load \ {f} : load[p][g].pc = "none"
    BY <1>0, <1>1, LoadIsAlone
  <1>3. CASE LoadRead(p, f)
    <2> DEFINE got == [pc |-> "got", image |-> snap]
    <2>1. load' = [load EXCEPT ![p][f] = got] /\ got.image = snap /\ mode' = mode
      BY <1>3 DEF LoadRead
    <2> HIDE DEF got
    <2>2. /\ load'[p][f] = got
          /\ \A g \in Load \ {f} : load'[p][g] = load[p][g]
          /\ \A q \in Process \ {p} : load'[q] = load[q]
      BY <1>0, <2>1, LoadBecomes
    <2>3. InLog(load[p][f].image, {})'
      BY <1>0, <1>1, <2>1, <2>2 DEF InLog, Logged
    <2>4. \A g \in Load : load'[p][g] = load[p][g] \/ InLog(load[p][g].image, {})'
      BY <2>2, <2>3
    <2> QED BY <1>1, <2>1, <2>4, KeepsRecorded DEF Keeps
  <1>4. CASE LoadSeeds(p, f)
    <2>1. LoadTo(p, f, "seed") /\ mode' = mode
      BY <1>4 DEF LoadSeeds, LoadTo, memory
    <2>2. load'[p][f].pc = "seed" /\ \A g \in Load \ {f} : load'[p][g] = load[p][g]
      BY <1>0, <2>1, LoadMoves
    <2> QED BY <1>1, <2>1, <2>2, KeepsRecorded DEF Keeps
  <1>5. CASE LoadRefused(p, f) \/ LoadReadFails(p, f) \/ SeedFails(p, f)
    <2>1. LoadThrows(p, f)
      BY <1>5 DEF LoadRefused, LoadReadFails, SeedFails
    <2>2. /\ load'[p][f].pc = "none" /\ mode'[p] \in {mode[p], "standby"}
          /\ \A g \in Load \ {f} : load'[p][g] = load[p][g]
      BY <1>0, <2>1, LoadThrowsDoes
    <2> QED BY <1>1, <1>2, <2>2, KeepsRecorded DEF Keeps
  <1> QED BY <1>3, <1>4, <1>5

LEMMA LoadSeededRecorded ==
  ASSUME TypeOK, ControlOK, AllRecorded, NEW p \in Process, Elsewhere(p), NEW f \in Load,
         LoadSeeded(p, f)
  PROVE  AllRecorded'
  <1>0. MemoryOK /\ FlowsOK /\ Control(p)
    BY Held
  <1>1. /\ load[p][f].pc = "seeded" /\ Assign(p, Seed) /\ LoadFinishes(p, f)
        /\ UNCHANGED <<admin, chain, snap, log>>
    BY DEF LoadSeeded, db
  <1>2. /\ critical[p].pc = "none"
        /\ \A g \in Load \ {f} : load[p][g].pc = "none"
    BY <1>0, <1>1, LoadIsAlone
  <1>3. live'[p] = Seed /\ critical'[p].pc = "none"
    BY <1>0, <1>1, <1>2, AssignDoes
  <1>4. \A g \in Load : load'[p][g].pc # "got"
    BY <1>0, <1>1, <1>2, LoadFinishesDoes
  <1>5. \A v \in Elems(chain'[p]) : v \in Elems(chain[p]) /\ Calm(v)
    BY <1>0, <1>1, Resting
  <1>6. InLog(live[p], {})'
    BY <1>3, SeedIsAState DEF InLog
  <1> QED BY <1>1, <1>3, <1>4, <1>5, <1>6, AnewRecorded

LEMMA LoadWritesRecorded ==
  ASSUME TypeOK, ControlOK, AllRecorded, NEW p \in Process, Elsewhere(p), NEW f \in Load,
         load[p][f].pc = "got", LoadTo(p, f, "write"), NEW w \in Write, Queue(p, w),
         InLog(w.image, w.events)', Knows(p, w)', UNCHANGED <<mode, admin, snap, log>>,
         critical'[p].pc = critical[p].pc
  PROVE  AllRecorded'
  <1>0. MemoryOK /\ FlowsOK /\ Control(p)
    BY Held
  <1>1. /\ critical[p].pc = "none" /\ mode[p] # "running" /\ admin[p] = "none"
        /\ \A g \in Load \ {f} : load[p][g].pc = "none"
    BY <1>0, LoadIsAlone
  <1>2. /\ load'[p][f].pc = "write"
        /\ \A g \in Load \ {f} : load'[p][g] = load[p][g]
    BY <1>0, LoadMoves
  <1>3. chain'[p] = Append(chain[p], w) /\ chain[p] \in Seq(Write)
    BY <1>0, QueueDoes
  <1>4. \A v \in Elems(chain'[p]) : v \in Elems(chain[p]) \/ v = w
    BY <1>3 DEF Elems
  <1>5. \A v \in Elems(chain[p]) : Calm(v)
    BY <1>0, Resting
  <1>6. \A g \in Load : load'[p][g].pc # "got"
    BY <1>1, <1>2
  <1>7. \A v \in Elems(chain'[p]) : \/ v \in Elems(chain[p]) /\ Calm(v)
                                    \/ InLog(v.image, v.events)' /\ Knows(p, v)'
    BY <1>4, <1>5
  <1> QED BY <1>1, <1>6, <1>7, AnewRecorded

LEMMA LoadResetsRecorded ==
  ASSUME TypeOK, ControlOK, AllRecorded, NEW p \in Process, Elsewhere(p), LoadResets(p)
  PROVE  AllRecorded'
  <1>1. PICK w \in Write :
          /\ w = Entry("boot", "reset", [epoch |-> ids.epochs + 1, hist |-> {}], {}, 0)
          /\ Queue(p, w) /\ w.flow = "boot" /\ w.op = "reset"
    BY LoadResetsWrite
  <1>2. w.image = [epoch |-> ids.epochs + 1, hist |-> {}] /\ w.image.hist = {}
    BY <1>1 DEF Entry
  <1>3. load[p]["boot"].pc = "got" /\ UNCHANGED <<mode, critical, admin, snap, log>>
    BY DEF LoadResets, CanLoad, memory, db
  <1>4. LoadTo(p, "boot", "write")
    BY DEF LoadResets, LoadTo
  <1>5. InLog(w.image, w.events)' /\ Knows(p, w)'
    BY <1>1, <1>2 DEF InLog, Knows
  <1> QED BY <1>1, <1>3, <1>4, <1>5, FlowNames, LoadWritesRecorded

LEMMA LoadAdvancesRecorded ==
  ASSUME TypeOK, ControlOK, AllRecorded, NEW p \in Process, Elsewhere(p), NEW f \in Load,
         NEW E \in SUBSET Event, LoadAdvances(p, f, E)
  PROVE  AllRecorded'
  <1>0. MemoryOK /\ FlowsOK /\ Recorded(p)
    BY Held
  <1> DEFINE image == [load[p][f].image EXCEPT !.hist = @ \cup E]
  <1>1. PICK w \in Write : AdvancedWrite(p, f, E, w) /\ Queue(p, w)
    BY LoadAdvancesWrite
  <1>2. /\ load[p][f].pc = "got" /\ load[p][f].image # NoState /\ Assign(p, image)
        /\ UNCHANGED <<mode, admin, snap, log>>
    BY DEF LoadAdvances, CanLoad, db
  <1>3. LoadTo(p, f, "write")
    BY DEF LoadAdvances, LoadTo
  <1>4. InLog(image, E)
    <2>1. InLog(load[p][f].image, {})
      BY <1>0, <1>2 DEF Recorded
    <2>2. load[p][f].image \in Image
      BY <1>0, <1>2 DEF FlowsOK, LoadState
    <2>3. image.hist = load[p][f].image.hist \cup E
      BY <2>2 DEF Image
    <2> QED BY <1>2, <2>1, <2>3 DEF InLog
  <1>5. w.image = image /\ w.events = E /\ w.flow = f
    BY <1>1 DEF AdvancedWrite
  <1> HIDE DEF image
  <1>6. live'[p] = image /\ critical'[p].pc = critical[p].pc
    BY <1>0, <1>2, AssignDoes
  <1>7. InLog(w.image, w.events)'
    BY <1>2, <1>4, <1>5 DEF InLog, Logged
  <1>8. Knows(p, w)'
    BY <1>2, <1>4, <1>5, <1>6 DEF InLog, Logged, Knows, Load
  <1> QED BY <1>1, <1>2, <1>3, <1>6, <1>7, <1>8, LoadWritesRecorded

\* A load that ends, with its own state or with none.
LEMMA LoadEndsRecorded ==
  ASSUME TypeOK, ControlOK, AllRecorded, NEW p \in Process, Elsewhere(p), NEW f \in Load,
         load[p][f].pc = "write", chain[p] # <<>>, Head(chain[p]).flow = f, Pop(p),
         \/ LoadThrows(p, f)
         \/ LoadFinishes(p, f) /\ InLog(live[p], {})',
         UNCHANGED <<admin, snap, log>>, critical'[p].pc = critical[p].pc
  PROVE  AllRecorded'
  <1>0. MemoryOK /\ FlowsOK /\ Control(p)
    BY Held
  <1>1. f \in Flow /\ f \notin {"tick", "final"}
    BY FlowNames DEF Load
  <1>2. \A v \in Elems(Tail(chain[p])) : v \in Elems(chain[p]) /\ Calm(v)
    BY <1>0, <1>1, HeadKnown
  <1>3. chain'[p] = Tail(chain[p])
    BY <1>0, PopDoes
  <1>4. /\ critical[p].pc = "none" /\ mode[p] # "running" /\ admin[p] = "none"
        /\ \A g \in Load \ {f} : load[p][g].pc = "none"
    BY <1>0, LoadIsAlone
  <1>5. /\ load'[p][f].pc = "none"
        /\ \A g \in Load \ {f} : load'[p][g] = load[p][g]
    BY <1>0, LoadThrowsDoes, LoadFinishesDoes
  <1>6. \A g \in Load : load'[p][g].pc # "got"
    BY <1>4, <1>5
  <1>7. mode'[p] = "running" => InLog(live[p], {})'
    <2>1. CASE LoadThrows(p, f)
      <3>1. mode'[p] # "running"
        BY <1>0, <1>4, <2>1, LoadThrowsDoes
      <3> QED BY <3>1
    <2> QED BY <2>1
  <1> QED BY <1>2, <1>3, <1>4, <1>6, <1>7, AnewRecorded

LEMMA LoadAnswersRecorded ==
  ASSUME TypeOK, SaveInv, ControlOK, AllRecorded, NEW p \in Process, Elsewhere(p),
         NEW f \in Load,
         \/ LoadCommitted(p, f) \/ LoadCheckpointed(p, f) \/ LoadReset(p)
         \/ LoadWriteFails(p, f)
  PROVE  AllRecorded'
  <1>0. /\ MemoryOK /\ FlowsOK /\ EnvOK /\ Control(p)
        /\ \A v \in Elems(chain[p]) : InLog(v.image, v.events) /\ Knows(p, v)
    BY Held
  <1>1. ASSUME NEW g \in Load, chain[p] # <<>>, Head(chain[p]).flow = g
        PROVE  /\ load[p][g].pc = "write"
               /\ InLog(Head(chain[p]).image, Head(chain[p]).events) /\ Knows(p, Head(chain[p]))
               /\ Head(chain[p]).landed =>
                    /\ InLog(Head(chain[p]).image, {})
                    /\ Head(chain[p]).op # "reset" => InLog(live[p], {})
    <2> DEFINE h == Head(chain[p])
    <2>1. g \in Flow /\ g \notin {"tick", "final"}
      BY FlowNames DEF Load
    <2>2. load[p][g].pc = "write" /\ h \in Elems(chain[p])
      BY <1>0, <1>1, <2>1, HeadKnown, LoadWaits
    <2>3. InLog(h.image, h.events) /\ Knows(p, h) /\ (h.landed => h.events \subseteq Logged)
      BY <1>0, <2>2, LandedLogged
    <2>4. h.op # "reset" => InLog(live[p], h.events)
      BY <1>1, <2>3 DEF Knows
    <2> HIDE DEF h
    <2>5. h.landed => InLog(h.image, {}) /\ (h.op # "reset" => InLog(live[p], {}))
      BY <2>3, <2>4, SavedLogged
    <2> QED BY <2>2, <2>3, <2>5 DEF h
  <1>2. CASE LoadCheckpointed(p, f)
    <2>1. /\ chain[p] # <<>> /\ Head(chain[p]).flow = f /\ Head(chain[p]).op = "checkpoint"
          /\ Head(chain[p]).landed /\ Pop(p) /\ LoadFinishes(p, f)
          /\ UNCHANGED <<live, critical, admin, snap, log>>
      BY <1>2 DEF LoadCheckpointed, Answered, db
    <2>2. load[p][f].pc = "write" /\ InLog(live[p], {})
      BY <1>1, <2>1
    <2>3. InLog(live[p], {})'
      BY <2>1, <2>2 DEF InLog, Logged
    <2> QED BY <2>1, <2>2, <2>3, LoadEndsRecorded
  <1>3. CASE LoadReset(p)
    <2>1. /\ chain[p] # <<>> /\ Head(chain[p]).flow = "boot" /\ Head(chain[p]).landed
          /\ Pop(p) /\ Assign(p, Head(chain[p]).image)
          /\ LoadFinishes(p, "boot") /\ UNCHANGED <<admin, snap, log>>
      BY <1>3 DEF LoadReset, Answered, db
    <2>2. load[p]["boot"].pc = "write" /\ InLog(Head(chain[p]).image, {})
      BY <1>1, <2>1, FlowNames
    <2>3. live'[p] = Head(chain[p]).image /\ critical'[p].pc = critical[p].pc
      BY <1>0, <2>1, AssignDoes
    <2>4. InLog(live[p], {})'
      BY <2>1, <2>2, <2>3 DEF InLog, Logged
    <2> QED BY <2>1, <2>2, <2>3, <2>4, FlowNames, LoadEndsRecorded
  <1>4. CASE LoadWriteFails(p, f)
    <2>1. /\ chain[p] # <<>> /\ Head(chain[p]).flow = f /\ Pop(p) /\ LoadThrows(p, f)
          /\ UNCHANGED <<live, critical, admin, snap, log>>
      BY <1>4 DEF LoadWriteFails, Fails, db
    <2> QED BY <1>1, <2>1, LoadEndsRecorded
  <1>5. CASE LoadCommitted(p, f)
    <2>1. /\ chain[p] # <<>> /\ Head(chain[p]).flow = f /\ Head(chain[p]).op = "commit"
          /\ Head(chain[p]).landed /\ UNCHANGED <<live, critical, admin, snap, log>>
      BY <1>5 DEF LoadCommitted, Answered, db
    <2>2. load[p][f].pc = "write" /\ InLog(live[p], {})
      BY <1>1, <2>1
    <2>3. CASE live[p] = NoState
      <3>1. Pop(p) /\ LoadThrows(p, f)
        BY <1>5, <2>3 DEF LoadCommitted
      <3> QED BY <2>1, <2>2, <3>1, LoadEndsRecorded
    <2>4. CASE live[p] # NoState
      <3>1. PICK w \in Write : w = Checkpoint(f, live[p])
        BY <1>0, FlowNames, CheckpointType DEF MemoryOK, EnvOK
      <3>2. /\ PopQueue(p, w) /\ UNCHANGED <<mode, load>>
            /\ w.flow = f /\ w.image = live[p] /\ w.events = {}
        BY <1>5, <2>4, <3>1 DEF LoadCommitted, Checkpoint, Entry
      <3>3. InLog(w.image, w.events) /\ Knows(p, w)
        BY <2>2, <3>2 DEF Knows, Load
      <3> QED BY <2>1, <3>2, <3>3, QueuesRecorded
    <2> QED BY <2>3, <2>4
  <1> QED BY <1>2, <1>3, <1>4, <1>5

\* A commit records its events together with the state that contains them.
LEMMA LandRecorded ==
  ASSUME TypeOK, ControlOK, AllRecorded, NEW p \in Process, Elsewhere(p), Land(p)
  PROVE  AllRecorded'
  <1>0. /\ FlowsOK /\ Recorded(p)
        /\ \A v \in Elems(chain[p]) : InLog(v.image, v.events) /\ Knows(p, v)
    BY Held
  <1> DEFINE g == Head(chain[p])
  <1>1. PICK h \in Write :
          /\ g = chain[p][1] /\ 1 \in 1..Len(chain[p])
          /\ h.flow = g.flow /\ h.op = g.op /\ h.image = g.image /\ h.events = g.events
          /\ Len(chain'[p]) = Len(chain[p]) /\ chain'[p][1] = h
          /\ \A i \in 1..Len(chain[p]) : i # 1 => chain'[p][i] = chain[p][i]
    BY <1>0, LandMoves
  <1>2. /\ snap' = g.image /\ log' = log \cup {<<g.batch, e>> : e \in g.events}
        /\ UNCHANGED <<mode, live, critical, admin, load>>
    BY DEF Land, memory
  <1>3. g \in Elems(chain[p])
    BY <1>1 DEF Elems
  <1> HIDE DEF g
  <1>4. Logged \subseteq Logged'
    BY <1>2, LogGrows
  <1>5. InLog(snap, {})'
    <2>1. ASSUME NEW e \in g.events PROVE e \in Logged'
      <3>1. <<g.batch, e>> \in log' /\ <<g.batch, e>>[2] = e
        BY <1>2
      <3> QED BY <3>1 DEF Logged
    <2>2. InLog(g.image, g.events)
      BY <1>0, <1>3
    <2> QED BY <1>2, <1>4, <2>1, <2>2 DEF InLog
  <1>6. ASSUME NEW v \in Writes(p)' PROVE InLog(v.image, v.events)' /\ Knows(p, v)'
    <2>1. PICK u \in Elems(chain[p]) : /\ v.flow = u.flow /\ v.op = u.op
                                       /\ v.image = u.image /\ v.events = u.events
      <3>1. PICK i \in 1..Len(chain'[p]) : v = chain'[p][i]
        BY <1>6, WritesAre DEF Elems
      <3>2. i \in 1..Len(chain[p]) /\ chain[p][i] \in Elems(chain[p])
        BY <1>1, <3>1 DEF Elems
      <3> QED BY <1>1, <3>1, <3>2
    <2>2. InLog(u.image, u.events) /\ Knows(p, u)
      BY <1>0
    <2> QED BY <1>2, <1>4, <2>1, <2>2 DEF InLog, Knows
  <1>7. Recorded(p)'
    <2>1. mode'[p] = "running" \/ admin'[p] # "none" => InLog(live[p], {})'
      BY <1>0, <1>2, <1>4 DEF Recorded, InLog
    <2>2. critical'[p].pc # "none" /\ critical'[p].fresh => InLog(live[p], critical[p].events)'
      BY <1>0, <1>2, <1>4 DEF Recorded, InLog
    <2>3. \A f \in Load : load'[p][f].pc = "got" => InLog(load[p][f].image, {})'
      BY <1>0, <1>2, <1>4 DEF Recorded, InLog
    <2> QED BY <1>6, <2>1, <2>2, <2>3 DEF Recorded
  <1> QED BY <1>2, <1>5, <1>7, RecordedStep

\* The first population has no events.
LEMMA SeedLandsRecorded ==
  ASSUME TypeOK, ControlOK, AllRecorded, NEW p \in Process, Elsewhere(p), NEW f \in Load,
         SeedLands(p, f)
  PROVE  AllRecorded'
  <1>0. FlowsOK /\ Recorded(p)
    BY Held
  <1>1. /\ snap' = Seed /\ Logged' = Logged /\ log' = log
        /\ UNCHANGED <<mode, live, critical, admin, chain>>
    BY DEF SeedLands, memory, Logged
  <1>2. load'[p][f].pc = "seeded" /\ \A g \in Load \ {f} : load'[p][g] = load[p][g]
    <2>1. LoadTo(p, f, "seeded")
      BY DEF SeedLands, LoadTo
    <2> QED BY <1>0, <2>1, LoadMoves
  <1>3. InLog(snap, {})'
    BY <1>1, SeedIsAState DEF InLog
  <1>4. ASSUME NEW v \in Writes(p)' PROVE InLog(v.image, v.events)' /\ Knows(p, v)'
    <2>1. InLog(v.image, v.events) /\ Knows(p, v)
      BY <1>0, <1>1, <1>4, WritesAre DEF Recorded
    <2> QED BY <1>1, <2>1 DEF InLog, Knows
  <1>5. Recorded(p)'
    <2>1. \A g \in Load : load'[p][g].pc = "got" => InLog(load[p][g].image, {})'
      BY <1>0, <1>1, <1>2 DEF Recorded, InLog
    <2>2. mode'[p] = "running" \/ admin'[p] # "none" => InLog(live[p], {})'
      BY <1>0, <1>1 DEF Recorded, InLog
    <2>3. critical'[p].pc # "none" /\ critical'[p].fresh => InLog(live[p], critical[p].events)'
      BY <1>0, <1>1 DEF Recorded, InLog
    <2> QED BY <1>4, <2>1, <2>2, <2>3 DEF Recorded
  <1> QED BY <1>1, <1>3, <1>5, RecordedStep

\* What is in no process and in no table.
LEMMA UntouchedRecorded ==
  ASSUME AllRecorded, UNCHANGED <<memory, flows, db>>
  PROVE  AllRecorded'
  <1>1. UNCHANGED <<mode, live, critical, admin, load, chain, snap, log>> /\ Logged' = Logged
    BY DEF memory, flows, db, Logged
  <1>2. ASSUME NEW p \in Process PROVE Recorded(p)'
    <2>1. Recorded(p) /\ Writes(p)' = Writes(p)
      BY <1>1 DEF AllRecorded, Writes
    <2>2. \A v \in Writes(p)' : InLog(v.image, v.events)' /\ Knows(p, v)'
      BY <1>1, <2>1 DEF Recorded, InLog, Knows
    <2>3. mode'[p] = "running" \/ admin'[p] # "none" => InLog(live[p], {})'
      BY <1>1, <2>1 DEF Recorded, InLog
    <2>4. critical'[p].pc # "none" /\ critical'[p].fresh => InLog(live[p], critical[p].events)'
      BY <1>1, <2>1 DEF Recorded, InLog
    <2>5. \A f \in Load : load'[p][f].pc = "got" => InLog(load[p][f].image, {})'
      BY <1>1, <2>1 DEF Recorded, InLog
    <2> QED BY <2>2, <2>3, <2>4, <2>5 DEF Recorded
  <1>3. InLog(snap, {})'
    BY <1>1 DEF AllRecorded, InLog
  <1> QED BY <1>2, <1>3 DEF AllRecorded

LEMMA InitRecorded == Init => AllRecorded
  <1> SUFFICES ASSUME Init PROVE AllRecorded
    OBVIOUS
  <1>1. ASSUME NEW p \in Process PROVE Recorded(p)
    <2>1. /\ mode[p] = "starting" /\ critical[p] = NoCritical /\ admin[p] = "none"
          /\ load[p] = [f \in Load |-> NoLoad] /\ chain[p] = <<>>
      BY DEF Init
    <2>2. Writes(p) = {}
      <3>1. Len(chain[p]) = 0
        BY <2>1
      <3> QED BY <3>1 DEF Writes
    <2> QED BY <2>1, <2>2 DEF Recorded, NoCritical, NoLoad
  <1>2. InLog(snap, {})
    BY DEF Init, InLog
  <1> QED BY <1>1, <1>2 DEF AllRecorded

LEMMA RecordedNext ==
  ASSUME TypeOK, SaveInv, Owning, ControlOK, AllRecorded, [Next /\ Punctual]_vars
  PROVE  AllRecorded'
  <1>0. SUBSET NewEvent \subseteq SUBSET Event
    BY DEF NewEvent
  <1>1. CASE UNCHANGED vars
    BY <1>1, UntouchedRecorded DEF vars
  <1>2. ASSUME NEW p \in Process, LoadStep(p) PROVE AllRecorded'
    <2>1. CASE \E f \in Load : LoadRead(p, f) \/ LoadRefused(p, f) \/ LoadSeeds(p, f)
      BY <2>1, LoadReadControl, LoadRefusedControl, LoadSeedsControl, LoadReadRecorded
    <2>2. CASE \E f \in Load : LoadSeeded(p, f)
      BY <2>2, LoadSeededControl, LoadSeededRecorded
    <2>3. CASE \E f \in Load, E \in SUBSET NewEvent : LoadAdvances(p, f, E)
      BY <1>0, <2>3, LoadAdvancesControl, LoadAdvancesRecorded
    <2> QED BY <1>2, <2>1, <2>2, <2>3, LoadResetsControl, LoadResetsRecorded DEF LoadStep
  <1>3. ASSUME NEW p \in Process, Settle(p) PROVE AllRecorded'
    <2>1. CASE \E f \in Load : LoadCommitted(p, f) \/ LoadCheckpointed(p, f)
      BY <2>1, LoadAnswersControl, LoadAnswersRecorded
    <2>2. CASE LoadReset(p)
      BY <2>2, FlowNames, LoadAnswersControl, LoadAnswersRecorded
    <2>3. CASE CheckpointSettles(p) \/ ShutdownDrained(p)
      BY <2>3, CheckpointControl, ShutdownDrainedControl, IdleRecorded
    <2>4. CASE CriticalSaved(p)
      BY <2>4, CriticalSavedControl, CriticalSavedRecorded
    <2>5. CASE \E E \in SUBSET NewEvent : AdminDrained(p, E)
      BY <1>0, <2>5, AdminDrainedControl, AdminDrainedRecorded
    <2>6. CASE AdminSaved(p)
      BY <2>6, AdminSettlesControl, AdminSettlesRecorded
    <2>7. CASE ResetDrained(p) \/ ResetSaved(p)
      BY <2>7, ResetDrainedControl, ResetSavedControl, ResetDrainedRecorded,
         ResetSavedRecorded
    <2>8. CASE ShutdownCheckpointed(p)
      BY <2>8, ShutdownCheckpointedControl, QueuedRecorded
    <2> QED BY <1>3, <2>1, <2>2, <2>3, <2>4, <2>5, <2>6, <2>7, <2>8 DEF Settle
  <1>4. ASSUME NEW p \in Process, Fault(p) PROVE AllRecorded'
    <2>1. CASE \E f \in Load : LoadReadFails(p, f) \/ LoadWriteFails(p, f) \/ SeedFails(p, f)
      BY <2>1, LoadRefusedControl, LoadAnswersControl, LoadReadRecorded, LoadAnswersRecorded
    <2>2. CASE CriticalFails(p) \/ ResetFails(p)
      BY <2>2, CriticalFailsControl, ResetFailsControl, CriticalFailsRecorded,
         ResetDrainedRecorded
    <2>3. CASE AdminFails(p)
      BY <2>3, AdminSettlesControl, AdminSettlesRecorded
    <2>4. CASE SessionDies(p)
      BY <2>4, UntouchedRecorded DEF SessionDies
    <2>5. CASE LockLost(p) \/ Shutdown(p) \/ Restart(p)
      BY <2>5, LockLostControl, ShutdownControl, RestartControl, IdleRecorded
    <2> QED BY <1>4, <2>1, <2>2, <2>3, <2>4, <2>5 DEF Fault
  <1>5. ASSUME NEW p \in Process, Work(p) PROVE AllRecorded'
    <2>1. CASE CheckpointTick(p)
      BY <2>1, CheckpointControl, QueuedRecorded
    <2>2. CASE AdminMutate(p)
      BY <2>2, AdminMutateControl, QueuedRecorded
    <2>3. CASE \E E \in SUBSET NewEvent : CriticalTick(p, E)
      BY <1>0, <2>3, CriticalTickControl, CriticalTickRecorded
    <2>4. CASE ManualReset(p)
      BY <2>4, ResetWorldControl, QueuedRecorded DEF ManualReset
    <2> QED BY <1>5, <2>1, <2>2, <2>3, <2>4 DEF Work
  <1>6. ASSUME NEW p \in Process, DailyReset(p) PROVE AllRecorded'
    BY <1>6, ResetWorldControl, QueuedRecorded DEF DailyReset
  <1>7. ASSUME NEW p \in Process, TryStart(p), Punctual PROVE AllRecorded'
    BY <1>7, TryStartControl, IdleRecorded
  <1>8. ASSUME NEW p \in Process, Commit(p) PROVE AllRecorded'
    BY <1>8, LandControl, LoadSeedsControl, LandRecorded, SeedLandsRecorded DEF Commit
  <1>9. ASSUME NEW p \in Process, BackoffOver(p) PROVE AllRecorded'
    BY <1>9, BackoffOverControl, IdleRecorded
  <1>10. ASSUME NEW p \in Process, ShutdownFlowsDone(p) PROVE AllRecorded'
    BY <1>10, ShutdownFlowsDoneControl, QueuedRecorded
  <1>11. ASSUME NEW p \in Process, CriticalRetry(p) PROVE AllRecorded'
    BY <1>11, CriticalRetryControl, CriticalRetryRecorded
  <1>12. CASE OrphanEnds \/ Midnight
    BY <1>12, UntouchedRecorded DEF OrphanEnds, Midnight
  <1> QED BY <1>1, <1>2, <1>3, <1>4, <1>5, <1>6, <1>7, <1>8, <1>9, <1>10, <1>11, <1>12
          DEF Next

LEMMA RecordedAlways == PunctualSpec => []AllRecorded
  <1>1. TypeOK /\ SaveInv /\ Owning /\ ControlOK /\ AllRecorded /\ [Next /\ Punctual]_vars
          => AllRecorded'
    BY RecordedNext
  <1> QED BY InitRecorded, PunctualIsSpec, TypeCorrect, SavePromise, OwningAlways,
             ControlAlways, <1>1, PTL
          DEF PunctualSpec

\* Any number of processes may hand the world over, with locks that PostgreSQL ends before
\* their owners know, with failed saves, lost answers, resets and crashes: no recovery
\* snapshot ever has a birth or a death that the event log does not have.  The only
\* condition is that a process that retakes the lock has ended what it had under way.
THEOREM SnapshotsAreLogged == PunctualSpec => []SnapshotNeverAheadOfLog
  <1>1. AllRecorded => SnapshotNeverAheadOfLog
    BY DEF AllRecorded, InLog, SnapshotNeverAheadOfLog
  <1> QED BY RecordedAlways, <1>1, PTL

-------------------------------------------------------------------------------
(* A step of one process keeps the one history, if it does not write the tables *)
(* and keeps its own part.                                                      *)

\* Only fresh names were handed out.
TablesStay ==
  /\ snap' = snap /\ rows' = rows /\ log' = log
  /\ ids.events \subseteq ids'.events /\ ids.epochs <= ids'.epochs

LEMMA NamedStays ==
  ASSUME ids \in Names, UNCHANGED db, NEW E,
         \/ ids' = ids
         \/ ids' = [ids EXCEPT !.events = @ \cup E, !.batches = @ + 1]
         \/ ids' = [ids EXCEPT !.epochs = @ + 1]
  PROVE  TablesStay
  <1>1. ids.epochs \in Nat
    BY DEF Names
  <1>2. ids.events \subseteq ids'.events /\ ids.epochs <= ids'.epochs
    <2>1. CASE ids' = ids
      BY <1>1, <2>1
    <2>2. CASE ids' = [ids EXCEPT !.events = @ \cup E, !.batches = @ + 1]
      BY <1>1, <2>2 DEF Names
    <2>3. CASE ids' = [ids EXCEPT !.epochs = @ + 1]
      BY <1>1, <2>3 DEF Names
    <2> QED BY <2>1, <2>2, <2>3
  <1> QED BY <1>2 DEF TablesStay, db

LEMMA WriteKept ==
  ASSUME TablesStay, NEW w \in Write, WriteOK(w), ids \in Names, ids' \in Names
  PROVE  WriteOK(w)'
  <1>1. Logged' = Logged /\ snap' = snap
    BY DEF TablesStay, Logged
  <1>2. w.op = "commit" => Follows(w.image, w.events)'
    BY <1>1 DEF WriteOK, Follows
  <1>3. w.op = "reset" => w.image.epoch <= ids'.epochs
    <2>1. ASSUME w.op = "reset" PROVE w.image \in Image
      BY <2>1 DEF Write, WriteOK
    <2>2. ASSUME w.op = "reset" PROVE w.image.epoch \in Nat
      BY <2>1, <2>2 DEF Image
    <2> QED BY <2>2 DEF TablesStay, WriteOK, Names
  <1> QED BY <1>1, <1>2, <1>3 DEF WriteOK

\* No flow remembers a write that nobody waits for.
LEMMA CalmForgotten ==
  ASSUME NEW p, NEW w, Calm(w)
  PROVE  RemembersOK(p, w) /\ RemembersOK(p, w)'
  BY DEF Calm, RemembersOK, Load

LEMMA WritesTyped ==
  ASSUME FlowsOK, NEW p \in Process
  PROVE  Elems(chain[p]) \subseteq Write
  BY DEF FlowsOK, Elems

LEMMA HistoryStep ==
  ASSUME TypeOK, TypeOK', OneHistory, TablesStay, NEW p \in Process, Elsewhere(p),
         MemoryMatches(p)'
  PROVE  OneHistory'
  <1>0. ids \in Names /\ ids' \in Names /\ FlowsOK
    BY DEF TypeOK, EnvOK
  <1>1. TablesMatch'
    <2>1. Logged' = Logged /\ snap' = snap /\ rows' = rows
      BY DEF TablesStay, Logged
    <2>2. snap # NoState => snap.epoch <= ids'.epochs
      <3>1. ASSUME snap # NoState PROVE snap.epoch \in Nat
        BY <3>1 DEF TypeOK, DbOK, Image
      <3> QED BY <1>0, <3>1 DEF OneHistory, TablesMatch, TablesStay, Names
    <2> QED BY <2>1, <2>2 DEF OneHistory, TablesMatch, TablesStay
  <1>2. ASSUME NEW q \in Process \ {p} PROVE MemoryMatches(q)'
    <2>1. Same(q) /\ SameFlow(q) /\ MemoryMatches(q)
      BY DEF Elsewhere, OneHistory, Same
    <2>2. snap' = snap /\ Logged' = Logged
      BY DEF TablesStay, Logged
    <2>3. ASSUME NEW w \in Writes(q)' PROVE WriteOK(w)' /\ RemembersOK(q, w)'
      <3>1. w \in Writes(q) /\ w \in Write
        BY <1>0, <2>1, <2>3, WritesAre, WritesTyped DEF Same
      <3>2. WriteOK(w) /\ RemembersOK(q, w)
        BY <2>1, <3>1 DEF MemoryMatches
      <3>3. WriteOK(w)'
        BY <1>0, <3>1, <3>2, WriteKept
      <3>4. RemembersOK(q, w)'
        BY <2>1, <2>2, <3>2 DEF RemembersOK, SameFlow
      <3> QED BY <3>3, <3>4
    <2>4. TicksDurable(q)'
      BY <2>1, <2>2 DEF MemoryMatches, TicksDurable, SameFlow
    <2>5. CriticalFollows(q)'
      BY <2>1, <2>2 DEF MemoryMatches, CriticalFollows, Follows, SameFlow
    <2>6. ReadCurrent(q)'
      BY <2>1, <2>2 DEF MemoryMatches, ReadCurrent, SameFlow
    <2> QED BY <2>3, <2>4, <2>5, <2>6 DEF MemoryMatches
  <1> QED BY <1>1, <1>2 DEF OneHistory

\* The writes of p are calm ones that were there, or follow the tables.
LEMMA MemoryStep ==
  ASSUME TypeOK, TypeOK', OneHistory, TablesStay, NEW p \in Process, Elsewhere(p),
         \A v \in Elems(chain'[p]) : \/ v \in Elems(chain[p]) /\ Calm(v)
                                     \/ WriteOK(v)' /\ RemembersOK(p, v)',
         TicksDurable(p)', CriticalFollows(p)', ReadCurrent(p)'
  PROVE  OneHistory'
  <1>0. ids \in Names /\ ids' \in Names /\ FlowsOK
    BY DEF TypeOK, EnvOK
  <1>1. ASSUME NEW v \in Writes(p)' PROVE WriteOK(v)' /\ RemembersOK(p, v)'
    <2>1. CASE v \in Elems(chain[p]) /\ Calm(v)
      <3>1. WriteOK(v) /\ v \in Write
        BY <1>0, <2>1, WritesAre, WritesTyped DEF OneHistory, MemoryMatches
      <3> QED BY <1>0, <2>1, <3>1, WriteKept, CalmForgotten
    <2>2. CASE WriteOK(v)' /\ RemembersOK(p, v)'
      BY <2>2
    <2> QED BY <1>1, <2>1, <2>2, WritesAre
  <1>2. MemoryMatches(p)'
    BY <1>1 DEF MemoryMatches
  <1> QED BY <1>2, HistoryStep

\* The flows of p go on, or forget the state that they would have saved.
FlowsStay(p) ==
  /\ \A v \in Elems(chain'[p]) :
       v \in Elems(chain[p]) \/ (WriteOK(v)' /\ RemembersOK(p, v)')
  /\ mode'[p] = "running" => mode[p] = "running"
  /\ held'[p] => held[p]
  /\ critical'[p].pc = critical[p].pc /\ critical'[p].events = critical[p].events
  /\ \/ live'[p] = live[p] /\ critical'[p].fresh = critical[p].fresh
     \/ live'[p] = NoState /\ ~held'[p] /\ ~critical'[p].fresh /\ mode'[p] # "running"
  /\ \A f \in Load : load'[p][f].pc \in {"got", "seed", "seeded"} => load'[p][f] = load[p][f]

LEMMA QuietHistory ==
  ASSUME TypeOK, TypeOK', OneHistory, TablesStay, NEW p \in Process, Elsewhere(p),
         FlowsStay(p)
  PROVE  OneHistory'
  <1>0. ids \in Names /\ ids' \in Names /\ FlowsOK /\ MemoryMatches(p)
    BY DEF TypeOK, EnvOK, OneHistory
  <1>1. snap' = snap /\ Logged' = Logged
    BY DEF TablesStay, Logged
  <1>2. ASSUME NEW v \in Writes(p)' PROVE WriteOK(v)' /\ RemembersOK(p, v)'
    <2>1. CASE v \in Elems(chain[p])
      <3>1. WriteOK(v) /\ RemembersOK(p, v) /\ v \in Write
        BY <1>0, <2>1, WritesAre, WritesTyped DEF MemoryMatches
      <3>2. WriteOK(v)'
        BY <1>0, <3>1, WriteKept
      <3>3. RemembersOK(p, v)'
        BY <1>1, <3>1 DEF RemembersOK, FlowsStay
      <3> QED BY <3>2, <3>3
    <2>2. CASE v \notin Elems(chain[p])
      BY <1>2, <2>2, WritesAre DEF FlowsStay
    <2> QED BY <2>1, <2>2
  <1>3. TicksDurable(p)'
    BY <1>0, <1>1 DEF MemoryMatches, TicksDurable, FlowsStay
  <1>4. CriticalFollows(p)'
    BY <1>0, <1>1 DEF MemoryMatches, CriticalFollows, Follows, FlowsStay
  <1>5. ReadCurrent(p)'
    BY <1>0, <1>1 DEF MemoryMatches, ReadCurrent, FlowsStay
  <1>6. MemoryMatches(p)'
    BY <1>2, <1>3, <1>4, <1>5 DEF MemoryMatches
  <1> QED BY <1>6, HistoryStep

-------------------------------------------------------------------------------
(* Every action but a commit keeps the one history.                            *)

\* The parts of the hypotheses that the proofs below cite.
LEMMA Known ==
  ASSUME TypeOK, TypeOK', ControlOK, ControlOK', OneHistory, NEW p \in Process
  PROVE  /\ MemoryOK /\ FlowsOK /\ EnvOK /\ DbOK /\ ids \in Names
         /\ Control(p) /\ OneFlow(p) /\ QueueOK(p)
         /\ OneFlow(p)' /\ QueueOK(p)'
         /\ MemoryMatches(p) /\ TablesMatch
         /\ TicksDurable(p) /\ CriticalFollows(p) /\ ReadCurrent(p)
         /\ \A v \in Elems(chain[p]) : WriteOK(v) /\ RemembersOK(p, v) /\ v \in Write
  <1>1. MemoryMatches(p)
    BY DEF OneHistory
  <1>2. FlowsOK
    BY DEF TypeOK
  <1>3. \A v \in Elems(chain[p]) : WriteOK(v) /\ RemembersOK(p, v) /\ v \in Write
    BY <1>1, <1>2, WritesAre, WritesTyped DEF MemoryMatches
  <1> QED BY <1>1, <1>3 DEF TypeOK, EnvOK, ControlOK, Control, MemoryMatches, OneHistory

\* A step of simulation from the durable state follows it with new events only.
LEMMA NewFollows ==
  ASSUME TypeOK, TablesMatch, NEW E \in SUBSET NewEvent, snap # NoState
  PROVE  /\ Follows([snap EXCEPT !.hist = @ \cup E], E)
         /\ [snap EXCEPT !.hist = @ \cup {}] = snap
  <1>1. snap \in Image
    BY DEF TypeOK, DbOK
  <1>2. [snap EXCEPT !.hist = @ \cup E] \in Image
    BY <1>1, GrownType DEF NewEvent
  <1>3. [snap EXCEPT !.hist = @ \cup E] # NoState
    BY <1>2, NoStateIsNoImage
  <1>4. E \cap Logged = {}
    BY DEF NewEvent, TablesMatch
  <1>5. /\ [snap EXCEPT !.hist = @ \cup E].epoch = snap.epoch
        /\ [snap EXCEPT !.hist = @ \cup E].hist = snap.hist \cup E
        /\ [snap EXCEPT !.hist = @ \cup {}] = snap
    BY <1>1 DEF Image
  <1> QED BY <1>3, <1>4, <1>5 DEF Follows

\* ... and stays so while the tables stay.
LEMMA FollowsStays ==
  ASSUME TablesStay, NEW image, NEW E
  PROVE  Follows(image, E)' <=> Follows(image, E)
  BY DEF TablesStay, Follows, Logged

LEMMA LockLostHistory ==
  ASSUME TypeOK, TypeOK', ControlOK, ControlOK', OneHistory, NEW p \in Process,
         Elsewhere(p), LockLost(p)
  PROVE  OneHistory'
  <1>0. MemoryOK /\ FlowsOK /\ ids \in Names
    BY Known
  <1>1. TablesStay
    <2>1. UNCHANGED db /\ ids' = ids
      BY DEF LockLost
    <2> QED BY <1>0, <2>1, NamedStays
  <1>2. held'[p] = FALSE /\ UNCHANGED <<load, chain>>
    BY <1>0 DEF LockLost, MemoryOK
  <1>3. FlowsStay(p)
    <2>1. CASE Stopping(p)
      <3>1. UNCHANGED <<mode, live, critical>>
        BY <2>1 DEF LockLost
      <3> QED BY <1>2, <3>1 DEF FlowsStay
    <2>2. CASE ~Stopping(p)
      <3>1. Assign(p, NoState) /\ mode' = [mode EXCEPT ![p] = "standby"]
        BY <2>2 DEF LockLost
      <3>2. mode'[p] = "standby"
        BY <1>0, <3>1 DEF MemoryOK
      <3>3. /\ live'[p] = NoState /\ critical'[p].pc = critical[p].pc
            /\ critical'[p].events = critical[p].events /\ ~critical'[p].fresh
        BY <1>0, <3>1, AssignDoes
      <3> QED BY <1>2, <3>2, <3>3 DEF FlowsStay
    <2> QED BY <2>1, <2>2
  <1> QED BY <1>1, <1>3, QuietHistory

\* Nothing of p changes but its queue and the progress of its shutdown().
LEMMA QueueHistory ==
  ASSUME TypeOK, TypeOK', ControlOK, ControlOK', OneHistory, NEW p \in Process,
         Elsewhere(p), UNCHANGED <<held, live, critical, admin, reset, load, db, ids>>,
         mode'[p] = "running" => mode[p] = "running",
         \A v \in Elems(chain'[p]) :
           v \in Elems(chain[p]) \/ (WriteOK(v)' /\ RemembersOK(p, v)')
  PROVE  OneHistory'
  <1>1. TablesStay
    BY Known, NamedStays
  <1>2. FlowsStay(p)
    BY DEF FlowsStay
  <1> QED BY <1>1, <1>2, QuietHistory

\* What shutdown() and the tick loop queue.
LEMMA CalmWriteOK ==
  ASSUME NEW p \in Process, NEW w \in Write, Calm(w), w.events = {}, ~w.landed,
         w.op = "checkpoint" => w.image = snap' /\ snap' # NoState
  PROVE  WriteOK(w)' /\ RemembersOK(p, w)'
  <1>1. RemembersOK(p, w)'
    BY CalmForgotten
  <1> QED BY <1>1 DEF WriteOK, Calm

LEMMA ShutdownHistory ==
  ASSUME TypeOK, TypeOK', ControlOK, ControlOK', OneHistory, NEW p \in Process,
         Elsewhere(p),
         \/ Shutdown(p) \/ ShutdownFlowsDone(p) \/ ShutdownCheckpointed(p)
         \/ BackoffOver(p) \/ CheckpointTick(p) \/ CheckpointSettles(p)
  PROVE  OneHistory'
  <1>0. /\ MemoryOK /\ FlowsOK /\ EnvOK /\ QueueOK(p) /\ TicksDurable(p)
        /\ \A v \in Elems(chain[p]) : v \in Write
    BY Known
  <1>1. UNCHANGED <<mode, held, live, critical, admin, reset, load, db, ids>>
    BY DEF Shutdown, ShutdownFlowsDone, ShutdownCheckpointed, BackoffOver, CheckpointTick,
           CheckpointSettles, memory, flows, env
  <1>2. snap' = snap
    BY <1>1 DEF db
  <1>3. chain[p] \in Seq(Write) /\ Ordered(chain[p])
    BY <1>0 DEF FlowsOK, QueueOK
  <1>4. CASE Shutdown(p) \/ BackoffOver(p)
    <2>1. chain' = chain
      BY <1>4 DEF Shutdown, BackoffOver, flows
    <2> QED BY <1>1, <2>1, QueueHistory
  <1>5. CASE CheckpointSettles(p)
    <2>1. chain[p] # <<>> /\ Pop(p)
      BY <1>5 DEF CheckpointSettles, Answered, Fails
    <2>2. Elems(chain'[p]) \subseteq Elems(chain[p])
      BY <1>0, <1>3, <2>1, PopDoes, Popped
    <2> QED BY <1>1, <2>2, QueueHistory
  <1>6. ASSUME NEW w \in Write, Queue(p, w), w.flow \in {"tick", "final"},
               w.op = "checkpoint" \/ (w.op = "drain" /\ w.flow = "final"),
               w.events = {}, ~w.landed, w.op = "checkpoint" => w.image = snap /\ snap # NoState
        PROVE  \A v \in Elems(chain'[p]) :
                 v \in Elems(chain[p]) \/ (WriteOK(v)' /\ RemembersOK(p, v)')
    <2>1. chain'[p] = Append(chain[p], w)
      BY <1>0, <1>6, QueueDoes
    <2>2. WriteOK(w)' /\ RemembersOK(p, w)'
      BY <1>2, <1>6, CalmWriteOK DEF Calm
    <2>3. \A v \in Elems(chain'[p]) : v \in Elems(chain[p]) \/ v = w
      BY <1>3, <2>1 DEF Elems
    <2> QED BY <2>2, <2>3
  <1>7. CASE CheckpointTick(p)
    <2>1. PICK w \in Write : w = Checkpoint("tick", live[p])
      BY <1>0, CheckpointType, FlowNames DEF MemoryOK, EnvOK
    <2>2. /\ mode[p] = "running" /\ Queue(p, w) /\ w.flow = "tick" /\ w.op = "checkpoint"
          /\ w.events = {} /\ ~w.landed /\ w.image = live[p]
      BY <1>7, <2>1 DEF CheckpointTick, CanTick, Checkpoint, Entry
    <2>3. w.image = snap /\ snap # NoState
      BY <1>0, <2>2 DEF TicksDurable
    <2> QED BY <1>1, <1>6, <2>2, <2>3, QueueHistory
  <1>8. CASE ShutdownFlowsDone(p)
    <2>1. CASE mode[p] = "running" /\ live[p] # NoState
      <3>1. PICK w \in Write : w = Checkpoint("final", live[p])
        BY <1>0, CheckpointType, FlowNames DEF MemoryOK, EnvOK
      <3>2. /\ Queue(p, w) /\ w.flow = "final" /\ w.op = "checkpoint"
            /\ w.events = {} /\ ~w.landed /\ w.image = live[p]
        BY <1>8, <2>1, <3>1 DEF ShutdownFlowsDone, Checkpoint, Entry
      <3>3. w.image = snap /\ snap # NoState
        BY <1>0, <2>1, <3>2 DEF TicksDurable
      <3> QED BY <1>1, <1>6, <3>2, <3>3, QueueHistory
    <2>2. CASE ~(mode[p] = "running" /\ live[p] # NoState)
      <3>1. PICK w \in Write : w = Drain("final")
        BY <1>0, DrainType, FlowNames DEF EnvOK
      <3>2. /\ Queue(p, w) /\ w.flow = "final" /\ w.op = "drain"
            /\ w.events = {} /\ ~w.landed
        BY <1>8, <2>2, <3>1 DEF ShutdownFlowsDone, Drain, Entry
      <3> QED BY <1>1, <1>6, <3>2, QueueHistory
    <2> QED BY <2>1, <2>2
  <1>9. CASE ShutdownCheckpointed(p)
    <2>1. PICK w \in Write : w = Drain("final")
      BY <1>0, DrainType, FlowNames DEF EnvOK
    <2>2. /\ chain[p] # <<>> /\ PopQueue(p, w) /\ w.flow = "final" /\ w.op = "drain"
          /\ w.events = {} /\ ~w.landed
      BY <1>9, <2>1 DEF ShutdownCheckpointed, Answered, Fails, Drain, Entry
    <2>3. chain'[p] = Append(Tail(chain[p]), w)
      BY <1>0, <2>2, PopQueueDoes
    <2>4. Tail(chain[p]) \in Seq(Write) /\ Elems(Tail(chain[p])) \subseteq Elems(chain[p])
      BY <1>3, <2>2, Popped
    <2>5. \A v \in Elems(chain'[p]) : v \in Elems(Tail(chain[p])) \/ v = w
      BY <2>3, <2>4 DEF Elems
    <2>6. WriteOK(w)' /\ RemembersOK(p, w)'
      BY <2>2, CalmWriteOK DEF Calm
    <2> QED BY <1>1, <2>4, <2>5, <2>6, QueueHistory
  <1> QED BY <1>4, <1>5, <1>7, <1>8, <1>9

LEMMA ShutdownDrainedHistory ==
  ASSUME TypeOK, TypeOK', ControlOK, ControlOK', OneHistory, NEW p \in Process,
         Elsewhere(p), ShutdownDrained(p)
  PROVE  OneHistory'
  <1>0. MemoryOK /\ FlowsOK /\ QueueOK(p) /\ ids \in Names
    BY Known
  <1>1. /\ chain[p] # <<>> /\ Pop(p) /\ Release(p) /\ mode' = [mode EXCEPT ![p] = "stopped"]
        /\ UNCHANGED <<live, critical, load, db, ids>>
    BY DEF ShutdownDrained, Answered, env
  <1>2. TablesStay
    BY <1>0, <1>1, NamedStays
  <1>3. Elems(chain'[p]) \subseteq Elems(chain[p])
    <2>1. chain[p] \in Seq(Write) /\ Ordered(chain[p]) /\ chain'[p] = Tail(chain[p])
      BY <1>0, <1>1, PopDoes DEF QueueOK
    <2> QED BY <1>1, <2>1, Popped
  <1>4. mode'[p] = "stopped" /\ ~held'[p]
    BY <1>0, <1>1, ReleaseDoes DEF MemoryOK
  <1>5. FlowsStay(p)
    BY <1>1, <1>3, <1>4 DEF FlowsStay
  <1> QED BY <1>2, <1>5, QuietHistory

LEMMA RestartHistory ==
  ASSUME TypeOK, TypeOK', ControlOK, ControlOK', OneHistory, NEW p \in Process,
         Elsewhere(p), Restart(p)
  PROVE  OneHistory'
  <1>0. MemoryOK /\ FlowsOK /\ ids \in Names
    BY Known
  <1>1. /\ mode' = [mode EXCEPT ![p] = "starting"]
        /\ critical' = [critical EXCEPT ![p] = NoCritical]
        /\ load' = [load EXCEPT ![p] = [f \in Load |-> NoLoad]]
        /\ chain' = [chain EXCEPT ![p] = <<>>] /\ UNCHANGED <<db, ids>>
    BY DEF Restart
  <1>2. TablesStay
    BY <1>0, <1>1, NamedStays
  <1>3. mode'[p] = "starting" /\ critical'[p].pc = "none" /\ chain'[p] = <<>>
    BY <1>0, <1>1 DEF MemoryOK, FlowsOK, NoCritical
  <1>4. \A f \in Load : load'[p][f].pc = "none"
    BY <1>0, <1>1 DEF FlowsOK, NoLoad
  <1>5. Elems(chain'[p]) = {}
    <2>1. Len(chain'[p]) = 0
      BY <1>3
    <2> QED BY <2>1 DEF Elems
  <1>6. TicksDurable(p)' /\ CriticalFollows(p)' /\ ReadCurrent(p)'
    BY <1>3, <1>4 DEF TicksDurable, CriticalFollows, ReadCurrent
  <1> QED BY <1>2, <1>5, <1>6, MemoryStep

LEMMA TryStartHistory ==
  ASSUME TypeOK, TypeOK', ControlOK, ControlOK', OneHistory, NEW p \in Process,
         Elsewhere(p), TryStart(p), Owning, Punctual
  PROVE  OneHistory'
  <1>0. MemoryOK /\ FlowsOK /\ ids \in Names
    BY Known
  <1>1. UNCHANGED <<live, critical, chain, db, ids>>
    BY DEF TryStart, env
  <1>2. TablesStay
    BY <1>0, <1>1, NamedStays
  <1>3. CASE mode' = [mode EXCEPT ![p] = "standby"] /\ UNCHANGED <<held, load>>
    <2>1. mode'[p] = "standby"
      BY <1>0, <1>3 DEF MemoryOK
    <2>2. FlowsStay(p)
      BY <1>1, <1>3, <2>1 DEF FlowsStay
    <2> QED BY <1>2, <2>2, QuietHistory
  <1>4. CASE /\ held' = [held EXCEPT ![p] = TRUE]
             /\ load' = [load EXCEPT ![p]["boot"].pc = "read"]
    <2>1. OwnSettled(p)
      <3>1. ~held[p] /\ held'[p]
        BY <1>0, <1>4 DEF Owning, Own, TryStart, MemoryOK
      <3> QED BY <3>1 DEF Punctual
    <2>2. LoadTo(p, "boot", "read")
      BY <1>4 DEF LoadTo
    <2>3. critical'[p].pc = "none" /\ chain'[p] = <<>> /\ \A f \in Load : load[p][f].pc = "none"
      BY <1>1, <2>1 DEF OwnSettled
    <2>4. \A f \in Load : load'[p][f].pc \in {"none", "read"}
      <3>1. load'[p]["boot"].pc = "read" /\ \A g \in Load \ {"boot"} : load'[p][g] = load[p][g]
        BY <1>0, <2>2, FlowNames, LoadMoves
      <3> QED BY <2>3, <3>1
    <2>5. Elems(chain'[p]) = {}
      <3>1. Len(chain'[p]) = 0
        BY <2>3
      <3> QED BY <3>1 DEF Elems
    <2>6. mode'[p] # "running"
      <3>1. load'[p]["boot"].pc = "read" /\ OneFlow(p)'
        BY <1>0, <2>2, FlowNames, LoadMoves, Known
      <3> QED BY <3>1 DEF OneFlow, Free
    <2>7. TicksDurable(p)' /\ CriticalFollows(p)' /\ ReadCurrent(p)'
      BY <2>3, <2>4, <2>6 DEF TicksDurable, CriticalFollows, ReadCurrent
    <2> QED BY <1>2, <2>5, <2>7, MemoryStep
  <1> QED BY <1>3, <1>4 DEF TryStart

LEMMA CriticalSavedHistory ==
  ASSUME TypeOK, TypeOK', ControlOK, ControlOK', OneHistory, NEW p \in Process,
         Elsewhere(p), CriticalSaved(p)
  PROVE  OneHistory'
  <1>0. /\ MemoryOK /\ FlowsOK /\ ids \in Names /\ Control(p) /\ OneFlow(p)
        /\ \A v \in Elems(chain[p]) : WriteOK(v) /\ RemembersOK(p, v)
    BY Known
  <1> DEFINE h == Head(chain[p])
  <1>1. /\ chain[p] # <<>> /\ h.flow = "critical" /\ h.op = "commit" /\ h.landed
        /\ Pop(p) /\ EndCritical(p)
        /\ UNCHANGED <<held, live, admin, reset, load, db, ids>>
    BY DEF CriticalSaved, Answered, env
  <1>2. /\ Waits(p, h) /\ h \in Elems(chain[p])
        /\ \A v \in Elems(Tail(chain[p])) : v \in Elems(chain[p]) /\ Calm(v)
    BY <1>0, <1>1, HeadKnown, FlowNames
  <1>3. WriteOK(h) /\ RemembersOK(p, h)
    BY <1>0, <1>2
  <1> HIDE DEF h
  <1>4. TablesStay /\ snap' = snap
    BY <1>0, <1>1, NamedStays DEF TablesStay
  <1>5. critical[p].pc = "write" /\ h.image = snap /\ snap # NoState
    BY <1>1, <1>2, <1>3 DEF Waits, Calm, WriteOK, Follows
  <1>6. chain'[p] = Tail(chain[p]) /\ critical'[p].pc = "none"
    BY <1>0, <1>1, PopDoes, EndCriticalDoes
  <1>7. TicksDurable(p)'
    <2>1. mode[p] # "running"
      BY <1>0, <1>5 DEF OneFlow, Free
    <2>2. CASE Unreplaced(p)
      <3>1. live[p] = snap
        BY <1>1, <1>3, <1>5, <2>2 DEF Unreplaced, RemembersOK
      <3> QED BY <1>1, <1>4, <1>5, <3>1 DEF TicksDurable
    <2>3. CASE ~Unreplaced(p)
      <3>1. mode' = mode
        BY <2>3 DEF CriticalSaved
      <3> QED BY <2>1, <3>1 DEF TicksDurable
    <2> QED BY <2>2, <2>3
  <1>8. CriticalFollows(p)' /\ ReadCurrent(p)'
    <2>1. \A f \in Load : load'[p][f].pc = "none"
      BY <1>0, <1>1, <1>5 DEF OneFlow, Load
    <2> QED BY <1>6, <2>1 DEF CriticalFollows, ReadCurrent
  <1> QED BY <1>2, <1>4, <1>6, <1>7, <1>8, MemoryStep

LEMMA CriticalFailsHistory ==
  ASSUME TypeOK, TypeOK', ControlOK, ControlOK', OneHistory, NEW p \in Process,
         Elsewhere(p), CriticalFails(p)
  PROVE  OneHistory'
  <1>0. /\ MemoryOK /\ FlowsOK /\ ids \in Names /\ Control(p) /\ OneFlow(p)
        /\ CriticalFollows(p)
    BY Known
  <1>1. /\ chain[p] # <<>> /\ Head(chain[p]).flow = "critical" /\ Pop(p)
        /\ UNCHANGED <<mode, held, live, admin, reset, load, db, ids>>
    BY DEF CriticalFails, Fails, memory
  <1>2. /\ Waits(p, Head(chain[p]))
        /\ \A v \in Elems(Tail(chain[p])) : v \in Elems(chain[p]) /\ Calm(v)
    BY <1>0, <1>1, HeadKnown, FlowNames
  <1>3. TablesStay
    BY <1>0, <1>1, NamedStays
  <1>4. critical[p].pc = "write" /\ mode[p] # "running"
    <2>1. critical[p].pc = "write"
      BY <1>1, <1>2 DEF Waits, Calm
    <2> QED BY <1>0, <2>1 DEF OneFlow, Free
  <1>5. chain'[p] = Tail(chain[p])
    BY <1>0, <1>1, PopDoes
  <1>6. CriticalFollows(p)'
    <2>1. CASE Unreplaced(p)
      <3>1. /\ critical'[p].events = critical[p].events
            /\ critical'[p].fresh = critical[p].fresh
        BY <1>0, <2>1, CriticalMoves DEF CriticalFails
      <3> QED BY <1>0, <1>1, <1>3, <1>4, <3>1, FollowsStays DEF CriticalFollows, TablesStay, Follows, Logged
    <2>2. CASE ~Unreplaced(p)
      <3>1. critical'[p].pc = "none"
        BY <1>0, <2>2, EndCriticalDoes DEF CriticalFails
      <3> QED BY <3>1 DEF CriticalFollows
    <2> QED BY <2>1, <2>2
  <1>7. TicksDurable(p)' /\ ReadCurrent(p)'
    <2>1. \A f \in Load : load'[p][f].pc = "none"
      BY <1>0, <1>1, <1>4 DEF OneFlow, Load
    <2> QED BY <1>1, <1>4, <2>1 DEF TicksDurable, ReadCurrent
  <1> QED BY <1>2, <1>3, <1>5, <1>6, <1>7, MemoryStep

LEMMA CriticalRetryHistory ==
  ASSUME TypeOK, TypeOK', ControlOK, ControlOK', OneHistory, NEW p \in Process,
         Elsewhere(p), CriticalRetry(p)
  PROVE  OneHistory'
  <1>0. /\ MemoryOK /\ FlowsOK /\ EnvOK /\ ids \in Names /\ Control(p) /\ OneFlow(p)
        /\ CriticalFollows(p)
    BY Known
  <1>1. /\ critical[p].pc = "backoff"
        /\ UNCHANGED <<mode, held, live, admin, reset, load, db, ids>>
    BY DEF CriticalRetry, memory, env
  <1>2. TablesStay /\ snap' = snap
    BY <1>0, <1>1, NamedStays DEF TablesStay
  <1>3. \A v \in Elems(chain[p]) : Calm(v)
    BY <1>0, <1>1, Unwaited DEF OneFlow
  <1>4. TicksDurable(p)' /\ ReadCurrent(p)'
    <2>1. mode[p] # "running" /\ \A f \in Load : load[p][f].pc = "none"
      BY <1>0, <1>1 DEF OneFlow, Free, Load
    <2> QED BY <1>1, <2>1 DEF TicksDurable, ReadCurrent
  <1>5. CASE Unreplaced(p)
    <2>1. PICK w \in Write :
            w = Entry("critical", "commit", live[p], critical[p].events, RetryBatch(p))
      <3>1. critical[p] \in CriticalState
        BY <1>0 DEF FlowsOK
      <3>2. critical[p].events \in SUBSET Event /\ RetryBatch(p) \in Nat
        BY <3>1 DEF CriticalState, RetryBatch
      <3> QED BY <1>0, <3>2, EntryType, FlowNames DEF MemoryOK, EnvOK
    <2>2. /\ Queue(p, w) /\ critical' = [critical EXCEPT ![p].pc = "write"]
          /\ w.flow = "critical" /\ w.op = "commit" /\ w.image = live[p]
          /\ w.events = critical[p].events /\ ~w.landed
      BY <1>5, <2>1 DEF CriticalRetry, Entry
    <2>3. /\ critical'[p].events = critical[p].events
          /\ critical'[p].fresh = critical[p].fresh
      BY <1>0, <2>2, CriticalMoves
    <2>4. Follows(live[p], critical[p].events)
      BY <1>0, <1>1, <1>5 DEF CriticalFollows, Unreplaced
    <2>5. WriteOK(w)'
      <3>1. Follows(w.image, w.events)'
        BY <1>2, <2>2, <2>4, FollowsStays
      <3> QED BY <2>2, <3>1 DEF WriteOK
    <2>6. RemembersOK(p, w)'
      BY <1>1, <2>2, <2>3, FlowNames DEF RemembersOK, Load
    <2>7. chain'[p] = Append(chain[p], w) /\ chain[p] \in Seq(Write)
      BY <1>0, <2>2, QueueDoes
    <2>8. \A v \in Elems(chain'[p]) : v \in Elems(chain[p]) \/ v = w
      BY <2>7 DEF Elems
    <2>9. CriticalFollows(p)'
      BY <1>1, <1>2, <2>3, <2>4 DEF CriticalFollows, TablesStay, Follows, Logged
    <2> QED BY <1>2, <1>3, <1>4, <2>5, <2>6, <2>8, <2>9, MemoryStep
  <1>6. CASE ~Unreplaced(p)
    <2>1. EndCritical(p) /\ chain' = chain
      BY <1>6 DEF CriticalRetry
    <2>2. critical'[p].pc = "none"
      BY <1>0, <2>1, EndCriticalDoes
    <2> QED BY <1>2, <1>3, <1>4, <2>1, <2>2, MemoryStep DEF CriticalFollows
  <1> QED BY <1>5, <1>6

LEMMA CriticalTickHistory ==
  ASSUME TypeOK, TypeOK', ControlOK, ControlOK', OneHistory, NEW p \in Process,
         Elsewhere(p), NEW E \in SUBSET NewEvent, CriticalTick(p, E)
  PROVE  OneHistory'
  <1>0. /\ MemoryOK /\ FlowsOK /\ EnvOK /\ ids \in Names /\ Control(p) /\ TablesMatch
        /\ TicksDurable(p) /\ E \in SUBSET Event
    BY Known DEF NewEvent
  <1> DEFINE image == [live[p] EXCEPT !.hist = @ \cup E]
             c == [pc |-> "write", events |-> E, batch |-> ids.batches + 1, fresh |-> TRUE]
  <1>1. PICK w \in Write : w = Entry("critical", "commit", image, E, ids.batches + 1)
    <2>1. image \in Image
      BY <1>0, GrownType DEF MemoryOK, CriticalTick, CanTick
    <2> QED BY <1>0, <2>1, EntryType, FreshType, FlowNames DEF EnvOK
  <1>2. /\ mode[p] = "running" /\ Pause(p) /\ Queue(p, w)
        /\ live' = [live EXCEPT ![p] = image] /\ critical' = [critical EXCEPT ![p] = c]
        /\ w.flow = "critical" /\ w.op = "commit" /\ w.image = image /\ w.events = E /\ ~w.landed
        /\ ids' = [ids EXCEPT !.events = @ \cup E, !.batches = @ + 1]
        /\ UNCHANGED <<held, admin, reset, load, db>>
    BY <1>1 DEF CriticalTick, CanTick, Entry
  <1>3. TablesStay /\ snap' = snap
    BY <1>0, <1>2, NamedStays DEF TablesStay
  <1>4. Follows(image, E)
    BY <1>0, <1>2, NewFollows DEF TicksDurable
  <1>5. live'[p] = image
    BY <1>0, <1>2 DEF MemoryOK
  <1>6. critical'[p].pc = "write" /\ critical'[p].events = E /\ critical'[p].fresh
    BY <1>0, <1>2 DEF FlowsOK
  <1>7. chain'[p] = Append(chain[p], w) /\ chain[p] \in Seq(Write) /\ mode'[p] = "starting"
    BY <1>0, <1>2, QueueDoes, PauseDoes
  <1>8. w.image = live'[p] /\ Follows(w.image, w.events)
    BY <1>2, <1>4, <1>5
  <1> HIDE DEF image, c
  <1>9. WriteOK(w)'
    <2>1. Follows(w.image, w.events)'
      BY <1>3, <1>8, FollowsStays
    <2> QED BY <1>2, <2>1 DEF WriteOK
  <1>10. RemembersOK(p, w)'
    BY <1>2, <1>6, <1>8 DEF RemembersOK, Load
  <1>11. \A v \in Elems(chain'[p]) : v \in Elems(chain[p]) \/ v = w
    BY <1>7 DEF Elems
  <1>12. (\A v \in Elems(chain[p]) : Calm(v)) /\ \A f \in Load : load[p][f].pc = "none"
    BY <1>0, <1>2, TickingIsFree
  <1>13. CriticalFollows(p)'
    <2>1. Follows(live'[p], E)
      BY <1>2, <1>8
    <2> QED BY <1>3, <1>6, <2>1 DEF CriticalFollows, TablesStay, Follows, Logged
  <1>14. TicksDurable(p)' /\ ReadCurrent(p)'
    BY <1>2, <1>7, <1>12 DEF TicksDurable, ReadCurrent
  <1> QED BY <1>3, <1>9, <1>10, <1>11, <1>12, <1>13, <1>14, MemoryStep

\* A keeper action or a reset pauses the ticking world and waits for the writes under way.
LEMMA PausesHistory ==
  ASSUME TypeOK, TypeOK', ControlOK, ControlOK', OneHistory, NEW p \in Process,
         Elsewhere(p), NEW w \in Write, mode[p] = "running", Pause(p), Queue(p, w),
         w.flow \in {"admin", "reset"}, w.op = "drain", w.events = {}, ~w.landed,
         UNCHANGED <<live, critical, load, db, ids>>
  PROVE  OneHistory'
  <1>0. MemoryOK /\ FlowsOK /\ ids \in Names /\ Control(p) /\ TicksDurable(p)
    BY Known
  <1>1. TablesStay /\ snap' = snap
    BY <1>0, NamedStays DEF TablesStay
  <1>2. /\ Free(p) /\ (\A v \in Elems(chain[p]) : Calm(v))
        /\ \A f \in Load : load[p][f].pc = "none"
    BY <1>0, TickingIsFree
  <1>3. chain'[p] = Append(chain[p], w) /\ chain[p] \in Seq(Write) /\ mode'[p] = "starting"
    BY <1>0, QueueDoes, PauseDoes
  <1>4. \A v \in Elems(chain'[p]) : v \in Elems(chain[p]) \/ v = w
    BY <1>3 DEF Elems
  <1>5. WriteOK(w)' /\ RemembersOK(p, w)'
    BY <1>0, <1>1 DEF WriteOK, RemembersOK, TicksDurable, Load
  <1>6. TicksDurable(p)' /\ CriticalFollows(p)' /\ ReadCurrent(p)'
    BY <1>2, <1>3 DEF TicksDurable, CriticalFollows, ReadCurrent, Free
  <1> QED BY <1>1, <1>2, <1>4, <1>5, <1>6, MemoryStep

LEMMA AdminMutateHistory ==
  ASSUME TypeOK, TypeOK', ControlOK, ControlOK', OneHistory, NEW p \in Process,
         Elsewhere(p), AdminMutate(p)
  PROVE  OneHistory'
  <1>1. PICK w \in Write : w = Drain("admin")
    BY DrainType, FlowNames DEF TypeOK, EnvOK
  <1>2. /\ mode[p] = "running" /\ Pause(p) /\ Queue(p, w) /\ w.flow = "admin"
        /\ w.op = "drain" /\ w.events = {} /\ ~w.landed
        /\ UNCHANGED <<live, critical, load, db, ids>>
    BY <1>1 DEF AdminMutate, Drain, Entry
  <1> QED BY <1>2, PausesHistory

LEMMA ResetWorldHistory ==
  ASSUME TypeOK, TypeOK', ControlOK, ControlOK', OneHistory, NEW p \in Process,
         Elsewhere(p), NEW daily, ResetWorld(p, daily)
  PROVE  OneHistory'
  <1>1. PICK w \in Write : w = Drain("reset")
    BY DrainType, FlowNames DEF TypeOK, EnvOK
  <1>2. /\ mode[p] = "running" /\ Pause(p) /\ Queue(p, w) /\ w.flow = "reset"
        /\ w.op = "drain" /\ w.events = {} /\ ~w.landed
        /\ UNCHANGED <<live, critical, load, db, ids>>
    BY <1>1 DEF ResetWorld, Drain, Entry
  <1> QED BY <1>2, PausesHistory

LEMMA AdminDrainedHistory ==
  ASSUME TypeOK, TypeOK', ControlOK, ControlOK', OneHistory, NEW p \in Process,
         Elsewhere(p), NEW E \in SUBSET NewEvent, AdminDrained(p, E)
  PROVE  OneHistory'
  <1>0. /\ MemoryOK /\ FlowsOK /\ EnvOK /\ DbOK /\ ids \in Names /\ Control(p) /\ TablesMatch
        /\ E \in SUBSET Event /\ \A v \in Elems(chain[p]) : WriteOK(v) /\ RemembersOK(p, v)
    BY Known DEF NewEvent
  <1> DEFINE h == Head(chain[p])
  <1>1. /\ chain[p] # <<>> /\ h.flow = "admin" /\ h.op = "drain"
        /\ UNCHANGED <<held, live, critical, reset, load, db>>
    BY DEF AdminDrained, Answered
  <1>2. /\ h \in Elems(chain[p])
        /\ \A v \in Elems(Tail(chain[p])) : v \in Elems(chain[p]) /\ Calm(v)
    BY <1>0, <1>1, HeadKnown, FlowNames
  <1>3. live[p] # NoState => live[p] = snap
    <2>1. WriteOK(h) /\ RemembersOK(p, h)
      BY <1>0, <1>2
    <2> QED BY <1>1, <2>1 DEF WriteOK, RemembersOK
  <1>4. /\ critical[p].pc = "none" /\ mode[p] # "running"
        /\ \A f \in Load : load[p][f].pc = "none"
    BY <1>0, <1>1, AdminWaits
  <1> HIDE DEF h
  <1>5. CriticalFollows(p)' /\ ReadCurrent(p)'
    BY <1>1, <1>4 DEF CriticalFollows, ReadCurrent
  <1>6. CASE held[p] /\ live[p] # NoState /\ ~Stopping(p) /\ E # {}
    <2>1. PICK w \in Write : w = Entry("admin", "commit", [live[p] EXCEPT !.hist = @ \cup E], E,
                                       ids.batches + 1)
      <3>1. [live[p] EXCEPT !.hist = @ \cup E] \in Image
        BY <1>0, <1>6, GrownType DEF MemoryOK
      <3> QED BY <1>0, <3>1, EntryType, FreshType, FlowNames DEF EnvOK
    <2>2. /\ PopQueue(p, w) /\ mode' = mode
          /\ w.flow = "admin" /\ w.op = "commit" /\ w.events = E /\ ~w.landed
          /\ w.image = [live[p] EXCEPT !.hist = @ \cup E]
          /\ ids' = [ids EXCEPT !.events = @ \cup E, !.batches = @ + 1]
      BY <1>6, <2>1 DEF AdminDrained, Entry
    <2>3. TablesStay /\ snap' = snap
      BY <1>0, <1>1, <2>2, NamedStays DEF TablesStay
    <2>4. WriteOK(w)'
      <3>1. Follows(w.image, w.events)
        BY <1>0, <1>3, <1>6, <2>2, NewFollows
      <3>2. Follows(w.image, w.events)'
        BY <2>3, <3>1, FollowsStays
      <3> QED BY <2>2, <3>2 DEF WriteOK
    <2>5. RemembersOK(p, w)'
      BY <1>1, <1>3, <2>2, <2>3 DEF RemembersOK, Load
    <2>6. chain'[p] = Append(Tail(chain[p]), w) /\ Tail(chain[p]) \in Seq(Write)
      BY <1>0, <1>1, <2>2, PopQueueDoes
    <2>7. \A v \in Elems(chain'[p]) : v \in Elems(Tail(chain[p])) \/ v = w
      BY <2>6 DEF Elems
    <2>8. TicksDurable(p)'
      BY <1>4, <2>2 DEF TicksDurable
    <2> QED BY <1>2, <1>5, <2>3, <2>4, <2>5, <2>7, <2>8, MemoryStep
  <1>7. CASE ~(held[p] /\ live[p] # NoState /\ ~Stopping(p) /\ E # {})
    <2>1. Pop(p) /\ AdminEnds(p) /\ ids' = ids
      BY <1>7 DEF AdminDrained
    <2>2. TablesStay /\ snap' = snap
      BY <1>0, <1>1, <2>1, NamedStays DEF TablesStay
    <2>3. chain'[p] = Tail(chain[p])
      BY <1>0, <2>1, PopDoes
    <2>4. mode'[p] = "running" => live[p] # NoState
      BY <1>0, <1>4, <2>1, AdminEndsDoes
    <2>5. TicksDurable(p)'
      BY <1>1, <1>3, <2>2, <2>4 DEF TicksDurable
    <2> QED BY <1>2, <1>5, <2>2, <2>3, <2>5, MemoryStep
  <1> QED BY <1>6, <1>7

\* Only a commit whose answer is lost would leave the keeper's copy behind: the owner
\* would tick on with a world that is not the durable one.
LEMMA AdminSettlesHistory ==
  ASSUME TypeOK, TypeOK', ControlOK, ControlOK', OneHistory, NEW p \in Process,
         Elsewhere(p), AdminSaved(p) \/ (AdminFails(p) /\ "admin" \notin LostAcks)
  PROVE  OneHistory'
  <1>0. /\ MemoryOK /\ FlowsOK /\ ids \in Names /\ Control(p)
        /\ \A v \in Elems(chain[p]) : WriteOK(v) /\ RemembersOK(p, v)
    BY Known
  <1> DEFINE h == Head(chain[p])
  <1>1. /\ chain[p] # <<>> /\ h.flow = "admin" /\ h.op # "drain" /\ Pop(p)
        /\ UNCHANGED <<held, reset, load, db, ids>>
    BY DEF AdminSaved, AdminFails, Answered, Fails, env
  <1>2. /\ Waits(p, h) /\ h \in Elems(chain[p])
        /\ \A v \in Elems(Tail(chain[p])) : v \in Elems(chain[p]) /\ Calm(v)
    BY <1>0, <1>1, HeadKnown, FlowNames
  <1>3. /\ critical[p].pc = "none" /\ mode[p] # "running"
        /\ \A f \in Load : load[p][f].pc = "none"
    BY <1>0, <1>1, AdminWaits
  <1>4. h.op = "commit" /\ WriteOK(h) /\ RemembersOK(p, h)
    BY <1>0, <1>1, <1>2 DEF Waits, Calm
  <1>5. TablesStay /\ snap' = snap
    BY <1>0, <1>1, NamedStays DEF TablesStay
  <1>6. chain'[p] = Tail(chain[p])
    BY <1>0, <1>1, PopDoes
  <1>7. ReadCurrent(p)'
    BY <1>1, <1>3 DEF ReadCurrent
  <1>8. CASE AdminSaved(p)
    <2>1. h.landed /\ h.image = snap /\ snap # NoState
      BY <1>4, <1>8 DEF AdminSaved, Answered, WriteOK, Follows
    <2>2. CASE held[p] /\ live[p] # NoState
      <3>1. Assign(p, Head(chain[p]).image)
        BY <1>8, <2>2 DEF AdminSaved
      <3>2. live'[p] = snap /\ critical'[p].pc = "none"
        BY <1>0, <1>3, <2>1, <3>1, AssignDoes DEF h
      <3> QED BY <1>2, <1>5, <1>6, <1>7, <2>1, <3>2, MemoryStep DEF TicksDurable, CriticalFollows
    <2>3. CASE ~(held[p] /\ live[p] # NoState)
      <3>1. UNCHANGED <<critical, mode>>
        BY <1>8, <2>3 DEF AdminSaved
      <3> QED BY <1>2, <1>3, <1>5, <1>6, <1>7, <3>1, MemoryStep DEF TicksDurable, CriticalFollows
    <2> QED BY <2>2, <2>3
  <1>9. CASE AdminFails(p) /\ "admin" \notin LostAcks
    <2>1. ~h.landed /\ AdminEnds(p) /\ UNCHANGED <<live, critical>>
      BY <1>9 DEF AdminFails, Fails
    <2>2. mode'[p] = "running" => live[p] = snap /\ live[p] # NoState
      <3>1. mode'[p] = "running" => live[p] # NoState
        BY <1>0, <1>3, <2>1, AdminEndsDoes
      <3> QED BY <1>1, <1>4, <2>1, <3>1 DEF RemembersOK
    <2>3. TicksDurable(p)' /\ CriticalFollows(p)'
      BY <1>3, <1>5, <2>1, <2>2 DEF TicksDurable, CriticalFollows
    <2> QED BY <1>2, <1>5, <1>6, <1>7, <2>3, MemoryStep
  <1> QED BY <1>8, <1>9

LEMMA ResetThrowsHistory ==
  ASSUME TypeOK, TypeOK', ControlOK, ControlOK', OneHistory, NEW p \in Process,
         Elsewhere(p), chain[p] # <<>>, Head(chain[p]).flow = "reset", Pop(p),
         ResetThrows(p), UNCHANGED <<mode, held, live, critical, admin, db, ids>>
  PROVE  OneHistory'
  <1>0. MemoryOK /\ FlowsOK /\ ids \in Names /\ Control(p)
    BY Known
  <1>1. \A v \in Elems(Tail(chain[p])) : v \in Elems(chain[p]) /\ Calm(v)
    BY <1>0, HeadKnown, FlowNames
  <1>2. /\ critical[p].pc = "none" /\ mode[p] # "running"
        /\ load[p]["boot"].pc = "none" /\ load[p]["reload"].pc = "none"
    BY <1>0, ResetWaits, FlowNames
  <1>3. TablesStay
    BY <1>0, NamedStays
  <1>4. chain'[p] = Tail(chain[p])
    BY <1>0, PopDoes
  <1>5. load'[p]["boot"].pc = "none" /\ load'[p]["reload"].pc \in {"none", "read"}
    BY <1>0, <1>2, ResetThrowsDoes
  <1>6. TicksDurable(p)' /\ CriticalFollows(p)' /\ ReadCurrent(p)'
    BY <1>2, <1>5 DEF TicksDurable, CriticalFollows, ReadCurrent, Load
  <1> QED BY <1>1, <1>3, <1>4, <1>6, MemoryStep

\* A reset is to a generation that no snapshot has reached.
LEMMA NewEpoch ==
  ASSUME TypeOK, TypeOK', OneHistory, TablesStay, NEW p \in Process, NEW w \in Write,
         ids' = [ids EXCEPT !.epochs = @ + 1],
         w.op = "reset", w.image = [epoch |-> ids.epochs + 1, hist |-> {}],
         w.flow \in {"boot", "reset"}, w.events = {}, ~w.landed
  PROVE  WriteOK(w)' /\ RemembersOK(p, w)'
  <1>1. ids \in Names /\ ids.epochs \in Nat /\ ids'.epochs = ids.epochs + 1
    BY DEF TypeOK, EnvOK, Names
  <1>2. w.image \in Image /\ w.image.epoch = ids.epochs + 1 /\ w.image.hist = {}
    BY <1>1, FreshType
  <1>3. snap # NoState => snap.epoch \in Nat /\ snap.epoch <= ids.epochs
    BY DEF TypeOK, DbOK, Image, OneHistory, TablesMatch
  <1>4. snap' = snap
    BY DEF TablesStay
  <1>5. WriteOK(w)'
    BY <1>1, <1>2, <1>3, <1>4, NoStateIsNoImage DEF WriteOK
  <1> QED BY <1>5 DEF RemembersOK, Load

LEMMA ResetDrainedHistory ==
  ASSUME TypeOK, TypeOK', ControlOK, ControlOK', OneHistory, NEW p \in Process,
         Elsewhere(p), ResetDrained(p)
  PROVE  OneHistory'
  <1>0. MemoryOK /\ FlowsOK /\ EnvOK /\ ids \in Names /\ Control(p)
    BY Known
  <1>1. /\ chain[p] # <<>> /\ Head(chain[p]).flow = "reset"
        /\ UNCHANGED <<mode, held, live, critical, admin, db>>
    BY DEF ResetDrained, Answered
  <1>2. CASE held[p] /\ live[p] # NoState /\ ~Stopping(p)
    <2>1. PICK w \in Write : w = Entry("reset", "reset",
                                       [epoch |-> ids.epochs + 1, hist |-> {}], {}, 0)
      BY <1>0, EntryType, FreshType, FlowNames DEF EnvOK
    <2>2. /\ PopQueue(p, w) /\ load' = load /\ ids' = [ids EXCEPT !.epochs = @ + 1]
          /\ w.flow = "reset" /\ w.op = "reset" /\ w.events = {} /\ ~w.landed
          /\ w.image = [epoch |-> ids.epochs + 1, hist |-> {}]
      BY <1>2, <2>1 DEF ResetDrained, Entry
    <2>3. TablesStay
      BY <1>0, <1>1, <2>2, NamedStays
    <2>4. WriteOK(w)' /\ RemembersOK(p, w)'
      BY <2>2, <2>3, NewEpoch
    <2>5. /\ critical[p].pc = "none" /\ mode[p] # "running"
          /\ \A f \in Load : load[p][f].pc = "none"
      BY <1>0, <1>1, ResetWaits
    <2>6. \A v \in Elems(Tail(chain[p])) : v \in Elems(chain[p]) /\ Calm(v)
      BY <1>0, <1>1, HeadKnown, FlowNames
    <2>7. chain'[p] = Append(Tail(chain[p]), w) /\ Tail(chain[p]) \in Seq(Write)
      BY <1>0, <1>1, <2>2, PopQueueDoes
    <2>8. \A v \in Elems(chain'[p]) : v \in Elems(Tail(chain[p])) \/ v = w
      BY <2>7 DEF Elems
    <2>9. TicksDurable(p)' /\ CriticalFollows(p)' /\ ReadCurrent(p)'
      BY <1>1, <2>2, <2>5 DEF TicksDurable, CriticalFollows, ReadCurrent
    <2> QED BY <2>3, <2>4, <2>6, <2>8, <2>9, MemoryStep
  <1>3. CASE ~(held[p] /\ live[p] # NoState /\ ~Stopping(p))
    <2>1. Pop(p) /\ ResetThrows(p) /\ ids' = ids
      BY <1>3 DEF ResetDrained
    <2> QED BY <1>1, <2>1, ResetThrowsHistory
  <1> QED BY <1>2, <1>3

LEMMA ResetFailsHistory ==
  ASSUME TypeOK, TypeOK', ControlOK, ControlOK', OneHistory, NEW p \in Process,
         Elsewhere(p), ResetFails(p)
  PROVE  OneHistory'
  BY ResetThrowsHistory DEF ResetFails, Fails

\* The new generation is durable: it becomes the live state.
LEMMA ResetSavedHistory ==
  ASSUME TypeOK, TypeOK', ControlOK, ControlOK', OneHistory, NEW p \in Process,
         Elsewhere(p), ResetSaved(p)
  PROVE  OneHistory'
  <1>0. /\ MemoryOK /\ FlowsOK /\ ids \in Names /\ Control(p)
        /\ \A v \in Elems(chain[p]) : WriteOK(v) /\ RemembersOK(p, v)
    BY Known
  <1> DEFINE h == Head(chain[p])
  <1>1. /\ chain[p] # <<>> /\ h.flow = "reset" /\ h.op = "reset" /\ h.landed /\ Pop(p)
        /\ Assign(p, Head(chain[p]).image) /\ UNCHANGED <<load, db, ids>>
    BY DEF ResetSaved, Answered, env
  <1>2. /\ h \in Elems(chain[p])
        /\ \A v \in Elems(Tail(chain[p])) : v \in Elems(chain[p]) /\ Calm(v)
    BY <1>0, <1>1, HeadKnown, FlowNames
  <1>3. critical[p].pc = "none" /\ \A f \in Load : load[p][f].pc = "none"
    BY <1>0, <1>1, ResetWaits
  <1>4. h.image = snap /\ snap # NoState
    BY <1>0, <1>1, <1>2 DEF WriteOK
  <1>5. TablesStay /\ snap' = snap
    BY <1>0, <1>1, NamedStays DEF TablesStay
  <1>6. chain'[p] = Tail(chain[p])
    BY <1>0, <1>1, PopDoes
  <1>7. live'[p] = snap /\ critical'[p].pc = "none"
    BY <1>0, <1>1, <1>3, <1>4, AssignDoes
  <1>8. TicksDurable(p)' /\ CriticalFollows(p)' /\ ReadCurrent(p)'
    BY <1>1, <1>3, <1>4, <1>5, <1>7 DEF TicksDurable, CriticalFollows, ReadCurrent
  <1> QED BY <1>2, <1>5, <1>6, <1>8, MemoryStep

\* A load that throws leaves no state to tick.
LEMMA LoadThrowsHistory ==
  ASSUME TypeOK, TypeOK', ControlOK, ControlOK', OneHistory, NEW p \in Process,
         Elsewhere(p), NEW f \in Load, load[p][f].pc # "none", LoadThrows(p, f),
         UNCHANGED <<live, critical, db, ids>>,
         \A v \in Elems(chain'[p]) : v \in Elems(chain[p]) /\ Calm(v)
  PROVE  OneHistory'
  <1>0. MemoryOK /\ FlowsOK /\ ids \in Names /\ Control(p)
    BY Known
  <1>1. TablesStay
    BY <1>0, NamedStays
  <1>2. /\ critical[p].pc = "none" /\ mode[p] # "running"
        /\ \A g \in Load \ {f} : load[p][g].pc = "none"
    BY <1>0, LoadIsAlone
  <1>3. /\ load'[p][f].pc = "none" /\ mode'[p] \in {mode[p], "standby"}
        /\ \A g \in Load \ {f} : load'[p][g] = load[p][g]
    BY <1>0, LoadThrowsDoes
  <1>4. mode'[p] # "running" /\ \A g \in Load : load'[p][g].pc = "none"
    BY <1>2, <1>3
  <1>5. TicksDurable(p)' /\ CriticalFollows(p)' /\ ReadCurrent(p)'
    BY <1>2, <1>4 DEF TicksDurable, CriticalFollows, ReadCurrent
  <1> QED BY <1>1, <1>5, MemoryStep

LEMMA LoadRefusedHistory ==
  ASSUME TypeOK, TypeOK', ControlOK, ControlOK', OneHistory, NEW p \in Process,
         Elsewhere(p), NEW f \in Load,
         LoadReadFails(p, f) \/ LoadRefused(p, f) \/ SeedFails(p, f)
  PROVE  OneHistory'
  <1>0. Control(p)
    BY Known
  <1>1. /\ load[p][f].pc \in {"read", "got", "seed", "seeded"} /\ LoadThrows(p, f)
        /\ UNCHANGED <<live, critical, chain, db, ids>>
    BY DEF LoadReadFails, LoadRefused, SeedFails, env
  <1>2. \A v \in Elems(chain'[p]) : v \in Elems(chain[p]) /\ Calm(v)
    BY <1>0, <1>1, Resting
  <1> QED BY <1>1, <1>2, LoadThrowsHistory

LEMMA LoadReadHistory ==
  ASSUME TypeOK, TypeOK', ControlOK, ControlOK', OneHistory, NEW p \in Process,
         Elsewhere(p), NEW f \in Load, LoadRead(p, f)
  PROVE  OneHistory'
  <1>0. MemoryOK /\ FlowsOK /\ ids \in Names /\ Control(p)
    BY Known
  <1> DEFINE got == [pc |-> "got", image |-> snap]
  <1>1. /\ load[p][f].pc = "read" /\ load' = [load EXCEPT ![p][f] = got]
        /\ got.image = snap
        /\ UNCHANGED <<mode, critical, chain, db, ids>>
    BY DEF LoadRead, env
  <1> HIDE DEF got
  <1>2. TablesStay /\ snap' = snap
    BY <1>0, <1>1, NamedStays DEF TablesStay
  <1>3. /\ critical[p].pc = "none" /\ mode[p] # "running"
        /\ \A g \in Load \ {f} : load[p][g].pc = "none"
    BY <1>0, <1>1, LoadIsAlone
  <1>4. /\ load'[p][f] = got
        /\ \A g \in Load \ {f} : load'[p][g] = load[p][g]
        /\ \A q \in Process \ {p} : load'[q] = load[q]
    BY <1>0, <1>1, LoadBecomes
  <1>5. \A v \in Elems(chain'[p]) : v \in Elems(chain[p]) /\ Calm(v)
    BY <1>0, <1>1, Resting
  <1>6. ReadCurrent(p)'
    <2>1. load'[p][f].pc = "got" /\ load'[p][f].image = snap'
      <3>1. got.pc = "got"
        BY DEF got
      <3> QED BY <1>1, <1>2, <1>4, <3>1
    <2>2. \A g \in Load \ {f} : load'[p][g].pc = "none"
      BY <1>3, <1>4
    <2> QED BY <2>1, <2>2 DEF ReadCurrent
  <1>7. TicksDurable(p)' /\ CriticalFollows(p)'
    BY <1>1, <1>3 DEF TicksDurable, CriticalFollows
  <1> QED BY <1>2, <1>5, <1>6, <1>7, MemoryStep

\* A load's first write joins a queue in which only shutdown() may wait.
LEMMA LoadWritesHistory ==
  ASSUME TypeOK, TypeOK', ControlOK, ControlOK', OneHistory, NEW p \in Process,
         Elsewhere(p), NEW f \in Load, load[p][f].pc = "got", LoadTo(p, f, "write"),
         NEW w \in Write, Queue(p, w), WriteOK(w)', RemembersOK(p, w)', TablesStay,
         UNCHANGED mode, critical'[p].pc = critical[p].pc
  PROVE  OneHistory'
  <1>0. MemoryOK /\ FlowsOK /\ Control(p)
    BY Known
  <1>1. /\ critical[p].pc = "none" /\ mode[p] # "running"
        /\ \A g \in Load \ {f} : load[p][g].pc = "none"
    BY <1>0, LoadIsAlone
  <1>2. /\ load'[p][f].pc = "write"
        /\ \A g \in Load \ {f} : load'[p][g] = load[p][g]
    BY <1>0, LoadMoves
  <1>3. chain'[p] = Append(chain[p], w) /\ chain[p] \in Seq(Write)
    BY <1>0, QueueDoes
  <1>4. \A v \in Elems(chain'[p]) : v \in Elems(chain[p]) \/ v = w
    BY <1>3 DEF Elems
  <1>5. \A v \in Elems(chain[p]) : Calm(v)
    BY <1>0, Resting
  <1>6. ReadCurrent(p)'
    <2>1. \A g \in Load : load'[p][g].pc \notin {"got", "seed", "seeded"}
      BY <1>1, <1>2
    <2> QED BY <2>1 DEF ReadCurrent
  <1>7. TicksDurable(p)' /\ CriticalFollows(p)'
    BY <1>1 DEF TicksDurable, CriticalFollows
  <1> QED BY <1>4, <1>5, <1>6, <1>7, MemoryStep

LEMMA LoadResetsHistory ==
  ASSUME TypeOK, TypeOK', ControlOK, ControlOK', OneHistory, NEW p \in Process,
         Elsewhere(p), LoadResets(p)
  PROVE  OneHistory'
  <1>0. MemoryOK /\ FlowsOK /\ ids \in Names
    BY Known
  <1>1. PICK w \in Write :
          /\ w = Entry("boot", "reset", [epoch |-> ids.epochs + 1, hist |-> {}], {}, 0)
          /\ Queue(p, w) /\ w.flow = "boot" /\ w.op = "reset"
    BY LoadResetsWrite
  <1>2. w.image = [epoch |-> ids.epochs + 1, hist |-> {}] /\ w.events = {} /\ ~w.landed
    BY <1>1 DEF Entry
  <1>3. /\ load[p]["boot"].pc = "got" /\ ids' = [ids EXCEPT !.epochs = @ + 1]
        /\ UNCHANGED <<mode, critical, db>>
    BY DEF LoadResets, CanLoad, memory
  <1>4. LoadTo(p, "boot", "write")
    BY DEF LoadResets, LoadTo
  <1>5. TablesStay
    BY <1>0, <1>3, NamedStays
  <1>6. WriteOK(w)' /\ RemembersOK(p, w)'
    BY <1>1, <1>2, <1>3, <1>5, NewEpoch
  <1> QED BY <1>1, <1>3, <1>4, <1>5, <1>6, FlowNames, LoadWritesHistory

\* The caught-up state of a load follows the snapshot it has read, which is still current.
LEMMA LoadAdvancesHistory ==
  ASSUME TypeOK, TypeOK', ControlOK, ControlOK', OneHistory, NEW p \in Process,
         Elsewhere(p), NEW f \in Load, NEW E \in SUBSET NewEvent, LoadAdvances(p, f, E)
  PROVE  OneHistory'
  <1>0. /\ MemoryOK /\ FlowsOK /\ DbOK /\ ids \in Names /\ TablesMatch /\ ReadCurrent(p)
        /\ E \in SUBSET Event
    BY Known DEF NewEvent
  <1> DEFINE image == [load[p][f].image EXCEPT !.hist = @ \cup E]
  <1>1. PICK w \in Write : AdvancedWrite(p, f, E, w) /\ Queue(p, w)
    BY <1>0, LoadAdvancesWrite
  <1>2. /\ load[p][f].pc = "got" /\ load[p][f].image # NoState /\ Assign(p, image)
        /\ UNCHANGED <<mode, db>>
        /\ \/ ids' = ids
           \/ ids' = [ids EXCEPT !.events = @ \cup E, !.batches = @ + 1]
    BY DEF LoadAdvances, CanLoad
  <1>3. LoadTo(p, f, "write")
    BY DEF LoadAdvances, LoadTo
  <1>4. TablesStay /\ snap' = snap
    BY <1>0, <1>2, NamedStays DEF TablesStay
  <1>5. load[p][f].image = snap /\ snap # NoState
    BY <1>0, <1>2 DEF ReadCurrent
  <1>6. Follows(image, E) /\ (E = {} => image = snap)
    BY <1>0, <1>5, NewFollows
  <1>7. w.image = image
    BY <1>1 DEF AdvancedWrite
  <1> HIDE DEF image
  <1>8. live'[p] = image /\ critical'[p].pc = critical[p].pc
    BY <1>0, <1>2, AssignDoes
  <1>9. image # NoState
    BY <1>6 DEF Follows
  <1>10. w.flow = f /\ w.events = E /\ ~w.landed /\ w.op = IF E = {} THEN "checkpoint" ELSE "commit"
    BY <1>1 DEF AdvancedWrite
  <1>11. WriteOK(w)'
    <2>1. Follows(w.image, w.events)'
      BY <1>4, <1>6, <1>7, <1>10, FollowsStays
    <2> QED BY <1>4, <1>5, <1>6, <1>7, <1>10, <2>1 DEF WriteOK
  <1>12. RemembersOK(p, w)'
    BY <1>7, <1>8, <1>9, <1>10 DEF RemembersOK, Load
  <1> QED BY <1>1, <1>2, <1>3, <1>4, <1>8, <1>11, <1>12, LoadWritesHistory

\* The state that the load caught up is durable; its checkpoint saves it again.
LEMMA LoadCommittedHistory ==
  ASSUME TypeOK, TypeOK', ControlOK, ControlOK', OneHistory, NEW p \in Process,
         Elsewhere(p), NEW f \in Load, LoadCommitted(p, f)
  PROVE  OneHistory'
  <1>0. /\ MemoryOK /\ FlowsOK /\ EnvOK /\ ids \in Names /\ Control(p)
        /\ \A v \in Elems(chain[p]) : WriteOK(v) /\ RemembersOK(p, v)
    BY Known
  <1>1. f \in Flow /\ f \notin {"tick", "final"}
    BY FlowNames DEF Load
  <1> DEFINE h == Head(chain[p])
  <1>2. /\ chain[p] # <<>> /\ h.flow = f /\ h.op = "commit" /\ h.landed
        /\ UNCHANGED <<live, critical, db, ids>>
    BY DEF LoadCommitted, Answered, env
  <1>3. /\ h \in Elems(chain[p])
        /\ \A v \in Elems(Tail(chain[p])) : v \in Elems(chain[p]) /\ Calm(v)
    BY <1>0, <1>1, <1>2, HeadKnown
  <1>4. load[p][f].pc = "write"
    BY <1>0, <1>2, LoadWaits
  <1>5. /\ h.image = snap /\ snap # NoState
        /\ live[p] # NoState => live[p] = h.image
    BY <1>0, <1>2, <1>3 DEF WriteOK, Follows, RemembersOK
  <1>6. TablesStay /\ snap' = snap
    BY <1>0, <1>2, NamedStays DEF TablesStay
  <1>7. CASE live[p] = NoState
    <2>1. Pop(p) /\ LoadThrows(p, f)
      BY <1>7 DEF LoadCommitted
    <2>2. chain'[p] = Tail(chain[p])
      BY <1>0, <2>1, PopDoes
    <2> QED BY <1>2, <1>3, <1>4, <2>1, <2>2, LoadThrowsHistory
  <1>8. CASE live[p] # NoState
    <2>1. PICK w \in Write : w = Checkpoint(f, live[p])
      BY <1>0, FlowNames, CheckpointType DEF MemoryOK, EnvOK
    <2>2. /\ PopQueue(p, w) /\ UNCHANGED <<mode, load>>
          /\ w.flow = f /\ w.op = "checkpoint" /\ w.image = live[p] /\ w.events = {}
          /\ ~w.landed
      BY <1>8, <2>1 DEF LoadCommitted, Checkpoint, Entry
    <2>3. chain'[p] = Append(Tail(chain[p]), w) /\ Tail(chain[p]) \in Seq(Write)
      BY <1>0, <1>2, <2>2, PopQueueDoes
    <2>4. \A v \in Elems(chain'[p]) : v \in Elems(Tail(chain[p])) \/ v = w
      BY <2>3 DEF Elems
    <2>5. live[p] = snap
      BY <1>5, <1>8
    <2> HIDE DEF h
    <2>6. WriteOK(w)' /\ RemembersOK(p, w)'
      BY <1>2, <1>5, <1>6, <1>8, <2>2, <2>5 DEF WriteOK, RemembersOK, Load
    <2>7. /\ critical[p].pc = "none" /\ mode[p] # "running"
          /\ \A g \in Load \ {f} : load[p][g].pc = "none"
      BY <1>0, <1>4, LoadIsAlone
    <2>8. TicksDurable(p)' /\ CriticalFollows(p)'
      BY <1>2, <2>2, <2>7 DEF TicksDurable, CriticalFollows
    <2>9. ReadCurrent(p)'
      <3>1. \A g \in Load : load'[p][g].pc \notin {"got", "seed", "seeded"}
        BY <1>4, <2>2, <2>7
      <3> QED BY <3>1 DEF ReadCurrent
    <2> QED BY <1>3, <1>6, <2>4, <2>6, <2>8, <2>9, MemoryStep
  <1> QED BY <1>7, <1>8

\* A load that ends ticks the durable state, if it still owns the world.
LEMMA LoadFinishesHistory ==
  ASSUME TypeOK, TypeOK', ControlOK, ControlOK', OneHistory, NEW p \in Process,
         Elsewhere(p), NEW f \in Load, load[p][f].pc = "write", LoadFinishes(p, f),
         chain[p] # <<>>, Head(chain[p]).flow = f, Pop(p), UNCHANGED <<db, ids>>,
         critical'[p].pc = critical[p].pc, held[p] => live'[p] = snap /\ snap # NoState
  PROVE  OneHistory'
  <1>0. MemoryOK /\ FlowsOK /\ ids \in Names /\ Control(p)
    BY Known
  <1>1. TablesStay /\ snap' = snap
    BY <1>0, NamedStays DEF TablesStay
  <1>2. f \in Flow /\ f \notin {"tick", "final"}
    BY FlowNames DEF Load
  <1>3. \A v \in Elems(Tail(chain[p])) : v \in Elems(chain[p]) /\ Calm(v)
    BY <1>0, <1>2, HeadKnown
  <1>4. chain'[p] = Tail(chain[p])
    BY <1>0, PopDoes
  <1>5. /\ critical[p].pc = "none" /\ mode[p] # "running"
        /\ \A g \in Load \ {f} : load[p][g].pc = "none"
    BY <1>0, LoadIsAlone
  <1>6. /\ load'[p][f].pc = "none"
        /\ \A g \in Load \ {f} : load'[p][g] = load[p][g]
        /\ mode'[p] = IF held[p] /\ ~Stopping(p) THEN "running" ELSE mode[p]
    BY <1>0, LoadFinishesDoes
  <1>7. TicksDurable(p)' /\ CriticalFollows(p)'
    BY <1>1, <1>5, <1>6 DEF TicksDurable, CriticalFollows
  <1>8. ReadCurrent(p)'
    <2>1. \A g \in Load : load'[p][g].pc = "none"
      BY <1>5, <1>6
    <2> QED BY <2>1 DEF ReadCurrent
  <1> QED BY <1>1, <1>3, <1>4, <1>7, <1>8, MemoryStep

LEMMA LoadAnswersHistory ==
  ASSUME TypeOK, TypeOK', ControlOK, ControlOK', OneHistory, NEW p \in Process,
         Elsewhere(p), NEW f \in Load,
         LoadCheckpointed(p, f) \/ LoadReset(p) \/ LoadWriteFails(p, f)
  PROVE  OneHistory'
  <1>0. /\ MemoryOK /\ FlowsOK /\ ids \in Names /\ Control(p)
        /\ \A v \in Elems(chain[p]) : WriteOK(v) /\ RemembersOK(p, v)
    BY Known
  <1>1. ASSUME NEW g \in Load, chain[p] # <<>>, Head(chain[p]).flow = g
        PROVE  /\ load[p][g].pc = "write" /\ Head(chain[p]) \in Elems(chain[p])
               /\ \A v \in Elems(Tail(chain[p])) : v \in Elems(chain[p]) /\ Calm(v)
    <2>1. g \in Flow /\ g \notin {"tick", "final"}
      BY FlowNames DEF Load
    <2> QED BY <1>0, <1>1, <2>1, HeadKnown, LoadWaits
  <1>2. CASE LoadCheckpointed(p, f)
    <2>1. /\ chain[p] # <<>> /\ Head(chain[p]).flow = f /\ Head(chain[p]).op = "checkpoint"
          /\ Head(chain[p]).landed /\ Pop(p) /\ LoadFinishes(p, f)
          /\ UNCHANGED <<held, live, critical, db, ids>>
      BY <1>2 DEF LoadCheckpointed, Answered, env
    <2>2. load[p][f].pc = "write" /\ Head(chain[p]) \in Elems(chain[p])
      BY <1>1, <2>1
    <2>3. held[p] => live'[p] = snap /\ snap # NoState
      BY <1>0, <2>1, <2>2 DEF WriteOK, RemembersOK
    <2> QED BY <2>1, <2>2, <2>3, LoadFinishesHistory
  <1>3. CASE LoadReset(p)
    <2>1. /\ chain[p] # <<>> /\ Head(chain[p]).flow = "boot" /\ Head(chain[p]).op = "reset"
          /\ Head(chain[p]).landed /\ Pop(p) /\ Assign(p, Head(chain[p]).image)
          /\ LoadFinishes(p, "boot") /\ UNCHANGED <<db, ids>>
      BY <1>3 DEF LoadReset, Answered, env
    <2>2. load[p]["boot"].pc = "write" /\ Head(chain[p]) \in Elems(chain[p])
      BY <1>1, <2>1, FlowNames
    <2>3. Head(chain[p]).image = snap /\ snap # NoState
      BY <1>0, <2>1, <2>2 DEF WriteOK
    <2>4. live'[p] = snap /\ critical'[p].pc = critical[p].pc
      BY <1>0, <2>1, <2>3, AssignDoes
    <2> QED BY <2>1, <2>2, <2>3, <2>4, FlowNames, LoadFinishesHistory
  <1>4. CASE LoadWriteFails(p, f)
    <2>1. /\ chain[p] # <<>> /\ Head(chain[p]).flow = f /\ Pop(p) /\ LoadThrows(p, f)
          /\ UNCHANGED <<live, critical, db, ids>>
      BY <1>4 DEF LoadWriteFails, Fails
    <2>2. chain'[p] = Tail(chain[p])
      BY <1>0, <2>1, PopDoes
    <2> QED BY <1>1, <2>1, <2>2, LoadThrowsHistory
  <1> QED BY <1>2, <1>3, <1>4

-------------------------------------------------------------------------------
(* The commits.  Here the history is that of one process.                      *)

OneProcess == \A p, q \in Process : p = q

LEMMA CommitStep ==
  ASSUME OneProcess, NEW p \in Process, TablesMatch', MemoryMatches(p)'
  PROVE  OneHistory'
  <1>1. \A q \in Process : q = p
    BY DEF OneProcess
  <1> QED BY <1>1 DEF OneHistory

\* Nothing is durable yet: the transaction of the first population begins.
LEMMA LoadSeedsHistory ==
  ASSUME TypeOK, TypeOK', ControlOK, ControlOK', OneHistory, NEW p \in Process,
         Elsewhere(p), NEW f \in Load, LoadSeeds(p, f)
  PROVE  OneHistory'
  <1>0. MemoryOK /\ FlowsOK /\ ids \in Names /\ Control(p) /\ ReadCurrent(p)
    BY Known
  <1>1. /\ load[p][f].pc = "got" /\ load[p][f].image = NoState
        /\ UNCHANGED <<mode, critical, chain, db, ids>>
    BY DEF LoadSeeds, CanLoad, env, memory
  <1>2. TablesStay /\ snap' = snap
    BY <1>0, <1>1, NamedStays DEF TablesStay
  <1>3. snap = NoState
    BY <1>0, <1>1 DEF ReadCurrent
  <1>4. /\ critical[p].pc = "none" /\ mode[p] # "running"
        /\ \A g \in Load \ {f} : load[p][g].pc = "none"
    BY <1>0, <1>1, LoadIsAlone
  <1>5. /\ load'[p][f].pc = "seed"
        /\ \A g \in Load \ {f} : load'[p][g] = load[p][g]
    <2>1. LoadTo(p, f, "seed")
      BY DEF LoadSeeds, LoadTo
    <2> QED BY <1>0, <2>1, LoadMoves
  <1>6. \A v \in Elems(chain'[p]) : v \in Elems(chain[p]) /\ Calm(v)
    BY <1>0, <1>1, Resting
  <1>7. TicksDurable(p)' /\ CriticalFollows(p)' /\ ReadCurrent(p)'
    BY <1>1, <1>2, <1>3, <1>4, <1>5 DEF TicksDurable, CriticalFollows, ReadCurrent
  <1> QED BY <1>2, <1>6, <1>7, MemoryStep

\* It commits, outside the queue.
LEMMA SeedLandsHistory ==
  ASSUME TypeOK, TypeOK', ControlOK, ControlOK', OneHistory, OneProcess,
         NEW p \in Process, NEW f \in Load, SeedLands(p, f)
  PROVE  snap = NoState /\ OneHistory'
  <1>0. /\ MemoryOK /\ FlowsOK /\ ids \in Names /\ Control(p) /\ TablesMatch
        /\ ReadCurrent(p) /\ \A v \in Elems(chain[p]) : WriteOK(v)
    BY Known
  <1>1. /\ load[p][f].pc = "seed" /\ snap' = Seed /\ rows' \subseteq rows
        /\ UNCHANGED <<mode, held, live, critical, chain, log, ids>>
    BY DEF SeedLands, env, memory
  <1>2. snap = NoState
    BY <1>0, <1>1 DEF ReadCurrent
  <1>3. TablesMatch'
    <2>1. rows' = {} /\ Logged' = Logged /\ ids.epochs \in Nat
      BY <1>0, <1>1, <1>2 DEF TablesMatch, Logged, Names
    <2> QED BY <1>0, <1>1, <2>1, SeedIsAState DEF TablesMatch
  <1>4. /\ critical[p].pc = "none" /\ mode[p] # "running"
        /\ \A g \in Load \ {f} : load[p][g].pc = "none"
    BY <1>0, <1>1, LoadIsAlone
  <1>5. /\ load'[p][f].pc = "seeded"
        /\ \A g \in Load \ {f} : load'[p][g] = load[p][g]
    <2>1. LoadTo(p, f, "seeded")
      BY DEF SeedLands, LoadTo
    <2> QED BY <1>0, <2>1, LoadMoves
  <1>6. TicksDurable(p)' /\ CriticalFollows(p)' /\ ReadCurrent(p)'
    BY <1>1, <1>4, <1>5 DEF TicksDurable, CriticalFollows, ReadCurrent
  <1>7. ASSUME NEW w \in Writes(p)' PROVE WriteOK(w)' /\ RemembersOK(p, w)'
    <2>1. w \in Elems(chain[p])
      BY <1>1, <1>7, WritesAre
    <2>2. w.op = "drain" /\ Calm(w) /\ WriteOK(w)
      BY <1>0, <1>1, <2>1, Resting
    <2> QED BY <2>2, CalmForgotten DEF WriteOK
  <1>8. MemoryMatches(p)'
    BY <1>6, <1>7 DEF MemoryMatches
  <1> QED BY <1>2, <1>3, <1>8, CommitStep

\* The first population becomes the live state.
LEMMA LoadSeededHistory ==
  ASSUME TypeOK, TypeOK', ControlOK, ControlOK', OneHistory, NEW p \in Process,
         Elsewhere(p), NEW f \in Load, LoadSeeded(p, f)
  PROVE  OneHistory'
  <1>0. MemoryOK /\ FlowsOK /\ ids \in Names /\ Control(p) /\ ReadCurrent(p)
    BY Known
  <1>1. /\ load[p][f].pc = "seeded" /\ Assign(p, Seed) /\ LoadFinishes(p, f)
        /\ UNCHANGED <<chain, db, ids>>
    BY DEF LoadSeeded, env
  <1>2. TablesStay /\ snap' = snap
    BY <1>0, <1>1, NamedStays DEF TablesStay
  <1>3. snap = Seed
    BY <1>0, <1>1 DEF ReadCurrent
  <1>4. /\ critical[p].pc = "none"
        /\ \A g \in Load \ {f} : load[p][g].pc = "none"
    BY <1>0, <1>1, LoadIsAlone
  <1>5. live'[p] = Seed /\ critical'[p].pc = critical[p].pc
    BY <1>0, <1>1, AssignDoes
  <1>6. \A g \in Load : load'[p][g].pc = "none"
    BY <1>0, <1>1, <1>4, LoadFinishesDoes
  <1>7. \A v \in Elems(chain'[p]) : v \in Elems(chain[p]) /\ Calm(v)
    BY <1>0, <1>1, Resting
  <1>8. TicksDurable(p)' /\ CriticalFollows(p)' /\ ReadCurrent(p)'
    BY <1>2, <1>3, <1>4, <1>5, <1>6, SeedIsAState
       DEF TicksDurable, CriticalFollows, ReadCurrent
  <1> QED BY <1>2, <1>7, <1>8, MemoryStep

\* What the tables become when the write in flight commits.
LEMMA LandSaves ==
  ASSUME TypeOK, SaveInv, ControlOK, OneHistory, NEW p \in Process, Land(p)
  PROVE  /\ Head(chain[p]) \in Elems(chain[p]) /\ Head(chain[p]).op \in {"checkpoint", "commit", "reset"}
         /\ snap' = Head(chain[p]).image /\ rows' = RowsAfter(Head(chain[p]))
         /\ Logged' = Logged \cup Head(chain[p]).events
         /\ Head(chain[p]).events \subseteq ids.events
         /\ UNCHANGED <<memory, critical, admin, reset, load, published, ids>>
  <1> DEFINE h == Head(chain[p])
  <1>1. /\ snap' = h.image /\ rows' = RowsAfter(h) /\ chain[p] # <<>> /\ h.op # "drain"
        /\ log' = log \cup {<<h.batch, e>> : e \in h.events}
        /\ UNCHANGED <<memory, critical, admin, reset, load, published, ids>>
    BY DEF Land, env
  <1>2. h \in Write /\ h \in Elems(chain[p])
    <2>1. chain[p] \in Seq(Write) /\ Ordered(chain[p])
      BY DEF TypeOK, FlowsOK, ControlOK, Control, QueueOK
    <2> QED BY <1>1, <2>1, Popped
  <1> HIDE DEF h
  <1>3. h.op \in {"checkpoint", "commit", "reset"} /\ h.batch \in Nat /\ h.events \subseteq Event
    BY <1>1, <1>2 DEF Write, Op
  <1>4. Logged' = Logged \cup h.events
    <2>1. ASSUME NEW e \in Logged' PROVE e \in Logged \cup h.events
      <3>1. PICK r \in log' : e = r[2]
        BY DEF Logged
      <3>2. CASE r \in log
        BY <3>1, <3>2 DEF Logged
      <3>3. CASE r \in {<<h.batch, d>> : d \in h.events}
        BY <3>1, <3>3
      <3> QED BY <1>1, <3>2, <3>3
    <2>2. ASSUME NEW e \in Logged PROVE e \in Logged'
      BY <1>1 DEF Logged
    <2>3. ASSUME NEW e \in h.events PROVE e \in Logged'
      <3>1. <<h.batch, e>> \in log' /\ <<h.batch, e>>[2] = e
        BY <1>1
      <3> QED BY <3>1 DEF Logged
    <2> QED BY <2>1, <2>2, <2>3
  <1>5. h.events \subseteq ids.events
    <2> SUFFICES ASSUME NEW e \in h.events PROVE e \in ids.events
      OBVIOUS
    <2>1. h \in Writes(p) /\ e \in Event
      BY <1>2, <1>3, WritesAre
    <2>2. Claims(h.batch, e)
      BY <2>1 DEF Claims
    <2> QED BY <1>3, <2>1, <2>2 DEF SaveInv, ClaimedIsNamed
  <1> QED BY <1>1, <1>2, <1>3, <1>4, <1>5 DEF h

LEMMA LandTables ==
  ASSUME TypeOK, TablesMatch, NEW h \in Write, WriteOK(h),
         h.op \in {"checkpoint", "commit", "reset"},
         snap' = h.image, rows' = RowsAfter(h), Logged' = Logged \cup h.events,
         h.events \subseteq ids.events, ids' = ids
  PROVE  /\ TablesMatch' /\ snap' # NoState
         /\ h.op = "commit" => Follows(h.image, h.events)'
         /\ h.op = "checkpoint" => snap' = snap /\ rows' = rows /\ Logged' = Logged
         /\ h.op = "reset" /\ ~h.landed =>
              h.image.hist = {} /\ (snap # NoState => h.image.epoch > snap.epoch)
  <1>1. snap # NoState => snap.epoch \in Nat
    BY DEF TypeOK, DbOK, Image
  <1>2. ids.epochs \in Nat
    BY DEF TypeOK, EnvOK, Names
  <1>3. h.image # NoState => h.image.epoch \in Nat
    BY DEF Write, Image
  <1>4. CASE h.op = "checkpoint"
    <2>1. h.image = snap /\ snap # NoState /\ h.events = {}
      BY <1>4 DEF WriteOK
    <2>2. rows = snap.hist \ Fleeting
      BY <2>1 DEF TablesMatch
    <2>3. rows' = rows
      <3>1. rows' = (rows \ Owned) \cup (h.image.hist \cap Owned)
        BY <1>4 DEF RowsAfter
      <3>2. Owned \cap Fleeting = {}
        BY ConstantsOK
      <3> QED BY <2>1, <2>2, <3>1, <3>2
    <2> QED BY <1>4, <2>1, <2>2, <2>3 DEF TablesMatch
  <1>5. CASE h.op = "commit"
    <2>1. /\ h.image # NoState /\ snap # NoState
          /\ h.image.epoch = snap.epoch /\ h.image.hist = snap.hist \cup h.events
      BY <1>5 DEF WriteOK, Follows
    <2>2. rows' = rows \cup (h.events \ Fleeting)
      BY <1>5 DEF RowsAfter
    <2>3. rows = snap.hist \ Fleeting /\ snap.hist \subseteq Logged /\ snap.epoch <= ids.epochs
      BY <2>1 DEF TablesMatch
    <2>4. snap'.hist = snap.hist \cup h.events /\ snap'.epoch = snap.epoch
      BY <2>1
    <2>5. TablesMatch'
      BY <1>2, <2>1, <2>2, <2>3, <2>4 DEF TablesMatch
    <2>6. Follows(h.image, h.events)'
      BY <2>1, <2>4 DEF Follows
    <2> QED BY <1>5, <2>1, <2>5, <2>6
  <1>6. CASE h.op = "reset"
    <2>1. /\ h.image # NoState /\ h.image.hist = {} /\ h.image.epoch <= ids.epochs
          /\ ~h.landed => snap = NoState \/ snap.epoch < h.image.epoch
          /\ h.events = {}
      BY <1>6 DEF WriteOK
    <2>2. rows' = {}
      BY <1>6 DEF RowsAfter
    <2>3. TablesMatch'
      BY <1>2, <2>1, <2>2 DEF TablesMatch
    <2> QED BY <1>1, <1>3, <1>6, <2>1, <2>3
  <1> QED BY <1>4, <1>5, <1>6

LEMMA LandHistory ==
  ASSUME TypeOK, TypeOK', SaveInv, ControlOK, ControlOK', OneHistory, OneProcess,
         NEW p \in Process, Land(p)
  PROVE  OneHistory'
  <1>0. /\ MemoryOK /\ FlowsOK /\ EnvOK /\ ids \in Names /\ Control(p) /\ OneFlow(p)
        /\ TablesMatch /\ QueueOK(p) /\ TicksDurable(p) /\ CriticalFollows(p)
        /\ \A v \in Elems(chain[p]) : WriteOK(v) /\ RemembersOK(p, v) /\ v \in Write
    BY Known
  <1>1. PICK h \in Write :
           /\ Head(chain[p]) = chain[p][1] /\ 1 \in 1..Len(chain[p])
           /\ h.flow = Head(chain[p]).flow /\ h.op = Head(chain[p]).op
           /\ h.image = Head(chain[p]).image /\ h.events = Head(chain[p]).events
           /\ h.landed
           /\ Len(chain'[p]) = Len(chain[p]) /\ chain'[p][1] = h
           /\ \A i \in 1..Len(chain[p]) : i # 1 => chain'[p][i] = chain[p][i]
           /\ \A q \in Process \ {p} : chain'[q] = chain[q]
    BY <1>0, LandMoves
  <1>a. chain[p] # <<>> /\ ~Head(chain[p]).landed
    BY DEF Land
  <1>b. Head(chain[p]) \in Elems(chain[p])
    BY LandSaves
  <1>c. PICK g \in Write : g = Head(chain[p])
    BY <1>0, <1>b
  <1>2. /\ g \in Elems(chain[p]) /\ g.op \in {"checkpoint", "commit", "reset"}
        /\ snap' = g.image /\ rows' = RowsAfter(g)
        /\ Logged' = Logged \cup g.events /\ g.events \subseteq ids.events
        /\ UNCHANGED <<mode, held, live, critical, admin, reset, load, ids>>
    BY <1>c, LandSaves DEF memory
  <1>3. chain[p] # <<>> /\ ~g.landed
    BY <1>a, <1>c
  <1>4. WriteOK(g) /\ RemembersOK(p, g) /\ g \in Write
    BY <1>0, <1>2
  <1>5. h.flow = g.flow /\ h.op = g.op /\ h.image = g.image /\ h.events = g.events
    BY <1>1, <1>c
  <1>6. \A v \in Elems(chain'[p]) : v = h \/ v \in Elems(Tail(chain[p]))
    <2>1. chain[p] \in Seq(Write)
      BY <1>0 DEF FlowsOK
    <2>2. /\ Len(Tail(chain[p])) = Len(chain[p]) - 1
          /\ \A i \in 1..Len(chain[p]) : i # 1 => i - 1 \in 1..Len(Tail(chain[p]))
                                                  /\ Tail(chain[p])[i - 1] = chain[p][i]
      BY <1>3, <2>1
    <2> QED BY <1>1, <2>2 DEF Elems
  <1>8. Elems(Tail(chain[p])) \subseteq Elems(chain[p])
    BY <1>0, <1>3, Popped DEF FlowsOK, QueueOK
  <1>9. ~Calm(g) => \A v \in Elems(Tail(chain[p])) : v \in Elems(chain[p]) /\ v.op = "drain" /\ Calm(v)
    BY <1>0, <1>3, <1>c, Behind
  <1>10. Waits(p, g)
    BY <1>0, <1>2, WritesAre DEF QueueOK
  <1>11. \A f \in Load : load'[p][f].pc \notin {"got", "seed", "seeded"}
    BY <1>0, <1>2, WritesAre DEF QueueOK, ReadsSettled
  <1>12. /\ TablesMatch' /\ snap' # NoState
         /\ g.op = "commit" => Follows(g.image, g.events)'
         /\ g.op = "checkpoint" => snap' = snap /\ rows' = rows /\ Logged' = Logged
    BY <1>0, <1>2, <1>4, LandTables
  <1>13. WriteOK(h)'
    <2>1. h.op = "commit" => Follows(h.image, h.events)'
      BY <1>5, <1>12 DEF Follows
    <2>2. h.landed /\ h.image = snap' /\ h.events \subseteq Logged'
      BY <1>1, <1>2, <1>5
    <2> QED BY <1>2, <1>4, <1>5, <1>12, <2>1, <2>2 DEF WriteOK
  <1>14. RemembersOK(p, h)'
    BY <1>1, <1>2, <1>4, <1>5 DEF RemembersOK
  <1>15. ReadCurrent(p)'
    BY <1>11 DEF ReadCurrent
  <1>16. CASE g.op = "checkpoint"
    <2>1. ASSUME NEW v \in Elems(Tail(chain[p])) PROVE WriteOK(v)' /\ RemembersOK(p, v)'
      <3>1. WriteOK(v) /\ RemembersOK(p, v)
        BY <1>0, <1>8
      <3>2. Follows(v.image, v.events)' <=> Follows(v.image, v.events)
        BY <1>12, <1>16 DEF Follows
      <3> QED BY <1>2, <1>12, <1>16, <3>1, <3>2 DEF WriteOK, RemembersOK
    <2>2. TicksDurable(p)'
      BY <1>0, <1>2, <1>12, <1>16 DEF TicksDurable
    <2>3. CriticalFollows(p)'
      BY <1>0, <1>2, <1>12, <1>16 DEF CriticalFollows, Follows
    <2>4. MemoryMatches(p)'
      BY <1>6, <1>13, <1>14, <1>15, <2>1, <2>2, <2>3, WritesAre DEF MemoryMatches
    <2> QED BY <1>12, <2>4, CommitStep
  <1>17. CASE g.op \in {"commit", "reset"}
    <2>1. ~Calm(g)
      BY <1>17 DEF Calm
    <2>2. ASSUME NEW v \in Elems(Tail(chain[p])) PROVE WriteOK(v)' /\ RemembersOK(p, v)'
      <3>1. WriteOK(v) /\ v.op = "drain" /\ Calm(v)
        BY <1>0, <1>9, <2>1
      <3> QED BY <3>1, CalmForgotten DEF WriteOK
    <2>3. mode[p] # "running"
      BY <1>0, <1>10, <2>1 DEF Waits, OneFlow, Free
    <2>4. CriticalFollows(p)'
      <3>1. CASE g.flow = "critical"
        <4>1. g.op = "commit" /\ g.events = critical[p].events
              /\ (critical[p].fresh => g.image = live[p])
          BY <1>4, <1>10, <2>1, <3>1 DEF Waits, RemembersOK
        <4> QED BY <1>2, <1>12, <4>1 DEF CriticalFollows, Follows
      <3>2. CASE g.flow # "critical"
        <4>1. critical[p].pc = "none"
          BY <1>0, <1>10, <2>1, <3>2 DEF Waits, OneFlow
        <4> QED BY <1>2, <4>1 DEF CriticalFollows
      <3> QED BY <3>1, <3>2
    <2>5. TicksDurable(p)'
      BY <1>2, <2>3 DEF TicksDurable
    <2>6. MemoryMatches(p)'
      BY <1>6, <1>13, <1>14, <1>15, <2>2, <2>4, <2>5, WritesAre DEF MemoryMatches
    <2> QED BY <1>12, <2>6, CommitStep
  <1> QED BY <1>2, <1>16, <1>17

-------------------------------------------------------------------------------
(* The history invariant.                                                      *)

LEMMA InitHistory == Init => OneHistory
  <1> SUFFICES ASSUME Init PROVE OneHistory
    OBVIOUS
  <1>1. TablesMatch
    <2>1. log = {} /\ snap = NoState /\ rows = {}
      BY DEF Init
    <2> QED BY <2>1 DEF TablesMatch, Logged
  <1>2. ASSUME NEW p \in Process PROVE MemoryMatches(p)
    <2>1. /\ mode[p] = "starting" /\ critical[p] = NoCritical /\ chain[p] = <<>>
          /\ load[p] = [f \in Load |-> NoLoad]
      BY DEF Init
    <2>2. Writes(p) = {}
      <3>1. Len(chain[p]) = 0
        BY <2>1
      <3> QED BY <3>1 DEF Writes
    <2> QED BY <2>1, <2>2 DEF MemoryMatches, TicksDurable, CriticalFollows, ReadCurrent,
                              NoCritical, NoLoad
  <1> QED BY <1>1, <1>2 DEF OneHistory

\* What is in no process and in no table.
LEMMA UntouchedHistory ==
  ASSUME TypeOK, TypeOK', OneHistory, UNCHANGED <<memory, flows, db, ids>>
  PROVE  OneHistory'
  <1>1. TablesStay
    BY NamedStays DEF TypeOK, EnvOK
  <1>2. CASE Process = {}
    BY <1>1, <1>2 DEF OneHistory, TablesMatch, TablesStay, Logged, memory, flows, db
  <1>3. CASE Process # {}
    <2>1. PICK p \in Process : TRUE
      BY <1>3
    <2>2. Elsewhere(p) /\ FlowsStay(p)
      BY DEF Elsewhere, Same, SameFlow, FlowsStay, memory, flows
    <2> QED BY <1>1, <2>2, QuietHistory
  <1> QED BY <1>2, <1>3

LEMMA HistoryNext ==
  ASSUME TypeOK, TypeOK', SaveInv, Owning, ControlOK, ControlOK', OneHistory, OneProcess,
         "admin" \notin LostAcks, [Next /\ Punctual]_vars
  PROVE  OneHistory'
  <1>0. SUBSET NewEvent \subseteq SUBSET Event
    BY DEF NewEvent
  <1>1. CASE UNCHANGED vars
    BY <1>1, UntouchedHistory DEF vars, env
  <1>2. ASSUME NEW p \in Process, LoadStep(p) PROVE OneHistory'
    <2>1. CASE \E f \in Load : LoadRead(p, f) \/ LoadRefused(p, f)
      BY <2>1, LoadReadControl, LoadRefusedControl, LoadReadHistory, LoadRefusedHistory
    <2>3. CASE \E f \in Load : LoadSeeds(p, f) \/ LoadSeeded(p, f)
      BY <2>3, LoadSeedsControl, LoadSeededControl, LoadSeedsHistory, LoadSeededHistory
    <2>2. CASE \E f \in Load, E \in SUBSET NewEvent : LoadAdvances(p, f, E)
      BY <1>0, <2>2, LoadAdvancesControl, LoadAdvancesHistory
    <2> QED BY <1>2, <2>1, <2>2, <2>3, LoadResetsControl, LoadResetsHistory DEF LoadStep
  <1>3. ASSUME NEW p \in Process, Settle(p) PROVE OneHistory'
    <2>1. CASE \E f \in Load : LoadCommitted(p, f) \/ LoadCheckpointed(p, f)
      BY <2>1, LoadAnswersControl, LoadCommittedHistory, LoadAnswersHistory
    <2>2. CASE LoadReset(p)
      BY <2>2, FlowNames, LoadAnswersControl, LoadAnswersHistory
    <2>3. CASE CheckpointSettles(p)
      BY <2>3, CheckpointControl, ShutdownHistory
    <2>4. CASE CriticalSaved(p)
      BY <2>4, CriticalSavedControl, CriticalSavedHistory
    <2>5. CASE \E E \in SUBSET NewEvent : AdminDrained(p, E)
      BY <1>0, <2>5, AdminDrainedControl, AdminDrainedHistory
    <2>6. CASE AdminSaved(p)
      BY <2>6, AdminSettlesControl, AdminSettlesHistory
    <2>7. CASE ResetDrained(p) \/ ResetSaved(p)
      BY <2>7, ResetDrainedControl, ResetSavedControl, ResetDrainedHistory,
         ResetSavedHistory
    <2>8. CASE ShutdownCheckpointed(p) \/ ShutdownDrained(p)
      BY <2>8, ShutdownCheckpointedControl, ShutdownDrainedControl, ShutdownHistory,
         ShutdownDrainedHistory
    <2> QED BY <1>3, <2>1, <2>2, <2>3, <2>4, <2>5, <2>6, <2>7, <2>8 DEF Settle
  <1>4. ASSUME NEW p \in Process, Fault(p) PROVE OneHistory'
    <2>1. CASE \E f \in Load : LoadReadFails(p, f) \/ LoadWriteFails(p, f) \/ SeedFails(p, f)
      BY <2>1, LoadRefusedControl, LoadAnswersControl, LoadRefusedHistory,
         LoadAnswersHistory
    <2>2. CASE CriticalFails(p) \/ ResetFails(p)
      BY <2>2, CriticalFailsControl, ResetFailsControl, CriticalFailsHistory,
         ResetFailsHistory
    <2>3. CASE AdminFails(p)
      BY <2>3, AdminSettlesControl, AdminSettlesHistory
    <2>4. CASE SessionDies(p)
      BY <2>4, UntouchedHistory DEF SessionDies, env
    <2>5. CASE LockLost(p) \/ Shutdown(p) \/ Restart(p)
      BY <2>5, LockLostControl, ShutdownControl, RestartControl, LockLostHistory,
         ShutdownHistory, RestartHistory
    <2> QED BY <1>4, <2>1, <2>2, <2>3, <2>4, <2>5 DEF Fault
  <1>5. ASSUME NEW p \in Process, Work(p) PROVE OneHistory'
    <2>1. CASE CheckpointTick(p)
      BY <2>1, CheckpointControl, ShutdownHistory
    <2>2. CASE AdminMutate(p)
      BY <2>2, AdminMutateControl, AdminMutateHistory
    <2>3. CASE \E E \in SUBSET NewEvent : CriticalTick(p, E)
      BY <1>0, <2>3, CriticalTickControl, CriticalTickHistory
    <2>4. CASE ManualReset(p)
      BY <2>4, ResetWorldControl, ResetWorldHistory DEF ManualReset
    <2> QED BY <1>5, <2>1, <2>2, <2>3, <2>4 DEF Work
  <1>6. ASSUME NEW p \in Process, DailyReset(p) PROVE OneHistory'
    BY <1>6, ResetWorldControl, ResetWorldHistory DEF DailyReset
  <1>7. ASSUME NEW p \in Process, TryStart(p), Punctual PROVE OneHistory'
    BY <1>7, TryStartControl, TryStartHistory
  <1>8. ASSUME NEW p \in Process, Commit(p) PROVE OneHistory'
    BY <1>8, LandHistory, SeedLandsHistory DEF Commit
  <1>9. ASSUME NEW p \in Process, BackoffOver(p) \/ ShutdownFlowsDone(p)
        PROVE  OneHistory'
    BY <1>9, BackoffOverControl, ShutdownFlowsDoneControl, ShutdownHistory
  <1>10. ASSUME NEW p \in Process, CriticalRetry(p) PROVE OneHistory'
    BY <1>10, CriticalRetryControl, CriticalRetryHistory
  <1>11. CASE OrphanEnds \/ Midnight
    BY <1>11, UntouchedHistory DEF OrphanEnds, Midnight, env
  <1> QED BY <1>1, <1>2, <1>3, <1>4, <1>5, <1>6, <1>7, <1>8, <1>9, <1>10, <1>11
          DEF Next

LEMMA HistoryAlways ==
  ASSUME OneProcess, "admin" \notin LostAcks
  PROVE  PunctualSpec => []OneHistory
  <1>1. /\ TypeOK /\ TypeOK' /\ SaveInv /\ Owning /\ ControlOK /\ ControlOK' /\ OneHistory
        /\ [Next /\ Punctual]_vars
        => OneHistory'
    BY HistoryNext
  <1> QED BY InitHistory, PunctualIsSpec, TypeCorrect, SavePromise, OwningAlways,
             ControlAlways, <1>1, PTL DEF PunctualSpec

\* With one process whose keepers' saves are always answered: while it ticks the world,
\* what a crash would leave behind is the world it ticks.  The critical save, a keeper
\* action, a reset and a load stop the loop until the tables and the memory agree again,
\* through every other failure, every lost lock and every restart.
THEOREM TicksTheDurableWorld ==
  ASSUME OneProcess, "admin" \notin LostAcks
  PROVE  PunctualSpec => []RunningIsDurable
  <1>1. OneHistory => RunningIsDurable
    BY DEF OneHistory, MemoryMatches, TicksDurable, RunningIsDurable
  <1> QED BY HistoryAlways, <1>1, PTL

\* With one process whose keepers' saves are always answered: the Monster rows and the
\* recovery snapshot tell the same lives and deaths after every commit, except for those
\* that began and ended within one catch-up.  Incremental saves, full checkpoints, resets
\* and the first seed agree.
THEOREM RowsTellTheSnapshot ==
  ASSUME OneProcess, "admin" \notin LostAcks
  PROVE  PunctualSpec => []RowsMatchSnapshot
  <1>1. OneHistory => RowsMatchSnapshot
    BY DEF OneHistory, TablesMatch, RowsMatchSnapshot
  <1> QED BY HistoryAlways, <1>1, PTL

-------------------------------------------------------------------------------
(* The refinement: which steps show.                                           *)

Unseen == UNCHANGED <<snap, log, published>>

\* The steps that neither commit nor publish.
LEMMA MostStepsAreUnseen ==
  ASSUME [Next]_vars
  PROVE  \/ Unseen
         \/ \E p \in Process : Land(p) \/ CriticalSaved(p) \/ AdminSaved(p)
         \/ \E p \in Process : \E f \in Load : SeedLands(p, f)
  <1> USE DEF Unseen
  <1>1. CASE UNCHANGED vars
    BY <1>1 DEF vars, db
  <1>2. ASSUME NEW p \in Process, LoadStep(p) PROVE Unseen
    BY <1>2 DEF LoadStep, LoadRead, LoadRefused, LoadSeeds, LoadSeeded, LoadAdvances,
       LoadResets, db
  <1>3. ASSUME NEW p \in Process, Settle(p)
        PROVE  Unseen \/ CriticalSaved(p) \/ AdminSaved(p)
    BY <1>3 DEF Settle, LoadCommitted, LoadCheckpointed, LoadReset, CheckpointSettles,
       AdminDrained, ResetDrained, ResetSaved, ShutdownCheckpointed, ShutdownDrained, db
  <1>4. ASSUME NEW p \in Process, Fault(p) PROVE Unseen
    BY <1>4 DEF Fault, LoadReadFails, LoadWriteFails, SeedFails, CriticalFails, AdminFails,
       ResetFails, LockLost, SessionDies, Shutdown, Restart, db
  <1>5. ASSUME NEW p \in Process, Work(p) PROVE Unseen
    BY <1>5 DEF Work, CheckpointTick, CriticalTick, AdminMutate, ManualReset, ResetWorld, db
  <1>6. ASSUME NEW p \in Process, \/ TryStart(p) \/ DailyReset(p) \/ BackoffOver(p)
                                  \/ CriticalRetry(p) \/ ShutdownFlowsDone(p)
        PROVE  Unseen
    BY <1>6 DEF TryStart, DailyReset, ResetWorld, BackoffOver, CriticalRetry,
       ShutdownFlowsDone, db
  <1>7. CASE OrphanEnds \/ Midnight
    BY <1>7 DEF OrphanEnds, Midnight, db
  <1> QED BY <1>1, <1>2, <1>3, <1>4, <1>5, <1>6, <1>7 DEF Next, Commit

\* A commit saves new events, begins a generation, or repeats what is durable.
LEMMA LandShows ==
  ASSUME TypeOK, SaveInv, ControlOK, OneHistory, NEW p \in Process, Land(p)
  PROVE  \/ \E E \in SUBSET (Event \ Logged) : Durable!Save(E)
         \/ Durable!Begin
         \/ UNCHANGED <<snap, Logged, published>>
  <1>0. TablesMatch /\ FlowsOK /\ snap \in Image \cup {NoState}
    BY DEF OneHistory, TypeOK, DbOK
  <1>1. /\ Head(chain[p]) \in Elems(chain[p])
        /\ Head(chain[p]).op \in {"checkpoint", "commit", "reset"}
        /\ snap' = Head(chain[p]).image /\ rows' = RowsAfter(Head(chain[p]))
        /\ Logged' = Logged \cup Head(chain[p]).events
        /\ Head(chain[p]).events \subseteq ids.events
        /\ UNCHANGED <<published, ids>>
    BY LandSaves
  <1>2. PICK g \in Write : g = Head(chain[p])
    BY <1>0, <1>1, WritesTyped
  <1>3. WriteOK(g)
    BY <1>1, <1>2, WritesAre DEF OneHistory, MemoryMatches
  <1>4. ~g.landed
    BY <1>2 DEF Land
  <1>5. /\ g.op \in {"checkpoint", "commit", "reset"} /\ snap' = g.image
        /\ rows' = RowsAfter(g) /\ Logged' = Logged \cup g.events
        /\ g.events \subseteq ids.events /\ ids' = ids
    BY <1>1, <1>2
  <1>6. /\ snap' # NoState
        /\ g.op = "checkpoint" => snap' = snap /\ Logged' = Logged
        /\ g.op = "reset" => g.image.hist = {} /\ (snap # NoState => g.image.epoch > snap.epoch)
    BY <1>0, <1>3, <1>4, <1>5, LandTables
  <1>7. CASE g.op = "commit"
    <2>1. Follows(g.image, g.events)
      BY <1>3, <1>7 DEF WriteOK
    <2>2. CASE g.events \cap Logged = {}
      <3>1. g.events \in SUBSET (Event \ Logged)
        BY <2>2 DEF Write
      <3>2. snap \in Image /\ g.image \in Image
        BY <1>0, <2>1 DEF Follows, Write
      <3>3. g.image = [snap EXCEPT !.hist = @ \cup g.events]
        BY <2>1, <3>2 DEF Follows, Image
      <3>4. Durable!Save(g.events)
        BY <1>1, <1>5, <2>1, <3>3 DEF Durable!Save, Follows
      <3> QED BY <3>1, <3>4
    <2>3. CASE g.events \subseteq Logged /\ g.image = snap
      BY <1>1, <1>5, <2>3
    <2> QED BY <2>1, <2>2, <2>3 DEF Follows
  <1>8. CASE g.op = "checkpoint"
    BY <1>1, <1>6, <1>8
  <1>9. CASE g.op = "reset"
    <2>1. Logged' = Logged
      BY <1>3, <1>5, <1>9 DEF WriteOK
    <2>2. snap' # snap
      <3>1. snap # NoState => snap.epoch \in Nat
        BY <1>0 DEF Image
      <3> QED BY <1>5, <1>6, <1>9, <3>1
    <2>3. Durable!Begin
      BY <1>1, <1>5, <1>6, <1>9, <2>1, <2>2 DEF Durable!Begin
    <2> QED BY <2>3
  <1> QED BY <1>5, <1>7, <1>8, <1>9

\* The first snapshot of all is a world without events.
LEMMA SeedShows ==
  ASSUME OneHistory, NEW p \in Process, NEW f \in Load, SeedLands(p, f)
  PROVE  Durable!Begin
  <1>1. snap' = Seed /\ UNCHANGED <<log, published>> /\ load[p][f].pc = "seed"
    BY DEF SeedLands
  <1>2. snap = NoState
    BY <1>1 DEF OneHistory, MemoryMatches, ReadCurrent
  <1> QED BY <1>1, <1>2, SeedIsAState DEF Durable!Begin, Logged

\* A save is published after it has committed, while its events are in the world.
LEMMA SavedShows ==
  ASSUME TypeOK, ControlOK, OneHistory, NEW p \in Process, CriticalSaved(p) \/ AdminSaved(p)
  PROVE  \/ \E E \in SUBSET Event : Durable!Show(E)
         \/ UNCHANGED <<snap, Logged, published>>
  <1>1. FlowsOK
    BY DEF TypeOK
  <1>2. /\ chain[p] # <<>> /\ Head(chain[p]).op = "commit" /\ Head(chain[p]).landed
        /\ UNCHANGED <<snap, log>>
        /\ published' = published \/ published' = published \cup Head(chain[p]).events
    BY DEF CriticalSaved, AdminSaved, Answered, db
  <1>3. Head(chain[p]) \in Elems(chain[p])
    <2>1. chain[p] \in Seq(Write) /\ Ordered(chain[p])
      BY <1>1 DEF FlowsOK, ControlOK, Control, QueueOK
    <2> QED BY <1>2, <2>1, Popped
  <1>4. PICK g \in Write : g = Head(chain[p])
    BY <1>1, <1>3, WritesTyped
  <1>5. WriteOK(g)
    BY <1>3, <1>4, WritesAre DEF OneHistory, MemoryMatches
  <1>6. g.events \subseteq snap.hist \cap Logged /\ snap # NoState /\ g.events \in SUBSET Event
    BY <1>2, <1>4, <1>5 DEF WriteOK, Follows, Write
  <1>7. UNCHANGED <<snap, Logged>>
    BY <1>2 DEF Logged
  <1>8. CASE published' = published \cup g.events
    <2>1. Durable!Show(g.events)
      BY <1>6, <1>7, <1>8 DEF Durable!Show
    <2> QED BY <1>6, <2>1
  <1> QED BY <1>2, <1>4, <1>7, <1>8

LEMMA StepShows ==
  ASSUME TypeOK, SaveInv, ControlOK, OneHistory, [Next]_vars
  PROVE  [Durable!Next]_(Durable!vars)
  <1> USE DEF Durable!vars
  <1>1. CASE Unseen
    BY <1>1 DEF Unseen, Logged
  <1>2. ASSUME NEW p \in Process, Land(p)
        PROVE  [Durable!Next]_(Durable!vars)
    BY <1>2, LandShows DEF Durable!Next
  <1>3. ASSUME NEW p \in Process, CriticalSaved(p) \/ AdminSaved(p)
        PROVE  [Durable!Next]_(Durable!vars)
    BY <1>3, SavedShows DEF Durable!Next
  <1>4. ASSUME NEW p \in Process, NEW f \in Load, SeedLands(p, f)
        PROVE  [Durable!Next]_(Durable!vars)
    BY <1>4, SeedShows DEF Durable!Next
  <1> QED BY <1>1, <1>2, <1>3, <1>4, MostStepsAreUnseen

\* With one process whose keepers' saves are always answered: everything that is durable
\* or published is what DurableWorld allows: one world, each event recorded with it in one
\* step and once, published afterwards, and past only by a reset.  Queues, retries, lost
\* answers, copies, catch-ups, lost locks and crashes do not show.
THEOREM ImplementsDurableWorld ==
  ASSUME OneProcess, "admin" \notin LostAcks
  PROVE  PunctualSpec => RefinesDurableWorld
  <1>1. Init => Durable!Init
    BY DEF Init, Durable!Init, Logged
  <1>2. /\ TypeOK /\ SaveInv /\ ControlOK /\ OneHistory /\ [Next]_vars
        => [Durable!Next]_(Durable!vars)
    BY StepShows
  <1> QED BY PunctualIsSpec, TypeCorrect, SavePromise, ControlAlways, HistoryAlways, <1>1, <1>2, PTL
          DEF Spec, PunctualSpec, RefinesDurableWorld, Durable!Spec

\* With one process whose keepers' saves are always answered: a birth or a death that a
\* snapshot has never leaves it but by a reset to a newer generation: no late, repeated or
\* forgotten write brings back an older world.
THEOREM HistoryGrows ==
  ASSUME OneProcess, "admin" \notin LostAcks
  PROVE  PunctualSpec => DurableHistoryGrows
  <1> DEFINE Grows == \/ snap = NoState \/ snap'.epoch > snap.epoch
                      \/ (snap'.epoch = snap.epoch /\ snap.hist \subseteq snap'.hist)
  <1>1. TypeOK /\ [Durable!Next]_(Durable!vars) => [Grows]_snap
    <2> SUFFICES ASSUME TypeOK, [Durable!Next]_(Durable!vars) PROVE [Grows]_snap
      OBVIOUS
    <2>1. CASE UNCHANGED Durable!vars
      BY <2>1 DEF Durable!vars
    <2>2. CASE Durable!Begin
      BY <2>2 DEF Durable!Begin
    <2>3. ASSUME NEW E, Durable!Save(E) PROVE Grows
      <3>1. snap \in Image /\ snap' = [snap EXCEPT !.hist = @ \cup E]
        BY <2>3 DEF TypeOK, DbOK, Durable!Save
      <3> QED BY <3>1 DEF Image
    <2>4. ASSUME NEW E, Durable!Show(E) PROVE [Grows]_snap
      BY <2>4 DEF Durable!Show
    <2> QED BY <2>1, <2>2, <2>3, <2>4 DEF Durable!Next
  <1>2. /\ TypeOK /\ SaveInv /\ ControlOK /\ OneHistory /\ [Next]_vars
        => [Durable!Next]_(Durable!vars)
    BY StepShows
  <1>3. [Grows]_snap <=> [ snap = NoState \/ snap'.epoch > snap.epoch
                           \/ (snap'.epoch = snap.epoch /\ snap.hist \subseteq snap'.hist) ]_snap
    OBVIOUS
  <1> HIDE DEF Grows
  <1> QED BY PunctualIsSpec, TypeCorrect, SavePromise, ControlAlways, HistoryAlways, <1>1, <1>2, <1>3, PTL
          DEF Spec, PunctualSpec, DurableHistoryGrows

===============================================================================
