------------------------------ MODULE WorldGateway ------------------------------
(***************************************************************************)
(* Who controls a monster: the sessions and the controller registry of     *)
(* WorldGateway, the command queue of WorldRunnerService, and what the     *)
(* commands do to the entities of the simulation, for the sockets of one   *)
(* guest in the process that owns the world.                               *)
(*                                                                         *)
(* The runner is reduced to its phases: WorldRunner models its saves.  A   *)
(* handler runs from one await to the next.                                *)
(***************************************************************************)
EXTENDS Naturals, Sequences, CommandQueue

CONSTANTS
  Socket,        \* connections, each with an id of its own
  Monster,       \* the guest's monsters
  None,          \* no monster, no socket
  QueueLimit,    \* 1024: when commands other than a detach are refused
  Upheavals,     \* what may happen to the world: a keeper action, a reset, its
                 \* failure (a reload), the loss of the lock
  MaxRequests,   \* bound on joins and leaves
  MaxFaults,     \* bound on failed saves
  MaxUpheavals   \* bound on keeper actions, resets and lost locks

ASSUME GatewayConstants ==
  /\ None \notin Socket /\ None \notin Monster
  /\ Upheavals \subseteq {"keeper", "reset", "reload", "lock"}
  /\ {QueueLimit, MaxRequests, MaxFaults, MaxUpheavals} \subseteq Nat

VARIABLES
  \* WorldGateway
  session,      \* sessions, with the lifetime of their sockets
  controllers,  \* entityId -> socket id of the single active controller
  joins,        \* the onJoin calls that await something
  \* WorldRunnerService
  phase,        \* why the loop is paused, or "running"
  commands,     \* queued for the next tick
  generation,   \* counts the replacements of this.state
  entity,       \* this.state.entities, of the guest's monsters
  \* PostgreSQL: Monster.alive, and the bodies in the recovery snapshot
  row, saved,
  \* what each client was last told that it controls; the request that each
  \* session reflects; the bounds used
  told, granted, spent

gateway == <<session, controllers, joins, told, granted>>
runner  == <<phase, commands, generation, entity, row, saved>>
vars    == <<gateway, runner, spent>>

SocketOrNone  == Socket \cup {None}
MonsterOrNone == Monster \cup {None}

Session == [conn : {"new", "open", "closed"}, joinVersion : Nat,
            entityId : MonsterOrNone, isController : BOOLEAN]
Entity  == [body : {"absent", "alive", "dead"}, controllerId : SocketOrNone,
            expiring : BOOLEAN, input : SocketOrNone]
Command == [type : {"spawn", "attach", "detach", "input"}, entityId : Monster,
            connectionId : Socket]
JoinCall == [socket : Socket, version : Nat, wanted : MonsterOrNone,
             found : MonsterOrNone, state : Nat,
             pc : {"wait", "lookup", "read", "held", "room"}]

NoSession == [conn |-> "new", joinVersion |-> 0, entityId |-> None,
              isController |-> FALSE]
Body(b)   == [body |-> b, controllerId |-> None, expiring |-> FALSE,
              input |-> None]

SessionsOK ==
  /\ session \in [Socket -> Session]
  /\ controllers \in [Monster -> SocketOrNone]
  /\ joins \in SUBSET JoinCall
  /\ told \in [Socket -> MonsterOrNone]
  /\ granted \in [Socket -> Nat]

RunnerOK ==
  /\ phase \in {"running", "saving", "failed", "keeper", "reset", "lost"}
  /\ commands \in Seq(Command)
  /\ generation \in Nat
  /\ entity \in [Monster -> Entity]
  /\ row \in [Monster -> BOOLEAN]
  /\ saved \in [Monster -> {"absent", "alive", "dead"}]
  /\ spent \in [requests : Nat, faults : Nat, upheavals : Nat]

TypeOK == SessionsOK /\ RunnerOK

\* The guest has created the monsters, and none is in the world yet.
Init ==
  /\ session = [s \in Socket |-> NoSession]
  /\ controllers = [m \in Monster |-> None]
  /\ joins = {}
  /\ phase = "running" /\ commands = <<>> /\ generation = 0
  /\ entity = [m \in Monster |-> Body("absent")]
  /\ row = [m \in Monster |-> TRUE]
  /\ saved = [m \in Monster |-> "absent"]
  /\ told = [s \in Socket |-> None]
  /\ granted = [s \in Socket |-> 0]
  /\ spent = [requests |-> 0, faults |-> 0, upheavals |-> 0]

-------------------------------------------------------------------------------
(* enqueue.                                                                  *)

Cmd(type, m, s) == [type |-> type, entityId |-> m, connectionId |-> s]

\* Mutant: nothing is accepted once a save failed.
Accepts_NotFailed(q, c) ==
  /\ phase \in {"running", "saving"}
  /\ Len(q) < QueueLimit \/ c.type = "detach"
\* A paused world takes commands only during a critical save, and only
\* detaches once that save has failed.
Accepts(q, c) ==
  /\ \/ phase \in {"running", "saving"}
     \/ phase = "failed" /\ c.type = "detach"
  /\ Len(q) < QueueLimit \/ c.type = "detach"

\* During a save, the latest input of an entity replaces the earlier ones.
Coalesced(q, c) ==
  IF phase = "saving" /\ c.type = "input"
  THEN Without(q, {d \in Command : d.type = "input" /\ d.entityId = c.entityId})
  ELSE q

Push(q, c) == IF Accepts(q, c) THEN Append(Coalesced(q, c), c) ELSE q

\* s gives up m: the queue and the registry afterwards.
Detached(q, s, m) == IF controllers[m] = s THEN Push(q, Cmd("detach", m, s)) ELSE q
Released(s, m) ==
  [controllers EXCEPT ![m] = IF @ = s THEN None ELSE @]

-------------------------------------------------------------------------------
(* Connections and the synchronous messages.  The joins that a settled save   *)
(* releases, and those that return from socket.join, are microtasks: they    *)
(* run before any other handler.                                             *)

\* waitForPendingCommit returns.
NoPendingCommit == phase \notin {"saving", "failed"}

Idle ==
  \A j \in joins : /\ j.pc # "room"
                   /\ NoPendingCommit => j.pc \notin {"wait", "held"}

Open(s) == session[s].conn = "open"

Request ==
  /\ spent.requests < MaxRequests
  /\ spent' = [spent EXCEPT !.requests = @ + 1]

Upheaval(u) ==
  /\ u \in Upheavals /\ spent.upheavals < MaxUpheavals
  /\ spent' = [spent EXCEPT !.upheavals = @ + 1]

HandleConnection(s) ==
  /\ Idle
  /\ session[s].conn = "new"
  /\ session' = [session EXCEPT ![s].conn = "open"]
  /\ UNCHANGED <<controllers, joins, told, granted, runner, spent>>

HandleDisconnect(s) ==
  /\ Idle /\ Open(s)
  /\ session' = [session EXCEPT ![s] = [NoSession EXCEPT !.conn = "closed"]]
  /\ LET m == session[s].entityId IN
     IF m = None
     THEN UNCHANGED <<commands, controllers>>
     ELSE /\ commands' = Detached(commands, s, m)
          /\ controllers' = Released(s, m)
  /\ told' = [told EXCEPT ![s] = None]
  /\ UNCHANGED <<joins, granted, phase, generation, entity, row, saved, spent>>

OnLeave(s) ==
  /\ Idle /\ Open(s) /\ Request
  /\ LET m == session[s].entityId
         v == session[s].joinVersion + 1
     IN IF m = None
        THEN /\ session' = [session EXCEPT ![s].joinVersion = v]
             /\ UNCHANGED <<commands, controllers, told>>
        ELSE /\ session' = [session EXCEPT ![s] =
                   [@ EXCEPT !.joinVersion = v, !.entityId = None,
                             !.isController = FALSE]]
             /\ commands' = Detached(commands, s, m)
             /\ controllers' = Released(s, m)
             /\ told' = [told EXCEPT ![s] = None]
  /\ granted' = [granted EXCEPT ![s] = session'[s].joinVersion]
  /\ UNCHANGED <<joins, phase, generation, entity, row, saved>>

\* Bound: one queued input per session.
OnInput(s) ==
  /\ Idle /\ Open(s) /\ session[s].entityId # None /\ session[s].isController
  /\ LET c == Cmd("input", session[s].entityId, s) IN
     /\ \A i \in DOMAIN commands : commands[i] # c
     /\ commands' = Push(commands, c)
  /\ UNCHANGED <<gateway, phase, generation, entity, row, saved, spent>>

-------------------------------------------------------------------------------
(* onJoin.                                                                   *)

\* The call after its first await: refused, or on to the lookup.
LookUp(j) ==
  IF phase = "running"
  THEN {[j EXCEPT !.pc = "lookup", !.state = generation]}
  ELSE {}

OnJoin(s, m) ==
  /\ Idle /\ Open(s) /\ Request
  /\ LET v == session[s].joinVersion + 1
         j == [socket |-> s, version |-> v, wanted |-> m, found |-> None,
               state |-> 0, pc |-> "wait"]
     IN /\ session' = [session EXCEPT ![s].joinVersion = v]
        /\ joins' = joins \cup IF NoPendingCommit THEN LookUp(j) ELSE {j}
  /\ UNCHANGED <<controllers, told, granted, runner>>

JoinLooksUp(j) ==
  /\ j.pc = "wait" /\ NoPendingCommit
  /\ joins' = (joins \ {j}) \cup LookUp(j)
  /\ UNCHANGED <<session, controllers, told, granted, runner, spent>>

\* resolveControllableMonster reads the row ...
JoinReads(j) ==
  /\ Idle
  /\ j.pc = "lookup"
  /\ LET living == {m \in Monster : row[m]} IN
     joins' = (joins \ {j}) \cup
       {[j EXCEPT !.pc = "read",
                  !.found = IF j.wanted \in living THEN j.wanted ELSE None]}
  /\ UNCHANGED <<session, controllers, told, granted, runner, spent>>

\* ... and its answer arrives, perhaps during a save.
JoinHeld(j) ==
  /\ Idle
  /\ j.pc = "read" /\ ~NoPendingCommit
  /\ joins' = (joins \ {j}) \cup {[j EXCEPT !.pc = "held"]}
  /\ UNCHANGED <<session, controllers, told, granted, runner, spent>>

Answered(j) ==
  /\ NoPendingCommit
  /\ \/ j.pc = "held"
     \/ j.pc = "read" /\ Idle

\* Mutant: only the connection is checked again.
Superseded_IfClosed(j) == ~Open(j.socket)
Superseded(j) ==
  ~Open(j.socket) \/ session[j.socket].joinVersion # j.version

Unavailable(j) == phase # "running" \/ generation # j.state

\* The checks after the lookup end the call.
JoinDropped(j) ==
  /\ Answered(j)
  /\ Superseded(j) \/ Unavailable(j)
  /\ joins' = joins \ {j}
  /\ UNCHANGED <<session, controllers, told, granted, runner, spent>>

\* A monster that died meanwhile is not joined.
Target(j) ==
  IF j.found # None /\ entity[j.found].body = "dead" THEN None ELSE j.found

Joins(j) ==
  /\ Answered(j)
  /\ ~Superseded(j) /\ ~Unavailable(j)
  /\ joins' = (joins \ {j}) \cup
       {[j EXCEPT !.pc = "room", !.found = Target(j)]}
  /\ granted' = [granted EXCEPT ![j.socket] = j.version]

\* Mutant: a socket that switches monsters keeps the previous one.
LeftBehind_Never(s, m) == FALSE
\* The queue and the registry once s has given up what it had.
LeftBehind(s, m) == session[s].entityId \notin {None, m}
QueueWithout(s, m) ==
  IF LeftBehind(s, m) THEN Detached(commands, s, session[s].entityId)
                      ELSE commands
RegistryWithout(s, m) ==
  IF LeftBehind(s, m) THEN Released(s, session[s].entityId) ELSE controllers

JoinObserves(j) ==
  /\ Joins(j) /\ Target(j) = None
  /\ LET s == j.socket IN
     /\ commands' = QueueWithout(s, None)
     /\ controllers' = RegistryWithout(s, None)
     /\ session' = [session EXCEPT ![s] = [@ EXCEPT !.entityId = None,
                                                    !.isController = FALSE]]
  /\ UNCHANGED <<told, phase, generation, entity, row, saved, spent>>

\* Mutant: the previous session is not demoted.
Demoted_Not(m, s) == session
\* The sessions after the newest socket s has taken m from its controller.
Demoted(m, s) ==
  IF controllers[m] \in {None, s} THEN session
  ELSE [session EXCEPT ![controllers[m]].isController = FALSE]

JoinControls(j) ==
  /\ Joins(j) /\ Target(j) # None
  /\ LET s == j.socket
         m == Target(j)
         q == QueueWithout(s, m)
         spawned == IF entity[m].body = "absent"
                    THEN Push(q, Cmd("spawn", m, s)) ELSE q
     IN
     /\ commands' = Push(spawned, Cmd("attach", m, s))
     /\ controllers' = [RegistryWithout(s, m) EXCEPT ![m] = s]
     /\ session' = [Demoted(m, s) EXCEPT ![s] =
                      [@ EXCEPT !.entityId = m, !.isController = TRUE]]
     /\ told' = [t \in Socket |->
                   IF t = controllers[m] /\ t # s THEN None ELSE told[t]]
  /\ UNCHANGED <<phase, generation, entity, row, saved, spent>>

\* socket.join has returned: the snapshot and the status are emitted.
JoinEnds(j) ==
  /\ j.pc = "room"
  /\ joins' = joins \ {j}
  /\ told' = [told EXCEPT ![j.socket] = j.found]
  /\ UNCHANGED <<session, controllers, granted, runner, spent>>

-------------------------------------------------------------------------------
(* A tick.                                                                   *)

\* Mutant: an entity is not taken from its controller.
AfterAttach_IfFree(e, s) ==
  IF e.body # "alive" \/ e.controllerId # None THEN e
  ELSE [e EXCEPT !.controllerId = s, !.expiring = FALSE, !.input = None]
\* Mutant: the last movement goes on.
AfterAttach_KeepsInput(e, s) ==
  IF e.body # "alive" THEN e
  ELSE [e EXCEPT !.controllerId = s, !.expiring = FALSE]
\* Mutant: the grace period goes on.
AfterAttach_KeepsGrace(e, s) ==
  IF e.body # "alive" THEN e
  ELSE [e EXCEPT !.controllerId = s, !.input = None]
AfterAttach(e, s) ==
  IF e.body # "alive" THEN e
  ELSE [e EXCEPT !.controllerId = s, !.expiring = FALSE, !.input = None]

AfterDetach(e, s) ==
  IF e.body = "absent" \/ e.controllerId # s THEN e
  ELSE [e EXCEPT !.expiring = TRUE, !.input = None]

\* An entity is moved by whoever sent the input; a spawn never resurrects.
After(e, c) ==
  CASE c.type = "spawn"  -> IF e.body = "absent" THEN Body("alive") ELSE e
    [] c.type = "attach" -> AfterAttach(e, c.connectionId)
    [] c.type = "detach" -> AfterDetach(e, c.connectionId)
    [] c.type = "input"  -> IF e.body = "alive"
                            THEN [e EXCEPT !.input = c.connectionId] ELSE e

\* Spawns, changes of control, deaths and births are critical events.
Emits(e, c) ==
  CASE c.type = "spawn"  -> e.body = "absent"
    [] c.type = "attach" -> e.body = "alive"
    [] c.type = "detach" -> e.controllerId = c.connectionId
    [] c.type = "input"  -> FALSE

ApplyCommand(w, c) ==
  [entity   |-> [w.entity EXCEPT ![c.entityId] = After(@, c)],
   critical |-> w.critical \/ Emits(w.entity[c.entityId], c)]
\* The entities e after each of the commands of q.
Worlds(e, q) ==
  LET after[i \in 0..Len(q)] ==
        IF i = 0 THEN [entity |-> e, critical |-> FALSE]
        ELSE ApplyCommand(after[i - 1], q[i])
  IN after
Applied == Worlds(entity, commands)[Len(commands)]

Expiring == {m \in Monster : entity[m].expiring}
\* The grace period of m can be over: it was detached in an earlier tick.
Expirable(w, m) ==
  /\ entity[m].expiring /\ w.entity[m].expiring
  /\ \A i \in DOMAIN commands :
       commands[i] # Cmd("detach", m, entity[m].controllerId)

\* The commands, then the release of the entities X, then the deaths D.  A
\* critical event pauses the world for its save.
Tick(X, D) ==
  /\ Idle
  /\ phase = "running"
  /\ LET w == Applied IN
     /\ \A m \in X : Expirable(w, m)
     /\ \A m \in D : w.entity[m].body = "alive"
     /\ entity' = [m \in Monster |->
          CASE m \in D -> Body("dead")
            [] m \in X \ D -> Body(w.entity[m].body)
            [] OTHER -> w.entity[m]]
     /\ phase' = IF w.critical \/ X \cup D # {} THEN "saving" ELSE "running"
  /\ commands' = <<>>
  /\ UNCHANGED <<gateway, generation, row, saved, spent>>

Bodies  == [m \in Monster |-> entity[m].body]
\* The rows of the entities in the snapshot b follow it.
Rows(b) == [m \in Monster |-> IF b[m] = "absent" THEN row[m] ELSE b[m] = "alive"]

\* commitCritical succeeds, perhaps after retries.
SaveCommits ==
  /\ Idle
  /\ phase \in {"saving", "failed"}
  /\ saved' = Bodies /\ row' = Rows(Bodies)
  /\ phase' = "running"
  /\ UNCHANGED <<gateway, commands, generation, entity, spent>>

\* Mutant: an undeclared phase.
SaveFails_Unnamed ==
  /\ Idle
  /\ phase = "saving" /\ spent.faults < MaxFaults
  /\ spent' = [spent EXCEPT !.faults = @ + 1]
  /\ phase' = "error"
  /\ UNCHANGED <<gateway, commands, generation, entity, row, saved>>
SaveFails ==
  /\ Idle
  /\ phase = "saving" /\ spent.faults < MaxFaults
  /\ spent' = [spent EXCEPT !.faults = @ + 1]
  /\ phase' = "failed"
  /\ UNCHANGED <<gateway, commands, generation, entity, row, saved>>

\* removeExpiredBodies.  A corpse outlasts a join's lookup.
BodyExpires(m) ==
  /\ Idle
  /\ phase = "running" /\ entity[m].body = "dead"
  /\ \A j \in joins : j.found # m
  /\ entity' = [entity EXCEPT ![m] = Body("absent")]
  /\ saved' = [saved EXCEPT ![m] = "absent"]
  /\ UNCHANGED <<gateway, phase, commands, generation, row, spent>>

-------------------------------------------------------------------------------
(* Keeper actions, resets, and a lost lock.                                  *)

KeeperPauses ==
  /\ Idle
  /\ phase = "running" /\ Upheaval("keeper")
  /\ phase' = "keeper"
  /\ UNCHANGED <<gateway, commands, generation, entity, row, saved>>

\* The commit of a keeper action replaces the state, and what was queued for m
\* is dropped.
KeeperCommits(m, body) ==
  /\ Idle
  /\ phase = "keeper"
  /\ entity' = [entity EXCEPT ![m] = Body(body)]
  /\ commands' = Without(commands, {c \in Command : c.entityId = m})
  /\ generation' = generation + 1
  /\ saved' = [Bodies EXCEPT ![m] = body]
  /\ row' = [Rows(Bodies) EXCEPT ![m] = body = "alive"]
  /\ phase' = "running"
  /\ UNCHANGED <<gateway, spent>>

\* A monster that lives only in its row can be killed as well.
KillMonster(m) ==
  \/ entity[m].body = "alive" /\ KeeperCommits(m, "dead")
  \/ entity[m].body = "absent" /\ row[m] /\ KeeperCommits(m, "absent")

SpawnMonster(m) == entity[m].body # "alive" /\ KeeperCommits(m, "alive")

\* Nothing to do, or the commit failed.
KeeperEnds ==
  /\ Idle
  /\ phase = "keeper"
  /\ phase' = "running"
  /\ UNCHANGED <<gateway, commands, generation, entity, row, saved, spent>>

ResetWorld ==
  /\ Idle
  /\ phase = "running" /\ Upheaval("reset")
  /\ phase' = "reset"
  /\ commands' = <<>>
  /\ UNCHANGED <<gateway, generation, entity, row, saved>>

\* The owned monsters are retired and the world is new.
Renew ==
  /\ entity' = [m \in Monster |-> Body("absent")]
  /\ saved' = [m \in Monster |-> "absent"]
  /\ row' = [m \in Monster |-> FALSE]

\* The publisher of worldReset releases every session.
ResetSaved ==
  /\ Idle
  /\ phase = "reset"
  /\ Renew
  /\ generation' = generation + 1
  /\ phase' = "running"
  /\ controllers' = [m \in Monster |-> None]
  /\ session' = [s \in Socket |->
       IF Open(s)
       THEN [session[s] EXCEPT !.joinVersion = @ + 1, !.entityId = None,
                               !.isController = FALSE]
       ELSE session[s]]
  /\ told' = [s \in Socket |-> None]
  /\ granted' = [s \in Socket |->
       IF Open(s) THEN session[s].joinVersion + 1 ELSE granted[s]]
  /\ UNCHANGED <<joins, commands, spent>>

\* The state is read back from the snapshot, without its controllers; the
\* catch-up may kill the monsters D.
Restore(D) ==
  /\ D \subseteq {m \in Monster : saved[m] = "alive"}
  /\ LET b == [m \in Monster |-> IF m \in D THEN "dead" ELSE saved[m]] IN
     /\ entity' = [m \in Monster |-> Body(b[m])]
     /\ saved' = b /\ row' = Rows(b)

ResetFails(D) ==
  /\ Idle
  /\ phase = "reset" /\ "reload" \in Upheavals
  /\ Restore(D)
  /\ generation' = generation + 1
  /\ phase' = "running"
  /\ UNCHANGED <<gateway, commands, spent>>

\* A save in flight lands or not; this.state becomes null.
LockLost(landed) ==
  /\ Idle
  /\ phase # "lost" /\ Upheaval("lock")
  /\ landed => phase \in {"saving", "failed"}
  /\ IF landed THEN saved' = Bodies /\ row' = Rows(Bodies)
               ELSE UNCHANGED <<saved, row>>
  /\ entity' = [m \in Monster |-> Body("absent")]
  /\ commands' = <<>>
  /\ generation' = generation + 1
  /\ phase' = "lost"
  /\ UNCHANGED gateway

\* The lock is taken again.  A reset that load() makes up for is not published.
Reloads(D) ==
  /\ Idle
  /\ phase = "lost"
  /\ Restore(D)
  /\ phase' = "running"
  /\ UNCHANGED <<gateway, commands, generation, spent>>

LoadResets ==
  /\ Idle
  /\ phase = "lost" /\ "reset" \in Upheavals
  /\ Renew
  /\ phase' = "running"
  /\ UNCHANGED <<gateway, commands, generation, spent>>

-------------------------------------------------------------------------------
Client(s) ==
  \/ HandleConnection(s) \/ HandleDisconnect(s) \/ OnLeave(s) \/ OnInput(s)
  \/ \E m \in MonsterOrNone : OnJoin(s, m)

JoinStep(j) ==
  \/ JoinLooksUp(j) \/ JoinReads(j) \/ JoinHeld(j) \/ JoinDropped(j)
  \/ JoinObserves(j) \/ JoinControls(j) \/ JoinEnds(j)

Ticks == \E X \in SUBSET Expiring, D \in SUBSET Monster : Tick(X, D)

Keeper ==
  \/ KeeperPauses \/ KeeperEnds
  \/ \E m \in Monster : KillMonster(m) \/ SpawnMonster(m)

Replace ==
  \/ ResetWorld \/ ResetSaved \/ LoadResets
  \/ \E D \in SUBSET Monster : ResetFails(D) \/ Reloads(D)
  \/ \E landed \in BOOLEAN : LockLost(landed)

Next ==
  \/ \E s \in Socket : Client(s)
  \/ \E j \in joins : JoinStep(j)
  \/ Ticks \/ SaveCommits \/ SaveFails
  \/ \E m \in Monster : BodyExpires(m)
  \/ Keeper \/ Replace

Spec == Init /\ [][Next]_vars

\* The running world ticks and grace periods end; saves are retried until one
\* succeeds; a pause ends; an await returns.  Players, keepers and faults are
\* free.
Fairness ==
  /\ WF_vars(\E j \in joins : JoinStep(j))
  /\ WF_vars(Tick({}, {})) /\ \A m \in Monster : WF_vars(Tick({m}, {}))
  /\ WF_vars(SaveCommits)
  /\ WF_vars(KeeperEnds)
  /\ WF_vars(ResetSaved \/ \E D \in SUBSET Monster : ResetFails(D))
  /\ WF_vars(\E D \in SUBSET Monster : Reloads(D))

FairSpec == Spec /\ Fairness

-------------------------------------------------------------------------------
(* Properties.                                                               *)

\* The registry and the sessions agree, through every takeover, leave,
\* disconnect, reset and failure: a monster has at most one session that
\* controls it, and that session is connected and registered.
OneController ==
  /\ \A m \in Monster : controllers[m] # None =>
       LET s == controllers[m] IN
       Open(s) /\ session[s].entityId = m /\ session[s].isController
  /\ \A s \in Socket : session[s].isController =>
       session[s].entityId # None /\ controllers[session[s].entityId] = s

\* A slow lookup never takes a session back: what it controls is the answer to
\* its latest answered request, and a leave or a reset is not undone by a join
\* that was asked for before it.
NeverBackwards == [][ \A s \in Socket : granted'[s] >= granted[s] ]_granted

\* Whoever moves a player-controlled monster is its controller: no input of an
\* earlier controller, queued or applied, outlives a takeover.
MovedByController ==
  \A m \in Monster : entity[m].controllerId # None =>
    entity[m].input \in {None, entity[m].controllerId}

\* Once the queue is applied, the gateway and the simulation never name two
\* different sockets for a monster, whatever was refused, dropped or reloaded,
\* unless the one in the simulation is on its way out.
NoRival ==
  phase = "running" /\ commands = <<>> =>
    \A m \in Monster :
      entity[m].controllerId # None /\ controllers[m] # None
        => entity[m].controllerId = controllers[m] /\ ~entity[m].expiring

\* While nobody replaces the world behind the sessions' backs, a living monster
\* is a session's exactly when the simulation says so.
RegistryMatchesWorld ==
  phase = "running" /\ commands = <<>> =>
    \A m \in Monster : entity[m].body = "alive" =>
      controllers[m] = IF entity[m].expiring THEN None
                                             ELSE entity[m].controllerId

\* A monster whose player has gone returns to the autonomous ones.
ReturnsToAI ==
  \A m \in Monster, s \in Socket :
    entity[m].controllerId = s /\ session[s].conn = "closed"
      ~> entity[m].controllerId # s

\* When no answer is under way, a client that was told it controls a monster
\* does.
ToldTheTruth ==
  Idle => \A s \in Socket : Open(s) =>
    told[s] = IF session[s].isController THEN session[s].entityId ELSE None

===============================================================================
