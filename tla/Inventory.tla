-------------------------------- MODULE Inventory --------------------------------
(***************************************************************************)
(* Who owns a monster: the REST handlers of WorldService and               *)
(* AccountService over the rows of PostgreSQL, and the keeper actions and   *)
(* commands by which they reach the live world.                             *)
(*                                                                         *)
(* A call runs from one await to the next.  A transaction locks the row of *)
(* its device first, where the code does; its writes become visible when   *)
(* it commits, so they are one action, as is a single statement.  The      *)
(* runner is reduced to whether it runs: WorldRunner models its saves.     *)
(***************************************************************************)
EXTENDS Naturals, Sequences, FiniteSets, CommandQueue

CONSTANTS
  Guest,      \* devices, GuestPlayer rows
  Account,    \* signed-in users
  Monster,    \* ids of Monster rows
  Dna,        \* designs
  Call,       \* slots for concurrent HTTP requests
  None,
  MAX_OWNED_MONSTERS,
  Services,   \* the handlers that are called
  MaxCalls,   \* bound on accepted requests
  MaxFaults   \* bound on failed transactions, on deaths and on pauses

AllServices == {"create", "copy", "update", "select", "respawn", "join", "claim", "release",
                "adminCreate", "adminUpdate", "adminSpawn", "adminKill", "reset", "daily"}

ASSUME InventoryConstants ==
  /\ IsFiniteSet(Monster)
  /\ None \notin Guest \cup Account \cup Monster \cup Dna \cup Call
  /\ {MAX_OWNED_MONSTERS, MaxCalls, MaxFaults} \subseteq Nat
  /\ Services \subseteq AllServices

VARIABLES
  \* PostgreSQL
  device,     \* GuestPlayer.userId
  row,        \* Monster rows
  selected,   \* WorldMember.selectedMonsterId
  locked,     \* the call whose transaction holds the row of a device
  \* WorldRunnerService, in the process that owns the world
  mode, live, commands,
  \* requests being served; monsters that got their present life or owner on a
  \* path without the quota; the bounds used
  call, unchecked, spent

tables == <<device, row, selected>>
world  == <<mode, live, commands>>
vars   == <<tables, locked, world, call, unchecked, spent>>

Row     == [ownerId : Guest \cup {None}, accountOwnerId : Account \cup {None},
            alive : BOOLEAN, dna : Dna]
Body    == [alive : BOOLEAN, dna : Dna]
Command == [type : {"spawn", "updateDna"}, entityId : Monster, dna : Dna]

\* A request: the device and the account its guards found, if it still needs them,
\* its monster, the design it carries, and what it read: the ids that are spared,
\* whether the row of a monster to kill was alive.  A respawn that counted the quota
\* ends at "move", else at "bind".  The timer's daily reset takes a slot like a request.
Request == [service : AllServices, guest : Guest \cup {None}, account : Account \cup {None},
            id : Monster \cup {None}, dna : Dna \cup {None}, spared : SUBSET Monster,
            wasAlive : BOOLEAN,
            pc : {"lock", "insert", "write", "sync", "rebind", "choose", "mutate", "mutating",
                  "lost", "bind", "move", "enter", "transfer", "memberships", "unbind", "store",
                  "keep", "announce", "resetting", "replace"}]

ASSUME NoneIsNoRecord == None \notin Row \cup Body \cup Request

TypeOK ==
  /\ device \in [Guest -> Account \cup {None}]
  /\ row \in [Monster -> Row \cup {None}]
  /\ selected \in [Guest -> Monster \cup {None}]
  /\ locked \in [Guest -> Call \cup {None}]
  /\ mode \in {"running", "starting", "down"}
  /\ live \in [Monster -> Body \cup {None}]
  /\ commands \in Seq(Command)
  /\ call \in [Call -> Request \cup {None}]
  /\ unchecked \subseteq Monster
  /\ spent \in [calls : 0..MaxCalls, faults : 0..MaxFaults]

-----------------------------------------------------------------------------
Exists(m)   == row[m] # None
Owned(g)    == {m \in Monster : Exists(m) /\ row[m].ownerId = g}
Living(g)   == {m \in Owned(g) : row[m].alive}
Saved(m)    == Exists(m) /\ (row[m].ownerId # None \/ row[m].accountOwnerId # None)

\* Mutant: anonymous requests and unclaimed monsters have the same null account.
MayUse_Anonymous(g, a, m) == Exists(m) /\ (row[m].ownerId = g \/ row[m].accountOwnerId = a)

\* The device of the request owns the monster, or its account does.
MayUse(g, a, m) ==
  Exists(m) /\ (row[m].ownerId = g \/ (a # None /\ row[m].accountOwnerId = a))

\* A world after a few creates, claims and selections: a monster of an attached
\* device may be without an account, as it is when its request carried no session;
\* those of the account came from its other devices, without the quota.
Init ==
  /\ device \in [Guest -> Account \cup {None}]
  /\ row \in [Monster -> {None} \cup [ownerId : Guest, accountOwnerId : Account \cup {None},
                                      alive : {TRUE}, dna : Dna]]
  /\ \A m \in Monster : Exists(m) => row[m].accountOwnerId \in {None, device[row[m].ownerId]}
  /\ unchecked = {m \in Monster : Exists(m) /\ row[m].accountOwnerId # None}
  /\ \A g \in Guest : Cardinality(Owned(g) \ unchecked) <= MAX_OWNED_MONSTERS
  /\ selected \in [Guest -> Monster \cup {None}]
  /\ \A g \in Guest : IF Owned(g) = {} THEN selected[g] = None ELSE selected[g] \in Owned(g)
  /\ locked = [g \in Guest |-> None]
  /\ mode = "running"
  /\ live \in [Monster -> Body \cup {None}]
  /\ \A m \in Monster : live[m] # None =>
       Exists(m) /\ selected[row[m].ownerId] = m /\ live[m] = [alive |-> TRUE, dna |-> row[m].dna]
  /\ commands = <<>>
  /\ call = [c \in Call |-> None]
  /\ spent = [calls |-> 0, faults |-> 0]

-----------------------------------------------------------------------------
(* Requests.                                                                *)

\* The guards of the controller authenticate the device and read the session,
\* whose account may be any; the handler then runs to its first await.
Begin(c, service, g, a, m, d, pc) ==
  /\ service \in Services /\ call[c] = None
  /\ spent.calls < MaxCalls /\ spent' = [spent EXCEPT !.calls = @ + 1]
  /\ call' = [call EXCEPT ![c] =
       [service |-> service, guest |-> g, account |-> a, id |-> m, dna |-> d,
        spared |-> {}, wasAlive |-> service = "adminKill" /\ row[m].alive, pc |-> pc]]

At(c, pc)   == call[c] # None /\ call[c].pc = pc
Goto(c, pc) == call' = [call EXCEPT ![c].pc = pc]
Answer(c)   == call' = [call EXCEPT ![c] = None]

Lock(c, g)   == locked[g] = None /\ locked' = [locked EXCEPT ![g] = c]
Unlock(c)    == locked' = [g \in Guest |-> IF locked[g] = c THEN None ELSE locked[g]]

\* A statement or a transaction fails and rolls back; a transaction of a
\* respawn can time out while its keeper action goes on.
Fail(c) ==
  /\ call[c] # None /\ call[c].pc \notin {"lost", "sync", "announce", "resetting", "replace"}
  /\ call[c].pc = "mutating" => call[c].service = "respawn"
  /\ spent.faults < MaxFaults /\ spent' = [spent EXCEPT !.faults = @ + 1]
  /\ IF At(c, "mutating") THEN Goto(c, "lost") ELSE Answer(c)
  /\ Unlock(c)
  /\ UNCHANGED <<tables, world, unchecked>>

-----------------------------------------------------------------------------
(* createMonster, copyMonster: createOwnedMonster.                          *)

Create(c, g, a, d) ==
  /\ Begin(c, "create", g, a, None, d, "lock")
  /\ UNCHANGED <<tables, locked, world, unchecked>>

Copy(c, g, a, m) ==
  /\ MayUse(g, a, m)
  /\ Begin(c, "copy", g, a, None, row[m].dna, "lock")
  /\ UNCHANGED <<tables, locked, world, unchecked>>

\* Mutant: the count is read without the lock of the device.
CreateOwned_Count_NoLock(c) ==
  /\ At(c, "lock")
  /\ IF Cardinality(Living(call[c].guest)) < MAX_OWNED_MONSTERS
     THEN Goto(c, "insert") ELSE Answer(c)
  /\ UNCHANGED <<tables, locked, world, unchecked, spent>>

\* The transaction locks the device, then counts.
CreateOwned_Count(c) ==
  /\ At(c, "lock")
  /\ LET g == call[c].guest IN
     IF Cardinality(Living(g)) < MAX_OWNED_MONSTERS
     THEN Lock(c, g) /\ Goto(c, "insert")
     ELSE locked[g] = None /\ Answer(c) /\ UNCHANGED locked
  /\ UNCHANGED <<tables, world, unchecked, spent>>

\* A new id is one that nothing refers to.
Fresh(m) ==
  /\ ~Exists(m) /\ live[m] = None
  /\ \A c \in Call : call[c] # None => call[c].id # m
  /\ \A i \in DOMAIN commands : commands[i].entityId # m

CreateOwned_Insert(c) ==
  /\ At(c, "insert")
  /\ \E new \in Monster :
       /\ Fresh(new)
       /\ row' = [row EXCEPT ![new] =
            [ownerId |-> call[c].guest, accountOwnerId |-> call[c].account,
             alive |-> TRUE, dna |-> call[c].dna]]
       /\ selected' = [selected EXCEPT ![call[c].guest] = new]
       /\ unchecked' = unchecked \ {new}
  /\ Unlock(c) /\ Answer(c)
  /\ UNCHANGED <<device, world, spent>>

-----------------------------------------------------------------------------
(* updateMonster, adminUpdateMonster, and the spawn of a join: what reaches *)
(* the live world through the queue.                                        *)

\* WorldRunnerService.enqueue; the services ignore its answer.
Enqueue(type, m, d) ==
  commands' = IF mode = "running"
              THEN Append(commands, [type |-> type, entityId |-> m, dna |-> d])
              ELSE commands

Update(c, g, m, d) ==
  /\ Exists(m) /\ row[m].ownerId = g /\ row[m].alive
  /\ Begin(c, "update", g, None, m, d, "write")
  /\ UNCHANGED <<tables, locked, world, unchecked>>

AdminUpdate(c, m, d) ==
  /\ Exists(m)
  /\ Begin(c, "adminUpdate", None, None, m, d, "write")
  /\ UNCHANGED <<tables, locked, world, unchecked>>

Update_Write(c) ==
  /\ At(c, "write")
  /\ IF Exists(call[c].id)
     THEN row' = [row EXCEPT ![call[c].id].dna = call[c].dna] /\ Goto(c, "sync")
     ELSE Answer(c) /\ UNCHANGED row
  /\ UNCHANGED <<device, selected, locked, world, unchecked, spent>>

Update_Sync(c) ==
  /\ At(c, "sync")
  /\ IF live[call[c].id] # None
     THEN Enqueue("updateDna", call[c].id, call[c].dna) ELSE UNCHANGED commands
  /\ Answer(c)
  /\ UNCHANGED <<tables, locked, mode, live, unchecked, spent>>

\* onJoin: resolveControllableMonster reads the row, buildSpawnCommand uses it.
Join(c, g, m) ==
  /\ Exists(m) /\ row[m].ownerId = g /\ row[m].alive
  /\ Begin(c, "join", g, None, m, row[m].dna, "enter")
  /\ UNCHANGED <<tables, locked, world, unchecked>>

\* Mutant: the spawn command carries no DNA.
Join_Enter_NoDna(c) ==
  /\ At(c, "enter")
  /\ IF live[call[c].id] = None
     THEN Enqueue("spawn", call[c].id, None) ELSE UNCHANGED commands
  /\ Answer(c)
  /\ UNCHANGED <<tables, locked, mode, live, unchecked, spent>>

Join_Enter(c) ==
  /\ At(c, "enter")
  /\ IF live[call[c].id] = None
     THEN Enqueue("spawn", call[c].id, call[c].dna) ELSE UNCHANGED commands
  /\ Answer(c)
  /\ UNCHANGED <<tables, locked, mode, live, unchecked, spent>>

-----------------------------------------------------------------------------
(* selectMonster: separate statements, without the lock of the device.      *)

Select(c, g, a, m) ==
  /\ MayUse(g, a, m) /\ row[m].alive
  /\ Begin(c, "select", g, None, m, None, IF row[m].ownerId = g THEN "choose" ELSE "rebind")
  /\ UNCHANGED <<tables, locked, world, unchecked>>

Select_Rebind(c) ==
  /\ At(c, "rebind")
  /\ row' = [row EXCEPT ![call[c].id].ownerId = call[c].guest]
  /\ unchecked' = unchecked \cup {call[c].id}
  /\ Goto(c, "choose")
  /\ UNCHANGED <<device, selected, locked, world, spent>>

Select_Choose(c) ==
  /\ At(c, "choose")
  /\ selected' = [selected EXCEPT ![call[c].guest] = call[c].id]
  /\ Answer(c)
  /\ UNCHANGED <<device, row, locked, world, unchecked, spent>>

-----------------------------------------------------------------------------
(* respawnMonster, adminSpawnMonster, adminKillMonster: keeper actions.     *)

\* Mutant: a respawn of a monster of the device itself does not count.
Respawn_OnlyForeign(c, g, a, m) ==
  /\ MayUse(g, a, m)
  /\ LET needsRespawn == IF live[m] # None THEN ~live[m].alive ELSE ~row[m].alive
         counts       == row[m].ownerId # g
     IN /\ counts => Cardinality(Living(g) \ {m}) < MAX_OWNED_MONSTERS
        /\ Begin(c, "respawn", g, None, m, row[m].dna,
                 IF needsRespawn THEN "mutate" ELSE IF counts THEN "move" ELSE "bind")
  /\ Lock(c, g)
  /\ UNCHANGED <<tables, world, unchecked>>

\* The transaction: device locked, row and live world read, quota counted.
Respawn(c, g, a, m) ==
  /\ MayUse(g, a, m)
  /\ LET needsRespawn == IF live[m] # None THEN ~live[m].alive ELSE ~row[m].alive
         counts       == needsRespawn \/ row[m].ownerId # g
     IN /\ counts => Cardinality(Living(g) \ {m}) < MAX_OWNED_MONSTERS
        /\ Begin(c, "respawn", g, None, m, row[m].dna,
                 IF needsRespawn THEN "mutate" ELSE IF counts THEN "move" ELSE "bind")
  /\ Lock(c, g)
  /\ UNCHANGED <<tables, world, unchecked>>

AdminSpawn(c, m) ==
  /\ Exists(m)
  /\ Begin(c, "adminSpawn", None, None, m, row[m].dna, "mutate")
  /\ UNCHANGED <<tables, locked, world, unchecked>>

AdminKill(c, m) ==
  /\ Exists(m)
  /\ Begin(c, "adminKill", None, None, m, None, "mutate")
  /\ UNCHANGED <<tables, locked, world, unchecked>>

\* mutateMonster refuses unless the world runs; otherwise it pauses the world.
Mutate(c) ==
  /\ At(c, "mutate")
  /\ IF mode = "running"
     THEN mode' = "starting" /\ Goto(c, "mutating") /\ UNCHANGED locked
     ELSE Answer(c) /\ Unlock(c) /\ UNCHANGED mode
  /\ UNCHANGED <<tables, live, commands, unchecked, spent>>

\* What follows the keeper action: a respawn that did not time out binds.
Resume(c) ==
  /\ mode' = "running"
  /\ IF call[c].service = "respawn" /\ call[c].pc = "mutating" THEN Goto(c, "move") ELSE Answer(c)

\* Commands for the monster are dropped when the action had events.
Spawned(c) ==
  /\ At(c, "mutating") \/ At(c, "lost")
  /\ call[c].service \in {"respawn", "adminSpawn"}
  /\ LET m == call[c].id IN
     IF live[m] # None /\ live[m].alive
     THEN UNCHANGED <<row, live, commands, unchecked>>
     ELSE /\ live' = [live EXCEPT ![m] = [alive |-> TRUE, dna |-> call[c].dna]]
          /\ row' = IF Exists(m) THEN [row EXCEPT ![m].alive = TRUE] ELSE row
          /\ commands' = Without(commands, {x \in Command : x.entityId = m})
          /\ unchecked' = IF At(c, "mutating") /\ Exists(m) /\ row[m].ownerId = call[c].guest
                          THEN unchecked \ {m} ELSE unchecked \cup {m}
  /\ Resume(c)
  /\ UNCHANGED <<device, selected, locked, spent>>

Killed(c) ==
  /\ At(c, "mutating") /\ call[c].service = "adminKill"
  /\ LET m == call[c].id
         dies == IF live[m] # None THEN live[m].alive ELSE call[c].wasAlive
     IN IF dies
        THEN /\ live' = IF live[m] # None THEN [live EXCEPT ![m].alive = FALSE] ELSE live
             /\ row' = IF Exists(m) THEN [row EXCEPT ![m].alive = FALSE] ELSE row
             /\ commands' = Without(commands, {x \in Command : x.entityId = m})
        ELSE UNCHANGED <<row, live, commands>>
  /\ Resume(c)
  /\ UNCHANGED <<device, selected, locked, unchecked, spent>>

\* ... or a reset, after which the runner reloads what is durable.
MutationFails(c) ==
  /\ \E pc \in {"mutating", "lost", "resetting", "replace"} : At(c, pc)
  /\ spent.faults < MaxFaults /\ spent' = [spent EXCEPT !.faults = @ + 1]
  /\ mode' = "running"
  /\ Answer(c) /\ Unlock(c)
  /\ UNCHANGED <<tables, live, commands, unchecked>>

Respawn_Bind(c) ==
  /\ At(c, "bind") \/ At(c, "move")
  /\ LET m == call[c].id IN
     /\ row' = [row EXCEPT ![m].ownerId = call[c].guest]
     /\ selected' = [selected EXCEPT ![call[c].guest] = m]
     /\ unchecked' = IF At(c, "move") THEN unchecked \ {m}
                     ELSE IF row[m].ownerId # call[c].guest THEN unchecked \cup {m}
                     ELSE unchecked
  /\ Unlock(c) /\ Answer(c)
  /\ UNCHANGED <<device, world, spent>>

-----------------------------------------------------------------------------
(* adminCreateMonster; adminResetWorld and the daily reset.                 *)

\* With spawn the world must run; without it only the row is made.
AdminCreate(c, d, spawn) ==
  /\ spawn => mode = "running"
  /\ Begin(c, "adminCreate", None, None, None, d, IF spawn THEN "store" ELSE "keep")
  /\ UNCHANGED <<tables, locked, world, unchecked>>

AdminCreate_Store(c) ==
  /\ At(c, "store") \/ At(c, "keep")
  /\ \E new \in Monster :
       /\ Fresh(new)
       /\ row' = [row EXCEPT ![new] = [ownerId |-> None, accountOwnerId |-> None,
                                       alive |-> TRUE, dna |-> call[c].dna]]
       /\ IF At(c, "store")
          THEN call' = [call EXCEPT ![c].id = new, ![c].pc = "announce"]
          ELSE Answer(c)
       /\ unchecked' = unchecked \ {new}
  /\ UNCHANGED <<device, selected, locked, world, spent>>

\* spawnDurableMonster answers 503 when the world stopped meanwhile.
AdminCreate_Announce(c) ==
  /\ At(c, "announce")
  /\ IF live[call[c].id] = None
     THEN Enqueue("spawn", call[c].id, call[c].dna) ELSE UNCHANGED commands
  /\ Answer(c)
  /\ UNCHANGED <<tables, locked, mode, live, unchecked, spent>>

Reset(c, service) ==
  /\ mode = "running" /\ mode' = "starting"
  /\ commands' = <<>>
  /\ Begin(c, service, None, None, None, None, "resetting")
  /\ UNCHANGED <<tables, locked, live, unchecked>>

Reset_ReadSaved(c) ==
  /\ At(c, "resetting")
  /\ call' = [call EXCEPT ![c].spared = {m \in Monster : Saved(m)}, ![c].pc = "replace"]
  /\ UNCHANGED <<tables, locked, world, unchecked, spent>>

\* Selections of unsaved monsters are cleared and the living retired; the keeper's reset
\* also deletes the rows that neither a device nor an account owns (preserveHistory).
Reset_Commit(c) ==
  /\ At(c, "replace")
  /\ selected' = [g \in Guest |-> IF selected[g] \in call[c].spared THEN selected[g] ELSE None]
  /\ row' = [m \in Monster |->
       IF Saved(m) \/ (Exists(m) /\ call[c].service = "daily")
       THEN [row[m] EXCEPT !.alive = FALSE] ELSE None]
  /\ live' = [m \in Monster |-> None]
  /\ mode' = "running"
  /\ Answer(c)
  /\ UNCHANGED <<device, locked, commands, unchecked, spent>>

-----------------------------------------------------------------------------
(* AccountService.                                                          *)

\* Mutant: the device is read before the transaction.
Claim_NoLock(c, g, a) ==
  /\ a # None /\ device[g] \in {None, a}
  /\ Begin(c, "claim", g, a, None, None, "transfer")
  /\ UNCHANGED <<tables, locked, world, unchecked>>

\* The conditional update locks the device until the commit.
Claim(c, g, a) ==
  /\ a # None /\ device[g] \in {None, a}
  /\ Lock(c, g)
  /\ Begin(c, "claim", g, a, None, None, "transfer")
  /\ UNCHANGED <<tables, world, unchecked>>

Claim_Transfer(c) ==
  /\ At(c, "transfer")
  /\ LET g == call[c].guest IN
     /\ device' = [device EXCEPT ![g] = call[c].account]
     /\ row' = [m \in Monster |->
          IF m \in Owned(g) /\ row[m].accountOwnerId = None
          THEN [row[m] EXCEPT !.accountOwnerId = call[c].account] ELSE row[m]]
  /\ Unlock(c) /\ Answer(c)
  /\ UNCHANGED <<selected, world, unchecked, spent>>

\* Mutant: a stale logout of another account releases the device.
Release_Anyone(c, g, a) ==
  /\ a # None /\ device[g] # None
  /\ Lock(c, g)
  /\ Begin(c, "release", g, a, None, None, "memberships")
  /\ UNCHANGED <<tables, world, unchecked>>

\* Nothing happens when the device is not attached to the account.
Release(c, g, a) ==
  /\ a # None /\ device[g] = a
  /\ Lock(c, g)
  /\ Begin(c, "release", g, a, None, None, "memberships")
  /\ UNCHANGED <<tables, world, unchecked>>

Release_Memberships(c) ==
  /\ At(c, "memberships")
  /\ call' = [call EXCEPT ![c].spared = {selected[call[c].guest]} \ {None}, ![c].pc = "unbind"]
  /\ UNCHANGED <<tables, locked, world, unchecked, spent>>

\* Mutant: monsters of any account, or of none, are released.
Release_Unbind_All(c) ==
  /\ At(c, "unbind")
  /\ LET g == call[c].guest IN
     /\ device' = [device EXCEPT ![g] = None]
     /\ row' = [m \in Monster |->
          IF m \in Owned(g) \ call[c].spared THEN [row[m] EXCEPT !.ownerId = None] ELSE row[m]]
  /\ Unlock(c) /\ Answer(c)
  /\ UNCHANGED <<selected, world, unchecked, spent>>

Release_Unbind(c) ==
  /\ At(c, "unbind")
  /\ LET g == call[c].guest IN
     /\ device' = [device EXCEPT ![g] = None]
     /\ row' = [m \in Monster |->
          IF m \in Owned(g) \ call[c].spared /\ row[m].accountOwnerId = call[c].account
          THEN [row[m] EXCEPT !.ownerId = None] ELSE row[m]]
  /\ Unlock(c) /\ Answer(c)
  /\ UNCHANGED <<selected, world, unchecked, spent>>

-----------------------------------------------------------------------------
(* The world meanwhile: a tick that applies the queue, a death, the removal *)
(* of a body, a pause in which commands are refused, and its end.           *)

\* applyCommand: a spawn of an entity that is there, dead or alive, does nothing.
Applied(w, x) ==
  IF x.type = "spawn"
  THEN IF w[x.entityId] # None THEN w
       ELSE [w EXCEPT ![x.entityId] = [alive |-> TRUE, dna |-> x.dna]]
  ELSE IF w[x.entityId] = None THEN w ELSE [w EXCEPT ![x.entityId].dna = x.dna]

\* The spawned event of a wild or owned monster revives its row.
Tick ==
  /\ mode = "running" /\ commands # <<>>
  /\ LET after[i \in 0..Len(commands)] ==
           IF i = 0 THEN live ELSE Applied(after[i - 1], commands[i])
         spawned == {m \in Monster : live[m] = None /\ after[Len(commands)][m] # None}
         revived == {m \in spawned : Exists(m) /\ ~row[m].alive}
     IN /\ live' = after[Len(commands)]
        /\ row' = [m \in Monster |-> IF m \in revived THEN [row[m] EXCEPT !.alive = TRUE] ELSE row[m]]
        /\ unchecked' = unchecked \cup revived
  /\ commands' = <<>>
  /\ UNCHANGED <<device, selected, locked, mode, call, spent>>

Die(m) ==
  /\ mode = "running" /\ live[m] # None /\ live[m].alive
  /\ spent.faults < MaxFaults /\ spent' = [spent EXCEPT !.faults = @ + 1]
  /\ live' = [live EXCEPT ![m].alive = FALSE]
  /\ row' = IF Exists(m) THEN [row EXCEPT ![m].alive = FALSE] ELSE row
  /\ UNCHANGED <<device, selected, locked, mode, commands, call, unchecked>>

BodyRemoved(m) ==
  /\ mode = "running" /\ live[m] # None /\ ~live[m].alive
  /\ live' = [live EXCEPT ![m] = None]
  /\ UNCHANGED <<tables, locked, mode, commands, call, unchecked, spent>>

Pause ==
  /\ mode = "running" /\ mode' = "down"
  /\ spent.faults < MaxFaults /\ spent' = [spent EXCEPT !.faults = @ + 1]
  /\ UNCHANGED <<tables, locked, live, commands, call, unchecked>>

Unpause ==
  /\ mode = "down" /\ mode' = "running"
  /\ UNCHANGED <<tables, locked, live, commands, call, unchecked, spent>>

Requests(c) ==
  \/ \E g \in Guest, a \in Account \cup {None} :
       \/ \E d \in Dna : Create(c, g, a, d)
       \/ \E m \in Monster : Copy(c, g, a, m) \/ Select(c, g, a, m) \/ Respawn(c, g, a, m)
       \/ Claim(c, g, a) \/ Release(c, g, a)
  \/ \E g \in Guest, m \in Monster : Join(c, g, m) \/ \E d \in Dna : Update(c, g, m, d)
  \/ \E m \in Monster : AdminSpawn(c, m) \/ AdminKill(c, m) \/ \E d \in Dna : AdminUpdate(c, m, d)
  \/ \E d \in Dna, spawn \in BOOLEAN : AdminCreate(c, d, spawn)
  \/ \E service \in {"reset", "daily"} : Reset(c, service)

Steps(c) ==
  \/ CreateOwned_Count(c) \/ CreateOwned_Insert(c)
  \/ Update_Write(c) \/ Update_Sync(c) \/ Join_Enter(c)
  \/ Select_Rebind(c) \/ Select_Choose(c)
  \/ Mutate(c) \/ Spawned(c) \/ Killed(c) \/ MutationFails(c) \/ Respawn_Bind(c)
  \/ AdminCreate_Store(c) \/ AdminCreate_Announce(c)
  \/ Reset_ReadSaved(c) \/ Reset_Commit(c)
  \/ Claim_Transfer(c) \/ Release_Memberships(c) \/ Release_Unbind(c)
  \/ Fail(c)

Next ==
  \/ \E c \in Call : Requests(c) \/ Steps(c)
  \/ \E m \in Monster : Die(m) \/ BodyRemoved(m)
  \/ Tick \/ Pause \/ Unpause

Spec == Init /\ [][Next]_vars

-----------------------------------------------------------------------------
(* Properties.                                                              *)

\* However creates, copies and respawns of one device overlap, those of its living
\* monsters that came to it on a path with the quota stay within the quota.
QuotaKept ==
  \A g \in Guest : Cardinality(Living(g) \ unchecked) <= MAX_OWNED_MONSTERS

\* The rejection of createOwnedMonster and respawnMonster, "A guest may keep at
\* most 6 living monsters": no step takes a device over the quota.
QuotaHolds ==
  [][\A g \in Guest : Cardinality(Living(g)') > MAX_OWNED_MONSTERS =>
       Cardinality(Living(g)') <= Cardinality(Living(g))]_vars

\* The monster a device selected is always one it can get back: it owns it, or an
\* account owns it, whatever resets, releases and other devices do meanwhile.
SelectedIsReachable ==
  \A g \in Guest : selected[g] # None =>
    /\ Exists(selected[g])
    /\ row[selected[g]].ownerId = g \/ row[selected[g]].accountOwnerId # None

\* No step loses a monster of a device or an account: a saved monster stays saved
\* (a release leaves it to the account, a reset spares it).
SavedForever == [][\A m \in Monster : Saved(m) => Saved(m)']_vars

\* A monster without an account never leaves its device.
LocalStays ==
  [][\A m \in Monster :
       Saved(m) /\ row[m].accountOwnerId = None => row'[m].ownerId = row[m].ownerId]_vars

\* Of two accounts that claim a device one wins, and only a logout of the winner
\* detaches it.
DeviceHeld ==
  [][\A g \in Guest : device[g] # None /\ device'[g] # device[g] =>
       /\ device'[g] = None
       /\ \E c \in Call : /\ At(c, "unbind") /\ call[c].guest = g
                          /\ call[c].account = device[g]]_vars

\* History moves with its device: a row gains an account, or loses its device, only
\* in the step of that account's claim or release of that device.
HistoryMovesWithDevice ==
  [][\A m \in Monster : Exists(m) /\ row'[m] # None /\ row[m].ownerId # None =>
       /\ row'[m].accountOwnerId # row[m].accountOwnerId =>
            /\ row[m].accountOwnerId = None
            /\ row'[m].accountOwnerId = device'[row[m].ownerId]
       /\ row'[m].ownerId = None =>
            /\ device[row[m].ownerId] = row[m].accountOwnerId
            /\ device'[row[m].ownerId] = None]_vars

\* The comment of updateMonster, "Keep a live entity in sync with its durable
\* row": when nothing that carries the monster's design is under way, the live
\* monster has the design of its row.
DnaInSync ==
  \A m \in Monster :
    /\ mode = "running" /\ live[m] # None /\ Exists(m)
    /\ \A c \in Call : call[c] # None => call[c].id # m
    /\ \A i \in DOMAIN commands : commands[i].entityId # m
    => live[m].dna = row[m].dna
===============================================================================
