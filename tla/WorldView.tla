--------------------------------- MODULE WorldView ---------------------------------
(***************************************************************************)
(* What a page shows of the world: the view that the gateway keeps for each *)
(* connection and the snapshots and deltas it makes of it (api/src/world/   *)
(* world-snapshot.builder.ts, the publisher and onJoin of world.gateway.ts), *)
(* the two ordered channels of the socket, and the mirror, the rejoining and *)
(* the retry of the page (web/src/lib/net/world-connection.ts and the effects *)
(* of game-experience.tsx).                                                 *)
(*                                                                         *)
(* One page with at most one monster of its own.  Control, takeovers and    *)
(* commands are in WorldGateway; events, the population and the clocks of a  *)
(* message are left out, and so is the rate limit (a first join is never     *)
(* over it).  Eggs and depleted resources are sets that a view and a mirror  *)
(* treat alike; both are `things` here.                                     *)
(***************************************************************************)
EXTENDS Naturals, Sequences, Functions

CONSTANTS
  Entity, Me,   \* the entities, and the page's own
  Thing,        \* ids of eggs and of depleted resources
  Field, Value, \* what diffNetEntity compares, and the values
  None,
  Window,       \* bound on the messages under way, after which no tick adds one
  MaxTicks,     \* bound on the ticks that change what there is to see
  MaxLosses,    \* bound on the losses of the lock and on the resets
  MaxLinks,     \* bound on the connections of the socket
  MaxWishes     \* bound on the player's own choices of a monster

ASSUME WorldViewConstants ==
  /\ Me \in Entity
  /\ None \notin Entity \cup Value
  /\ Value # {}
  /\ {Window, MaxTicks, MaxLosses, MaxLinks, MaxWishes} \subseteq Nat

VARIABLES
  running,  \* runner.isRunning
  world,    \* the live state: [entities, things]
  near,     \* the entities within the interest radius of Me
  session,  \* the server's session of the socket, None without one
  lookup,   \* the latest join whose ownership lookup is under way
  entering, \* a join past its last check, at `await socket.join`
  joins,    \* how many joins are on their way to the server (whichever monster they name,
            \* the lookup may find it or not)
  down,     \* messages to the page
  page,     \* the state of the page
  \* a lookup of this connection has thrown; the bounds used
  failed, used

server == <<running, world, near, session, lookup, entering>>
vars   == <<server, joins, down, page, failed, used>>

Record  == [Field -> Value]
State   == [entities : [Entity -> Record \cup {None}], things : SUBSET Thing]
Empty   == [entities |-> [e \in Entity |-> None], things |-> {}]
Who     == {None, Me}

-----------------------------------------------------------------------------
(* Views and messages. *)

Shown(v) == {e \in Entity : v.entities[e] # None}

\* isWithinInterest of interestCenter: everything, for an observer.
Visible(w, n, you) ==
  {e \in Shown(w) : you = None \/ w.entities[you] = None \/ e \in n}

\* What a view holds after a message was built for an entity.
ViewOf(w, n, you) ==
  [entities |-> [e \in Entity |-> IF e \in Visible(w, n, you) THEN w.entities[e] ELSE None],
   things |-> w.things]

Seen(you) == ViewOf(world, near, you)

\* Mutant: only the first field that changed is sent.
Patch_OneField(old, new) ==
  IF old = None THEN new
  ELSE Restrict(new, LET changed == {f \in Field : old[f] # new[f]}
                     IN {CHOOSE f \in changed : TRUE})

\* diffNetEntity, of an entity that the view may not have yet.
Patch(old, new) ==
  IF old = None THEN new ELSE Restrict(new, {f \in Field : old[f] # new[f]})

Delta(old, new) ==
  [type |-> "delta",
   upserts |-> [e \in {e \in Shown(new) : new.entities[e] # old.entities[e]} |->
                  Patch(old.entities[e], new.entities[e])],
   removed |-> Shown(old) \ Shown(new),
   things |-> new.things \ old.things,
   removedThings |-> old.things \ new.things]

Snapshot(you, view) == [type |-> "snapshot", you |-> you, state |-> view]

\* Mutant: a patch replaces the record.
Patched_Replaced(old, patch) == patch

\* applyNetEntityPatch
Patched(old, patch) == IF old = None THEN patch
                       ELSE [f \in Field |-> IF f \in DOMAIN patch THEN patch[f] ELSE old[f]]

ApplyDelta(mirror, m) ==
  [entities |-> [e \in Entity |->
     IF e \in m.removed THEN None
     ELSE IF e \in DOMAIN m.upserts THEN Patched(mirror.entities[e], m.upserts[e])
     ELSE mirror.entities[e]],
   things |-> (mirror.things \cup m.things) \ m.removedThings]

\* Mutant: a snapshot is merged into what the page had.
ApplySnapshot_Merged(mirror, m) ==
  [entities |-> [e \in Entity |-> IF m.state.entities[e] = None THEN mirror.entities[e]
                                  ELSE m.state.entities[e]],
   things |-> mirror.things \cup m.state.things]

\* The maps of the mirror are cleared first.
ApplySnapshot(mirror, m) == m.state

Applied(mirror, m) ==
  CASE m.type = "snapshot" -> ApplySnapshot(mirror, m)
    [] m.type = "delta"    -> ApplyDelta(mirror, m)
    [] OTHER               -> mirror

\* The mirrors that a page goes through when it applies the messages of s one by one.
Mirrors(mirror, s) ==
  LET after[i \in 0..Len(s)] == IF i = 0 THEN mirror ELSE Applied(after[i - 1], s[i])
  IN after

-----------------------------------------------------------------------------
NewSession == [entityId |-> None, view |-> Empty, snapshots |-> FALSE]

\* A population, with some of its entities.
Populated(es) ==
  [Empty EXCEPT !.entities = [e \in Entity |-> IF e \in es THEN CHOOSE r \in Record : TRUE
                                                ELSE None]]

Init ==
  /\ running = FALSE
  /\ world = Populated(Entity)
  /\ near = {Me}
  /\ session = None /\ lookup = None /\ entering = None
  /\ joins = 0 /\ down = <<>>
  /\ page \in [linked : {FALSE}, mirror : {Empty}, selected : Who, pending : {None},
               rebuilt : {FALSE}, effect : {FALSE}, retry : {FALSE}]
  /\ failed = FALSE
  /\ used = [ticks |-> 0, losses |-> 0, links |-> 0, wishes |-> 0]

TypeOK ==
  /\ running \in BOOLEAN /\ failed \in BOOLEAN
  /\ world \in State /\ near \subseteq Entity /\ Me \in near
  /\ session = None \/ session \in [entityId : Who, view : State, snapshots : BOOLEAN]
  /\ lookup \in {None} \cup [current : BOOLEAN]
  /\ entering \in {None} \cup [you : Who]
  /\ joins \in Nat
  /\ \A i \in DOMAIN down : down[i].type \in {"snapshot", "delta", "error"}
  /\ page \in [linked : BOOLEAN, mirror : State, selected : Who, pending : Who,
               rebuilt : BOOLEAN, effect : BOOLEAN, retry : BOOLEAN]
  /\ used \in [ticks : 0..MaxTicks, losses : 0..MaxLosses, links : 0..MaxLinks, wishes : 0..MaxWishes]

-----------------------------------------------------------------------------
(* The world and the publisher. *)

\* buildDelta, for a session and a state; the view keeps what it was built from.
Publish(w, n) ==
  IF session = None THEN UNCHANGED <<session, down>>
  ELSE LET new == ViewOf(w, n, session.entityId) IN
       /\ session' = [session EXCEPT !.view = new]
       /\ down' = Append(down, Delta(session.view, new))

\* A tick changes one entity or one thing, or who is near, and is published.
Tick ==
  /\ running /\ Len(down) < Window /\ used.ticks < MaxTicks
  /\ used' = [used EXCEPT !.ticks = @ + 1]
  /\ \/ \E e \in Entity, r \in Record \cup {None} :
          world' = [world EXCEPT !.entities[e] = r] /\ UNCHANGED near
     \/ \E t \in Thing :
          /\ world' = [world EXCEPT !.things = IF t \in @ THEN @ \ {t} ELSE @ \cup {t}]
          /\ UNCHANGED near
     \/ near' \in {n \in SUBSET Entity : Me \in n} /\ UNCHANGED world
  /\ Publish(world', near')
  /\ UNCHANGED <<running, lookup, entering, joins, page, failed>>

\* Mutant: the page learns of a reset from the delta alone, made of a new view.
Renewed_DeltaOnly(w) ==
  IF session = None THEN UNCHANGED <<session, down>>
  ELSE LET new == ViewOf(w, near, None) IN
       /\ session' = [entityId |-> None, view |-> new, snapshots |-> session.snapshots]
       /\ down' = Append(down, Delta(Empty, new))

\* onModuleInit, of a publication with a worldReset: a new view, a snapshot of it, and
\* the delta that carries the event.
Renewed(w) ==
  IF session = None THEN UNCHANGED <<session, down>>
  ELSE LET new == ViewOf(w, near, None) IN
       /\ session' = [entityId |-> None, view |-> new, snapshots |-> TRUE]
       /\ down' = down \o <<Snapshot(None, new), Delta(new, new)>>

\* A keeper resets the world: a new population, without the player's monsters.
Reset ==
  /\ running /\ used.losses < MaxLosses
  /\ world' = Populated(Entity \ {Me})
  /\ Renewed(world')
  /\ lookup' = None
  /\ used' = [used EXCEPT !.losses = @ + 1]
  /\ UNCHANGED <<running, near, entering, joins, page, failed>>

\* The lock is lost, and taken again: the world is in a new object, and as it was last
\* saved, which is here as it was at first.
Lose ==
  /\ running /\ used.losses < MaxLosses
  /\ running' = FALSE
  /\ used' = [used EXCEPT !.losses = @ + 1]
  /\ UNCHANGED <<world, near, session, lookup, entering, joins, down, page, failed>>

Load ==
  /\ ~running
  /\ running' = TRUE
  /\ world' = Populated(Entity)
  /\ lookup' = IF lookup = None THEN None ELSE [current |-> FALSE]
  /\ UNCHANGED <<near, session, entering, joins, down, page, failed, used>>

-----------------------------------------------------------------------------
(* onJoin. *)

Fail == down' = Append(down, [type |-> "error"])

\* A join supersedes the one before it (joinVersion).
OnJoin ==
  /\ joins > 0 /\ entering = None
  /\ joins' = joins - 1
  /\ IF running THEN lookup' = [current |-> TRUE] /\ UNCHANGED down
     ELSE lookup' = None /\ Fail
  /\ UNCHANGED <<running, world, near, session, entering, page, failed, used>>

\* The owner's monster, or none (dead, of someone else); a monster that is not in the
\* world is spawned by a later tick.
Resolved ==
  /\ lookup # None
  /\ lookup' = None
  /\ IF running /\ lookup.current
     THEN /\ \E you \in Who :
               /\ session' = [session EXCEPT !.entityId = you]
               /\ entering' = [you |-> you]
          /\ UNCHANGED down
     ELSE Fail /\ UNCHANGED <<session, entering>>
  /\ UNCHANGED <<running, world, near, joins, page, failed, used>>

\* The database fails: the handler throws, and the page hears nothing that it listens to.
LookupThrows ==
  /\ lookup # None
  /\ lookup' = None
  /\ failed' = TRUE
  /\ UNCHANGED <<running, world, near, session, entering, joins, down, page, used>>

\* Mutant: the view is not built anew with the snapshot.
Enter_OldView ==
  /\ entering # None
  /\ entering' = None
  /\ session' = [session EXCEPT !.snapshots = TRUE]
  /\ down' = Append(down, Snapshot(entering.you, Seen(entering.you)))
  /\ UNCHANGED <<running, world, near, lookup, joins, page, failed, used>>

\* buildSnapshot
Enter ==
  /\ entering # None
  /\ entering' = None
  /\ session' = [session EXCEPT !.view = Seen(entering.you), !.snapshots = TRUE]
  /\ down' = Append(down, Snapshot(entering.you, Seen(entering.you)))
  /\ UNCHANGED <<running, world, near, lookup, joins, page, failed, used>>

-----------------------------------------------------------------------------
(* The page. *)

\* connection.join of the selected monster, while the socket is connected or not.
Joins(p) ==
  /\ page' = [p EXCEPT !.pending = p.selected]
  /\ joins' = IF p.linked THEN joins + 1 ELSE joins

\* The socket connects (handleConnection, and "connect"); an effect will join too.
Connect ==
  /\ ~page.linked /\ used.links < MaxLinks
  /\ session' = NewSession
  /\ used' = [used EXCEPT !.links = @ + 1]
  /\ page' = [page EXCEPT !.linked = TRUE, !.effect = TRUE]
  /\ joins' = IF page.pending = None THEN 0 ELSE 1
  /\ UNCHANGED <<running, world, near, lookup, entering, down, failed>>

\* handleDisconnect and "disconnect": the mirror stays as it was.
Disconnect ==
  /\ page.linked
  /\ session' = None /\ lookup' = None /\ entering' = None
  /\ joins' = 0 /\ down' = <<>>
  /\ page' = [page EXCEPT !.linked = FALSE, !.rebuilt = FALSE, !.effect = FALSE]
  /\ failed' = FALSE
  /\ UNCHANGED <<running, world, near, used>>

\* The effect on the phase and on the selected monster, after a rendering.
Effect ==
  /\ page.effect
  /\ Joins([page EXCEPT !.effect = FALSE])
  /\ UNCHANGED <<server, down, failed, used>>

\* The player selects, creates, copies or respawns a monster.  (The change of the
\* selection also takes down the listeners and the timer of a retry.)
Wish ==
  /\ used.wishes < MaxWishes
  /\ used' = [used EXCEPT !.wishes = @ + 1]
  /\ Joins([page EXCEPT !.selected = Me, !.effect = page.linked, !.retry = FALSE])
  /\ UNCHANGED <<server, down, failed>>

\* Mutant: an unavailable world is not asked again.
Receive_NoRetry ==
  /\ down # <<>>
  /\ down' = Tail(down)
  /\ LET m == Head(down) IN
       page' = [page EXCEPT !.mirror = Applied(@, m),
                            !.pending = IF m.type = "snapshot" THEN m.you ELSE @,
                            !.rebuilt = @ \/ m.type = "snapshot"]
  /\ UNCHANGED <<server, joins, failed, used>>

\* applySnapshot, applyDelta and the listeners of the page.
Receive ==
  /\ down # <<>>
  /\ down' = Tail(down)
  /\ LET m == Head(down) IN
       page' = [page EXCEPT !.mirror = Applied(@, m),
                            !.pending = IF m.type = "snapshot" THEN m.you ELSE @,
                            !.rebuilt = @ \/ m.type = "snapshot",
                            !.retry = (@ /\ m.type # "snapshot") \/ m.type = "error"]
  /\ UNCHANGED <<server, joins, failed, used>>

\* The timer of 3 s.
Retry ==
  /\ page.retry
  /\ Joins([page EXCEPT !.retry = FALSE])
  /\ UNCHANGED <<server, down, failed, used>>

-----------------------------------------------------------------------------
Next ==
  \/ Tick \/ Reset \/ Lose \/ Load
  \/ OnJoin \/ Resolved \/ LookupThrows \/ Enter
  \/ Connect \/ Disconnect \/ Effect \/ Wish \/ Receive \/ Retry

\* The socket delivers, the handlers and the timers of both sides run, a lookup
\* returns (or throws), and a server takes the world again (WorldRunner, the polling
\* of tryStart).  Nothing makes the link stay up.
Fairness ==
  /\ WF_vars(Receive) /\ WF_vars(OnJoin) /\ WF_vars(Resolved) /\ WF_vars(Enter)
  /\ WF_vars(Effect) /\ WF_vars(Retry) /\ WF_vars(Load)

Spec == Init /\ [][Next]_vars /\ Fairness

-----------------------------------------------------------------------------
\* When the messages under way have been applied, the page has every entity and thing
\* of its session's view, field by field; and, once the session sent a snapshot,
\* nothing else: no delta is built on something that the page does not have
\* (buildDelta, buildSnapshot against applyDelta, applySnapshot).
MirrorsTheView ==
  session # None =>
    LET mirror == Mirrors(page.mirror, down)[Len(down)] IN
    /\ \A e \in Shown(session.view) : mirror.entities[e] = session.view.entities[e]
    /\ session.view.things \subseteq mirror.things
    /\ session.snapshots => mirror = session.view

\* A page that stays connected is rebuilt from a snapshot of its own session, unless a
\* lookup throws: the deltas to a page that came back do not tell it what vanished
\* meanwhile, and a join may meet a world without an owner, or one that was loaded or
\* reset while it waited.
Rebuilt == page.linked ~> (page.rebuilt \/ ~page.linked \/ failed)
===============================================================================
