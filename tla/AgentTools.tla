-------------------------------- MODULE AgentTools --------------------------------
(***************************************************************************)
(* The tools a browser agent plays with (web/src/lib/agent and the agent    *)
(* part of game-experience.tsx): registered while the page is connected, one *)
(* mutating call at a time, each call a chain of cancellable waits during    *)
(* which the link, the creature, the menu, the keys and the coach of the run *)
(* may all change.                                                          *)
(*                                                                         *)
(* What runs in one task of the browser, with the promise callbacks that it  *)
(* releases, is one step: an abort therefore rejects a pending wait or fetch *)
(* and runs its `finally` in the step that aborts.  Coordinates, targets and *)
(* scores are left out; observe_world changes nothing and is no action.      *)
(***************************************************************************)
EXTENDS Naturals, FiniteSets

CONSTANTS
  Call,             \* the calls the agent makes of mutating tools, each once
  Monster, First,   \* the creatures of the player, and one there is at first
  None,
  MaxRegistrations  \* bound on the registrations of the tools

ASSUME AgentToolsConstants ==
  /\ IsFiniteSet(Call)
  /\ First \in Monster /\ None \notin Monster
  /\ MaxRegistrations \in Nat \ {0}

VARIABLES
  connected,  \* connection.phase = "connected"
  self,       \* connection.self and isController, as the page was last told
  made,       \* the creatures there are
  paused,     \* controls.current.paused: a menu or the creator is open
  keys,       \* the player holds a movement key
  agent,      \* controls.current.agent
  arena,      \* agentArenaRef.current
  offered,    \* the coach's buttons are drawn as enabled
  registered, \* the number of the current registration, 0 for none
  busy,       \* `busy` of each registration
  call,       \* what each call is waiting for
  \* the registrations made, and the creature that the action of a call was sent for,
  \* forgotten with the call
  registrations, sent

page  == <<connected, self, made, paused, keys>>
tools == <<registered, busy, registrations>>
vars  == <<page, agent, arena, offered, tools, call, sent>>

Self == [id : Monster, alive : BOOLEAN, controller : BOOLEAN]
Nobody == [id |-> None, alive |-> FALSE, controller |-> FALSE]

TypeOK ==
  /\ connected \in BOOLEAN /\ paused \in BOOLEAN /\ keys \in BOOLEAN /\ offered \in BOOLEAN
  /\ made \subseteq Monster
  /\ self \in Self \cup {Nobody}
  /\ agent \in [enabled : BOOLEAN, commandId : 0..Cardinality(Call)]
  /\ \/ arena = [status |-> "idle", root |-> None]
     \/ arena \in [status : {"active", "paused", "dead", "ended"}, root : Monster]
  /\ registered \in 0..MaxRegistrations /\ registrations \in 0..MaxRegistrations
  /\ busy \in [1..MaxRegistrations -> BOOLEAN]
  /\ call \in [Call -> [at : {"new", "fetch", "land", "approach", "motion", "deed", "rest", "settled"},
                        answered : BOOLEAN, registration : 0..MaxRegistrations,
                        creature : Monster \cup {None}, entity : Monster \cup {None},
                        commandId : 0..Cardinality(Call)]]
  /\ sent \in [Call -> Monster \cup {None}]

-----------------------------------------------------------------------------
Running(c) == call[c].at \notin {"new", "settled"}
Over(a)    == a.status \in {"dead", "ended"}

\* Mutant: the state of the run is not looked at.
Ready_AnyRun ==
  connected /\ ~paused /\ self.alive /\ self.controller /\ arena.status # "paused"

\* Mutant: the creature is not looked at.
Ready_NoCreature == connected /\ ~paused /\ arena.status \in {"idle", "active"}

\* ensureAgentArena does not throw.
Ready ==
  /\ connected /\ ~paused /\ self.alive /\ self.controller
  /\ arena.status \in {"idle", "active"}

\* ... and what it leaves: a first action starts the run.
Started ==
  IF arena.status = "idle" THEN [status |-> "active", root |-> self.id] ELSE arena

\* runAgentMotion writes the status again.
Steering(a) == [a EXCEPT !.status = "active"]

\* Mutant: the monitor does not compare the creature.
Undisturbed_AnyCreature(c) == Ready /\ ~keys

\* The check of waitForAgentAction, every 50 ms and when the timer fires.
Undisturbed(c) == Ready /\ self.id = call[c].entity /\ ~keys

Init ==
  /\ connected = FALSE
  /\ self = Nobody
  /\ made \in {ms \in SUBSET Monster : First \in ms}
  /\ paused = FALSE /\ keys = FALSE
  /\ agent = [enabled |-> FALSE, commandId |-> 0]
  /\ arena = [status |-> "idle", root |-> None]
  /\ offered = FALSE
  /\ registered = 0 /\ registrations = 0
  /\ busy = [r \in 1..MaxRegistrations |-> FALSE]
  /\ call = [c \in Call |-> [at |-> "new", answered |-> FALSE, registration |-> 0,
                             creature |-> None, entity |-> None, commandId |-> 0]]
  /\ sent = [c \in Call |-> None]

-----------------------------------------------------------------------------
(* The wrapper of webmcp.ts. *)

\* Mutant: the `finally` of a motion runs only when the wait is over.
Halted_OnlyWhenDone(cs) == agent

\* The `finally` of runAgentMotion, for the calls of a set.
Halted(cs) ==
  IF \E c \in cs : call[c].at \in {"approach", "motion"} /\ call[c].commandId = agent.commandId
  THEN [agent EXCEPT !.enabled = FALSE]
  ELSE agent

\* What is kept of a call that is over: the creature that it acted with, if it did so
\* without a wait.
Settled(creature) == [at |-> "settled", answered |-> TRUE, registration |-> 0,
                      creature |-> creature, entity |-> None, commandId |-> 0]

\* Mutant: the answer frees the slot, and a request under way is not aborted.
Stop_Answered(cs) ==
  /\ call' = [c \in Call |-> IF c \in cs
                             THEN IF call[c].at = "fetch" THEN [call[c] EXCEPT !.answered = TRUE]
                                  ELSE Settled(None)
                             ELSE call[c]]
  /\ busy' = [r \in 1..MaxRegistrations |->
                busy[r] /\ \A c \in cs : call[c].registration # r]
  /\ agent' = Halted(cs)
  /\ sent' = [c \in Call |-> IF c \in cs THEN None ELSE sent[c]]

\* Executions that reject, or are over: they are answered and release the slot.
Stop(cs) ==
  /\ call' = [c \in Call |-> IF c \in cs THEN Settled(None) ELSE call[c]]
  /\ busy' = [r \in 1..MaxRegistrations |->
                busy[r] /\ \A c \in cs : call[c].registration # r]
  /\ agent' = Halted(cs)
  /\ sent' = [c \in Call |-> IF c \in cs THEN None ELSE sent[c]]

\* setTimeout(WEBMCP_TIMEOUT_MS), the deadline of every call; and the signal of the
\* caller, which aborts the call in the same way at any time.
Timeout(c) ==
  /\ Running(c) /\ ~call[c].answered
  /\ Stop({c})
  /\ UNCHANGED <<page, arena, offered, registered, registrations>>

\* Effects run after React has drawn the new phase.
Register ==
  /\ connected /\ registered = 0 /\ registrations < MaxRegistrations
  /\ registrations' = registrations + 1
  /\ registered' = registrations'
  /\ UNCHANGED <<page, agent, arena, offered, busy, call, sent>>

Unregister ==
  /\ ~connected /\ registered # 0
  /\ registered' = 0
  /\ Stop({c \in Call : Running(c) /\ ~call[c].answered /\ call[c].registration = registered})
  /\ UNCHANGED <<page, arena, offered, registrations>>

\* A call that may run: its handle is registered and the slot free (any other is
\* answered with an error at once and changes nothing).
MayRun(c) ==
  /\ call[c].at = "new"
  /\ registered # 0
  /\ ~busy[registered]

\* The slot is taken, and the call is at a wait with a creature and a command.
Takes(c, at, creature, commandId) ==
  /\ call' = [call EXCEPT ![c] = [at |-> at, answered |-> FALSE, registration |-> registered,
                                  creature |-> creature, entity |-> creature,
                                  commandId |-> commandId]]
  /\ busy' = [busy EXCEPT ![registered] = TRUE]
  /\ UNCHANGED <<registered, registrations>>

\* A call that throws before its first wait: the slot is released in the same step.
TakesNot(c, creature) ==
  /\ call' = [call EXCEPT ![c] = Settled(creature)]
  /\ UNCHANGED tools

-----------------------------------------------------------------------------
(* The motions and the other waits.  A wait begins with a check of its own: it
   rejects at once when the player already holds a key. *)

Command == agent.commandId + 1

\* runAgentMotion, called by a tool itself or by its approachPoint.
RunAgentMotion(c, at) ==
  /\ MayRun(c) /\ Ready
  /\ arena' = Steering(Started)
  /\ agent' = [enabled |-> ~keys, commandId |-> Command]
  /\ IF keys THEN TakesNot(c, None) ELSE Takes(c, at, self.id, Command)
  /\ UNCHANGED <<page, offered, sent>>

\* rest.
Rest(c) ==
  /\ MayRun(c) /\ Ready
  /\ arena' = Started
  /\ agent' = [agent EXCEPT !.enabled = FALSE]
  /\ IF keys THEN TakesNot(c, None) ELSE Takes(c, "rest", self.id, 0)
  /\ UNCHANGED <<page, offered, sent>>

\* The target that the input names is not there, or half of it is missing: the run may
\* have been started.
NoTarget(c) ==
  /\ MayRun(c) /\ Ready
  /\ arena' = Started
  /\ TakesNot(c, None)
  /\ UNCHANGED <<page, agent, offered, sent>>

Move(c)    == RunAgentMotion(c, "motion")
Explore(c) == RunAgentMotion(c, "motion") \/ NoTarget(c)
Flee(c)    == RunAgentMotion(c, "motion") \/ NoTarget(c)

\* triggerAction or triggerMate for a call; the creature that acts is the one the
\* page now has.  (It may do nothing: a flyer does not eat.)
Acts(c) == sent' \in {sent, [sent EXCEPT ![c] = self.id]}

\* approachPoint, with the target too far to act.
Approach(c) == RunAgentMotion(c, "approach")

\* ... and with the target at hand: the deed, and the wait for its animation.
ActAtOnce(c) ==
  /\ MayRun(c) /\ Ready
  /\ arena' = Started
  /\ Acts(c)
  /\ IF keys THEN TakesNot(c, self.id) ELSE Takes(c, "deed", self.id, 0)
  /\ UNCHANGED <<page, agent, offered>>

\* A flyer that wants to eat lands first.
Land(c) ==
  /\ MayRun(c) /\ Ready
  /\ arena' = Started
  /\ IF keys THEN TakesNot(c, None) ELSE Takes(c, "land", self.id, 0)
  /\ UNCHANGED <<page, agent, offered, sent>>

Eat(c)    == Land(c) \/ Approach(c) \/ ActAtOnce(c) \/ NoTarget(c)
Attack(c) == Approach(c) \/ ActAtOnce(c) \/ NoTarget(c)
Breed(c)  == Approach(c) \/ ActAtOnce(c) \/ NoTarget(c)

\* From one wait of a deed to the next; the creature is read again.
Landed(c) ==
  /\ call[c].at = "land" /\ Undisturbed(c)
  /\ call' = [call EXCEPT ![c] = [@ EXCEPT !.at = "approach", !.entity = self.id,
                                         !.commandId = Command]]
  /\ agent' = [enabled |-> TRUE, commandId |-> Command]
  /\ arena' = Steering(arena)
  /\ UNCHANGED <<page, offered, tools, sent>>

Reached(c) ==
  /\ call[c].at \in {"land", "approach"} /\ Undisturbed(c)
  /\ agent' = Halted({c})
  /\ Acts(c)
  /\ call' = [call EXCEPT ![c] = [@ EXCEPT !.at = "deed", !.entity = self.id]]
  /\ UNCHANGED <<page, arena, offered, tools>>

\* The last wait is over, or the target was lost on the way.
Done(c) ==
  /\ call[c].at \in {"land", "approach", "motion", "deed", "rest"} /\ Undisturbed(c)
  /\ Stop({c})
  /\ UNCHANGED <<page, arena, offered, registered, registrations>>

\* The monitor, or the timer, finds that the wait may not go on.
Interrupted(c) ==
  /\ call[c].at \in {"land", "approach", "motion", "deed", "rest"} /\ ~Undisturbed(c)
  /\ Stop({c})
  /\ UNCHANGED <<page, arena, offered, registered, registrations>>

-----------------------------------------------------------------------------
(* create_monster: a request, and a run with the new creature. *)

BeginCreate(c) ==
  /\ MayRun(c)
  /\ arena.status # "paused"
  /\ Takes(c, "fetch", None, 0)
  /\ UNCHANGED <<page, agent, arena, offered, sent>>

Created(c) ==
  /\ call[c].at = "fetch"
  /\ \E m \in Monster \ made :
       /\ made' = made \cup {m}
       /\ arena' = [status |-> "active", root |-> m]
  /\ paused' = FALSE
  /\ Stop({c})
  /\ UNCHANGED <<connected, self, keys, offered, registered, registrations>>

\* The server refuses, or the answer is lost.
CreateFails(c) ==
  /\ call[c].at = "fetch"
  /\ Stop({c})
  /\ UNCHANGED <<page, arena, offered, registered, registrations>>

-----------------------------------------------------------------------------
(* The world, as the page is told of it, and the people in front of it. *)

LinkDown ==
  /\ connected
  /\ connected' = FALSE
  /\ self' = [self EXCEPT !.controller = FALSE]
  /\ UNCHANGED <<made, paused, keys, agent, arena, offered, tools, call, sent>>

LinkUp ==
  /\ ~connected
  /\ connected' = TRUE
  /\ UNCHANGED <<self, made, paused, keys, agent, arena, offered, tools, call, sent>>

\* A snapshot, a status, or a delta without an event for the page.
Told ==
  /\ connected
  /\ self' \in {s \in Self : s.id \in made} \cup {Nobody}
  /\ UNCHANGED <<connected, made, paused, keys, agent, arena, offered, tools, call, sent>>

\* The event `death`, with the delta that it comes in.
Death(m) ==
  /\ connected /\ m \in made
  /\ self' = IF m = self.id THEN [self EXCEPT !.alive = FALSE] ELSE self
  /\ keys' = IF m = self.id THEN FALSE ELSE keys
  /\ arena' = IF m = arena.root THEN [arena EXCEPT !.status = "dead"] ELSE arena
  /\ agent' = IF m = arena.root THEN [agent EXCEPT !.enabled = FALSE] ELSE agent
  /\ UNCHANGED <<connected, made, paused, offered, tools, call, sent>>

\* The event `worldReset`; the snapshot before it left the page without a creature.
WorldReset ==
  /\ connected
  /\ self = Nobody
  /\ keys' = FALSE
  /\ agent' = [agent EXCEPT !.enabled = FALSE]
  /\ arena' = IF arena.status \in {"active", "paused"} THEN [arena EXCEPT !.status = "ended"]
              ELSE arena
  /\ UNCHANGED <<connected, self, made, paused, offered, tools, call, sent>>

Keys ==
  /\ keys' = ~keys
  /\ UNCHANGED <<connected, self, made, paused, agent, arena, offered, tools, call, sent>>

\* The creator, the inventory or the mobile menu opens and closes.
Menu ==
  /\ paused' = ~paused
  /\ keys' = FALSE
  /\ UNCHANGED <<connected, self, made, agent, arena, offered, tools, call, sent>>

\* The player's own respawn has come back (what the world tells follows).
HumanRespawn ==
  /\ keys' = FALSE
  /\ agent' = [agent EXCEPT !.enabled = FALSE]
  /\ UNCHANGED <<connected, self, made, paused, arena, offered, tools, call, sent>>

Draw ==
  /\ offered' = (arena.status \in {"active", "paused"})
  /\ UNCHANGED <<page, agent, arena, tools, call, sent>>

\* "Take control" and "Resume agent".
CoachToggles ==
  /\ offered
  /\ arena' = [arena EXCEPT !.status = IF @ = "paused" THEN "active" ELSE "paused"]
  /\ agent' = [agent EXCEPT !.enabled = FALSE]
  /\ UNCHANGED <<page, offered, tools, call, sent>>

CoachEnds ==
  /\ offered
  /\ arena' = [arena EXCEPT !.status = "ended"]
  /\ agent' = [agent EXCEPT !.enabled = FALSE]
  /\ UNCHANGED <<page, offered, tools, call, sent>>

-----------------------------------------------------------------------------
Tool(c) ==
  \/ BeginCreate(c) \/ Move(c) \/ Explore(c) \/ Flee(c) \/ Rest(c)
  \/ Eat(c) \/ Attack(c) \/ Breed(c)
  \/ Landed(c) \/ Reached(c) \/ Done(c) \/ Interrupted(c)
  \/ Created(c) \/ CreateFails(c)
  \/ Timeout(c)

People == Keys \/ Menu \/ HumanRespawn \/ Draw \/ CoachToggles \/ CoachEnds

World == LinkDown \/ LinkUp \/ Told \/ WorldReset \/ \E m \in Monster : Death(m)

Next ==
  \/ \E c \in Call : Tool(c)
  \/ Register \/ Unregister
  \/ World
  \/ People

\* A timer of the browser fires.  Nothing is assumed of the server, of the link, of
\* the agent or of the people.
Spec == Init /\ [][Next]_vars /\ \A c \in Call : WF_vars(Timeout(c))

-----------------------------------------------------------------------------
\* One writer: at most one mutating call is being executed, over all registrations
\* of the tools, and none of them after its answer (webmcp.ts, busy and release:
\* "Only one mutating call may own the creature").
OneWriter ==
  /\ \A c, d \in Call : Running(c) /\ Running(d) => c = d
  /\ \A c \in Call : Running(c) => ~call[c].answered

\* The agent steers the creature only for a motion still under way, and only by its
\* latest command: no way out of a motion leaves the creature walking (runAgentMotion,
\* finally).
SteeredByAMotion ==
  agent.enabled =>
    \E c \in Call : /\ call[c].at \in {"approach", "motion"}
                    /\ call[c].commandId = agent.commandId

\* An action is sent for the creature that the call began with, while the page is
\* told that it controls it and that it lives, the menu is closed and the run goes
\* on: whatever changed during the waits of the call (waitForAgentAction).
DeedsAreCurrent ==
  [][\A c \in Call : sent'[c] \notin {sent[c], None} =>
       /\ sent'[c] = call'[c].creature
       /\ connected /\ ~paused /\ self.alive /\ self.controller
       /\ arena'.status = "active"]_vars

\* A run that is over stays over: only a new creature begins another, unless the
\* coach clicks on a button drawn before the end (ensureAgentArena, "This arena run has
\* ended").
RunStaysOver ==
  [][Over(arena) /\ ~Over(arena') =>
       offered \/ \E c \in Call : call[c].at = "fetch" /\ call'[c].at = "settled"]_vars

\* Every call ends and gives the slot back, whatever the server does ("timers and
\* listeners are cleaned up"; setTimeout of webmcp.ts, the signal passed to fetch).
SlotIsFreed == \A c \in Call : Running(c) ~> ~Running(c)
===============================================================================
