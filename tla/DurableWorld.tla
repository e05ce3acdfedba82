------------------------------- MODULE DurableWorld -------------------------------
(***************************************************************************)
(* What the runner and its persistence promise to the players, with nothing *)
(* of processes, locks, queues, retries or crashes: there is one world; an   *)
(* event becomes part of it and of its record in one step, once; it is shown *)
(* only when it is; and only a reset makes an event past.                    *)
(***************************************************************************)
EXTENDS Naturals

CONSTANTS
  Event,   \* critical events: births, deaths, keeper actions
  NoState  \* there is no world yet

VARIABLES
  world,   \* the durable world: its epoch and the events that made it
  record,  \* the events ever recorded
  seen     \* the events shown to the players

vars == <<world, record, seen>>

Init == world = NoState /\ record = {} /\ seen = {}

\* Seeding, and every reset: a new epoch that begins without events.
Begin ==
  /\ world' # world /\ world' # NoState
  /\ world'.hist = {}
  /\ world # NoState => world'.epoch > world.epoch
  /\ UNCHANGED <<record, seen>>

\* New events, in the world and in the record.
Save(E) ==
  /\ world # NoState
  /\ world' = [world EXCEPT !.hist = @ \cup E]
  /\ record' = record \cup E
  /\ UNCHANGED seen

\* Players learn of events of the present world.
Show(E) ==
  /\ world # NoState /\ E \subseteq world.hist \cap record
  /\ seen' = seen \cup E
  /\ UNCHANGED <<world, record>>

Next ==
  \/ Begin
  \/ \E E \in SUBSET (Event \ record) : Save(E)
  \/ \E E \in SUBSET Event : Show(E)

Spec == Init /\ [][Next]_vars
===============================================================================
