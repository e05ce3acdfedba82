------------------------------- MODULE Simulation -------------------------------
(***************************************************************************)
(* The life cycle of the monsters of game-core/sim/engine.ts: stepWorld, as *)
(* its phases in their order, with the commands of the players and the     *)
(* keepers, control and its grace, pairing, eggs, deaths and the cap on the *)
(* population; and the catch-up after a downtime.                           *)
(*                                                                         *)
(* Positions, DNA, health and energy are left out: whatever depends on them *)
(* (who is near, who is fit to mate, who dies of a blow or of hunger) may   *)
(* go either way.  Times are counted down in ticks.                         *)
(***************************************************************************)
EXTENDS Naturals, FiniteSets

CONSTANTS
  Monster,        \* ids of entities
  Owned,          \* those with an ownerGuestId
  Egg, Request,   \* ids of eggs and of pair requests
  None,
  MaxPopulation,  \* settings.maxPopulation
  Grace,          \* settings.controlGraceSeconds
  PAIR_REQUEST_TIMEOUT, ADULT_AGE, MATING_COOLDOWN, EGG_HATCH, CORPSE_LINGER,
  FINE_CATCHUP,   \* FINE_CATCHUP_SECONDS: a longer catch-up has more steps than this
  MaxCommands,    \* bound on the commands of one tick
  MaxLives        \* bound on the lives that begin after the start

ASSUME SimulationConstants ==
  /\ IsFiniteSet(Monster) /\ IsFiniteSet(Egg)
  /\ Owned \subseteq Monster
  /\ None \notin Monster \cup Egg \cup Request
  /\ {MaxPopulation, Grace, PAIR_REQUEST_TIMEOUT, ADULT_AGE, MATING_COOLDOWN, EGG_HATCH,
      CORPSE_LINGER, FINE_CATCHUP, MaxCommands, MaxLives} \subseteq Nat \ {0}
  /\ PAIR_REQUEST_TIMEOUT < ADULT_AGE /\ ADULT_AGE <= MATING_COOLDOWN
  /\ PAIR_REQUEST_TIMEOUT <= FINE_CATCHUP

VARIABLES
  phase,     \* between ticks, or where stepWorld is
  catchup,   \* the steps that catchUpWorld still takes, without commands
  entity,    \* state.entities
  eggs,      \* state.eggs
  requests,  \* state.pairRequests
  living,    \* the entities that the loop of this tick still has to visit
  \* the life each id is in, the ticks since its last egg in that life, and the
  \* bounds used: the commands of this tick, the new lives
  life, rested, spent

world == <<entity, eggs, requests>>
vars  == <<phase, catchup, world, living, life, rested, spent>>

\* age and mateCooldown stop counting at ADULT_AGE and 0; controlExpires is 0 for
\* null and otherwise one more than the ticks that are left; deadFor counts from
\* deathAt.
Entity == [alive : BOOLEAN, controlled : BOOLEAN, controlExpires : 0..Grace + 1,
           age : 0..ADULT_AGE, mateCooldown : 0..MATING_COOLDOWN, deadFor : 0..CORPSE_LINGER]
EggRecord == [parents : SUBSET Monster, hatchIn : 0..EGG_HATCH]
\* With the lives of the two when it was made.
RequestRecord == [from : Monster, to : Monster, expiresIn : 0..PAIR_REQUEST_TIMEOUT,
                  fromLife : 1..MaxLives + 1, toLife : 1..MaxLives + 1]

ASSUME NoneIsNoRecord == None \notin Entity \cup EggRecord \cup RequestRecord

TypeOK ==
  /\ phase \in {"idle", "commands", "entities"}
  /\ catchup \in 0..FINE_CATCHUP
  /\ entity \in [Monster -> Entity \cup {None}]
  /\ eggs \in [Egg -> EggRecord \cup {None}]
  /\ requests \in [Request -> RequestRecord \cup {None}]
  /\ living \subseteq Monster
  /\ life \in [Monster -> 0..MaxLives + 1]
  /\ rested \in [Monster -> 0..MATING_COOLDOWN]
  /\ spent \in [commands : 0..MaxCommands, lives : 0..MaxLives]

-----------------------------------------------------------------------------
Present    == {m \in Monster : entity[m] # None}
Alive      == {m \in Present : entity[m].alive}
Controlled == {m \in Present : entity[m].controlled}
Laid       == {e \in Egg : eggs[e] # None}
Asked      == {r \in Request : requests[r] # None}

\* livingCount(state) + state.eggs.length
Load == Cardinality(Alive) + Cardinality(Laid)

\* What isMateReady asks that is not of health and energy.
MateReady(m) ==
  m \in Alive /\ entity[m].age = ADULT_AGE /\ entity[m].mateCooldown = 0

\* killEntity, for each of a set.  (Nothing looks at the cooldown of a body.)
Dead(m) == [entity[m] EXCEPT !.alive = FALSE, !.controlled = FALSE, !.controlExpires = 0,
                             !.mateCooldown = 0]
AfterKilling(K) == [m \in Monster |-> IF m \in K \cap Alive THEN Dead(m) ELSE entity[m]]

Newborn(age, cooldown) ==
  [alive |-> TRUE, controlled |-> FALSE, controlExpires |-> 0, age |-> age,
   mateCooldown |-> cooldown, deadFor |-> 0]

\* New lives under the ids of a set.
Begun(ms) ==
  /\ spent.lives + Cardinality(ms) <= MaxLives
  /\ life' = [m \in Monster |-> IF m \in ms THEN life[m] + 1 ELSE life[m]]
  /\ rested' = [m \in Monster |-> IF m \in ms THEN MATING_COOLDOWN ELSE rested[m]]

\* blankEntity under an id, in the entities es.
NewLife(es, m, age, cooldown) ==
  /\ entity' = [es EXCEPT ![m] = Newborn(age, cooldown)]
  /\ Begun({m})

\* Mutant: only the initiating parent recovers.
CompletePairing_OneParent(first, second, es) ==
  /\ \E e \in Egg \ Laid :
       eggs' = [eggs EXCEPT ![e] = [parents |-> {first, second}, hatchIn |-> EGG_HATCH]]
  /\ entity' = [es EXCEPT ![first].mateCooldown = MATING_COOLDOWN]
  /\ rested' = [m \in Monster |-> IF m \in {first, second} THEN 0 ELSE rested[m]]

\* completePairing, and the AI's mating: both cooldowns, layEgg.
CompletePairing(first, second, es) ==
  /\ \E e \in Egg \ Laid :
       eggs' = [eggs EXCEPT ![e] = [parents |-> {first, second}, hatchIn |-> EGG_HATCH]]
  /\ entity' = [es EXCEPT ![first].mateCooldown = MATING_COOLDOWN,
                          ![second].mateCooldown = MATING_COOLDOWN]
  /\ rested' = [m \in Monster |-> IF m \in {first, second} THEN 0 ELSE rested[m]]

\* The wild adults of createWorldState and the first monsters of the players.
Init ==
  /\ phase = "idle" /\ catchup = 0
  /\ entity \in [Monster -> {None, Newborn(ADULT_AGE, 0)}]
  /\ Cardinality(Present) <= MaxPopulation
  /\ eggs = [e \in Egg |-> None]
  /\ requests = [r \in Request |-> None]
  /\ living = {}
  /\ life = [m \in Monster |-> IF m \in Present THEN 1 ELSE 0]
  /\ rested = [m \in Monster |-> MATING_COOLDOWN]
  /\ spent = [commands |-> 0, lives |-> 0]

-----------------------------------------------------------------------------
(* stepWorld: time, ageing, commands.                                       *)

Less(n) == IF n = 0 THEN 0 ELSE n - 1

\* ageWorldEntities: some of the adults have reached their maximal age.
OfAge == {m \in Alive : entity[m].age = ADULT_AGE}

TickBegins ==
  /\ phase = "idle" /\ phase' = "commands"
  /\ \E old \in SUBSET OfAge :
       entity' = [m \in Monster |->
         IF m \notin Present THEN None
         ELSE LET x == AfterKilling(old)[m] IN
              [x EXCEPT !.age = IF @ < ADULT_AGE /\ x.alive THEN @ + 1 ELSE @,
                        !.mateCooldown = IF x.alive THEN Less(@) ELSE @,
                        !.deadFor = IF x.alive \/ @ = CORPSE_LINGER THEN @ ELSE @ + 1,
                        !.controlExpires = IF @ > 1 THEN @ - 1 ELSE @]]
  /\ eggs' = [e \in Egg |-> IF e \in Laid THEN [eggs[e] EXCEPT !.hatchIn = Less(@)] ELSE None]
  /\ requests' = [r \in Request |->
       IF r \in Asked THEN [requests[r] EXCEPT !.expiresIn = Less(@)] ELSE None]
  /\ rested' = [m \in Monster |-> IF rested[m] < MATING_COOLDOWN THEN rested[m] + 1 ELSE rested[m]]
  /\ spent' = [spent EXCEPT !.commands = 0]
  /\ UNCHANGED <<catchup, living, life>>

\* One command of the tick, which begins n lives; the steps of a catch-up have none.
Command(n) ==
  /\ phase = "commands" /\ catchup = 0 /\ spent.commands < MaxCommands
  /\ spent' = [commands |-> spent.commands + 1, lives |-> spent.lives + n]
  /\ UNCHANGED <<phase, catchup, living>>

\* A player's monster enters, at the age its row has; at the cap a wild monster
\* that nobody controls makes room, if there is one.
SpawnOwned(m) ==
  /\ Command(1)
  /\ m \in Owned \ Present
  /\ LET victims == (Alive \ Owned) \ Controlled IN
     \E K \in SUBSET victims, age \in 0..ADULT_AGE :
       /\ Cardinality(K) = IF Load >= MaxPopulation /\ victims # {} THEN 1 ELSE 0
       /\ NewLife(AfterKilling(K), m, age, 0)
  /\ UNCHANGED <<eggs, requests>>

\* A keeper's wild monster, without a cap.
SpawnWild(m) ==
  /\ Command(1)
  /\ m \in Monster \ (Owned \cup Present)
  /\ NewLife(entity, m, ADULT_AGE, 0)
  /\ UNCHANGED <<eggs, requests>>

Attach(m) ==
  /\ Command(0)
  /\ m \in Owned \cap Alive
  /\ entity' = [entity EXCEPT ![m].controlled = TRUE, ![m].controlExpires = 0]
  /\ UNCHANGED <<eggs, requests, life, rested>>

\* Mutant: a detach that does not look who controls.
Detach_Blind(m) ==
  /\ Command(0)
  /\ m \in Present
  /\ entity' = [entity EXCEPT ![m].controlExpires = Grace + 1]
  /\ UNCHANGED <<eggs, requests, life, rested>>

\* Mutant: a second detach prolongs the grace period.
Detach_Prolong(m) ==
  /\ Command(0)
  /\ m \in Controlled
  /\ entity' = [entity EXCEPT ![m].controlExpires = @ + Grace + 1]
  /\ UNCHANGED <<eggs, requests, life, rested>>

\* The controller stays until the grace period is over.
Detach(m) ==
  /\ Command(0)
  /\ m \in Controlled
  /\ entity' = [entity EXCEPT ![m].controlExpires = Grace + 1]
  /\ UNCHANGED <<eggs, requests, life, rested>>

\* One other that nobody controls dies of the blow, or the attacker of its effort.
PerformAttack(m) ==
  /\ Command(0)
  /\ m \in Alive
  /\ \E x \in (Alive \ Controlled) \cup {m} : entity' \in {entity, AfterKilling({x})}
  /\ UNCHANGED <<eggs, requests, life, rested>>

\* Any others that nobody controls die in the stream; it cannot exhaust its breather.
PerformBreath(m) ==
  /\ Command(0)
  /\ m \in Alive
  /\ \E K \in SUBSET ((Alive \ Controlled) \ {m}) : entity' = AfterKilling(K)
  /\ UNCHANGED <<eggs, requests, life, rested>>

\* performPair: with a monster of another player a request, with another at once.
Pair(m, other) ==
  /\ Command(0)
  /\ Load < MaxPopulation
  /\ MateReady(m)
  /\ \A r \in Asked : m \notin {requests[r].from, requests[r].to}
  /\ other # m /\ MateReady(other)
  /\ IF other \in Controlled /\ {m, other} \subseteq Owned
     THEN /\ \E r \in Request \ Asked :
               requests' = [requests EXCEPT ![r] =
                 [from |-> m, to |-> other, expiresIn |-> PAIR_REQUEST_TIMEOUT,
                  fromLife |-> life[m], toLife |-> life[other]]]
          /\ UNCHANGED <<entity, eggs, rested>>
     ELSE /\ other \notin Controlled
          /\ CompletePairing(m, other, entity)
          /\ UNCHANGED requests
  /\ UNCHANGED life

\* Mutant: the cap is not looked at again.
Respond_NoCap(r) ==
  /\ Command(0)
  /\ r \in Asked
  /\ requests' = [requests EXCEPT ![r] = None]
  /\ LET from == requests[r].from
         to   == requests[r].to
     IN \/ UNCHANGED <<entity, eggs, rested>>
        \/ /\ MateReady(from) /\ MateReady(to)
           /\ CompletePairing(from, to, entity)
  /\ UNCHANGED life

\* pairRespond: the answer, or what changed since the request, may reject it.
Respond(r) ==
  /\ Command(0)
  /\ r \in Asked
  /\ requests' = [requests EXCEPT ![r] = None]
  /\ LET from == requests[r].from
         to   == requests[r].to
     IN \/ UNCHANGED <<entity, eggs, rested>>
        \/ /\ MateReady(from) /\ MateReady(to) /\ Load < MaxPopulation
           /\ CompletePairing(from, to, entity)
  /\ UNCHANGED life

-----------------------------------------------------------------------------
(* stepWorld: what follows the commands.                                    *)

\* expirePairRequests
Remaining(es) ==
  {r \in Asked : /\ requests[r].expiresIn > 0
                 /\ \A m \in {requests[r].from, requests[r].to} : es[m] # None /\ es[m].alive}

Expire(es) ==
  requests' = [r \in Request |-> IF r \in Remaining(es) THEN requests[r] ELSE None]

\* releaseExpiredControl
Released(m) ==
  IF m \in Present /\ entity[m].controlExpires = 1
  THEN [entity[m] EXCEPT !.controlled = FALSE, !.controlExpires = 0] ELSE entity[m]

\* welcomeHabitatWildlife: now and then up to two visitors, below the cap.
Sweep ==
  /\ phase = "commands" /\ phase' = "entities"
  /\ \E visitors \in SUBSET (Monster \ (Owned \cup Present)) :
       /\ Cardinality(visitors) <= 2
       /\ visitors # {} => Load + Cardinality(visitors) <= MaxPopulation
       /\ entity' = [m \in Monster |->
            IF m \in visitors THEN Newborn(ADULT_AGE, MATING_COOLDOWN) ELSE Released(m)]
       /\ Begun(visitors) /\ spent' = [spent EXCEPT !.lives = @ + Cardinality(visitors)]
       /\ living' = Alive \cup visitors
  /\ Expire(entity)
  /\ UNCHANGED <<catchup, eggs>>

\* updateAiEntity, who may die in the turn of m: those that nobody controls of its
\* breath, any one of its bite, itself of hunger or effort.
Felled(m) == UNION {SUBSET ((Alive \ Controlled) \cup {target, m}) : target \in Alive}

\* updateAiEntity, mating: with one that nobody controls, below the cap.
AiMates(m, K) ==
  \E partner \in Alive \ (K \cup Controlled \cup {m}) :
    /\ m \notin K /\ MateReady(m) /\ MateReady(partner)
    /\ Load - Cardinality(K) < MaxPopulation
    /\ CompletePairing(m, partner, AfterKilling(K))

\* applyPlayerMovement: what it costs may starve a controlled entity.
ApplyPlayerMovement(m) ==
  /\ \E K \in SUBSET {m} : entity' = AfterKilling(K)
  /\ UNCHANGED <<eggs, rested>>

UpdateAiEntity(m) ==
  \E K \in Felled(m) :
    \/ entity' = AfterKilling(K) /\ UNCHANGED <<eggs, rested>>
    \/ AiMates(m, K)

\* stepWorld, the loop over the living: one that died meanwhile is skipped.
Visit(m) ==
  /\ phase = "entities" /\ m \in living
  /\ living' = living \ {m}
  /\ IF m \notin Alive THEN UNCHANGED <<entity, eggs, rested>>
     ELSE IF m \in Controlled THEN ApplyPlayerMovement(m) ELSE UpdateAiEntity(m)
  /\ UNCHANGED <<phase, catchup, requests, life, spent>>

Due == {e \in Laid : eggs[e].hatchIn = 0}

\* The cap, and the bounds on ids and lives.
Hatchable(n) ==
  /\ Cardinality(Alive) + n <= MaxPopulation
  /\ n <= Cardinality(Monster \ (Owned \cup Present))
  /\ spent.lives + n <= MaxLives

\* removeExpiredBodies: the bodies that lingered long enough.
Gone == {m \in Present : entity[m].deadFor = CORPSE_LINGER}

\* The babies of the eggs es enter, and bodies are removed.
Hatched(es) ==
  \E babies \in SUBSET (Monster \ (Owned \cup Present)) :
    /\ Cardinality(babies) = Cardinality(es)
    /\ entity' = [m \in Monster |-> IF m \in babies THEN Newborn(0, ADULT_AGE)
                                    ELSE IF m \in Gone THEN None ELSE entity[m]]
    /\ Begun(babies) /\ spent' = [spent EXCEPT !.lives = @ + Cardinality(babies)]

\* hatchEggs until the world is full, removeExpiredBodies.
TickEnds ==
  /\ phase = "entities" /\ living = {} /\ phase' = "idle"
  /\ \E es \in SUBSET Due :
       /\ es # {} => Hatchable(Cardinality(es))
       /\ es # Due => ~Hatchable(Cardinality(es) + 1)
       /\ Hatched(es)
       /\ eggs' = [e \in Egg |-> IF e \in es THEN None ELSE eggs[e]]
  /\ catchup' = Less(catchup)
  /\ UNCHANGED <<requests, living>>

-----------------------------------------------------------------------------
(* Between ticks.                                                           *)

\* killWorldMonster, a keeper action.
KillMonster(m) ==
  /\ phase = "idle" /\ catchup = 0 /\ m \in Alive
  /\ entity' = AfterKilling({m})
  /\ Expire(AfterKilling({m}))
  /\ UNCHANGED <<phase, catchup, eggs, living, life, rested, spent>>

\* respawnWorldMonster, by the player or a keeper: the body, if there is one, is
\* replaced, and the new life starts at age 0.  A player's monster finds room as in
\* SpawnOwned, a wild one needs none.
Respawn(m) ==
  /\ phase = "idle" /\ catchup = 0 /\ m \in Monster \ Alive
  /\ LET victims == IF m \in Owned THEN (Alive \ Owned) \ Controlled ELSE {} IN
     \E K \in SUBSET victims :
       /\ Cardinality(K) = IF Load >= MaxPopulation /\ victims # {} THEN 1 ELSE 0
       /\ NewLife(AfterKilling(K), m, 0, 0)
  /\ spent' = [spent EXCEPT !.lives = @ + 1]
  /\ UNCHANGED <<phase, catchup, eggs, requests, living>>

\* The living are n older, and the old of them are dead; nobody has control.
Aged(n, old) ==
  [m \in Monster |->
    IF m \notin Present THEN None
    ELSE LET x == AfterKilling(old)[m] IN
         [x EXCEPT !.controlled = FALSE, !.controlExpires = 0,
                   !.age = IF ~x.alive THEN @ ELSE IF @ + n < ADULT_AGE THEN @ + n ELSE ADULT_AGE]]

\* Mutant: the ageing alone, without the steps.
Restore_NoSteps ==
  /\ phase = "idle" /\ catchup = 0
  /\ \E n \in 0..ADULT_AGE, old \in SUBSET Alive :
       /\ \A m \in old : n > 0 /\ entity[m].age + n >= ADULT_AGE
       /\ entity' = Aged(n, old)
       /\ catchup' = 0
  /\ UNCHANGED <<phase, eggs, requests, living, life, rested, spent>>
\* A restart: deserializeWorldState clears control, then catchUpWorld.  A long one ages
\* the living by the n ticks (or more) that it will not replay and then takes more than
\* FINE_CATCHUP steps, each like a tick or longer; a short one is some ordinary ticks.
Restore ==
  /\ phase = "idle" /\ catchup = 0
  /\ \E n \in 0..ADULT_AGE, old \in SUBSET Alive :
       /\ \A m \in old : n > 0 /\ entity[m].age + n >= ADULT_AGE
       /\ entity' = Aged(n, old)
       /\ catchup' = IF n = 0 THEN 0 ELSE FINE_CATCHUP
  /\ UNCHANGED <<phase, eggs, requests, living, life, rested, spent>>

Commands ==
  \/ \E m \in Monster :
       \/ SpawnOwned(m) \/ SpawnWild(m) \/ Attach(m) \/ Detach(m)
       \/ PerformAttack(m) \/ PerformBreath(m)
       \/ \E other \in Monster : Pair(m, other)
  \/ \E r \in Request : Respond(r)

Loop == TickBegins \/ Sweep \/ (\E m \in Monster : Visit(m)) \/ TickEnds

Next ==
  \/ Loop \/ Commands
  \/ \E m \in Monster : KillMonster(m) \/ Respawn(m)
  \/ Restore

Spec == Init /\ [][Next]_vars

-----------------------------------------------------------------------------
(* Properties.                                                              *)

\* The dead are inert: no controller, no grace period that would hand a body back.
DeadAreInert ==
  \A m \in Present \ Alive : ~entity[m].controlled /\ entity[m].controlExpires = 0

\* Laying, hatching and visiting never take the living and the eggs together over
\* the cap, whatever the order of pairings, deaths and spawns in a tick: over it go
\* only spawns, one by one, a player's only when no wild monster could make room.
CapKept ==
  [][Load' > Load =>
       \/ Load' <= MaxPopulation
       \/ /\ Load' = Load + 1
          /\ \E m \in Monster :
               /\ life'[m] # life[m] /\ eggs' = eggs
               /\ m \in Owned => (Alive \ Owned) \ Controlled = {}]_vars

\* A parent recovers: in one life no two of its eggs are laid within the cooldown,
\* by its own pairing, an AI's choice or the answer to one of several requests.
LaysOncePerCooldown ==
  [][\A e \in Egg \ Laid : eggs'[e] # None =>
       \A m \in eggs'[e].parents : rested[m] = MATING_COOLDOWN]_vars

\* An egg has two parents that were alive when it was laid, of the lives that agreed:
\* a request that outlived a death and a respawn is never accepted.
AcceptedInOneLife ==
  [][\A e \in Egg \ Laid : eggs'[e] # None =>
       /\ Cardinality(eggs'[e].parents) = 2 /\ eggs'[e].parents \subseteq Alive
       /\ \A r \in Asked : requests'[r] = None =>
            <<requests[r].fromLife, requests[r].toLife>>
              = <<life[requests[r].from], life[requests[r].to]>>]_vars
===============================================================================
