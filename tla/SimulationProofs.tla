----------------------------- MODULE SimulationProofs -----------------------------
(* Proofs about Simulation: the types, that the dead are inert, that a parent *)
(* recovers, that an accepted request binds the lives that made it, and that  *)
(* the cap on the population is kept.                                         *)
EXTENDS Simulation, TLAPS, FiniteSetTheorems

TypesOK ==
  /\ phase \in {"idle", "commands", "entities"}
  /\ catchup \in 0..FINE_CATCHUP
  /\ eggs \in [Egg -> EggRecord \cup {None}]
  /\ requests \in [Request -> RequestRecord \cup {None}]
  /\ living \subseteq Monster
  /\ life \in [Monster -> 0..MaxLives + 1]
  /\ rested \in [Monster -> 0..MATING_COOLDOWN]
  /\ spent \in [commands : 0..MaxCommands, lives : 0..MaxLives]

\* An entity whose last egg is n ticks old: the living do not decay, and their cooldown
\* has run for no longer than those ticks; the dead are controlled by nobody.
Sound(x, n) ==
  /\ x \in Entity
  /\ IF x.alive THEN x.deadFor = 0 /\ x.mateCooldown + n >= MATING_COOLDOWN
     ELSE x.controlled = FALSE /\ x.controlExpires = 0

EntityOK ==
  /\ entity \in [Monster -> Entity \cup {None}]
  /\ \A m \in Monster : entity[m] = None \/ Sound(entity[m], rested[m])

\* Lives are counted, and what is present has had one.
LivesOK ==
  \A m \in Monster :
    /\ life[m] <= spent.lives + 1
    /\ entity[m] # None => life[m] >= 1

\* What has n ticks to go is over before the catch-up is.
Catching(n) == n + (IF phase = "idle" THEN 0 ELSE 1) <= catchup

\* One side of a request that has left ticks to go: its body is there, and when another
\* life is in it, that life is younger than the request, or the request will be gone
\* when the next command comes.
SideOK(m, made, left) ==
  /\ entity[m] # None
  /\ \/ life[m] = made
     \/ entity[m].alive = FALSE
     \/ entity[m].age + left <= PAIR_REQUEST_TIMEOUT
     \/ Catching(left)

\* ... and no body of it has begun to decay when the tick ends.
NotGone(m) == entity[m].alive = TRUE \/ entity[m].deadFor = 0

RequestOK(q) ==
  /\ q.from # q.to
  /\ SideOK(q.from, q.fromLife, q.expiresIn) /\ SideOK(q.to, q.toLife, q.expiresIn)
  /\ phase # "commands" => q.expiresIn > 0
  /\ phase = "entities" => NotGone(q.from) /\ NotGone(q.to)

RequestsOK == \A r \in Request : requests[r] = None \/ RequestOK(requests[r])

SimInv == TypesOK /\ EntityOK /\ LivesOK /\ RequestsOK

Params == SimulationConstants /\ NoneIsNoRecord

\* The constants of time and number are positive.
LEMMA Positive ==
  ASSUME Params
  PROVE  /\ MaxPopulation \in Nat /\ Grace \in Nat /\ PAIR_REQUEST_TIMEOUT \in Nat
         /\ ADULT_AGE \in Nat /\ MATING_COOLDOWN \in Nat /\ EGG_HATCH \in Nat
         /\ CORPSE_LINGER \in Nat /\ MaxCommands \in Nat /\ MaxLives \in Nat
         /\ FINE_CATCHUP \in Nat /\ FINE_CATCHUP > 0
         /\ PAIR_REQUEST_TIMEOUT <= FINE_CATCHUP
         /\ MaxPopulation > 0 /\ Grace > 0 /\ PAIR_REQUEST_TIMEOUT > 0
         /\ ADULT_AGE > 0 /\ MATING_COOLDOWN > 0 /\ EGG_HATCH > 0
         /\ CORPSE_LINGER > 0 /\ MaxCommands > 0 /\ MaxLives > 0
         /\ PAIR_REQUEST_TIMEOUT < ADULT_AGE /\ ADULT_AGE <= MATING_COOLDOWN
BY DEF Params, SimulationConstants

LEMMA NoRecord ==
  ASSUME Params
  PROVE  None \notin Entity /\ None \notin EggRecord /\ None \notin RequestRecord
BY DEF Params, NoneIsNoRecord

-----------------------------------------------------------------------------------
(* Numbers of monsters and of eggs.                                                *)

LEMMA Finite ==
  ASSUME Params
  PROVE  /\ \A S \in SUBSET Monster : IsFiniteSet(S) /\ Cardinality(S) \in Nat
         /\ \A S \in SUBSET Egg : IsFiniteSet(S) /\ Cardinality(S) \in Nat
BY FS_Subset, FS_CardinalityType DEF Params, SimulationConstants

LEMMA Sets ==
  /\ Present \in SUBSET Monster /\ Alive \in SUBSET Monster
  /\ Alive \subseteq Present /\ Controlled \subseteq Present /\ Laid \in SUBSET Egg
  /\ \A m \in Monster : m \in Alive <=> entity[m] # None /\ entity[m].alive
  /\ \A m \in Monster : m \in Present <=> entity[m] # None
BY DEF Present, Alive, Laid, Controlled

LEMMA LoadIsNat ==
  ASSUME Params
  PROVE  /\ Load \in Nat /\ Cardinality(Alive) \in Nat /\ Cardinality(Laid) \in Nat
         /\ Load = Cardinality(Alive) + Cardinality(Laid)
BY Finite, Sets DEF Load

\* How much a set of the living or of the eggs grows.
LEMMA Grows ==
  ASSUME NEW S, NEW A, NEW D, IsFiniteSet(S), IsFiniteSet(A), A \cap S = {}, D \subseteq S
  PROVE  /\ Cardinality((S \ D) \cup A) = Cardinality(S) - Cardinality(D) + Cardinality(A)
         /\ Cardinality(D) <= Cardinality(S)
         /\ Cardinality(S) \in Nat /\ Cardinality(A) \in Nat /\ Cardinality(D) \in Nat
<1>1. /\ IsFiniteSet(D) /\ Cardinality(D) <= Cardinality(S)
      /\ Cardinality(S) \in Nat /\ Cardinality(A) \in Nat /\ Cardinality(D) \in Nat
  BY FS_Subset, FS_CardinalityType
<1>2. IsFiniteSet(S \ D) /\ Cardinality(S \ D) = Cardinality(S) - Cardinality(D)
  <2>1. S \cap D = D
    OBVIOUS
  <2> QED
    BY <2>1, FS_Difference
<1>3. (S \ D) \cap A = {}
  OBVIOUS
<1>4. Cardinality((S \ D) \cup A)
        = Cardinality(S \ D) + Cardinality(A) - Cardinality((S \ D) \cap A)
  BY <1>2, FS_Union
<1>5. Cardinality((S \ D) \cap A) = 0
  BY <1>3, FS_EmptySet
<1> QED
  BY <1>1, <1>2, <1>4, <1>5

\* The number of the living and the eggs after a step, from who died, who was born,
\* which eggs were taken and which were laid.
LEMMA LoadAfter ==
  ASSUME Params,
         NEW D \in SUBSET Alive, NEW B \in SUBSET Monster, B \cap Alive = {},
         Alive' = (Alive \ D) \cup B,
         NEW T \in SUBSET Laid, NEW L \in SUBSET Egg, L \cap Laid = {},
         Laid' = (Laid \ T) \cup L
  PROVE  /\ Load' = Load - Cardinality(D) + Cardinality(B)
                         - Cardinality(T) + Cardinality(L)
         /\ Load \in Nat /\ Load' \in Nat
         /\ Cardinality(D) \in Nat /\ Cardinality(B) \in Nat
         /\ Cardinality(T) \in Nat /\ Cardinality(L) \in Nat
         /\ Cardinality(Alive) \in Nat /\ Cardinality(Laid) \in Nat
<1>1. /\ IsFiniteSet(Alive) /\ IsFiniteSet(B) /\ IsFiniteSet(Laid) /\ IsFiniteSet(L)
  BY Finite, Sets
<1>2. /\ Cardinality((Alive \ D) \cup B)
           = Cardinality(Alive) - Cardinality(D) + Cardinality(B)
      /\ Cardinality(D) <= Cardinality(Alive)
      /\ Cardinality(Alive) \in Nat /\ Cardinality(B) \in Nat /\ Cardinality(D) \in Nat
  BY <1>1, Grows
<1>3. /\ Cardinality((Laid \ T) \cup L)
           = Cardinality(Laid) - Cardinality(T) + Cardinality(L)
      /\ Cardinality(T) <= Cardinality(Laid)
      /\ Cardinality(Laid) \in Nat /\ Cardinality(L) \in Nat /\ Cardinality(T) \in Nat
  BY <1>1, Grows
<1>4. Load' = Cardinality((Alive \ D) \cup B) + Cardinality((Laid \ T) \cup L)
  BY DEF Load
<1> QED
  BY <1>2, <1>3, <1>4 DEF Load

-----------------------------------------------------------------------------------
(* Bodies.                                                                         *)

\* The body of an entity goes on as es tells: nobody comes, goes or rises, and no age
\* or decay changes; rs are the ticks since the last eggs.
Kin(es, rs) ==
  /\ es \in [Monster -> Entity \cup {None}]
  /\ \A m \in Monster :
       /\ es[m] = None <=> entity[m] = None
       /\ es[m] # None =>
            /\ Sound(es[m], rs[m])
            /\ es[m].age = entity[m].age /\ es[m].deadFor = entity[m].deadFor
            /\ es[m].alive => entity[m].alive

LEMMA DeadBody ==
  ASSUME Params, NEW m \in Monster, entity[m] \in Entity
  PROVE  /\ Dead(m) \in Entity
         /\ Dead(m).alive = FALSE /\ Dead(m).controlled = FALSE
         /\ Dead(m).controlExpires = 0
         /\ Dead(m).age = entity[m].age /\ Dead(m).deadFor = entity[m].deadFor
<1> DEFINE x == entity[m]
<1>1. x \in Entity /\ 0 \in 0..Grace + 1 /\ 0 \in 0..MATING_COOLDOWN
      /\ FALSE \in BOOLEAN
  BY Positive
<1>2. \A F \in BOOLEAN, i \in 0..Grace + 1, j \in 0..MATING_COOLDOWN :
        LET y == [x EXCEPT !.alive = F, !.controlled = F, !.controlExpires = i,
                           !.mateCooldown = j]
        IN  /\ y \in Entity
            /\ y.alive = F /\ y.controlled = F /\ y.controlExpires = i
            /\ y.age = x.age /\ y.deadFor = x.deadFor
  BY <1>1 DEF Entity
<1> QED
  BY <1>1, <1>2 DEF Dead

LEMMA Killing ==
  ASSUME Params, EntityOK, NEW K
  PROVE  /\ Kin(AfterKilling(K), rested)
         /\ \A m \in Monster :
              /\ m \in K \cap Alive => AfterKilling(K)[m] = Dead(m)
              /\ m \notin K \cap Alive => AfterKilling(K)[m] = entity[m]
              /\ AfterKilling(K)[m] # None /\ AfterKilling(K)[m].alive
                   <=> m \in Alive \ K
<1>1. \A m \in Monster : entity[m] \in Entity \cup {None}
  BY DEF EntityOK
<1>2. \A m \in Alive : m \in Monster /\ entity[m] \in Entity /\ entity[m].alive
  BY <1>1, Sets
<1>3. \A m \in Alive : /\ Dead(m) \in Entity
                      /\ Dead(m).alive = FALSE /\ Dead(m).controlled = FALSE
                      /\ Dead(m).controlExpires = 0 /\ Dead(m) # None
                      /\ Dead(m).age = entity[m].age
                      /\ Dead(m).deadFor = entity[m].deadFor
  BY <1>2, DeadBody, NoRecord
<1>4. /\ AfterKilling(K) = [m \in Monster |-> IF m \in K \cap Alive THEN Dead(m)
                                              ELSE entity[m]]
      /\ \A m \in Monster :
           /\ m \in K \cap Alive => AfterKilling(K)[m] = Dead(m)
           /\ m \notin K \cap Alive => AfterKilling(K)[m] = entity[m]
  BY DEF AfterKilling
<1>5. AfterKilling(K) \in [Monster -> Entity \cup {None}]
  BY <1>1, <1>3, <1>4
<1>6. ASSUME NEW m \in Monster
      PROVE  /\ AfterKilling(K)[m] = None <=> entity[m] = None
             /\ AfterKilling(K)[m] # None =>
                  /\ Sound(AfterKilling(K)[m], rested[m])
                  /\ AfterKilling(K)[m].age = entity[m].age
                  /\ AfterKilling(K)[m].deadFor = entity[m].deadFor
                  /\ AfterKilling(K)[m].alive => entity[m].alive
             /\ AfterKilling(K)[m] # None /\ AfterKilling(K)[m].alive
                  <=> m \in Alive \ K
  <2>1. CASE m \in K \cap Alive
    BY <1>2, <1>3, <1>4, <2>1, NoRecord DEF Sound
  <2>2. CASE m \notin K \cap Alive
    BY <1>4, <2>2, Sets DEF EntityOK
  <2> QED
    BY <2>1, <2>2
<1> QED
  BY <1>4, <1>5, <1>6 DEF Kin

-----------------------------------------------------------------------------------
(* What a step may do: the properties of the steps, as the runs check them.        *)

CapStep ==
  Load' > Load =>
    \/ Load' <= MaxPopulation
    \/ /\ Load' = Load + 1
       /\ \E m \in Monster :
            /\ life'[m] # life[m] /\ eggs' = eggs
            /\ m \in Owned => (Alive \ Owned) \ Controlled = {}

RestStep ==
  \A e \in Egg \ Laid : eggs'[e] # None =>
    \A m \in eggs'[e].parents : rested[m] = MATING_COOLDOWN

OneLifeStep ==
  \A e \in Egg \ Laid : eggs'[e] # None =>
    /\ Cardinality(eggs'[e].parents) = 2 /\ eggs'[e].parents \subseteq Alive
    /\ \A r \in Asked : requests'[r] = None =>
         <<requests[r].fromLife, requests[r].toLife>>
           = <<life[requests[r].from], life[requests[r].to]>>

Kept == SimInv' /\ CapStep /\ RestStep /\ OneLifeStep

\* A step that lays no egg.
LEMMA NothingLaid ==
  ASSUME \A e \in Egg \ Laid : eggs'[e] = None
  PROVE  RestStep /\ OneLifeStep
BY DEF RestStep, OneLifeStep

LEMMA NewbornEntity ==
  ASSUME Params, NEW age \in 0..ADULT_AGE, NEW cooldown \in 0..MATING_COOLDOWN
  PROVE  /\ Newborn(age, cooldown) \in Entity /\ Newborn(age, cooldown) # None
         /\ Newborn(age, cooldown).alive = TRUE
         /\ Newborn(age, cooldown).controlled = FALSE
         /\ Newborn(age, cooldown).age = age
         /\ Newborn(age, cooldown).mateCooldown = cooldown
         /\ Newborn(age, cooldown).deadFor = 0
         /\ Newborn(age, cooldown).controlExpires = 0
<1>1. 0 \in 0..Grace + 1 /\ 0 \in 0..CORPSE_LINGER
  BY Positive
<1>2. Newborn(age, cooldown) \in Entity
  BY <1>1 DEF Newborn, Entity
<1> QED
  BY <1>2, NoRecord DEF Newborn

-----------------------------------------------------------------------------------
(* Steps in which bodies go on.                                                    *)

LEMMA KinSets ==
  ASSUME Kin(entity', rested')
  PROVE  Present' = Present /\ Alive' \subseteq Alive
<1>1. \A m \in Monster : m \in Present' <=> entity'[m] # None
  BY DEF Present
<1>2. \A m \in Monster : m \in Alive' <=> entity'[m] # None /\ entity'[m].alive
  BY DEF Alive, Present
<1>3. Present' \in SUBSET Monster /\ Alive' \in SUBSET Monster
  BY DEF Alive, Present
<1> QED
  BY <1>1, <1>2, <1>3, Sets DEF Kin

LEMMA KinBodies ==
  ASSUME Kin(entity', rested'), LivesOK, UNCHANGED life,
         spent'.lives = spent.lives
  PROVE  EntityOK' /\ LivesOK'
BY DEF Kin, LivesOK, EntityOK

LEMMA KinSide ==
  ASSUME Kin(entity', rested'), UNCHANGED <<life, phase, catchup>>,
         NEW m \in Monster, NEW made, NEW left
  PROVE  /\ SideOK(m, made, left) => SideOK(m, made, left)'
         /\ entity[m] # None /\ EntityOK /\ NotGone(m) => NotGone(m)'
<1>1. SideOK(m, made, left) => SideOK(m, made, left)'
  BY DEF Kin, SideOK, Sound, Entity, Catching
<1>2. entity[m] # None /\ EntityOK /\ NotGone(m) => NotGone(m)'
  BY DEF Kin, NotGone, EntityOK, Sound, Entity
<1> QED
  BY <1>1, <1>2

LEMMA KinRequest ==
  ASSUME Kin(entity', rested'), UNCHANGED <<life, phase, catchup>>, EntityOK,
         NEW q \in RequestRecord, RequestOK(q)
  PROVE  RequestOK(q)'
<1>1. q.from \in Monster /\ q.to \in Monster
  BY DEF RequestRecord
<1>2. /\ SideOK(q.from, q.fromLife, q.expiresIn)'
      /\ SideOK(q.to, q.toLife, q.expiresIn)'
  BY <1>1, KinSide DEF RequestOK
<1>3. phase = "entities" => NotGone(q.from)' /\ NotGone(q.to)'
  BY <1>1, KinSide DEF RequestOK, SideOK
<1> QED
  BY <1>2, <1>3 DEF RequestOK

\* No request is made, and some may go.
LEMMA KinRequests ==
  ASSUME Kin(entity', rested'), UNCHANGED <<life, phase, catchup>>, EntityOK, RequestsOK,
         requests \in [Request -> RequestRecord \cup {None}],
         \A r \in Request : requests'[r] \in {None, requests[r]}
  PROVE  RequestsOK'
<1> SUFFICES ASSUME NEW r \in Request, requests'[r] # None
             PROVE  \E q : q = requests'[r] /\ RequestOK(q)'
  BY DEF RequestsOK
<1>1. requests'[r] = requests[r] /\ requests[r] \in RequestRecord /\ requests[r] # None
  OBVIOUS
<1>2. RequestOK(requests[r])
  BY <1>1 DEF RequestsOK
<1>3. PICK q \in RequestRecord : q = requests[r] /\ RequestOK(q)
  BY <1>1, <1>2
<1>4. RequestOK(q)'
  BY <1>3, KinRequest
<1> QED
  BY <1>1, <1>3, <1>4

\* A step that only kills, controls or releases.
LEMMA KinQuiet ==
  ASSUME Params, SimInv, Kin(entity', rested'), TypesOK', UNCHANGED <<phase, catchup, life, eggs>>,
         spent'.lives = spent.lives, \A r \in Request : requests'[r] \in {None, requests[r]}
  PROVE  Kept
<1>1. SimInv'
  BY KinBodies, KinRequests DEF SimInv, TypesOK
<1>2. CapStep
  <2> DEFINE D == Alive \ Alive'
  <2>1. Alive' = (Alive \ D) \cup {} /\ D \in SUBSET Alive
    BY KinSets
  <2>2. Laid' = (Laid \ {}) \cup {}
    BY DEF Laid
  <2>3. {} \in SUBSET Monster /\ {} \in SUBSET Laid /\ {} \in SUBSET Egg
        /\ {} \cap Alive = {} /\ {} \cap Laid = {}
    OBVIOUS
  <2> HIDE DEF D
  <2>4. /\ Load' = Load - Cardinality(D) + Cardinality({})
                        - Cardinality({}) + Cardinality({})
        /\ Load \in Nat /\ Load' \in Nat /\ Cardinality(D) \in Nat
    BY <2>1, <2>2, <2>3, LoadAfter
  <2>5. Cardinality({}) = 0
    BY FS_EmptySet
  <2> QED
    BY <2>4, <2>5 DEF CapStep
<1>3. RestStep /\ OneLifeStep
  BY NothingLaid DEF Laid
<1> QED
  BY <1>1, <1>2, <1>3 DEF Kept

-----------------------------------------------------------------------------------
(* An egg is laid.                                                                 *)

LEMMA Cooled ==
  ASSUME Params, NEW x, NEW n, Sound(x, n), x.alive, MATING_COOLDOWN \in Nat
  PROVE  LET y == [x EXCEPT !.mateCooldown = MATING_COOLDOWN]
         IN  /\ Sound(y, 0) /\ y.age = x.age /\ y.deadFor = x.deadFor
             /\ y.alive = x.alive /\ y.controlled = x.controlled
<1> DEFINE y == [x EXCEPT !.mateCooldown = MATING_COOLDOWN]
<1>1. x \in Entity /\ MATING_COOLDOWN \in 0..MATING_COOLDOWN
  BY DEF Sound
<1>2. /\ y \in Entity /\ y.age = x.age /\ y.deadFor = x.deadFor
      /\ y.alive = x.alive /\ y.controlled = x.controlled
      /\ y.mateCooldown = MATING_COOLDOWN
  BY <1>1 DEF Entity
<1> HIDE DEF y
<1>3. Sound(y, 0)
  BY <1>2 DEF Sound
<1> QED
  BY <1>2, <1>3 DEF y

\* One egg more lies in the nest, of these parents.
LaysOne(parents) ==
  \E e \in Egg \ Laid :
    /\ eggs'[e] # None /\ eggs'[e].parents = parents
    /\ \A f \in Egg : f # e => eggs'[f] = eggs[f]

\* The two parents of completePairing are cooled down, and their egg lies in the nest.
LEMMA Laying ==
  ASSUME Params, TypesOK, NEW es, Kin(es, rested),
         NEW first \in Monster, NEW second \in Monster, first # second,
         es[first] # None, es[first].alive, es[second] # None, es[second].alive,
         CompletePairing(first, second, es)
  PROVE  /\ Kin(entity', rested') /\ rested' \in [Monster -> 0..MATING_COOLDOWN]
         /\ eggs' \in [Egg -> EggRecord \cup {None}]
         /\ \A m \in Monster : /\ entity'[m] = None <=> es[m] = None
                               /\ es[m] # None => entity'[m].alive = es[m].alive
         /\ LaysOne({first, second})
<1>1. /\ MATING_COOLDOWN \in Nat /\ 0 \in 0..MATING_COOLDOWN
      /\ EGG_HATCH \in 0..EGG_HATCH
  BY Positive
<1> DEFINE Cool(x) == [x EXCEPT !.mateCooldown = MATING_COOLDOWN]
<1>2. \A m \in {first, second} :
        /\ Sound(es[m], rested[m]) /\ es[m] \in Entity /\ es[m].alive
        /\ Sound(Cool(es[m]), 0)
        /\ Cool(es[m]).age = es[m].age /\ Cool(es[m]).deadFor = es[m].deadFor
        /\ Cool(es[m]).alive = es[m].alive
  <2> TAKE m \in {first, second}
  <2>1. Sound(es[m], rested[m]) /\ es[m].alive
    BY DEF Kin
  <2> QED
    BY <1>1, <2>1, Cooled DEF Sound
<1>3. /\ es \in [Monster -> Entity \cup {None}]
      /\ entity' = [es EXCEPT ![first] = Cool(es[first]),
                              ![second] = Cool(es[second])]
  BY DEF CompletePairing, Kin
<1>4. \A m \in {first, second} : Cool(es[m]) \in Entity /\ Cool(es[m]) # None
  BY <1>2, NoRecord DEF Sound
<1> HIDE DEF Cool
<1>5. \A m \in Monster :
        entity'[m] = IF m \in {first, second} THEN Cool(es[m]) ELSE es[m]
  BY <1>3
<1>6. entity' \in [Monster -> Entity \cup {None}]
  BY <1>3, <1>4
<1>7. /\ rested' = [m \in Monster |-> IF m \in {first, second} THEN 0 ELSE rested[m]]
      /\ \A m \in Monster :
           rested'[m] = IF m \in {first, second} THEN 0 ELSE rested[m]
      /\ rested' \in [Monster -> 0..MATING_COOLDOWN]
  BY <1>1 DEF CompletePairing, TypesOK
<1>8. \A m \in Monster :
        /\ entity'[m] = None <=> es[m] = None
        /\ entity'[m] # None =>
             /\ Sound(entity'[m], rested'[m])
             /\ entity'[m].age = es[m].age /\ entity'[m].deadFor = es[m].deadFor
             /\ entity'[m].alive = es[m].alive
  <2> TAKE m \in Monster
  <2>1. CASE m \in {first, second}
    BY <1>2, <1>4, <1>5, <1>7, <2>1
  <2>2. CASE m \notin {first, second}
    BY <1>5, <1>7, <2>2 DEF Kin
  <2> QED
    BY <2>1, <2>2
<1>9. Kin(entity', rested')
  BY <1>6, <1>8 DEF Kin
<1>10. PICK e \in Egg \ Laid :
         eggs' = [eggs EXCEPT ![e] = [parents |-> {first, second}, hatchIn |-> EGG_HATCH]]
  BY DEF CompletePairing
<1> DEFINE laid == [parents |-> {first, second}, hatchIn |-> EGG_HATCH]
<1>11. laid \in EggRecord /\ laid # None /\ laid.parents = {first, second}
  BY <1>1, NoRecord DEF EggRecord
<1>12. eggs' = [eggs EXCEPT ![e] = laid]
  BY <1>10
<1> HIDE DEF laid
<1>13. /\ eggs' \in [Egg -> EggRecord \cup {None}]
       /\ eggs'[e] # None /\ eggs'[e].parents = {first, second}
       /\ \A f \in Egg : f # e => eggs'[f] = eggs[f]
  BY <1>11, <1>12 DEF TypesOK
<1>14. LaysOne({first, second})
  BY <1>13 DEF LaysOne
<1> QED
  BY <1>7, <1>8, <1>9, <1>13, <1>14

LEMMA Two ==
  ASSUME NEW a, NEW b, a # b
  PROVE  Cardinality({a, b}) = 2
<1>1. IsFiniteSet({a}) /\ Cardinality({a}) = 1
  BY FS_Singleton
<1>2. Cardinality({a} \cup {b}) = 2
  BY <1>1, FS_AddElement
<1>3. {a} \cup {b} = {a, b}
  OBVIOUS
<1> QED
  BY <1>2, <1>3

LEMMA LayingOfTwo ==
  ASSUME Params, TypesOK, EntityOK, NEW D,
         NEW first \in Alive \ D, NEW second \in Alive \ D, first # second,
         CompletePairing(first, second, AfterKilling(D))
  PROVE  /\ Kin(entity', rested') /\ rested' \in [Monster -> 0..MATING_COOLDOWN]
         /\ eggs' \in [Egg -> EggRecord \cup {None}]
         /\ Alive' = Alive \ D
         /\ LaysOne({first, second})
<1> DEFINE es == AfterKilling(D)
<1>1. /\ Kin(es, rested)
      /\ \A m \in Monster : es[m] # None /\ es[m].alive <=> m \in Alive \ D
      /\ first \in Monster /\ second \in Monster
  BY Killing, Sets
<1>2. CompletePairing(first, second, es)
  OBVIOUS
<1> HIDE DEF es
<1>3. es[first] # None /\ es[first].alive /\ es[second] # None /\ es[second].alive
  BY <1>1
<1>4. /\ Kin(entity', rested') /\ rested' \in [Monster -> 0..MATING_COOLDOWN]
      /\ eggs' \in [Egg -> EggRecord \cup {None}]
      /\ LaysOne({first, second})
  BY <1>1, <1>2, <1>3, Laying
<1>5. \A m \in Monster : /\ entity'[m] = None <=> es[m] = None
                         /\ es[m] # None => entity'[m].alive = es[m].alive
  BY <1>1, <1>2, <1>3, Laying
<1>6. \A m \in Monster : m \in Alive' <=> entity'[m] # None /\ entity'[m].alive
  BY DEF Alive, Present
<1>7. \A m \in Monster : m \in Alive' <=> m \in Alive \ D
  BY <1>1, <1>5, <1>6
<1>8. Alive' \in SUBSET Monster /\ Alive \in SUBSET Monster
  BY DEF Alive, Present
<1>9. Alive' = Alive \ D
  BY <1>7, <1>8
<1> QED
  BY <1>4, <1>9

\* Below the cap, one egg more reaches it at most.
LEMMA LayingCap ==
  ASSUME Params, NEW D \in SUBSET Alive, Alive' = Alive \ D,
         NEW e \in Egg \ Laid, Laid' = Laid \cup {e},
         Load - Cardinality(D) < MaxPopulation
  PROVE  CapStep
<1> DEFINE L == {e}
           N == {}
<1>1. Cardinality(N) = 0 /\ Cardinality(L) = 1
  BY FS_EmptySet, FS_Singleton
<1>2. Laid' = (Laid \ N) \cup L /\ L \in SUBSET Egg /\ L \cap Laid = {}
      /\ Alive' = (Alive \ D) \cup N
  OBVIOUS
<1>3. N \in SUBSET Monster /\ N \in SUBSET Laid /\ N \cap Alive = {}
  OBVIOUS
<1> HIDE DEF L, N
<1>4. /\ Load' = Load - Cardinality(D) + Cardinality(N)
                      - Cardinality(N) + Cardinality(L)
      /\ Load \in Nat /\ Load' \in Nat /\ Cardinality(D) \in Nat
  BY <1>2, <1>3, LoadAfter
<1> QED
  BY <1>1, <1>4, Positive DEF CapStep

\* ... of two that live and may mate, below the cap: of D that die, none is a parent.
LEMMA LayingStep ==
  ASSUME Params, SimInv, NEW D \in SUBSET Alive,
         NEW first \in Alive \ D, NEW second \in Alive \ D, first # second,
         MateReady(first), MateReady(second),
         Load - Cardinality(D) < MaxPopulation,
         CompletePairing(first, second, AfterKilling(D)),
         UNCHANGED <<life, phase, catchup>>, spent'.lives = spent.lives,
         living' \subseteq Monster,
         requests' \in [Request -> RequestRecord \cup {None}],
         spent' \in [commands : 0..MaxCommands, lives : 0..MaxLives],
         \A r \in Request : requests'[r] \in {None, requests[r]},
         \A r \in Asked : requests'[r] = None =>
           /\ requests[r].fromLife = life[requests[r].from]
           /\ requests[r].toLife = life[requests[r].to]
  PROVE  Kept
<1>1. TypesOK /\ EntityOK /\ LivesOK /\ RequestsOK
  BY DEF SimInv
<1>2. /\ Kin(entity', rested') /\ rested' \in [Monster -> 0..MATING_COOLDOWN]
      /\ eggs' \in [Egg -> EggRecord \cup {None}]
      /\ Alive' = Alive \ D
      /\ LaysOne({first, second})
  BY <1>1, LayingOfTwo
<1>3. PICK e \in Egg \ Laid :
        /\ eggs'[e] # None /\ eggs'[e].parents = {first, second}
        /\ \A f \in Egg : f # e => eggs'[f] = eggs[f]
  BY <1>2 DEF LaysOne
<1>4. TypesOK'
  BY <1>1, <1>2 DEF TypesOK
<1>5. SimInv'
  BY <1>1, <1>2, <1>4, KinBodies, KinRequests DEF SimInv, TypesOK
<1>6. CapStep
  <2>1. Laid' = Laid \cup {e}
    BY <1>3 DEF Laid
  <2> QED
    BY <1>2, <2>1, LayingCap
<1>7. \A f \in Egg \ Laid : eggs'[f] # None => eggs'[f].parents = {first, second}
  BY <1>3 DEF Laid
<1>8. RestStep
  <2>1. ASSUME NEW m \in {first, second} PROVE rested[m] = MATING_COOLDOWN
    <3>1. m \in Monster /\ entity[m] # None /\ entity[m].alive
          /\ entity[m].mateCooldown = 0
      BY Sets DEF MateReady
    <3>2. Sound(entity[m], rested[m]) /\ rested[m] \in 0..MATING_COOLDOWN
      BY <1>1, <3>1 DEF EntityOK, TypesOK
    <3> QED
      BY <3>1, <3>2, Positive DEF Sound
  <2> QED
    BY <1>7, <2>1 DEF RestStep
<1>9. OneLifeStep
  <2> DEFINE two == {first, second}
  <2>1. Cardinality(two) = 2 /\ two \subseteq Alive
    BY Two
  <2>4. \A f \in Egg \ Laid : eggs'[f] # None => eggs'[f].parents = two
    BY <1>7
  <2> HIDE DEF two
  <2>2. \A r \in Asked : requests'[r] = None =>
          <<requests[r].fromLife, requests[r].toLife>>
            = <<life[requests[r].from], life[requests[r].to]>>
    OBVIOUS
  <2>3. ASSUME NEW f \in Egg \ Laid, eggs'[f] # None
        PROVE  /\ Cardinality(eggs'[f].parents) = 2
               /\ eggs'[f].parents \subseteq Alive
    BY <2>1, <2>3, <2>4
  <2> QED
    BY <2>2, <2>3 DEF OneLifeStep
<1> QED
  BY <1>5, <1>6, <1>8, <1>9 DEF Kept

-----------------------------------------------------------------------------------
(* The commands.                                                                   *)

LEMMA CommandCounts ==
  ASSUME Params, TypesOK, NEW n \in Nat, Command(n), spent.lives + n <= MaxLives
  PROVE  /\ spent' \in [commands : 0..MaxCommands, lives : 0..MaxLives]
         /\ spent'.lives = spent.lives + n
         /\ phase = "commands" /\ phase' = phase /\ living' = living
         /\ catchup = 0 /\ catchup' = catchup
BY Positive DEF Command, TypesOK

LEMMA QuietCommand ==
  ASSUME Params, SimInv, Command(0), Kin(entity', rested),
         UNCHANGED <<eggs, requests, life, rested>>
  PROVE  Kept
<1>1. /\ spent' \in [commands : 0..MaxCommands, lives : 0..MaxLives]
      /\ spent'.lives = spent.lives
      /\ phase = "commands" /\ UNCHANGED <<phase, catchup, living>>
  <2>1. spent.lives \in Nat /\ spent.lives <= MaxLives
    BY Positive DEF SimInv, TypesOK
  <2> QED
    BY <2>1, CommandCounts DEF SimInv
<1>2. TypesOK' /\ Kin(entity', rested')
  BY <1>1 DEF SimInv, TypesOK
<1> QED
  BY <1>1, <1>2, KinQuiet

\* A body that is taken or given back.
LEMMA Handed ==
  ASSUME Params, EntityOK, NEW m \in Monster, NEW x \in Entity,
         entity[m] # None, Sound(x, rested[m]),
         x.age = entity[m].age, x.deadFor = entity[m].deadFor,
         x.alive => entity[m].alive, entity' = [entity EXCEPT ![m] = x]
  PROVE  Kin(entity', rested)
<1>1. x # None
  BY NoRecord
<1>2. \A n \in Monster : entity'[n] = IF n = m THEN x ELSE entity[n]
  BY DEF EntityOK
<1>3. entity' \in [Monster -> Entity \cup {None}]
  BY DEF EntityOK
<1>4. ASSUME NEW n \in Monster
      PROVE  /\ entity'[n] = None <=> entity[n] = None
             /\ entity'[n] # None =>
                  /\ Sound(entity'[n], rested[n])
                  /\ entity'[n].age = entity[n].age
                  /\ entity'[n].deadFor = entity[n].deadFor
                  /\ entity'[n].alive => entity[n].alive
  <2>1. CASE n = m
    BY <1>1, <1>2, <2>1
  <2>2. CASE n # m
    BY <1>2, <2>2 DEF EntityOK
  <2> QED
    BY <2>1, <2>2
<1> QED
  BY <1>3, <1>4 DEF Kin

LEMMA TakenBody ==
  ASSUME NEW x \in Entity, NEW n \in Nat, Sound(x, n), x.alive,
         NEW b \in BOOLEAN, NEW i \in 0..Grace + 1
  PROVE  LET y == [x EXCEPT !.controlled = b, !.controlExpires = i]
             z == [x EXCEPT !.controlExpires = i]
         IN  /\ y \in Entity /\ Sound(y, n) /\ y.age = x.age
             /\ y.deadFor = x.deadFor /\ y.alive = x.alive
             /\ z \in Entity /\ Sound(z, n) /\ z.age = x.age
             /\ z.deadFor = x.deadFor /\ z.alive = x.alive
<1> DEFINE y == [x EXCEPT !.controlled = b, !.controlExpires = i]
           z == [x EXCEPT !.controlExpires = i]
<1>1. /\ y \in Entity /\ y.age = x.age /\ y.deadFor = x.deadFor
      /\ y.alive = x.alive /\ y.mateCooldown = x.mateCooldown
  BY DEF Entity
<1>2. /\ z \in Entity /\ z.age = x.age /\ z.deadFor = x.deadFor
      /\ z.alive = x.alive /\ z.mateCooldown = x.mateCooldown
  BY DEF Entity
<1> HIDE DEF y, z
<1>3. Sound(y, n) /\ Sound(z, n)
  BY <1>1, <1>2 DEF Sound
<1> QED
  BY <1>1, <1>2, <1>3 DEF y, z

LEMMA AttachStep ==
  ASSUME Params, SimInv, NEW m \in Monster, Attach(m) \/ Detach(m)
  PROVE  Kept
<1>1. /\ Command(0) /\ m \in Alive /\ UNCHANGED <<eggs, requests, life, rested>>
      /\ EntityOK /\ rested[m] \in Nat
  <2>1. Detach(m) => m \in Alive
    BY Sets DEF Detach, Controlled, Present, SimInv, EntityOK, Sound
  <2>2. rested[m] \in Nat
    BY Positive DEF SimInv, TypesOK
  <2> QED
    BY <2>1, <2>2 DEF Attach, Detach, SimInv
<1>2. /\ entity[m] # None /\ entity[m].alive /\ entity[m] \in Entity
      /\ Sound(entity[m], rested[m])
  BY <1>1, Sets DEF EntityOK, Sound
<1>3. 0 \in 0..Grace + 1 /\ Grace + 1 \in 0..Grace + 1 /\ TRUE \in BOOLEAN
  BY Positive
<1>4. \E x \in Entity :
        /\ entity' = [entity EXCEPT ![m] = x]
        /\ Sound(x, rested[m]) /\ x.age = entity[m].age
        /\ x.deadFor = entity[m].deadFor /\ x.alive = entity[m].alive
  <2>1. CASE Attach(m)
    <3> DEFINE x == [entity[m] EXCEPT !.controlled = TRUE, !.controlExpires = 0]
    <3>1. entity' = [entity EXCEPT ![m] = x]
      BY <2>1, <1>1 DEF Attach, EntityOK
    <3>2. /\ x \in Entity /\ Sound(x, rested[m]) /\ x.age = entity[m].age
          /\ x.deadFor = entity[m].deadFor /\ x.alive = entity[m].alive
      BY <1>1, <1>2, <1>3, TakenBody
    <3> QED
      BY <3>1, <3>2
  <2>2. CASE Detach(m)
    <3> DEFINE x == [entity[m] EXCEPT !.controlExpires = Grace + 1]
    <3>1. entity' = [entity EXCEPT ![m] = x]
      BY <2>2 DEF Detach
    <3>2. /\ x \in Entity /\ Sound(x, rested[m]) /\ x.age = entity[m].age
          /\ x.deadFor = entity[m].deadFor /\ x.alive = entity[m].alive
      BY <1>1, <1>2, <1>3, TakenBody
    <3> QED
      BY <3>1, <3>2
  <2> QED
    BY <2>1, <2>2
<1>5. Kin(entity', rested)
  BY <1>1, <1>2, <1>4, Handed
<1> QED
  BY <1>1, <1>5, QuietCommand

LEMMA FightStep ==
  ASSUME Params, SimInv, NEW m \in Monster, PerformAttack(m) \/ PerformBreath(m)
  PROVE  Kept
<1>1. Command(0) /\ UNCHANGED <<eggs, requests, life, rested>>
  BY DEF PerformAttack, PerformBreath
<1>2. entity' = entity \/ \E K : entity' = AfterKilling(K)
  BY DEF PerformAttack, PerformBreath
<1>3. Kin(entity, rested) /\ \A K : Kin(AfterKilling(K), rested)
  BY Killing DEF SimInv, EntityOK, Kin
<1>4. Kin(entity', rested)
  BY <1>2, <1>3
<1> QED
  BY <1>1, <1>4, QuietCommand

LEMMA KillingNobody ==
  ASSUME EntityOK
  PROVE  AfterKilling({}) = entity /\ Kin(entity, rested)
BY DEF EntityOK, AfterKilling, Kin

\* A pairing without deaths, of a command.
LEMMA PairingCommand ==
  ASSUME Params, SimInv, Command(0),
         NEW first \in Alive, NEW second \in Alive, first # second,
         MateReady(first), MateReady(second), Load < MaxPopulation,
         CompletePairing(first, second, entity), UNCHANGED life,
         requests' \in [Request -> RequestRecord \cup {None}],
         \A r \in Request : requests'[r] \in {None, requests[r]},
         \A r \in Asked : requests'[r] = None =>
           /\ requests[r].fromLife = life[requests[r].from]
           /\ requests[r].toLife = life[requests[r].to]
  PROVE  Kept
<1> DEFINE D == {}
<1>1. Cardinality(D) = 0 /\ Load \in Nat
  BY FS_EmptySet, LoadIsNat
<1>2. CompletePairing(first, second, AfterKilling(D))
  BY KillingNobody DEF SimInv, CompletePairing
<1>3. /\ spent' \in [commands : 0..MaxCommands, lives : 0..MaxLives]
      /\ spent'.lives = spent.lives
      /\ UNCHANGED <<phase, catchup>> /\ living' \subseteq Monster
  <2>1. spent.lives \in Nat /\ spent.lives <= MaxLives
    BY Positive DEF SimInv, TypesOK
  <2> QED
    BY <2>1, CommandCounts DEF SimInv, TypesOK
<1>4. D \in SUBSET Alive /\ first \in Alive \ D /\ second \in Alive \ D
  OBVIOUS
<1> HIDE DEF D
<1>5. Load - Cardinality(D) < MaxPopulation
  BY <1>1
<1> QED
  BY <1>2, <1>3, <1>4, <1>5, LayingStep

\* A request is made between two that live.
LEMMA AskStep ==
  ASSUME Params, SimInv, Command(0), NEW r \in Request \ Asked,
         NEW m \in Alive, NEW other \in Alive, m # other,
         requests' = [requests EXCEPT ![r] =
           [from |-> m, to |-> other, expiresIn |-> PAIR_REQUEST_TIMEOUT,
            fromLife |-> life[m], toLife |-> life[other]]],
         UNCHANGED <<entity, eggs, rested, life>>
  PROVE  Kept
<1>1. /\ m \in Monster /\ other \in Monster /\ entity[m] # None /\ entity[other] # None
      /\ life[m] \in 1..MaxLives + 1 /\ life[other] \in 1..MaxLives + 1
      /\ PAIR_REQUEST_TIMEOUT \in 0..PAIR_REQUEST_TIMEOUT
  BY Positive, Sets DEF SimInv, LivesOK, TypesOK
<1>2. PICK q \in RequestRecord :
        /\ q.from = m /\ q.to = other
        /\ q.fromLife = life[m] /\ q.toLife = life[other]
        /\ requests' = [requests EXCEPT ![r] = q]
  <2> DEFINE x == [from |-> m, to |-> other, expiresIn |-> PAIR_REQUEST_TIMEOUT,
                   fromLife |-> life[m], toLife |-> life[other]]
  <2>1. /\ x \in RequestRecord /\ x.from = m /\ x.to = other
        /\ x.fromLife = life[m] /\ x.toLife = life[other]
    BY <1>1 DEF RequestRecord
  <2>2. requests' = [requests EXCEPT ![r] = x]
    OBVIOUS
  <2> HIDE DEF x
  <2> QED
    BY <2>1, <2>2
<1>4. /\ spent' \in [commands : 0..MaxCommands, lives : 0..MaxLives]
      /\ spent'.lives = spent.lives
      /\ phase = "commands" /\ UNCHANGED <<phase, catchup>> /\ living' \subseteq Monster
  <2>1. spent.lives \in Nat /\ spent.lives <= MaxLives
    BY Positive DEF SimInv, TypesOK
  <2> QED
    BY <2>1, CommandCounts DEF SimInv, TypesOK
<1>5. /\ requests' \in [Request -> RequestRecord \cup {None}]
      /\ \A p \in Request : requests'[p] = IF p = r THEN q ELSE requests[p]
  BY <1>2 DEF SimInv, TypesOK
<1>6. TypesOK' /\ EntityOK' /\ LivesOK'
  BY <1>4, <1>5 DEF SimInv, TypesOK, EntityOK, LivesOK
<1>7. RequestOK(q)'
  BY <1>1, <1>2, <1>4 DEF RequestOK, SideOK
<1>8. Kin(entity', rested') /\ EntityOK
  BY KillingNobody DEF SimInv
<1>9. RequestsOK'
  <2> SUFFICES ASSUME NEW p \in Request, requests'[p] # None
               PROVE  \E x : x = requests'[p] /\ RequestOK(x)'
    BY DEF RequestsOK
  <2>1. CASE p = r
    BY <1>5, <1>7, <2>1
  <2>2. CASE p # r
    <3>1. requests'[p] = requests[p] /\ requests[p] # None
      BY <1>5, <2>2
    <3>2. PICK x \in RequestRecord : x = requests[p] /\ RequestOK(x)
      BY <3>1 DEF SimInv, RequestsOK, TypesOK
    <3>3. RequestOK(x)'
      BY <1>4, <1>8, <3>2, KinRequest
    <3> QED
      BY <3>1, <3>2, <3>3
  <2> QED
    BY <2>1, <2>2
<1>10. CapStep
  <2>1. Load' = Load /\ Load \in Nat
    BY LoadIsNat DEF Load, Alive, Present, Laid
  <2> QED
    BY <2>1 DEF CapStep
<1>11. RestStep /\ OneLifeStep
  BY NothingLaid DEF Laid
<1> QED
  BY <1>6, <1>9, <1>10, <1>11 DEF SimInv, Kept

LEMMA PairStep ==
  ASSUME Params, SimInv, NEW m \in Monster, NEW other \in Monster, Pair(m, other)
  PROVE  Kept
<1>1. /\ Command(0) /\ Load < MaxPopulation /\ MateReady(m) /\ MateReady(other)
      /\ m # other /\ m \in Alive /\ other \in Alive /\ UNCHANGED life
  BY DEF Pair, MateReady
<1>2. CASE other \in Controlled /\ {m, other} \subseteq Owned
  <2>1. PICK r \in Request \ Asked :
          requests' = [requests EXCEPT ![r] =
            [from |-> m, to |-> other, expiresIn |-> PAIR_REQUEST_TIMEOUT,
             fromLife |-> life[m], toLife |-> life[other]]]
    BY <1>2 DEF Pair
  <2>2. UNCHANGED <<entity, eggs, rested, life>>
    BY <1>2 DEF Pair
  <2> QED
    BY <1>1, <2>1, <2>2, AskStep
<1>3. CASE ~(other \in Controlled /\ {m, other} \subseteq Owned)
  <2>1. CompletePairing(m, other, entity) /\ requests' = requests
    BY <1>3 DEF Pair
  <2>2. /\ requests' \in [Request -> RequestRecord \cup {None}]
        /\ \A r \in Request : requests'[r] \in {None, requests[r]}
        /\ \A r \in Asked : requests'[r] # None
    BY <2>1 DEF SimInv, TypesOK, Asked
  <2> QED
    BY <1>1, <2>1, <2>2, PairingCommand
<1> QED
  BY <1>2, <1>3

\* A side of a request that may mate is in the life that made the request.
LEMMA SameLife ==
  ASSUME Params, NEW m \in Monster, NEW made, NEW left \in 0..PAIR_REQUEST_TIMEOUT,
         SideOK(m, made, left), MateReady(m), EntityOK, catchup = 0, phase = "commands"
  PROVE  life[m] = made
<1>1. entity[m].alive /\ entity[m].age = ADULT_AGE /\ entity[m] # None
  BY Sets DEF MateReady
<1>2. ~(entity[m].age + left <= PAIR_REQUEST_TIMEOUT)
  BY <1>1, Positive
<1>3. ~(entity[m].alive = FALSE)
  BY <1>1
<1>4. ~Catching(left)
  BY Positive DEF Catching
<1> QED
  BY <1>2, <1>3, <1>4 DEF SideOK

LEMMA RespondStep ==
  ASSUME Params, SimInv, NEW r \in Request, Respond(r)
  PROVE  Kept
<1> DEFINE from == requests[r].from
           to == requests[r].to
<1>1. /\ Command(0) /\ requests[r] \in RequestRecord /\ requests[r] # None
      /\ RequestOK(requests[r]) /\ UNCHANGED life
      /\ requests' = [requests EXCEPT ![r] = None]
  BY DEF Respond, Asked, SimInv, TypesOK, RequestsOK
<1>2. /\ from \in Monster /\ to \in Monster /\ from # to
      /\ requests[r].expiresIn \in 0..PAIR_REQUEST_TIMEOUT
      /\ SideOK(from, requests[r].fromLife, requests[r].expiresIn)
      /\ SideOK(to, requests[r].toLife, requests[r].expiresIn)
  BY <1>1 DEF RequestOK, RequestRecord
<1>3. /\ requests' \in [Request -> RequestRecord \cup {None}]
      /\ \A p \in Request : requests'[p] \in {None, requests[p]}
      /\ \A p \in Asked : requests'[p] = None => p = r
  BY <1>1 DEF SimInv, TypesOK, Asked
<1>4. CASE UNCHANGED <<entity, eggs, rested>>
  <2>1. /\ spent' \in [commands : 0..MaxCommands, lives : 0..MaxLives]
        /\ spent'.lives = spent.lives
        /\ UNCHANGED <<phase, catchup>> /\ living' \subseteq Monster
    <3>1. spent.lives \in Nat /\ spent.lives <= MaxLives
      BY Positive DEF SimInv, TypesOK
    <3> QED
      BY <1>1, <3>1, CommandCounts DEF SimInv, TypesOK
  <2>2. Kin(entity', rested')
    BY <1>4, KillingNobody DEF SimInv
  <2>3. TypesOK'
    BY <1>1, <1>3, <1>4, <2>1 DEF SimInv, TypesOK
  <2> QED
    BY <1>1, <1>3, <1>4, <2>1, <2>2, <2>3, KinQuiet
<1>5. CASE MateReady(from) /\ MateReady(to) /\ Load < MaxPopulation
           /\ CompletePairing(from, to, entity)
  <2>1. from \in Alive /\ to \in Alive
    BY <1>5 DEF MateReady
  <2>2. life[from] = requests[r].fromLife /\ life[to] = requests[r].toLife
    <3>1. catchup = 0 /\ phase = "commands"
      BY <1>1 DEF Command
    <3> QED
      BY <1>2, <1>5, <3>1, SameLife DEF SimInv
  <2>3. \A p \in Asked : requests'[p] = None =>
          /\ requests[p].fromLife = life[requests[p].from]
          /\ requests[p].toLife = life[requests[p].to]
    BY <1>3, <2>2
  <2> QED
    BY <1>1, <1>2, <1>3, <1>5, <2>1, <2>3, PairingCommand
<1> QED
  BY <1>4, <1>5 DEF Respond

-----------------------------------------------------------------------------------
(* The loop over the living, and the steps between ticks that bring nobody.        *)

LEMMA VisitStep ==
  ASSUME Params, SimInv, NEW m \in Monster, Visit(m)
  PROVE  Kept
<1>1. /\ m \in living /\ living' = living \ {m} /\ living' \subseteq Monster
      /\ UNCHANGED <<phase, catchup, requests, life, spent>>
      /\ requests' \in [Request -> RequestRecord \cup {None}]
      /\ spent' \in [commands : 0..MaxCommands, lives : 0..MaxLives]
      /\ spent'.lives = spent.lives
      /\ \A r \in Request : requests'[r] \in {None, requests[r]}
      /\ \A r \in Asked : requests'[r] # None
  BY DEF Visit, SimInv, TypesOK, Asked
<1>2. ASSUME Kin(entity', rested), UNCHANGED <<eggs, rested>>
      PROVE  Kept
  <2>1. TypesOK' /\ Kin(entity', rested')
    BY <1>1, <1>2 DEF SimInv, TypesOK
  <2> QED
    BY <1>1, <1>2, <2>1, KinQuiet
<1>3. Kin(entity, rested) /\ \A K : Kin(AfterKilling(K), rested)
  BY Killing, KillingNobody DEF SimInv
<1>4. CASE m \notin Alive
  BY <1>2, <1>3, <1>4 DEF Visit
<1>5. CASE m \in Alive /\ m \in Controlled
  BY <1>2, <1>3, <1>5 DEF Visit, ApplyPlayerMovement
<1>6. CASE m \in Alive /\ m \notin Controlled
  <2>1. PICK K \in Felled(m) :
          \/ entity' = AfterKilling(K) /\ UNCHANGED <<eggs, rested>>
          \/ AiMates(m, K)
    BY <1>6 DEF Visit, UpdateAiEntity
  <2>2. K \in SUBSET Alive
    BY <1>6 DEF Felled
  <2>3. CASE entity' = AfterKilling(K) /\ UNCHANGED <<eggs, rested>>
    BY <1>2, <1>3, <2>3
  <2>4. CASE AiMates(m, K)
    <3>1. PICK partner \in Alive \ (K \cup Controlled \cup {m}) :
            /\ m \notin K /\ MateReady(m) /\ MateReady(partner)
            /\ Load - Cardinality(K) < MaxPopulation
            /\ CompletePairing(m, partner, AfterKilling(K))
      BY <2>4 DEF AiMates
    <3>2. m \in Alive \ K /\ partner \in Alive \ K /\ m # partner
      BY <1>6, <3>1
    <3> QED
      BY <1>1, <2>2, <3>1, <3>2, LayingStep
  <2> QED
    BY <2>1, <2>3, <2>4
<1> QED
  BY <1>4, <1>5, <1>6

\* A keeper kills.
LEMMA KillStep ==
  ASSUME Params, SimInv, NEW m \in Monster, KillMonster(m)
  PROVE  Kept
<1>1. /\ Kin(entity', rested) /\ UNCHANGED <<phase, catchup, eggs, living, life, rested, spent>>
  BY Killing DEF KillMonster, SimInv
<1>2. /\ requests' \in [Request -> RequestRecord \cup {None}]
      /\ \A r \in Request : requests'[r] \in {None, requests[r]}
  BY DEF KillMonster, Expire, SimInv, TypesOK
<1>3. TypesOK' /\ Kin(entity', rested')
  BY <1>1, <1>2 DEF SimInv, TypesOK
<1> QED
  BY <1>1, <1>2, <1>3, KinQuiet

-----------------------------------------------------------------------------------
(* A tick begins.                                                                  *)

\* When nobody comes and no egg is laid, the cap is not in question.
LEMMA FewerCap ==
  ASSUME Params, Alive' \subseteq Alive, Laid' \subseteq Laid
  PROVE  CapStep
<1> DEFINE D == Alive \ Alive'
           T == Laid \ Laid'
           N == {}
<1>1. /\ Alive' = (Alive \ D) \cup N /\ D \in SUBSET Alive
      /\ Laid' = (Laid \ T) \cup N /\ T \in SUBSET Laid
      /\ N \in SUBSET Monster /\ N \cap Alive = {}
      /\ N \in SUBSET Egg /\ N \cap Laid = {}
  OBVIOUS
<1>2. Cardinality(N) = 0
  BY FS_EmptySet
<1> HIDE DEF D, T, N
<1>3. /\ Load' = Load - Cardinality(D) + Cardinality(N)
                      - Cardinality(T) + Cardinality(N)
      /\ Load \in Nat /\ Load' \in Nat
      /\ Cardinality(D) \in Nat /\ Cardinality(T) \in Nat
  BY <1>1, LoadAfter
<1> QED
  BY <1>2, <1>3 DEF CapStep

\* Control is taken off a body.
LEMMA CalmBody ==
  ASSUME Params, NEW x, NEW n, Sound(x, n)
  PROVE  LET y == [x EXCEPT !.controlled = FALSE, !.controlExpires = 0]
         IN  /\ Sound(y, n) /\ y.age = x.age /\ y.deadFor = x.deadFor
             /\ y.alive = x.alive
<1>1. x \in Entity /\ 0 \in 0..Grace + 1 /\ FALSE \in BOOLEAN
  BY Positive DEF Sound
<1> DEFINE y(b, i) == [x EXCEPT !.controlled = b, !.controlExpires = i]
<1>2. \A b \in BOOLEAN, i \in 0..Grace + 1 :
        /\ y(b, i) \in Entity /\ y(b, i).age = x.age /\ y(b, i).deadFor = x.deadFor
        /\ y(b, i).alive = x.alive /\ y(b, i).mateCooldown = x.mateCooldown
        /\ y(b, i).controlled = b /\ y(b, i).controlExpires = i
  BY <1>1 DEF Entity
<1> HIDE DEF y
<1>3. \A b \in BOOLEAN, i \in 0..Grace + 1 : b = FALSE /\ i = 0 => Sound(y(b, i), n)
  BY <1>2 DEF Sound
<1> QED
  BY <1>1, <1>2, <1>3 DEF y

\* The restored body: nobody has control, and the living are older.
LEMMA OlderBody ==
  ASSUME Params, NEW x, NEW k, Sound(x, k), NEW n \in 0..ADULT_AGE
  PROVE  LET y == [x EXCEPT !.controlled = FALSE, !.controlExpires = 0,
                            !.age = IF ~x.alive THEN @
                                    ELSE IF @ + n < ADULT_AGE THEN @ + n ELSE ADULT_AGE]
         IN  /\ Sound(y, k) /\ y \in Entity /\ y.deadFor = x.deadFor /\ y.alive = x.alive
             /\ n = 0 => y.age = x.age
<1>1. x \in Entity /\ 0 \in 0..Grace + 1 /\ FALSE \in BOOLEAN
  BY Positive DEF Sound
<1>2. PICK a \in 0..ADULT_AGE :
        /\ a = (IF ~x.alive THEN x.age
                ELSE IF x.age + n < ADULT_AGE THEN x.age + n ELSE ADULT_AGE)
        /\ n = 0 => a = x.age
  <2>1. x.age \in 0..ADULT_AGE /\ ADULT_AGE \in Nat
    BY <1>1, Positive DEF Entity
  <2> QED
    BY <2>1
<1> DEFINE y(b, i) == [x EXCEPT !.controlled = b, !.controlExpires = i, !.age = a]
<1>3. \A b \in BOOLEAN, i \in 0..Grace + 1 :
        /\ y(b, i) \in Entity /\ y(b, i).age = a /\ y(b, i).deadFor = x.deadFor
        /\ y(b, i).alive = x.alive /\ y(b, i).mateCooldown = x.mateCooldown
        /\ y(b, i).controlled = b /\ y(b, i).controlExpires = i
  BY <1>1 DEF Entity
<1>4. y(FALSE, 0) = [x EXCEPT !.controlled = FALSE, !.controlExpires = 0,
                       !.age = IF ~x.alive THEN @
                               ELSE IF @ + n < ADULT_AGE THEN @ + n ELSE ADULT_AGE]
  BY <1>1, <1>2 DEF Entity
<1> HIDE DEF y
<1>5. \A b \in BOOLEAN, i \in 0..Grace + 1 : b = FALSE /\ i = 0 => Sound(y(b, i), k)
  BY <1>3 DEF Sound
<1>6. PICK z : z = y(FALSE, 0)
  OBVIOUS
<1>7. /\ Sound(z, k) /\ z \in Entity /\ z.deadFor = x.deadFor /\ z.alive = x.alive
      /\ n = 0 => z.age = x.age
  BY <1>1, <1>2, <1>3, <1>5, <1>6
<1> QED
  BY <1>4, <1>6, <1>7

\* A restart.
LEMMA RestoreStep ==
  ASSUME Params, SimInv, Restore
  PROVE  Kept
<1>1. PICK n \in 0..ADULT_AGE, old \in SUBSET Alive :
        /\ entity' = Aged(n, old)
        /\ catchup' = IF n = 0 THEN 0 ELSE FINE_CATCHUP
  BY DEF Restore
<1>2. /\ phase = "idle" /\ catchup = 0
      /\ UNCHANGED <<phase, eggs, requests, living, life, rested, spent>>
  BY DEF Restore
<1> DEFINE es == AfterKilling(old)
           Calm(x) == [x EXCEPT !.controlled = FALSE, !.controlExpires = 0,
                                !.age = IF ~x.alive THEN @
                                        ELSE IF @ + n < ADULT_AGE THEN @ + n ELSE ADULT_AGE]
<1>3. Kin(es, rested)
  BY Killing DEF SimInv
<1>4. \A m \in Monster :
        entity'[m] = IF entity[m] # None THEN Calm(es[m]) ELSE None
  BY <1>1 DEF Aged, Present
<1>5. \A x, k : Sound(x, k) =>
        /\ Sound(Calm(x), k) /\ Calm(x) \in Entity /\ Calm(x).deadFor = x.deadFor
        /\ Calm(x).alive = x.alive /\ (n = 0 => Calm(x).age = x.age)
  BY OlderBody
<1>6. DOMAIN entity' = Monster /\ entity' = [m \in Monster |-> entity'[m]]
  BY <1>1 DEF Aged
<1> HIDE DEF es, Calm
<1>7. ASSUME NEW m \in Monster
      PROVE  /\ entity'[m] \in Entity \cup {None}
             /\ entity'[m] = None <=> entity[m] = None
             /\ entity'[m] # None =>
                  /\ Sound(entity'[m], rested[m])
                  /\ n = 0 => entity'[m].age = entity[m].age
                  /\ entity'[m].deadFor = entity[m].deadFor
                  /\ entity'[m].alive => entity[m].alive
  <2>1. CASE entity[m] = None
    BY <1>4, <2>1
  <2>2. CASE entity[m] # None
    <3>1. /\ es[m] # None /\ Sound(es[m], rested[m])
          /\ es[m].age = entity[m].age /\ es[m].deadFor = entity[m].deadFor
          /\ es[m].alive => entity[m].alive
      BY <1>3, <2>2 DEF Kin
    <3>2. entity'[m] = Calm(es[m])
      BY <1>4, <2>2
    <3>3. /\ Sound(Calm(es[m]), rested[m]) /\ Calm(es[m]) \in Entity
          /\ Calm(es[m]).deadFor = es[m].deadFor
          /\ Calm(es[m]).alive = es[m].alive
          /\ n = 0 => Calm(es[m]).age = es[m].age
      BY <1>5, <3>1
    <3> QED
      BY <2>2, <3>1, <3>2, <3>3, NoRecord
  <2> QED
    BY <2>1, <2>2
<1>8. entity' \in [Monster -> Entity \cup {None}]
  BY <1>6, <1>7
<1>9. catchup' \in 0..FINE_CATCHUP
  BY <1>1, Positive
<1>10. TypesOK' /\ spent'.lives = spent.lives
       /\ \A r \in Request : requests'[r] \in {None, requests[r]}
  BY <1>2, <1>9 DEF SimInv, TypesOK
<1>11. CASE n = 0
  <2>1. Kin(entity', rested')
    BY <1>2, <1>7, <1>8, <1>11 DEF Kin
  <2>2. catchup' = catchup
    BY <1>1, <1>2, <1>11
  <2> QED
    BY <1>2, <1>10, <2>1, <2>2, KinQuiet
<1>12. CASE n # 0
  <2>1. EntityOK' /\ LivesOK'
    BY <1>2, <1>7, <1>8 DEF EntityOK, LivesOK, SimInv
  <2>2. ASSUME NEW k \in 0..PAIR_REQUEST_TIMEOUT
        PROVE  Catching(k)'
    BY <1>1, <1>2, <1>12, Positive DEF Catching
  <2>3. ASSUME NEW q \in RequestRecord, RequestOK(q)
        PROVE  RequestOK(q)'
    <3>1. /\ q.from \in Monster /\ q.to \in Monster
          /\ q.expiresIn \in 0..PAIR_REQUEST_TIMEOUT
      BY DEF RequestRecord
    <3>2. entity[q.from] # None /\ entity[q.to] # None /\ Catching(q.expiresIn)'
      BY <2>2, <2>3, <3>1 DEF RequestOK, SideOK
    <3>3. /\ SideOK(q.from, q.fromLife, q.expiresIn)'
          /\ SideOK(q.to, q.toLife, q.expiresIn)'
      BY <1>7, <3>1, <3>2 DEF SideOK
    <3> QED
      BY <1>2, <2>3, <3>3 DEF RequestOK
  <2>4. RequestsOK'
    <3> SUFFICES ASSUME NEW r \in Request, requests'[r] # None
                 PROVE  \E q : q = requests'[r] /\ RequestOK(q)'
      BY DEF RequestsOK
    <3>1. PICK q \in RequestRecord : q = requests[r] /\ RequestOK(q)
      BY <1>2 DEF SimInv, RequestsOK, TypesOK
    <3> QED
      BY <1>2, <2>3, <3>1
  <2>5. CapStep
    <3>1. Alive' \subseteq Alive
      <4>1. \A m \in Monster : m \in Alive' <=> entity'[m] # None /\ entity'[m].alive
        BY DEF Alive, Present
      <4>2. Alive' \in SUBSET Monster
        BY DEF Alive, Present
      <4> QED
        BY <1>7, <4>1, <4>2, Sets
    <3>2. Laid' = Laid
      BY <1>2 DEF Laid
    <3> QED
      BY <3>1, <3>2, FewerCap
  <2>6. RestStep /\ OneLifeStep
    BY <1>2, NothingLaid DEF Laid
  <2> QED
    BY <1>10, <2>1, <2>4, <2>5, <2>6 DEF Kept, SimInv
<1> QED
  BY <1>11, <1>12

\* A tick of a body, and of the ticks since its last egg.
Tick(x) ==
  [x EXCEPT !.age = IF @ < ADULT_AGE /\ x.alive THEN @ + 1 ELSE @,
            !.mateCooldown = IF x.alive THEN Less(@) ELSE @,
            !.deadFor = IF x.alive \/ @ = CORPSE_LINGER THEN @ ELSE @ + 1,
            !.controlExpires = IF @ > 1 THEN @ - 1 ELSE @]

LEMMA TickedBody ==
  ASSUME Params, NEW x, NEW n \in 0..MATING_COOLDOWN, Sound(x, n)
  PROVE  /\ Sound(Tick(x), IF n < MATING_COOLDOWN THEN n + 1 ELSE n)
         /\ Tick(x).alive = x.alive
         /\ Tick(x).age <= x.age + 1
<1>1. x \in Entity
  BY DEF Sound
<1> DEFINE a == IF x.age < ADULT_AGE /\ x.alive THEN x.age + 1 ELSE x.age
           c == IF x.alive THEN Less(x.mateCooldown) ELSE x.mateCooldown
           d == IF x.alive \/ x.deadFor = CORPSE_LINGER THEN x.deadFor ELSE x.deadFor + 1
           e == IF x.controlExpires > 1 THEN x.controlExpires - 1 ELSE x.controlExpires
<1>2. a \in 0..ADULT_AGE /\ a <= x.age + 1
  BY <1>1, Positive DEF Entity
<1>3. c \in 0..MATING_COOLDOWN
  BY <1>1, Positive DEF Entity, Less
<1>4. d \in 0..CORPSE_LINGER
  BY <1>1, Positive DEF Entity
<1>5. e \in 0..Grace + 1
  BY <1>1, Positive DEF Entity
<1>6. Tick(x) = [x EXCEPT !.age = a, !.mateCooldown = c, !.deadFor = d,
                          !.controlExpires = e]
  BY <1>1 DEF Tick
<1>7. x.alive => d = x.deadFor
      /\ c + (IF n < MATING_COOLDOWN THEN n + 1 ELSE n) >= MATING_COOLDOWN
  BY <1>1, Positive DEF Sound, Entity, Less
<1>8. x.alive = FALSE => e = 0
  BY <1>1, Positive DEF Sound
<1> HIDE DEF a, c, d, e
<1>9. /\ Tick(x) \in Entity /\ Tick(x).age = a /\ Tick(x).mateCooldown = c
      /\ Tick(x).deadFor = d /\ Tick(x).controlExpires = e
      /\ Tick(x).alive = x.alive /\ Tick(x).controlled = x.controlled
  BY <1>1, <1>2, <1>3, <1>4, <1>5, <1>6 DEF Entity
<1>10. Sound(Tick(x), IF n < MATING_COOLDOWN THEN n + 1 ELSE n)
  <2>1. CASE x.alive
    <3>1. x.deadFor = 0
      BY <2>1 DEF Sound
    <3> QED
      BY <1>7, <1>9, <2>1, <3>1 DEF Sound
  <2>2. CASE x.alive = FALSE
    <3>1. x.controlled = FALSE
      BY <2>2 DEF Sound
    <3> QED
      BY <1>8, <1>9, <2>2, <3>1 DEF Sound
  <2> QED
    BY <1>1, <2>1, <2>2 DEF Entity
<1> QED
  BY <1>2, <1>9, <1>10
\* What a tick makes of the bodies: none comes or goes, none rises.
Ticked(es, rs) ==
  /\ es \in [Monster -> Entity \cup {None}]
  /\ \A m \in Monster :
       /\ es[m] = None <=> entity[m] = None
       /\ es[m] # None =>
            /\ Sound(es[m], rs[m])
            /\ es[m].age <= entity[m].age + 1
            /\ es[m].alive => entity[m].alive

LEMMA TickingBodies ==
  ASSUME Params, SimInv, TickBegins
  PROVE  Ticked(entity', rested') /\ rested' \in [Monster -> 0..MATING_COOLDOWN]
<1>1. PICK old \in SUBSET OfAge :
        entity' = [m \in Monster |->
          IF m \notin Present THEN None
          ELSE LET x == AfterKilling(old)[m] IN
               [x EXCEPT !.age = IF @ < ADULT_AGE /\ x.alive THEN @ + 1 ELSE @,
                         !.mateCooldown = IF x.alive THEN Less(@) ELSE @,
                         !.deadFor = IF x.alive \/ @ = CORPSE_LINGER THEN @ ELSE @ + 1,
                         !.controlExpires = IF @ > 1 THEN @ - 1 ELSE @]]
  BY DEF TickBegins
<1> DEFINE es == AfterKilling(old)
<1>2. Kin(es, rested)
  BY Killing DEF SimInv
<1>3. /\ entity' = [m \in Monster |-> IF m \notin Present THEN None ELSE Tick(es[m])]
      /\ \A m \in Monster :
           entity'[m] = IF entity[m] # None THEN Tick(es[m]) ELSE None
  BY <1>1 DEF Present, Tick
<1>4. /\ rested' = [m \in Monster |-> IF rested[m] < MATING_COOLDOWN THEN rested[m] + 1
                                      ELSE rested[m]]
      /\ rested \in [Monster -> 0..MATING_COOLDOWN]
  BY DEF TickBegins, SimInv, TypesOK
<1>5. /\ rested' \in [Monster -> 0..MATING_COOLDOWN]
      /\ \A m \in Monster :
           rested'[m] = IF rested[m] < MATING_COOLDOWN THEN rested[m] + 1 ELSE rested[m]
  BY <1>4, Positive
<1> HIDE DEF es
<1>6. ASSUME NEW m \in Monster
      PROVE  /\ entity'[m] \in Entity \cup {None}
             /\ entity'[m] = None <=> entity[m] = None
             /\ entity'[m] # None =>
                  /\ Sound(entity'[m], rested'[m])
                  /\ entity'[m].age <= entity[m].age + 1
                  /\ entity'[m].alive => entity[m].alive
  <2>1. CASE entity[m] = None
    BY <1>3, <2>1
  <2>2. CASE entity[m] # None
    <3>1. /\ es[m] # None /\ Sound(es[m], rested[m])
          /\ es[m].age = entity[m].age
          /\ es[m].alive => entity[m].alive
          /\ rested[m] \in 0..MATING_COOLDOWN
      BY <1>2, <1>4, <2>2 DEF Kin
    <3>2. entity'[m] = Tick(es[m])
      BY <1>3, <2>2
    <3>3. /\ Sound(Tick(es[m]), IF rested[m] < MATING_COOLDOWN THEN rested[m] + 1
                                ELSE rested[m])
          /\ Tick(es[m]).alive = es[m].alive /\ Tick(es[m]).age <= es[m].age + 1
      BY <3>1, TickedBody
    <3>4. Tick(es[m]) \in Entity
      BY <3>3 DEF Sound
    <3>5. Sound(Tick(es[m]), rested'[m])
      BY <1>5, <3>3
    <3> QED
      BY <2>2, <3>1, <3>2, <3>3, <3>4, <3>5, NoRecord
  <2> QED
    BY <2>1, <2>2
<1>7. entity' \in [Monster -> Entity \cup {None}]
  BY <1>3, <1>6
<1> QED
  BY <1>5, <1>6, <1>7 DEF Ticked

LEMMA TickedSide ==
  ASSUME Params, SimInv, Ticked(entity', rested'), UNCHANGED <<catchup, life>>,
         phase = "idle", phase' = "commands",
         NEW m \in Monster, NEW made, NEW left \in 1..PAIR_REQUEST_TIMEOUT,
         SideOK(m, made, left)
  PROVE  SideOK(m, made, left - 1)'
<1>1. entity[m] # None /\ entity[m] \in Entity /\ entity[m].age \in Nat
  BY Positive DEF SideOK, SimInv, EntityOK, Sound, Entity
<1>2. /\ entity'[m] # None /\ entity'[m] \in Entity /\ entity'[m].age \in Nat
      /\ entity'[m].age <= entity[m].age + 1
      /\ entity'[m].alive \in BOOLEAN /\ entity[m].alive \in BOOLEAN
      /\ entity'[m].alive => entity[m].alive
  BY <1>1, Positive DEF Ticked, Sound, Entity
<1>3. left \in Nat /\ left - 1 \in Nat /\ PAIR_REQUEST_TIMEOUT \in Nat
  BY Positive
<1>4. Catching(left) => Catching(left - 1)'
  BY <1>3 DEF Catching
<1> QED
  BY <1>1, <1>2, <1>3, <1>4 DEF SideOK

LEMMA TickStep ==
  ASSUME Params, SimInv, TickBegins
  PROVE  Kept
<1>1. Ticked(entity', rested') /\ rested' \in [Monster -> 0..MATING_COOLDOWN]
  BY TickingBodies
<1>2. /\ phase = "idle" /\ phase' = "commands" /\ UNCHANGED <<catchup, living, life>>
      /\ TypesOK
  BY DEF TickBegins, SimInv
<1>3. /\ spent' \in [commands : 0..MaxCommands, lives : 0..MaxLives]
      /\ spent'.lives = spent.lives
  <2>1. /\ spent' = [spent EXCEPT !.commands = 0] /\ 0 \in 0..MaxCommands
        /\ spent \in [commands : 0..MaxCommands, lives : 0..MaxLives]
    <3>1. spent' = [spent EXCEPT !.commands = 0]
      BY DEF TickBegins
    <3>2. 0 \in 0..MaxCommands
      BY Positive
    <3> QED
      BY <1>2, <3>1, <3>2 DEF TypesOK
  <2>2. \A i \in 0..MaxCommands :
          /\ [spent EXCEPT !.commands = i] \in [commands : 0..MaxCommands, lives : 0..MaxLives]
          /\ [spent EXCEPT !.commands = i].lives = spent.lives
    BY <2>1
  <2> QED
    BY <2>1, <2>2
<1>4. \A n, k \in Nat : n \in 0..k => Less(n) \in 0..k
  BY DEF Less
<1>5. /\ eggs' \in [Egg -> EggRecord \cup {None}]
      /\ Laid' = Laid
      /\ \A e \in Laid : eggs'[e] # None
      /\ \A e \in Egg \ Laid : eggs'[e] = None
  <2>1. eggs' = [e \in Egg |-> IF e \in Laid THEN [eggs[e] EXCEPT !.hatchIn = Less(@)]
                               ELSE None]
    BY DEF TickBegins
  <2>2. \A e \in Laid : eggs[e] \in EggRecord
    BY <1>2 DEF TypesOK, Laid
  <2>3. \A x \in EggRecord : [x EXCEPT !.hatchIn = Less(@)] \in EggRecord
    <3> TAKE x \in EggRecord
    <3>1. Less(x.hatchIn) \in 0..EGG_HATCH
      BY <1>4, Positive DEF EggRecord
    <3> QED
      BY <3>1 DEF EggRecord
  <2>4. \A e \in Laid : eggs'[e] \in EggRecord /\ eggs'[e] # None
    BY <2>1, <2>2, <2>3, NoRecord, Sets
  <2>5. \A e \in Egg \ Laid : eggs'[e] = None
    BY <2>1
  <2>6. eggs' \in [Egg -> EggRecord \cup {None}]
    BY <2>1, <2>4, <2>5
  <2>7. \A e \in Egg : e \in Laid' <=> eggs'[e] # None
    BY DEF Laid
  <2>8. Laid' \in SUBSET Egg /\ Laid \in SUBSET Egg
    BY DEF Laid
  <2> QED
    BY <2>4, <2>5, <2>6, <2>7, <2>8
<1>6. \A r \in Request :
        \/ requests'[r] = None
        \/ /\ requests[r] # None /\ requests[r] \in RequestRecord
           /\ requests'[r] = [requests[r] EXCEPT !.expiresIn = Less(@)]
  BY <1>2 DEF TickBegins, TypesOK, Asked
<1>7. ASSUME NEW q \in RequestRecord, RequestOK(q)
      PROVE  /\ [q EXCEPT !.expiresIn = Less(@)] \in RequestRecord
             /\ \E p \in RequestRecord :
                  p = [q EXCEPT !.expiresIn = Less(@)] /\ RequestOK(p)'
  <2>1. /\ q.expiresIn \in 1..PAIR_REQUEST_TIMEOUT /\ q.from \in Monster /\ q.to \in Monster
        /\ Less(q.expiresIn) = q.expiresIn - 1
        /\ q.expiresIn - 1 \in 0..PAIR_REQUEST_TIMEOUT
    BY <1>2, <1>7, Positive DEF RequestOK, RequestRecord, Less
  <2> DEFINE x == [q EXCEPT !.expiresIn = Less(@)]
  <2>2. /\ x \in RequestRecord /\ x.from = q.from /\ x.to = q.to
        /\ x.fromLife = q.fromLife /\ x.toLife = q.toLife
        /\ x.expiresIn = q.expiresIn - 1
    BY <2>1 DEF RequestRecord
  <2> HIDE DEF x
  <2>3. PICK p \in RequestRecord : p = x
    BY <2>2
  <2>4. /\ p.from = q.from /\ p.to = q.to
        /\ p.fromLife = q.fromLife /\ p.toLife = q.toLife
        /\ p.expiresIn = q.expiresIn - 1
    BY <2>2, <2>3
  <2>5. /\ SideOK(q.from, q.fromLife, q.expiresIn - 1)'
        /\ SideOK(q.to, q.toLife, q.expiresIn - 1)'
    BY <1>1, <1>2, <1>7, <2>1, TickedSide DEF RequestOK
  <2>6. RequestOK(p)'
    BY <1>2, <1>7, <2>4, <2>5 DEF RequestOK
  <2> QED
    BY <2>2, <2>3, <2>6 DEF x
<1>8. \A r \in Request : requests'[r] = None \/
        \E p \in RequestRecord : p = requests'[r] /\ RequestOK(p)'
  <2> TAKE r \in Request
  <2>1. CASE requests'[r] = None
    BY <2>1
  <2>2. CASE requests'[r] # None
    <3>1. /\ requests[r] # None /\ requests[r] \in RequestRecord
          /\ requests'[r] = [requests[r] EXCEPT !.expiresIn = Less(@)]
      BY <1>6, <2>2
    <3>2. PICK q \in RequestRecord : q = requests[r] /\ RequestOK(q)
      BY <3>1 DEF SimInv, RequestsOK
    <3>3. PICK p \in RequestRecord :
            p = [q EXCEPT !.expiresIn = Less(@)] /\ RequestOK(p)'
      BY <1>7, <3>2
    <3>4. requests'[r] = p
      BY <3>1, <3>2, <3>3
    <3> QED
      BY <3>3, <3>4
  <2> QED
    BY <2>1, <2>2
<1>9. requests' \in [Request -> RequestRecord \cup {None}]
  BY <1>8 DEF TickBegins
<1>10. TypesOK'
  BY <1>1, <1>2, <1>3, <1>5, <1>9 DEF TypesOK
<1>11. EntityOK' /\ LivesOK'
  BY <1>1, <1>2, <1>3 DEF Ticked, EntityOK, LivesOK, SimInv
<1>12. SimInv'
  <2>1. RequestsOK'
    BY <1>8 DEF RequestsOK
  <2> QED
    BY <1>10, <1>11, <2>1 DEF SimInv
<1>13. Alive' \subseteq Alive
  <2>1. \A m \in Monster : m \in Alive' <=> entity'[m] # None /\ entity'[m].alive
    BY DEF Alive, Present
  <2>2. Alive' \in SUBSET Monster
    BY DEF Alive, Present
  <2> QED
    BY <1>1, <2>1, <2>2, Sets DEF Ticked
<1>14. CapStep
  BY <1>5, <1>13, FewerCap
<1>15. RestStep /\ OneLifeStep
  BY <1>2, <1>5, NothingLaid
<1> QED
  BY <1>12, <1>14, <1>15 DEF Kept
-----------------------------------------------------------------------------------
(* Lives begin.                                                                    *)

\* Bodies that may also be taken away.
Mostly(es) ==
  /\ es \in [Monster -> Entity \cup {None}]
  /\ \A m \in Monster : es[m] # None =>
       /\ entity[m] # None /\ Sound(es[m], rested[m])
       /\ es[m].age = entity[m].age /\ es[m].deadFor = entity[m].deadFor
       /\ es[m].alive => entity[m].alive

\* Among the bodies es, the newborn of B.
Born(B, es, age, cooldown) ==
  /\ Mostly(es) /\ B \in SUBSET Monster
  /\ entity' = [m \in Monster |-> IF m \in B THEN Newborn(age, cooldown) ELSE es[m]]
  /\ Begun(B) /\ spent'.lives = spent.lives + Cardinality(B)

LEMMA BornBodies ==
  ASSUME Params, SimInv, NEW B, NEW es,
         NEW age \in 0..ADULT_AGE, NEW cooldown \in 0..MATING_COOLDOWN,
         Born(B, es, age, cooldown)
  PROVE  /\ EntityOK' /\ LivesOK'
         /\ life' \in [Monster -> 0..MaxLives + 1]
         /\ rested' \in [Monster -> 0..MATING_COOLDOWN]
         /\ \A m \in Monster :
              /\ m \in B => entity'[m] = Newborn(age, cooldown) /\ life'[m] = life[m] + 1
              /\ m \notin B => entity'[m] = es[m] /\ life'[m] = life[m]
         /\ Alive' = {m \in Monster : m \in B \/ (es[m] # None /\ es[m].alive)}
<1> DEFINE baby == Newborn(age, cooldown)
<1>1. /\ baby \in Entity /\ baby # None /\ baby.alive = TRUE
      /\ baby.mateCooldown = cooldown /\ baby.deadFor = 0
  BY NewbornEntity
<1> HIDE DEF baby
<1>2. Sound(baby, MATING_COOLDOWN)
  BY <1>1, Positive DEF Sound
<1>3. /\ entity' = [m \in Monster |-> IF m \in B THEN baby ELSE es[m]]
      /\ Mostly(es) /\ B \in SUBSET Monster
  BY DEF Born, baby
<1>4. /\ life' = [m \in Monster |-> IF m \in B THEN life[m] + 1 ELSE life[m]]
      /\ rested' = [m \in Monster |-> IF m \in B THEN MATING_COOLDOWN ELSE rested[m]]
      /\ spent.lives + Cardinality(B) <= MaxLives
      /\ spent'.lives = spent.lives + Cardinality(B)
  BY DEF Born, Begun
<1>5. /\ life \in [Monster -> 0..MaxLives + 1] /\ rested \in [Monster -> 0..MATING_COOLDOWN]
      /\ spent.lives \in Nat
      /\ \A m \in Monster : /\ life[m] <= spent.lives + 1
                            /\ entity[m] # None => life[m] >= 1
  BY Positive DEF SimInv, TypesOK, LivesOK
<1>6. Cardinality(B) \in Nat /\ \A m \in B : Cardinality(B) >= 1
  <2>1. IsFiniteSet(B) /\ Cardinality(B) \in Nat
    BY <1>3, Finite
  <2>2. B # {} => Cardinality(B) # 0
    BY <2>1, FS_EmptySet
  <2> QED
    BY <2>1, <2>2
<1>7. MATING_COOLDOWN \in 0..MATING_COOLDOWN /\ MaxLives \in Nat
  BY Positive
<1>8. /\ rested' \in [Monster -> 0..MATING_COOLDOWN]
      /\ \A m \in Monster : rested'[m] = IF m \in B THEN MATING_COOLDOWN ELSE rested[m]
  BY <1>4, <1>5, <1>7
<1>9. ASSUME NEW m \in Monster
      PROVE  /\ (IF m \in B THEN life[m] + 1 ELSE life[m]) \in 0..MaxLives + 1
             /\ (IF m \in B THEN life[m] + 1 ELSE life[m]) <= spent'.lives + 1
  BY <1>4, <1>5, <1>6, <1>7
<1>10. /\ life' \in [Monster -> 0..MaxLives + 1]
       /\ \A m \in Monster : life'[m] = IF m \in B THEN life[m] + 1 ELSE life[m]
  BY <1>4, <1>9
<1>11. /\ \A m \in Monster : entity'[m] = IF m \in B THEN baby ELSE es[m]
       /\ entity' \in [Monster -> Entity \cup {None}]
  BY <1>1, <1>3 DEF Mostly
<1>12. EntityOK'
  <2>1. ASSUME NEW m \in Monster, entity'[m] # None
        PROVE  Sound(entity'[m], rested'[m])
    BY <1>2, <1>3, <1>8, <1>11, <2>1 DEF Mostly
  <2> QED
    BY <1>11, <2>1 DEF EntityOK
<1>13. LivesOK'
  <2>1. ASSUME NEW m \in Monster
        PROVE  life'[m] <= spent'.lives + 1 /\ (entity'[m] # None => life'[m] >= 1)
    <3>1. life'[m] <= spent'.lives + 1
      BY <1>9, <1>10
    <3>2. CASE m \in B
      BY <1>5, <1>7, <1>10, <3>1, <3>2
    <3>3. CASE m \notin B
      <4>1. entity'[m] # None => entity[m] # None
        BY <1>3, <1>11, <3>3 DEF Mostly
      <4> QED
        BY <1>5, <1>10, <3>1, <3>3, <4>1
    <3> QED
      BY <3>2, <3>3
  <2> QED
    BY <2>1 DEF LivesOK
<1>14. Alive' = {m \in Monster : m \in B \/ (es[m] # None /\ es[m].alive)}
  <2>1. /\ \A m \in Monster : m \in Alive' <=> entity'[m] # None /\ entity'[m].alive
        /\ Alive' \in SUBSET Monster
    BY DEF Alive, Present
  <2>2. ASSUME NEW m \in Monster
        PROVE  m \in Alive' <=> m \in B \/ (es[m] # None /\ es[m].alive)
    BY <1>1, <1>11, <2>1
  <2> QED
    BY <2>1, <2>2
<1> QED
  BY <1>8, <1>10, <1>11, <1>12, <1>13, <1>14 DEF baby

\* A side of a request whose body stays, or in whose place a child begins.
\* What is over before the catch-up is stays so.
Steady == \A n \in Nat : Catching(n) => Catching(n)'

LEMMA BornSide ==
  ASSUME Params, SimInv, Steady, NEW B, NEW es,
         NEW age \in 0..ADULT_AGE, NEW cooldown \in 0..MATING_COOLDOWN,
         Born(B, es, age, cooldown),
         NEW m \in Monster, NEW made, NEW left \in 0..PAIR_REQUEST_TIMEOUT,
         SideOK(m, made, left), m \in B => age = 0, m \notin B => es[m] # None
  PROVE  SideOK(m, made, left)'
<1>1. /\ m \in B => entity'[m] = Newborn(age, cooldown)
      /\ m \notin B => entity'[m] = es[m] /\ life'[m] = life[m]
      /\ Mostly(es)
  BY BornBodies DEF Born
<1>2. /\ Newborn(age, cooldown) # None /\ Newborn(age, cooldown).age = age
  BY NewbornEntity
<1>5. Catching(left) => Catching(left)'
  BY Positive DEF Steady
<1>3. CASE m \in B
  <2>1. 0 + left <= PAIR_REQUEST_TIMEOUT
    BY Positive
  <2> QED
    BY <1>1, <1>2, <1>3, <2>1 DEF SideOK
<1>4. CASE m \notin B
  <2>1. /\ entity'[m] # None /\ entity'[m].age = entity[m].age
        /\ entity'[m].alive \in BOOLEAN
        /\ entity'[m].alive => entity[m].alive
        /\ life'[m] = life[m]
    BY <1>1, <1>4 DEF Mostly, Sound, Entity
  <2> QED
    BY <2>1, <1>5 DEF SideOK
<1> QED
  BY <1>3, <1>4

LEMMA BornRequests ==
  ASSUME Params, SimInv, Steady, NEW B, NEW es,
         NEW age \in 0..ADULT_AGE, NEW cooldown \in 0..MATING_COOLDOWN,
         Born(B, es, age, cooldown),
         \A r \in Request : requests'[r] \in {None, requests[r]},
         \A r \in Asked : requests'[r] # None =>
           /\ phase' # "commands" => requests[r].expiresIn > 0
           /\ \A m \in {requests[r].from, requests[r].to} :
                /\ m \in B => age = 0
                /\ m \notin B => es[m] # None
                /\ phase' = "entities" => NotGone(m)'
  PROVE  RequestsOK'
<1> SUFFICES ASSUME NEW r \in Request, requests'[r] # None
             PROVE  \E q : q = requests'[r] /\ RequestOK(q)'
  BY DEF RequestsOK
<1>1. /\ requests'[r] = requests[r] /\ requests[r] \in RequestRecord
      /\ requests[r] # None /\ r \in Asked
  BY DEF SimInv, TypesOK, Asked
<1>2. PICK q \in RequestRecord : q = requests[r] /\ RequestOK(q)
  BY <1>1 DEF SimInv, RequestsOK
<1>3. /\ q.from \in Monster /\ q.to \in Monster
      /\ q.expiresIn \in 0..PAIR_REQUEST_TIMEOUT
  BY DEF RequestRecord
<1>4. /\ phase' # "commands" => q.expiresIn > 0
      /\ \A m \in {q.from, q.to} :
           /\ m \in B => age = 0
           /\ m \notin B => es[m] # None
           /\ phase' = "entities" => NotGone(m)'
  BY <1>1, <1>2
<1>5. /\ SideOK(q.from, q.fromLife, q.expiresIn)'
      /\ SideOK(q.to, q.toLife, q.expiresIn)'
  BY <1>2, <1>3, <1>4, BornSide DEF RequestOK
<1>6. phase' = "entities" => NotGone(q.from)' /\ NotGone(q.to)'
  BY <1>4
<1>7. RequestOK(q)'
  BY <1>2, <1>4, <1>5, <1>6 DEF RequestOK
<1> QED
  BY <1>1, <1>2, <1>7

LEMMA KinMostly ==
  ASSUME NEW es, Kin(es, rested)
  PROVE  Mostly(es)
BY DEF Kin, Mostly

\* One life begins, and of K, which makes room, everyone dies.
LEMMA NewLifeBorn ==
  ASSUME Params, SimInv, NEW K \in SUBSET Alive, NEW m \in Monster \ Alive,
         NEW age \in 0..ADULT_AGE, NewLife(AfterKilling(K), m, age, 0),
         spent'.lives = spent.lives + 1
  PROVE  \E B : /\ B = {m} /\ Born(B, AfterKilling(K), age, 0)
                /\ Alive' = (Alive \ K) \cup B
                /\ Cardinality(B) = 1 /\ life'[m] # life[m]
<1> DEFINE B == {m}
           es == AfterKilling(K)
<1>1. /\ Kin(es, rested) /\ es \in [Monster -> Entity \cup {None}]
      /\ \A n \in Monster : es[n] # None /\ es[n].alive <=> n \in Alive \ K
  BY Killing DEF SimInv, Kin
<1>2. Cardinality(B) = 1 /\ B \in SUBSET Monster
  BY FS_Singleton
<1>3. /\ entity' = [es EXCEPT ![m] = Newborn(age, 0)] /\ Begun(B)
  BY DEF NewLife
<1>4. \A n : n \in B <=> n = m
  OBVIOUS
<1> HIDE DEF es, B
<1>5. entity' = [n \in Monster |-> IF n \in B THEN Newborn(age, 0) ELSE es[n]]
  BY <1>1, <1>3, <1>4
<1>6. Born(B, es, age, 0)
  BY <1>1, <1>2, <1>3, <1>5, KinMostly DEF Born
<1>7. 0 \in 0..MATING_COOLDOWN
  BY Positive
<1>8. /\ Alive' = {n \in Monster : n \in B \/ (es[n] # None /\ es[n].alive)}
      /\ life'[m] = life[m] + 1
  BY <1>4, <1>6, <1>7, BornBodies
<1>9. Alive' = (Alive \ K) \cup B
  BY <1>1, <1>2, <1>8, Sets
<1>10. life[m] \in Nat
  BY Positive DEF SimInv, TypesOK
<1>11. life'[m] # life[m]
  BY <1>8, <1>10
<1> QED
  BY <1>2, <1>6, <1>9, <1>11 DEF B, es
\* At the cap only what makes no room for it adds to the load.
LEMMA NewLifeCap ==
  ASSUME Params, NEW K \in SUBSET Alive, NEW B \in SUBSET Monster, B \cap Alive = {},
         Alive' = (Alive \ K) \cup B, Cardinality(B) = 1, eggs' = eggs,
         NEW m \in Monster, life'[m] # life[m],
         \/ m \notin Owned
         \/ Cardinality(K) = IF Load >= MaxPopulation /\ (Alive \ Owned) \ Controlled # {}
                             THEN 1 ELSE 0
  PROVE  CapStep
<1> DEFINE N == {}
<1>1. /\ Laid' = (Laid \ N) \cup N /\ N \in SUBSET Laid /\ N \in SUBSET Egg
      /\ N \cap Laid = {} /\ Cardinality(N) = 0
  BY FS_EmptySet DEF Laid
<1> HIDE DEF N
<1>2. /\ Load' = Load - Cardinality(K) + Cardinality(B)
                      - Cardinality(N) + Cardinality(N)
      /\ Load \in Nat /\ Load' \in Nat /\ Cardinality(K) \in Nat
  BY <1>1, LoadAfter
<1>3. MaxPopulation \in Nat
  BY Positive
<1>4. Load' = Load - Cardinality(K) + 1
  BY <1>1, <1>2
<1>5. CASE Load' > Load /\ ~(Load' <= MaxPopulation)
  <2>1. Cardinality(K) = 0 /\ Load >= MaxPopulation /\ Load' = Load + 1
    BY <1>2, <1>3, <1>4, <1>5
  <2>2. m \in Owned => (Alive \ Owned) \ Controlled = {}
    BY <2>1
  <2> QED
    BY <2>1, <2>2 DEF CapStep
<1> QED
  BY <1>5 DEF CapStep

LEMMA NewLifeStep ==
  ASSUME Params, SimInv, NEW K \in SUBSET Alive, NEW m \in Monster \ Alive,
         NEW age \in 0..ADULT_AGE, NewLife(AfterKilling(K), m, age, 0),
         UNCHANGED <<phase, catchup, eggs, requests, living>>, phase # "entities",
         spent' \in [commands : 0..MaxCommands, lives : 0..MaxLives],
         spent'.lives = spent.lives + 1,
         m \in Present => age = 0,
         \/ m \notin Owned
         \/ Cardinality(K) = IF Load >= MaxPopulation /\ (Alive \ Owned) \ Controlled # {}
                             THEN 1 ELSE 0
  PROVE  Kept
<1>1. PICK B : /\ B = {m} /\ Born(B, AfterKilling(K), age, 0)
               /\ Alive' = (Alive \ K) \cup B
               /\ Cardinality(B) = 1 /\ life'[m] # life[m]
  BY NewLifeBorn
<1>2. \A n : n \in B <=> n = m
  BY <1>1
<1>3. 0 \in 0..MATING_COOLDOWN /\ B \in SUBSET Monster /\ B \cap Alive = {}
  BY <1>2, Positive
<1>4. /\ EntityOK' /\ LivesOK' /\ life' \in [Monster -> 0..MaxLives + 1]
      /\ rested' \in [Monster -> 0..MATING_COOLDOWN]
  BY <1>1, <1>3, BornBodies
<1>5. TypesOK'
  BY <1>4 DEF SimInv, TypesOK
<1>6. Kin(AfterKilling(K), rested)
  BY Killing DEF SimInv
<1>7. \A r \in Request : requests'[r] \in {None, requests[r]}
  OBVIOUS
<1>8. ASSUME NEW r \in Asked
      PROVE  /\ phase' # "commands" => requests[r].expiresIn > 0
             /\ \A n \in {requests[r].from, requests[r].to} :
                  /\ n \in B => age = 0
                  /\ n \notin B => AfterKilling(K)[n] # None
                  /\ phase' = "entities" => NotGone(n)'
  <2>1. RequestOK(requests[r]) /\ requests[r] \in RequestRecord
    BY DEF Asked, SimInv, RequestsOK, TypesOK
  <2>2. \A n \in {requests[r].from, requests[r].to} :
          n \in Monster /\ entity[n] # None
    BY <2>1 DEF RequestOK, SideOK, RequestRecord
  <2>3. phase' # "commands" => requests[r].expiresIn > 0
    BY <2>1 DEF RequestOK
  <2>4. \A n \in {requests[r].from, requests[r].to} :
          /\ n \in B => age = 0
          /\ n \notin B => AfterKilling(K)[n] # None
    BY <1>2, <1>6, <2>2 DEF Kin, Present
  <2> QED
    BY <2>3, <2>4
<1>9. RequestsOK'
  <2>1. Steady
    BY DEF Steady, Catching
  <2> QED
    BY <1>1, <1>3, <1>7, <1>8, <2>1, BornRequests
<1>10. CapStep
  BY <1>1, <1>3, NewLifeCap
<1>11. RestStep /\ OneLifeStep
  BY NothingLaid DEF Laid
<1> QED
  BY <1>4, <1>5, <1>9, <1>10, <1>11 DEF Kept, SimInv

LEMMA SpawnStep ==
  ASSUME Params, SimInv, NEW m \in Monster, SpawnOwned(m) \/ SpawnWild(m)
  PROVE  Kept
<1>1. /\ Command(1) /\ m \in Monster \ Present /\ m \in Monster \ Alive
      /\ UNCHANGED <<eggs, requests>>
  BY Sets DEF SpawnOwned, SpawnWild
<1>2. spent.lives + 1 <= MaxLives
  <2>1. Cardinality({m}) = 1
    BY FS_Singleton
  <2>2. Begun({m})
    BY DEF SpawnOwned, SpawnWild, NewLife
  <2> QED
    BY <2>1, <2>2 DEF Begun
<1>3. /\ spent' \in [commands : 0..MaxCommands, lives : 0..MaxLives]
      /\ spent'.lives = spent.lives + 1
      /\ phase = "commands" /\ UNCHANGED <<phase, catchup, living>>
  BY <1>1, <1>2, CommandCounts DEF SimInv
<1>4. CASE SpawnOwned(m)
  <2>1. PICK K \in SUBSET ((Alive \ Owned) \ Controlled), age \in 0..ADULT_AGE :
          /\ Cardinality(K) = IF Load >= MaxPopulation /\ (Alive \ Owned) \ Controlled # {}
                              THEN 1 ELSE 0
          /\ NewLife(AfterKilling(K), m, age, 0)
    BY <1>4 DEF SpawnOwned
  <2>2. K \in SUBSET Alive
    OBVIOUS
  <2> QED
    BY <1>1, <1>3, <2>1, <2>2, NewLifeStep
<1>5. CASE SpawnWild(m)
  <2> DEFINE K == {}
  <2>1. /\ K \in SUBSET Alive /\ AfterKilling(K) = entity
    BY KillingNobody DEF SimInv
  <2>2. /\ NewLife(AfterKilling(K), m, ADULT_AGE, 0) /\ ADULT_AGE \in 0..ADULT_AGE
        /\ m \notin Owned
    BY <1>5, <2>1, Positive DEF SpawnWild
  <2> HIDE DEF K
  <2> QED
    BY <1>1, <1>3, <2>1, <2>2, NewLifeStep
<1> QED
  BY <1>4, <1>5

LEMMA RespawnStep ==
  ASSUME Params, SimInv, NEW m \in Monster, Respawn(m)
  PROVE  Kept
<1>1. /\ phase = "idle" /\ m \in Monster \ Alive
      /\ UNCHANGED <<phase, catchup, eggs, requests, living>>
      /\ spent' = [spent EXCEPT !.lives = @ + 1]
  BY DEF Respawn
<1>2. PICK K \in SUBSET Alive :
        /\ \/ m \notin Owned
           \/ Cardinality(K) = IF Load >= MaxPopulation /\ (Alive \ Owned) \ Controlled # {}
                               THEN 1 ELSE 0
        /\ NewLife(AfterKilling(K), m, 0, 0)
  <2>1. PICK V : V = IF m \in Owned THEN (Alive \ Owned) \ Controlled ELSE {}
    OBVIOUS
  <2>2. PICK K \in SUBSET V :
          /\ Cardinality(K) = IF Load >= MaxPopulation /\ V # {} THEN 1 ELSE 0
          /\ NewLife(AfterKilling(K), m, 0, 0)
    BY <2>1 DEF Respawn
  <2>3. V \subseteq Alive
    BY <2>1
  <2>4. m \in Owned => V = (Alive \ Owned) \ Controlled
    BY <2>1
  <2> QED
    BY <2>2, <2>3, <2>4
<1>3. spent.lives + 1 <= MaxLives
  <2>1. Cardinality({m}) = 1
    BY FS_Singleton
  <2> QED
    BY <1>2, <2>1 DEF Begun, NewLife
<1>4. spent \in [commands : 0..MaxCommands, lives : 0..MaxLives]
  BY DEF SimInv, TypesOK
<1>5. /\ spent' \in [commands : 0..MaxCommands, lives : 0..MaxLives]
      /\ spent'.lives = spent.lives + 1
  BY <1>1, <1>3, <1>4, Positive
<1>6. 0 \in 0..ADULT_AGE /\ K \in SUBSET Alive
  BY Positive
<1> QED
  BY <1>1, <1>2, <1>5, <1>6, NewLifeStep
-----------------------------------------------------------------------------------
(* The end of the commands: control is released, visitors come, requests expire.   *)

LEMMA ReleasedBodies ==
  ASSUME Params, SimInv
  PROVE  \E es : /\ es = [m \in Monster |-> Released(m)] /\ Kin(es, rested)
                 /\ \A m \in Monster :
                      /\ es[m] = Released(m)
                      /\ es[m] # None /\ es[m].alive <=> m \in Alive
<1> DEFINE Calm(x) == [x EXCEPT !.controlled = FALSE, !.controlExpires = 0]
           es == [m \in Monster |-> Released(m)]
<1>1. \A x, n : Sound(x, n) =>
        /\ Sound(Calm(x), n) /\ Calm(x).age = x.age /\ Calm(x).deadFor = x.deadFor
        /\ Calm(x).alive = x.alive
  BY CalmBody
<1>2. \A m \in Monster : es[m] = entity[m] \/ (entity[m] # None /\ es[m] = Calm(entity[m]))
  BY DEF Released, Present
<1>3. \A m \in Monster : es[m] = Released(m)
  OBVIOUS
<1> HIDE DEF Calm
<1>4. ASSUME NEW m \in Monster
      PROVE  /\ es[m] \in Entity \cup {None}
             /\ es[m] = None <=> entity[m] = None
             /\ es[m] # None =>
                  /\ Sound(es[m], rested[m])
                  /\ es[m].age = entity[m].age /\ es[m].deadFor = entity[m].deadFor
                  /\ es[m].alive = entity[m].alive
  <2>1. entity[m] = None \/ Sound(entity[m], rested[m])
    BY DEF SimInv, EntityOK
  <2>2. CASE es[m] = entity[m]
    BY <2>1, <2>2 DEF Sound
  <2>3. CASE entity[m] # None /\ es[m] = Calm(entity[m])
    <3>1. /\ Sound(es[m], rested[m])
          /\ es[m].age = entity[m].age /\ es[m].deadFor = entity[m].deadFor
          /\ es[m].alive = entity[m].alive
      BY <1>1, <2>1, <2>3
    <3>2. es[m] \in Entity
      BY <3>1 DEF Sound
    <3> QED
      BY <2>3, <3>1, <3>2, NoRecord
  <2> QED
    BY <1>2, <2>2, <2>3
<1>5. es \in [Monster -> Entity \cup {None}]
  BY <1>4
<1>6. Kin(es, rested)
  BY <1>4, <1>5 DEF Kin
<1>7. \A m \in Monster : es[m] # None /\ es[m].alive <=> m \in Alive
  BY <1>4, Sets
<1> QED
  BY <1>3, <1>6, <1>7

LEMMA SweepStep ==
  ASSUME Params, SimInv, Sweep
  PROVE  Kept
<1>1. PICK B \in SUBSET (Monster \ (Owned \cup Present)) :
        /\ B # {} => Load + Cardinality(B) <= MaxPopulation
        /\ entity' = [m \in Monster |->
             IF m \in B THEN Newborn(ADULT_AGE, MATING_COOLDOWN) ELSE Released(m)]
        /\ Begun(B) /\ spent' = [spent EXCEPT !.lives = @ + Cardinality(B)]
        /\ living' = Alive \cup B
  BY DEF Sweep
<1>2. /\ phase = "commands" /\ phase' = "entities" /\ Expire(entity) /\ eggs' = eggs
      /\ catchup' = catchup
  BY DEF Sweep
<1>3. PICK es : /\ es = [m \in Monster |-> Released(m)] /\ Kin(es, rested)
                /\ \A m \in Monster :
                     /\ es[m] = Released(m)
                     /\ es[m] # None /\ es[m].alive <=> m \in Alive
  BY ReleasedBodies
<1>4. entity' = [m \in Monster |->
        IF m \in B THEN Newborn(ADULT_AGE, MATING_COOLDOWN) ELSE es[m]]
  BY <1>1, <1>3
<1>5. /\ spent \in [commands : 0..MaxCommands, lives : 0..MaxLives]
      /\ spent' = [spent EXCEPT !.lives = @ + Cardinality(B)]
      /\ spent.lives + Cardinality(B) <= MaxLives /\ Cardinality(B) \in Nat
      /\ B \in SUBSET Monster
  BY <1>1, Finite DEF Begun, SimInv, TypesOK
<1>6. /\ spent' \in [commands : 0..MaxCommands, lives : 0..MaxLives]
      /\ spent'.lives = spent.lives + Cardinality(B)
  BY <1>5, Positive
<1>7. /\ ADULT_AGE \in 0..ADULT_AGE /\ MATING_COOLDOWN \in 0..MATING_COOLDOWN
  BY Positive
<1>8. Born(B, es, ADULT_AGE, MATING_COOLDOWN)
  BY <1>1, <1>3, <1>4, <1>5, <1>6, KinMostly DEF Born
<1>9. /\ EntityOK' /\ LivesOK' /\ life' \in [Monster -> 0..MaxLives + 1]
      /\ rested' \in [Monster -> 0..MATING_COOLDOWN]
      /\ \A m \in Monster : m \notin B => entity'[m] = es[m]
      /\ Alive' = {m \in Monster : m \in B \/ (es[m] # None /\ es[m].alive)}
  BY <1>7, <1>8, BornBodies
<1>10. Alive' = Alive \cup B
  BY <1>3, <1>5, <1>9, Sets
<1>11. /\ requests' \in [Request -> RequestRecord \cup {None}]
       /\ \A r \in Request : requests'[r] \in {None, requests[r]}
       /\ \A r \in Asked : requests'[r] # None =>
            /\ requests[r].expiresIn > 0
            /\ \A m \in {requests[r].from, requests[r].to} :
                 entity[m] # None /\ entity[m].alive
  <2>1. /\ requests' = [r \in Request |->
             IF r \in Remaining(entity) THEN requests[r] ELSE None]
        /\ requests \in [Request -> RequestRecord \cup {None}]
    BY <1>2 DEF Expire, SimInv, TypesOK
  <2>2. \A r \in Request : requests'[r] \in {None, requests[r]}
    BY <2>1
  <2>3. requests' \in [Request -> RequestRecord \cup {None}]
    BY <2>1
  <2>4. \A r \in Asked : requests'[r] # None => r \in Remaining(entity)
    BY <2>1 DEF Asked
  <2>5. \A r \in Remaining(entity) :
          /\ requests[r].expiresIn > 0
          /\ \A m \in {requests[r].from, requests[r].to} :
               entity[m] # None /\ entity[m].alive
    BY DEF Remaining
  <2> QED
    BY <2>2, <2>3, <2>4, <2>5
<1>12. TypesOK'
  <2>1. living' \subseteq Monster
    BY <1>1, <1>5, Sets
  <2> QED
    BY <1>2, <1>6, <1>9, <1>11, <2>1 DEF SimInv, TypesOK
<1>13. ASSUME NEW r \in Asked, requests'[r] # None
       PROVE  /\ phase' # "commands" => requests[r].expiresIn > 0
              /\ \A m \in {requests[r].from, requests[r].to} :
                   /\ m \in B => ADULT_AGE = 0
                   /\ m \notin B => es[m] # None
                   /\ phase' = "entities" => NotGone(m)'
  <2>1. requests[r].expiresIn > 0
    BY <1>11, <1>13
  <2>2. requests[r] \in RequestRecord
    BY DEF Asked, SimInv, TypesOK
  <2>3. ASSUME NEW m \in {requests[r].from, requests[r].to}
        PROVE  m \notin B /\ es[m] # None /\ NotGone(m)'
    <3>1. entity[m] # None /\ entity[m].alive /\ m \in Monster
      BY <1>11, <1>13, <2>2 DEF RequestRecord
    <3>2. m \notin B /\ es[m] # None
      BY <1>1, <1>3, <3>1 DEF Present, Kin
    <3>3. m \in Alive'
      BY <1>10, <3>1, Sets
    <3>4. entity'[m].alive
      BY <3>3 DEF Alive
    <3>5. entity'[m] \in Entity
      BY <1>3, <1>9, <3>1, <3>2 DEF Kin
    <3>6. entity'[m].alive = TRUE
      BY <3>4, <3>5 DEF Entity
    <3> QED
      BY <3>2, <3>6 DEF NotGone
  <2> QED
    BY <2>1, <2>3
<1>14. RequestsOK'
  <2>1. Steady
    BY <1>2 DEF Steady, Catching
  <2> QED
    BY <1>7, <1>8, <1>11, <1>13, <2>1, BornRequests
<1>15. CapStep
  <2> DEFINE N == {}
  <2>1. /\ Laid' = (Laid \ N) \cup N /\ N \in SUBSET Laid /\ N \in SUBSET Egg
        /\ N \cap Laid = {} /\ Cardinality(N) = 0 /\ N \in SUBSET Alive
        /\ Alive' = (Alive \ N) \cup B
    BY <1>2, <1>10, FS_EmptySet DEF Laid
  <2>2. B \cap Alive = {} /\ B \in SUBSET Monster
    BY <1>1, Sets
  <2> HIDE DEF N
  <2>3. /\ Load' = Load - Cardinality(N) + Cardinality(B)
                        - Cardinality(N) + Cardinality(N)
        /\ Load \in Nat /\ Load' \in Nat
    BY <2>1, <2>2, LoadAfter
  <2>4. B = {} => Cardinality(B) = 0
    BY FS_EmptySet
  <2>5. Load' = Load + Cardinality(B)
    BY <2>1, <2>3, <1>5
  <2> QED
    BY <1>1, <1>5, <2>3, <2>4, <2>5, Positive DEF CapStep
<1>16. RestStep /\ OneLifeStep
  BY <1>2, NothingLaid DEF Laid
<1> QED
  BY <1>9, <1>12, <1>14, <1>15, <1>16 DEF Kept, SimInv

-----------------------------------------------------------------------------------
(* The end of the tick: eggs hatch, and bodies are removed.                        *)

LEMMA TickEndsStep ==
  ASSUME Params, SimInv, TickEnds
  PROVE  Kept
<1>1. PICK T \in SUBSET Due :
        /\ Hatched(T)
        /\ eggs' = [e \in Egg |-> IF e \in T THEN None ELSE eggs[e]]
  BY DEF TickEnds
<1>2. /\ phase = "entities" /\ phase' = "idle" /\ UNCHANGED <<requests, living>>
      /\ catchup' = Less(catchup)
  BY DEF TickEnds
<1>22. catchup \in 0..FINE_CATCHUP /\ catchup' \in 0..FINE_CATCHUP /\ Steady
  <2>1. catchup \in 0..FINE_CATCHUP /\ FINE_CATCHUP \in Nat
    BY Positive DEF SimInv, TypesOK
  <2> QED
    BY <1>2, <2>1 DEF Less, Steady, Catching
<1>3. PICK B \in SUBSET (Monster \ (Owned \cup Present)) :
        /\ Cardinality(B) = Cardinality(T)
        /\ entity' = [m \in Monster |-> IF m \in B THEN Newborn(0, ADULT_AGE)
                                        ELSE IF m \in Gone THEN None ELSE entity[m]]
        /\ Begun(B) /\ spent' = [spent EXCEPT !.lives = @ + Cardinality(B)]
  BY <1>1 DEF Hatched
<1> DEFINE es == [m \in Monster |-> IF m \in Gone THEN None ELSE entity[m]]
<1>4. \A m \in Monster : entity[m] # None =>
        /\ Sound(entity[m], rested[m]) /\ entity[m] \in Entity
        /\ m \in Gone => entity[m].deadFor # 0 /\ entity[m].alive = FALSE
  <2> SUFFICES ASSUME NEW m \in Monster, entity[m] # None
               PROVE  /\ Sound(entity[m], rested[m]) /\ entity[m] \in Entity
                      /\ m \in Gone => entity[m].deadFor # 0 /\ entity[m].alive = FALSE
    OBVIOUS
  <2>1. Sound(entity[m], rested[m]) /\ entity[m] \in Entity
    BY DEF SimInv, EntityOK, Sound
  <2>2. m \in Gone => entity[m].deadFor # 0
    BY Positive DEF Gone
  <2>3. entity[m].alive \in BOOLEAN
    BY <2>1 DEF Entity
  <2> QED
    BY <2>1, <2>2, <2>3 DEF Sound
<1>5. /\ es \in [Monster -> Entity \cup {None}]
      /\ \A m \in Monster : es[m] = IF m \in Gone THEN None ELSE entity[m]
  BY DEF SimInv, EntityOK
<1>6. entity' = [m \in Monster |-> IF m \in B THEN Newborn(0, ADULT_AGE) ELSE es[m]]
  BY <1>3
<1> HIDE DEF es
<1>7. Mostly(es)
  BY <1>4, <1>5 DEF Mostly
<1>8. /\ spent \in [commands : 0..MaxCommands, lives : 0..MaxLives]
      /\ spent' = [spent EXCEPT !.lives = @ + Cardinality(B)]
      /\ spent.lives + Cardinality(B) <= MaxLives /\ Cardinality(B) \in Nat
      /\ B \in SUBSET Monster
  BY <1>3, Finite DEF Begun, SimInv, TypesOK
<1>9. /\ spent' \in [commands : 0..MaxCommands, lives : 0..MaxLives]
      /\ spent'.lives = spent.lives + Cardinality(B)
  BY <1>8, Positive
<1>10. 0 \in 0..ADULT_AGE /\ ADULT_AGE \in 0..MATING_COOLDOWN
  BY Positive
<1>11. Born(B, es, 0, ADULT_AGE)
  BY <1>3, <1>6, <1>7, <1>8, <1>9 DEF Born
<1>12. /\ EntityOK' /\ LivesOK' /\ life' \in [Monster -> 0..MaxLives + 1]
       /\ rested' \in [Monster -> 0..MATING_COOLDOWN]
       /\ \A m \in Monster : /\ m \in B => entity'[m] = Newborn(0, ADULT_AGE)
                             /\ m \notin B => entity'[m] = es[m]
       /\ Alive' = {m \in Monster : m \in B \/ (es[m] # None /\ es[m].alive)}
  BY <1>10, <1>11, BornBodies
<1>13. Alive' = Alive \cup B
  <2>1. ASSUME NEW m \in Monster
        PROVE  es[m] # None /\ es[m].alive <=> m \in Alive
    BY <1>4, <1>5, Sets
  <2> QED
    BY <1>8, <1>12, <2>1, Sets
<1>14. T \in SUBSET Laid /\ \A e \in T : e \in Egg /\ eggs[e] # None
  BY DEF Due, Laid
<1>15. /\ \A e \in Egg : eggs'[e] = IF e \in T THEN None ELSE eggs[e]
       /\ eggs' \in [Egg -> EggRecord \cup {None}]
  BY <1>1 DEF SimInv, TypesOK
<1>16. Laid' = Laid \ T
  <2>1. \A e \in Egg : e \in Laid' <=> eggs'[e] # None
    BY DEF Laid
  <2>2. Laid' \in SUBSET Egg
    BY DEF Laid
  <2> QED
    BY <1>14, <1>15, <2>1, <2>2 DEF Laid
<1>17. TypesOK'
  BY <1>2, <1>9, <1>12, <1>15, <1>22 DEF SimInv, TypesOK
<1>18. RequestsOK'
  <2>1. ASSUME NEW r \in Asked
        PROVE  /\ phase' # "commands" => requests[r].expiresIn > 0
               /\ \A m \in {requests[r].from, requests[r].to} :
                    /\ m \in B => 0 = 0
                    /\ m \notin B => es[m] # None
                    /\ phase' = "entities" => NotGone(m)'
    <3>1. RequestOK(requests[r]) /\ requests[r] \in RequestRecord
      BY DEF Asked, SimInv, RequestsOK, TypesOK
    <3>2. requests[r].expiresIn > 0
      BY <1>2, <3>1 DEF RequestOK
    <3>3. ASSUME NEW m \in {requests[r].from, requests[r].to}
          PROVE  es[m] # None
      <4>1. m \in Monster /\ entity[m] # None /\ NotGone(m)
        BY <1>2, <3>1 DEF RequestOK, SideOK, RequestRecord
      <4> QED
        BY <1>4, <1>5, <4>1 DEF NotGone
    <3> QED
      BY <1>2, <3>2, <3>3
  <2>2. \A r \in Request : requests'[r] \in {None, requests[r]}
    BY <1>2
  <2> QED
    BY <1>10, <1>11, <1>22, <2>1, <2>2, BornRequests
<1>19. CapStep
  <2> DEFINE N == {}
  <2>1. /\ Laid' = (Laid \ T) \cup N /\ N \in SUBSET Egg
        /\ N \cap Laid = {} /\ Cardinality(N) = 0 /\ N \in SUBSET Alive
        /\ Alive' = (Alive \ N) \cup B
    BY <1>13, <1>16, FS_EmptySet
  <2>2. B \cap Alive = {} /\ B \in SUBSET Monster
    BY Sets
  <2> HIDE DEF N
  <2>3. /\ Load' = Load - Cardinality(N) + Cardinality(B)
                        - Cardinality(T) + Cardinality(N)
        /\ Load \in Nat /\ Load' \in Nat
    BY <1>14, <2>1, <2>2, LoadAfter
  <2>4. Load' = Load
    BY <1>3, <1>8, <2>1, <2>3
  <2> QED
    BY <2>3, <2>4 DEF CapStep
<1>21. RestStep /\ OneLifeStep
  <2>1. \A e \in Egg \ Laid : eggs'[e] = None
    BY <1>15 DEF Laid
  <2> QED
    BY <2>1, NothingLaid
<1> QED
  BY <1>12, <1>17, <1>18, <1>19, <1>21 DEF Kept, SimInv
-----------------------------------------------------------------------------------
(* The invariant and the theorems.                                                 *)

LEMMA InitHolds ==
  ASSUME Params, Init
  PROVE  SimInv
<1> DEFINE adult == Newborn(ADULT_AGE, 0)
<1>1. ADULT_AGE \in 0..ADULT_AGE /\ 0 \in 0..MATING_COOLDOWN
      /\ MATING_COOLDOWN \in 0..MATING_COOLDOWN
  BY Positive
<1>2. /\ adult \in Entity /\ adult # None /\ adult.alive = TRUE
      /\ adult.mateCooldown = 0 /\ adult.deadFor = 0
  BY <1>1, NewbornEntity
<1>3. entity \in [Monster -> {None, adult}]
  BY DEF Init
<1> HIDE DEF adult
<1>4. rested = [m \in Monster |-> MATING_COOLDOWN]
      /\ life = [m \in Monster |-> IF m \in Present THEN 1 ELSE 0]
      /\ spent = [commands |-> 0, lives |-> 0]
  BY DEF Init
<1>5. Sound(adult, MATING_COOLDOWN)
  BY <1>2, Positive DEF Sound
<1>6. EntityOK
  BY <1>2, <1>3, <1>4, <1>5 DEF EntityOK
<1>7. TypesOK
  <2>1. /\ phase \in {"idle", "commands", "entities"} /\ living \subseteq Monster
        /\ catchup = 0
        /\ eggs \in [Egg -> EggRecord \cup {None}]
        /\ requests \in [Request -> RequestRecord \cup {None}]
    BY DEF Init
  <2>2. /\ 0 \in 0..MaxLives + 1 /\ 1 \in 0..MaxLives + 1
        /\ 0 \in 0..MaxCommands /\ 0 \in 0..MaxLives /\ 0 \in 0..FINE_CATCHUP
    BY Positive
  <2> QED
    BY <1>1, <1>4, <2>1, <2>2 DEF TypesOK
<1>8. LivesOK
  BY <1>4 DEF LivesOK, Present
<1>9. RequestsOK
  BY DEF Init, RequestsOK
<1> QED
  BY <1>6, <1>7, <1>8, <1>9 DEF SimInv

LEMMA NextStep ==
  ASSUME Params, SimInv, Next
  PROVE  Kept
<1>1. CASE Loop
  BY <1>1, TickStep, SweepStep, VisitStep, TickEndsStep DEF Loop
<1>2. CASE Commands
  BY <1>2, SpawnStep, AttachStep, FightStep, PairStep, RespondStep DEF Commands
<1>3. CASE \E m \in Monster : KillMonster(m) \/ Respawn(m)
  BY <1>3, KillStep, RespawnStep
<1>4. CASE Restore
  BY <1>4, RestoreStep
<1> QED
  BY <1>1, <1>2, <1>3, <1>4 DEF Next

LEMMA StutterStep ==
  ASSUME Params, SimInv, UNCHANGED vars
  PROVE  Kept
<1>1. UNCHANGED <<phase, catchup, entity, eggs, requests, living, life, rested, spent>>
  BY DEF vars, world
<1>2. Kin(entity', rested')
  BY <1>1, KillingNobody DEF SimInv
<1>3. TypesOK' /\ spent'.lives = spent.lives
      /\ \A r \in Request : requests'[r] \in {None, requests[r]}
  BY <1>1 DEF SimInv, TypesOK
<1> QED
  BY <1>1, <1>2, <1>3, KinQuiet

LEMMA ParamsHold == Params
BY SimulationConstants, NoneIsNoRecord DEF Params

LEMMA Invariance == Spec => []SimInv
<1>1. Init => SimInv
  BY InitHolds, ParamsHold
<1>2. SimInv /\ [Next]_vars => SimInv'
  BY NextStep, StutterStep, ParamsHold DEF Kept
<1> QED
  BY <1>1, <1>2, PTL DEF Spec

LEMMA StepsKept == SimInv /\ [Next]_vars => Kept
BY NextStep, StutterStep, ParamsHold

\* The types: entities, eggs and requests are records whose counters stay within
\* their bounds, whatever the order of the commands and of the visits.
THEOREM SimulationTypeCorrect == Spec => []TypeOK
<1>1. SimInv => TypeOK
  BY DEF SimInv, TypesOK, EntityOK, TypeOK
<1> QED
  BY <1>1, Invariance, PTL

\* No dead body has a controller or a grace period that would hand it back: every
\* path of killEntity clears both, and none but the living are attached or detached.
THEOREM DeadStayInert == Spec => []DeadAreInert
<1>1. SimInv => DeadAreInert
  <2> SUFFICES ASSUME SimInv, NEW m \in Present \ Alive
               PROVE  ~entity[m].controlled /\ entity[m].controlExpires = 0
    BY DEF DeadAreInert
  <2>1. m \in Monster /\ entity[m] # None /\ ~entity[m].alive
    BY Sets
  <2>2. Sound(entity[m], rested[m])
    BY <2>1 DEF SimInv, EntityOK
  <2> QED
    BY <2>1, <2>2 DEF Sound
<1> QED
  BY <1>1, Invariance, PTL

\* The cap of settings.maxPopulation, of any size: whatever is laid, hatched or
\* visiting stays under it, and only a spawn that found nobody to make room goes over.
THEOREM CapAlwaysKept == Spec => CapKept
<1>1. SimInv /\ [Next]_vars => CapStep
  BY StepsKept DEF Kept
<1> QED
  BY <1>1, Invariance, PTL DEF Spec, CapKept, CapStep

\* A parent of an egg is at rest: MATING_COOLDOWN ticks lie between two of its eggs.
THEOREM ParentsRecover == Spec => LaysOncePerCooldown
<1>1. SimInv /\ [Next]_vars => RestStep
  BY StepsKept DEF Kept
<1> QED
  BY <1>1, Invariance, PTL DEF Spec, LaysOncePerCooldown, RestStep

\* The two parents of an egg are alive, and an accepted request binds the lives that
\* made it: a newer life is too young for as long as the request can be answered.
THEOREM RequestsBindOneLife == Spec => AcceptedInOneLife
<1>1. SimInv /\ [Next]_vars => OneLifeStep
  BY StepsKept DEF Kept
<1> QED
  BY <1>1, Invariance, PTL DEF Spec, AcceptedInOneLife, OneLifeStep
===================================================================================
