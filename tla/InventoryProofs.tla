------------------------------ MODULE InventoryProofs ------------------------------
(* Proofs about Inventory: nothing that a device or an account has is lost or *)
(* moves without them, what a device selected stays within its reach, and the *)
(* quota is kept by whatever counts it.                                       *)
EXTENDS Inventory, PrefixInduction, SequenceTheorems, TLAPS, FiniteSetTheorems

Tables ==
  /\ device \in [Guest -> Account \cup {None}]
  /\ row \in [Monster -> Row \cup {None}]
  /\ selected \in [Guest -> Monster \cup {None}]
  /\ unchecked \subseteq Monster
  /\ spent \in [calls : 0..MaxCalls, faults : 0..MaxFaults]

\* (The queue and the live bodies have an invariant of their own, LiveOK, below.)
World == mode \in {"running", "starting", "down"}

\* The device, or some account, can get the monster back.
Reach(g, m) == row[m] # None /\ (row[m].ownerId = g \/ row[m].accountOwnerId # None)

\* What the handlers have checked by the time a request x is where it is.
Served(x) ==
  /\ x.pc \in {"lock", "insert"} => x.guest \in Guest /\ x.dna \in Dna
  /\ x.pc \in {"write", "sync", "enter", "announce"} => x.id \in Monster /\ x.dna \in Dna
  /\ x.pc \in {"rebind", "choose", "bind", "move"} => x.guest \in Guest /\ x.id \in Monster
  /\ x.pc \in {"mutate", "mutating"} =>
       /\ x.id \in Monster /\ x.service \in {"respawn", "adminSpawn", "adminKill"}
       /\ IF x.service = "respawn" THEN x.guest \in Guest ELSE x.guest = None
       /\ x.service # "adminKill" => x.dna \in Dna
  /\ x.pc = "lost" => /\ x.id \in Monster /\ x.service = "respawn"
                      /\ x.dna \in Dna /\ x.guest \in Guest
  /\ x.pc \in {"store", "keep"} => x.dna \in Dna
  /\ x.pc \in {"transfer", "memberships", "unbind"} => x.guest \in Guest /\ x.account \in Account

\* A request that moves a monster to its device may do so.
Moves(x) ==
  \/ x.pc \in {"rebind", "choose", "bind", "move"}
  \/ x.pc \in {"mutate", "mutating", "lost"} /\ x.service = "respawn"
MoverOK(x) ==
  /\ Moves(x) => Reach(x.guest, x.id)
  /\ x.pc = "rebind" => row[x.id].accountOwnerId # None

\* A request whose transaction holds the row of its device.
Holds(x) ==
  \/ x.pc \in {"insert", "bind", "move", "transfer", "memberships", "unbind"}
  \/ x.pc \in {"mutate", "mutating"} /\ x.service = "respawn"

\* A claim found the device free or its own, a release its own.
HolderOK(x) ==
  /\ x.pc = "transfer" => device[x.guest] \in {None, x.account}
  /\ x.pc \in {"memberships", "unbind"} => device[x.guest] = x.account

\* The living monsters of a device that count.
Counted(g) == Living(g) \ unchecked

\* A request that counted has room for one monster more.
RoomOK(x) ==
  /\ x.pc = "insert" => Cardinality(Counted(x.guest)) < MAX_OWNED_MONSTERS
  /\ x.pc = "move" \/ (x.pc \in {"mutate", "mutating"} /\ x.service = "respawn") =>
       Cardinality(Counted(x.guest) \ {x.id}) < MAX_OWNED_MONSTERS

CallsOK ==
  /\ call \in [Call -> Request \cup {None}]
  /\ \A c \in Call : call[c] # None =>
       Served(call[c]) /\ MoverOK(call[c]) /\ HolderOK(call[c]) /\ RoomOK(call[c])

\* The lock of a device is held by the one request that entered its transaction.
LocksOK ==
  /\ locked \in [Guest -> Call \cup {None}]
  /\ \A c \in Call : call[c] # None /\ Holds(call[c]) => locked[call[c].guest] = c
  /\ \A g \in Guest : locked[g] # None =>
       /\ call[locked[g]] # None /\ Holds(call[locked[g]]) /\ call[locked[g]].guest = g

SelectionsOK == \A g \in Guest : selected[g] # None => Reach(g, selected[g])

QuotaOK == \A g \in Guest : Cardinality(Counted(g)) <= MAX_OWNED_MONSTERS

InventoryInv == Tables /\ World /\ CallsOK /\ LocksOK /\ SelectionsOK /\ QuotaOK
Params == InventoryConstants /\ NoneIsNoRecord

LEMMA ParamsHold == Params
BY InventoryConstants, NoneIsNoRecord DEF Params

LEMMA Nones ==
  ASSUME Params
  PROVE  /\ None \notin Guest /\ None \notin Account /\ None \notin Monster
         /\ None \notin Dna /\ None \notin Call
         /\ None \notin Row /\ None \notin Body /\ None \notin Request
         /\ MAX_OWNED_MONSTERS \in Nat /\ MaxCalls \in Nat /\ MaxFaults \in Nat
BY DEF Params, InventoryConstants, NoneIsNoRecord

-----------------------------------------------------------------------------------
(* What a step may do: the properties of the steps, as the runs check them.        *)

SavedStep == \A m \in Monster : Saved(m) => Saved(m)'

LocalStep ==
  \A m \in Monster :
    Saved(m) /\ row[m].accountOwnerId = None => row'[m].ownerId = row[m].ownerId

HeldStep ==
  \A g \in Guest : device[g] # None /\ device'[g] # device[g] =>
    /\ device'[g] = None
    /\ \E c \in Call : /\ At(c, "unbind") /\ call[c].guest = g
                       /\ call[c].account = device[g]

HistoryStep ==
  \A m \in Monster : Exists(m) /\ row'[m] # None /\ row[m].ownerId # None =>
    /\ row'[m].accountOwnerId # row[m].accountOwnerId =>
         /\ row[m].accountOwnerId = None
         /\ row'[m].accountOwnerId = device'[row[m].ownerId]
    /\ row'[m].ownerId = None =>
         /\ device[row[m].ownerId] = row[m].accountOwnerId
         /\ device'[row[m].ownerId] = None

Kept == InventoryInv' /\ SavedStep /\ LocalStep /\ HeldStep /\ HistoryStep

-----------------------------------------------------------------------------------
(* Requests and their locks.                                                       *)

\* One request moves on, or (c is None) no request does.
Turn(c, y) ==
  /\ \A d \in Call : call'[d] = IF d = c THEN y ELSE call[d]
  /\ call' \in [Call -> Request \cup {None}]

\* What is within reach stays so, and a monster of an account stays one.
ReachStays ==
  \A m \in Monster :
    /\ \A g \in Guest : Reach(g, m) => Reach(g, m)'
    /\ row[m] # None /\ row[m].accountOwnerId # None =>
         row'[m] # None /\ row'[m].accountOwnerId # None

\* Only the devices that c has locked change hands or gain a monster that counts.
OthersStay(c) ==
  \A g \in Guest :
    \/ device'[g] = device[g] /\ Counted(g)' \subseteq Counted(g)
    \/ locked[g] = c

LEMMA CountedFinite ==
  ASSUME Params
  PROVE  \A g : /\ IsFiniteSet(Counted(g)) /\ Cardinality(Counted(g)) \in Nat
                /\ \A S \in SUBSET Counted(g) :
                     /\ IsFiniteSet(S) /\ Cardinality(S) \in Nat
                     /\ Cardinality(S) <= Cardinality(Counted(g))
<1> SUFFICES ASSUME NEW g
             PROVE  /\ IsFiniteSet(Counted(g)) /\ Cardinality(Counted(g)) \in Nat
                    /\ \A S \in SUBSET Counted(g) :
                         /\ IsFiniteSet(S) /\ Cardinality(S) \in Nat
                         /\ Cardinality(S) <= Cardinality(Counted(g))
  OBVIOUS
<1>1. Counted(g) \in SUBSET Monster /\ IsFiniteSet(Monster)
  BY DEF Counted, Living, Owned, Params, InventoryConstants
<1> HIDE DEF Counted
<1>2. IsFiniteSet(Counted(g)) /\ Cardinality(Counted(g)) \in Nat
  BY <1>1, FS_Subset, FS_CardinalityType
<1> QED
  BY <1>2, FS_Subset, FS_CardinalityType

\* The size of a smaller set.
LEMMA Fewer ==
  ASSUME NEW S, NEW T, IsFiniteSet(T), S \subseteq T, NEW k \in Nat,
         Cardinality(T) < k
  PROVE  Cardinality(S) < k
BY FS_Subset, FS_CardinalityType

\* What a request of another has checked stays true.
LEMMA Others ==
  ASSUME Params, InventoryInv, NEW c, ReachStays, OthersStay(c),
         NEW d \in Call, d # c, NEW x \in Request, x = call[d]
  PROVE  Served(x) /\ MoverOK(x)' /\ HolderOK(x)' /\ RoomOK(x)'
<1>1. x # None /\ Served(x) /\ MoverOK(x) /\ HolderOK(x) /\ RoomOK(x)
      /\ (Holds(x) => locked[x.guest] = d)
  BY Nones DEF InventoryInv, CallsOK, LocksOK
<1>2. MoverOK(x)'
  <2>1. Moves(x) => x.guest \in Guest /\ x.id \in Monster
    BY <1>1 DEF Served, Moves
  <2> QED
    BY <1>1, <2>1 DEF MoverOK, ReachStays, Moves, Reach
<1>3. Holds(x) /\ x.guest \in Guest =>
        device'[x.guest] = device[x.guest] /\ Counted(x.guest)' \subseteq Counted(x.guest)
  BY <1>1 DEF OthersStay
<1>4. HolderOK(x)'
  BY <1>1, <1>3 DEF HolderOK, Holds, Served
<1>5. RoomOK(x)'
  <2>1. CASE x.pc = "insert"
    <3>1. Counted(x.guest)' \subseteq Counted(x.guest)
      BY <1>1, <1>3, <2>1 DEF Holds, Served
    <3>2. Cardinality(Counted(x.guest)) < MAX_OWNED_MONSTERS
      BY <1>1, <2>1 DEF RoomOK
    <3>3. IsFiniteSet(Counted(x.guest)) /\ MAX_OWNED_MONSTERS \in Nat
      BY CountedFinite, Nones
    <3>4. Cardinality(Counted(x.guest)') < MAX_OWNED_MONSTERS
      BY <3>1, <3>2, <3>3, Fewer
    <3> QED
      BY <2>1, <3>4 DEF RoomOK
  <2>2. CASE x.pc = "move" \/ (x.pc \in {"mutate", "mutating"} /\ x.service = "respawn")
    <3> DEFINE T == Counted(x.guest) \ {x.id}
               S == Counted(x.guest)' \ {x.id}
    <3>1. S \subseteq T
      BY <1>1, <1>3, <2>2 DEF Holds, Served
    <3>2. Cardinality(T) < MAX_OWNED_MONSTERS
      BY <1>1, <2>2 DEF RoomOK
    <3>3. IsFiniteSet(T) /\ MAX_OWNED_MONSTERS \in Nat
      BY CountedFinite, Nones
    <3> HIDE DEF T, S
    <3>4. Cardinality(S) < MAX_OWNED_MONSTERS
      BY <3>1, <3>2, <3>3, Fewer
    <3> QED
      BY <2>2, <3>4 DEF RoomOK, S
  <2> QED
    BY <2>1, <2>2 DEF RoomOK
<1> QED
  BY <1>1, <1>2, <1>4, <1>5

LEMMA CallsStay ==
  ASSUME Params, InventoryInv, NEW c, NEW y, Turn(c, y), ReachStays, OthersStay(c),
         y # None =>
           y \in Request /\ Served(y) /\ MoverOK(y)' /\ HolderOK(y)' /\ RoomOK(y)'
  PROVE  CallsOK'
<1> SUFFICES ASSUME NEW d \in Call, call'[d] # None
             PROVE  \E x : /\ x = call'[d] /\ Served(x)
                           /\ MoverOK(x)' /\ HolderOK(x)' /\ RoomOK(x)'
  BY DEF CallsOK, Turn, Served
<1>1. CASE d = c
  BY <1>1 DEF Turn
<1>2. CASE d # c
  <2>1. call'[d] = call[d] /\ call[d] \in Request
    BY <1>2 DEF Turn, InventoryInv, CallsOK
  <2>2. PICK x \in Request : x = call[d]
    BY <2>1
  <2>3. Served(x) /\ MoverOK(x)' /\ HolderOK(x)' /\ RoomOK(x)'
    BY <1>2, <2>2, Others
  <2> QED
    BY <2>1, <2>2, <2>3
<1> QED
  BY <1>1, <1>2

\* A request that keeps its lock, if it has one.
LEMMA LockKept ==
  ASSUME Params, InventoryInv, NEW c, NEW y, Turn(c, y), locked' = locked,
         c \in Call =>
           /\ y # None /\ Holds(y) <=> call[c] # None /\ Holds(call[c])
           /\ y # None /\ Holds(y) => y.guest = call[c].guest
  PROVE  LocksOK'
BY DEF InventoryInv, LocksOK, Turn, Holds

LEMMA LockTaken ==
  ASSUME Params, InventoryInv, NEW c \in Call, NEW y, Turn(c, y), y # None,
         Holds(y), call[c] = None \/ ~Holds(call[c]),
         NEW g \in Guest, y.guest = g, Lock(c, g)
  PROVE  LocksOK'
<1>1. /\ locked \in [Guest -> Call \cup {None}] /\ locked[g] = None
      /\ locked' = [locked EXCEPT ![g] = c]
  BY DEF InventoryInv, LocksOK, Lock
<1>2. /\ locked' \in [Guest -> Call \cup {None}]
      /\ \A h \in Guest : locked'[h] = IF h = g THEN c ELSE locked[h]
  BY <1>1
<1>3. \A d \in Call : call'[d] # None /\ Holds(call'[d]) => locked'[call'[d].guest] = d
  <2> SUFFICES ASSUME NEW d \in Call, call'[d] # None, Holds(call'[d])
               PROVE  locked'[call'[d].guest] = d
    OBVIOUS
  <2>1. CASE d = c
    BY <1>2, <2>1 DEF Turn
  <2>2. CASE d # c
    <3>1. call'[d] = call[d] /\ locked[call[d].guest] = d
      BY <2>2 DEF Turn, InventoryInv, LocksOK
    <3>2. call[d].guest \in Guest /\ d # None
      BY <3>1, Nones DEF InventoryInv, CallsOK, Served, Holds
    <3> QED
      BY <1>1, <1>2, <3>1, <3>2
  <2> QED
    BY <2>1, <2>2
<1>4. \A h \in Guest : locked'[h] # None =>
        /\ call'[locked'[h]] # None /\ Holds(call'[locked'[h]])
        /\ call'[locked'[h]].guest = h
  <2> SUFFICES ASSUME NEW h \in Guest, locked'[h] # None
               PROVE  /\ call'[locked'[h]] # None /\ Holds(call'[locked'[h]])
                      /\ call'[locked'[h]].guest = h
    OBVIOUS
  <2>1. CASE h = g
    BY <1>2, <2>1 DEF Turn
  <2>2. CASE h # g
    <3>1. /\ locked'[h] = locked[h] /\ locked[h] \in Call
          /\ call[locked[h]] # None /\ Holds(call[locked[h]]) /\ call[locked[h]].guest = h
      BY <1>1, <1>2, <2>2 DEF InventoryInv, LocksOK
    <3>2. locked[h] # c
      BY <3>1
    <3> QED
      BY <3>1, <3>2 DEF Turn
  <2> QED
    BY <2>1, <2>2
<1> QED
  BY <1>2, <1>3, <1>4 DEF LocksOK, Holds

LEMMA LockLeft ==
  ASSUME Params, InventoryInv, NEW c \in Call, NEW y, Turn(c, y),
         y = None \/ ~Holds(y), Unlock(c)
  PROVE  LocksOK'
<1>1. /\ locked \in [Guest -> Call \cup {None}]
      /\ locked' = [g \in Guest |-> IF locked[g] = c THEN None ELSE locked[g]]
  BY DEF InventoryInv, LocksOK, Unlock
<1>2. /\ locked' \in [Guest -> Call \cup {None}]
      /\ \A h \in Guest : locked'[h] = IF locked[h] = c THEN None ELSE locked[h]
  BY <1>1
<1>3. \A d \in Call : call'[d] # None /\ Holds(call'[d]) => locked'[call'[d].guest] = d
  <2> SUFFICES ASSUME NEW d \in Call, call'[d] # None, Holds(call'[d])
               PROVE  locked'[call'[d].guest] = d
    OBVIOUS
  <2>1. d # c
    BY DEF Turn
  <2>2. call'[d] = call[d] /\ locked[call[d].guest] = d
    BY <2>1 DEF Turn, InventoryInv, LocksOK
  <2>3. call[d].guest \in Guest
    BY <2>2 DEF InventoryInv, CallsOK, Served, Holds
  <2> QED
    BY <1>2, <2>1, <2>2, <2>3
<1>4. \A h \in Guest : locked'[h] # None =>
        /\ call'[locked'[h]] # None /\ Holds(call'[locked'[h]])
        /\ call'[locked'[h]].guest = h
  BY <1>1, <1>2 DEF Turn, InventoryInv, LocksOK
<1> QED
  BY <1>2, <1>3, <1>4 DEF LocksOK, Holds
-----------------------------------------------------------------------------------
(* Rows whose owners stay.                                                         *)

OwnersKept ==
  \A m \in Monster :
    \/ row'[m] = row[m]
    \/ /\ row[m] # None /\ row'[m] # None /\ row'[m].ownerId = row[m].ownerId
       /\ row'[m].accountOwnerId = row[m].accountOwnerId

LEMMA OwnersKeptSteps ==
  ASSUME OwnersKept, UNCHANGED device
  PROVE  SavedStep /\ LocalStep /\ HeldStep /\ HistoryStep /\ ReachStays
<1>1. SavedStep /\ LocalStep
  BY DEF OwnersKept, SavedStep, LocalStep, Saved, Exists
<1>2. HeldStep
  BY DEF HeldStep
<1>3. HistoryStep
  <2> SUFFICES ASSUME NEW m \in Monster, Exists(m), row'[m] # None, row[m].ownerId # None
               PROVE  /\ row'[m].accountOwnerId = row[m].accountOwnerId
                      /\ row'[m].ownerId # None
    BY DEF HistoryStep
  <2> QED
    BY DEF OwnersKept, Exists
<1>4. ReachStays
  BY DEF OwnersKept, ReachStays, Reach
<1> QED
  BY <1>1, <1>2, <1>3, <1>4

LEMMA SelectionsStay ==
  ASSUME InventoryInv, ReachStays,
         \A g \in Guest : selected'[g] \in {selected[g], None} \/ Reach(g, selected[g])',
         selected' \in [Guest -> Monster \cup {None}]
  PROVE  SelectionsOK'
BY DEF InventoryInv, SelectionsOK, ReachStays, Tables

LEMMA QuotaStays ==
  ASSUME Params, InventoryInv,
         \A g \in Guest : \/ Counted(g)' \subseteq Counted(g)
                          \/ Cardinality(Counted(g)') <= MAX_OWNED_MONSTERS
  PROVE  QuotaOK'
<1> SUFFICES ASSUME NEW g \in Guest, Counted(g)' \subseteq Counted(g)
             PROVE  Cardinality(Counted(g)') <= MAX_OWNED_MONSTERS
  BY DEF QuotaOK
<1> DEFINE S == Counted(g)'
<1>1. /\ Cardinality(S) \in Nat /\ Cardinality(S) <= Cardinality(Counted(g))
      /\ Cardinality(Counted(g)) \in Nat /\ MAX_OWNED_MONSTERS \in Nat
      /\ Cardinality(Counted(g)) <= MAX_OWNED_MONSTERS
  BY CountedFinite, Nones DEF InventoryInv, QuotaOK
<1> QED
  BY <1>1

\* Rows change, but no owner does, and nothing more counts.
LEMMA OwnersKeptStep ==
  ASSUME Params, InventoryInv, OwnersKept, UNCHANGED <<device, selected>>,
         Tables', World', NEW c, NEW y, Turn(c, y),
         \A g \in Guest : Counted(g)' \subseteq Counted(g),
         y # None =>
           y \in Request /\ Served(y) /\ MoverOK(y)' /\ HolderOK(y)' /\ RoomOK(y)',
         LocksOK'
  PROVE  Kept
<1>1. SavedStep /\ LocalStep /\ HeldStep /\ HistoryStep /\ ReachStays
  BY OwnersKeptSteps
<1>2. OthersStay(c)
  BY DEF OthersStay
<1>3. CallsOK'
  BY <1>1, <1>2, CallsStay
<1>4. SelectionsOK'
  BY <1>1, SelectionsStay DEF Tables
<1>5. QuotaOK'
  BY QuotaStays
<1> QED
  BY <1>1, <1>3, <1>4, <1>5 DEF Kept, InventoryInv

\* The tables are only read.
LEMMA ReadingStep ==
  ASSUME Params, InventoryInv, UNCHANGED <<device, row, selected, unchecked>>,
         spent' \in [calls : 0..MaxCalls, faults : 0..MaxFaults],
         World', NEW c, NEW y, Turn(c, y),
         y # None =>
           y \in Request /\ Served(y) /\ MoverOK(y) /\ HolderOK(y) /\ RoomOK(y),
         LocksOK'
  PROVE  Kept
<1>1. Tables' /\ OwnersKept
  BY DEF InventoryInv, Tables, OwnersKept
<1>2. \A g \in Guest : Counted(g)' = Counted(g)
  BY DEF Counted, Living, Owned, Exists
<1>3. y # None => MoverOK(y)' /\ HolderOK(y)' /\ RoomOK(y)'
  BY DEF MoverOK, HolderOK, RoomOK, Reach, Counted, Living, Owned, Exists
<1> QED
  BY <1>1, <1>2, <1>3, OwnersKeptStep

-----------------------------------------------------------------------------------
(* A request begins.                                                               *)

LEMMA Begins ==
  ASSUME Params, InventoryInv, NEW c \in Call, NEW service, NEW g \in Guest \cup {None},
         NEW a \in Account \cup {None}, NEW m \in Monster \cup {None},
         NEW d \in Dna \cup {None},
         NEW pc, Begin(c, service, g, a, m, d, pc),
         pc \in {"lock", "write", "enter", "rebind", "choose", "mutate", "bind", "move",
                 "transfer", "memberships", "store", "keep", "resetting"}
  PROVE  \E y \in Request :
           /\ Turn(c, y) /\ call[c] = None
           /\ spent' \in [calls : 0..MaxCalls, faults : 0..MaxFaults]
           /\ y.service = service /\ y.guest = g /\ y.account = a /\ y.id = m
           /\ y.dna = d /\ y.pc = pc /\ y # None
<1>1. /\ service \in AllServices /\ call[c] = None
      /\ call \in [Call -> Request \cup {None}]
      /\ spent \in [calls : 0..MaxCalls, faults : 0..MaxFaults]
      /\ spent.calls < MaxCalls /\ spent' = [spent EXCEPT !.calls = @ + 1]
  BY DEF Begin, Params, InventoryConstants, InventoryInv, CallsOK, Tables
<1>2. spent' \in [calls : 0..MaxCalls, faults : 0..MaxFaults]
  BY <1>1, Nones
<1> DEFINE y(w) == [service |-> service, guest |-> g, account |-> a, id |-> m, dna |-> d,
                    spared |-> {}, wasAlive |-> w, pc |-> pc]
<1>3. call' = [call EXCEPT ![c] = y(service = "adminKill" /\ row[m].alive)]
  BY DEF Begin
<1>4. (service = "adminKill" /\ row[m].alive) \in BOOLEAN
  OBVIOUS
<1>5. ASSUME NEW w \in BOOLEAN
      PROVE  /\ y(w) \in Request
             /\ y(w).service = service /\ y(w).guest = g /\ y(w).account = a
             /\ y(w).id = m /\ y(w).dna = d /\ y(w).pc = pc
  <2>1. {} \in SUBSET Monster
    OBVIOUS
  <2> QED
    BY <1>1, <2>1 DEF Request
<1>6. PICK w \in BOOLEAN : w = (service = "adminKill" /\ row[m].alive)
  BY <1>4
<1>7. PICK x : x = y(w)
  OBVIOUS
<1> HIDE DEF y
<1>8. /\ x \in Request /\ x # None
      /\ x.service = service /\ x.guest = g /\ x.account = a
      /\ x.id = m /\ x.dna = d /\ x.pc = pc
  BY <1>5, <1>7, Nones
<1>9. call' = [call EXCEPT ![c] = x]
  BY <1>3, <1>6, <1>7
<1>10. Turn(c, x)
  BY <1>1, <1>8, <1>9 DEF Turn
<1> QED
  BY <1>1, <1>2, <1>8, <1>10
\* ... without a transaction.
LEMMA BeginStep ==
  ASSUME Params, InventoryInv, NEW c \in Call, NEW service, NEW g \in Guest \cup {None},
         NEW a \in Account \cup {None}, NEW m \in Monster \cup {None},
         NEW d \in Dna \cup {None}, NEW pc, Begin(c, service, g, a, m, d, pc),
         UNCHANGED <<device, row, selected, unchecked, locked>>, World',
         pc \in {"lock", "write", "enter", "rebind", "choose", "mutate", "store", "keep",
                 "resetting"},
         pc = "lock" => g \in Guest /\ d \in Dna,
         pc \in {"write", "enter"} => m \in Monster /\ d \in Dna,
         pc \in {"rebind", "choose"} => g \in Guest /\ m \in Monster /\ Reach(g, m),
         pc = "rebind" => row[m].accountOwnerId # None,
         pc = "mutate" => /\ m \in Monster /\ service \in {"adminSpawn", "adminKill"}
                          /\ g = None
                          /\ service = "adminSpawn" => d \in Dna,
         pc \in {"store", "keep"} => d \in Dna
  PROVE  Kept
<1>1. PICK y \in Request :
        /\ Turn(c, y) /\ call[c] = None
        /\ spent' \in [calls : 0..MaxCalls, faults : 0..MaxFaults]
        /\ y.service = service /\ y.guest = g /\ y.account = a /\ y.id = m
        /\ y.dna = d /\ y.pc = pc /\ y # None
  BY Begins
<1>2. Served(y) /\ MoverOK(y) /\ HolderOK(y) /\ RoomOK(y) /\ ~Holds(y)
  BY <1>1 DEF Served, MoverOK, Moves, HolderOK, RoomOK, Holds
<1>3. LocksOK'
  BY <1>1, <1>2, LockKept
<1> QED
  BY <1>1, <1>2, <1>3, ReadingStep

LEMMA RowFields ==
  ASSUME Params, InventoryInv, NEW m \in Monster, row[m] # None
  PROVE  /\ row[m] \in Row
         /\ row[m].ownerId \in Guest \cup {None}
         /\ row[m].accountOwnerId \in Account \cup {None}
         /\ row[m].alive \in BOOLEAN /\ row[m].dna \in Dna
BY DEF InventoryInv, Tables, Row

LEMMA WorldStays ==
  ASSUME InventoryInv, UNCHANGED world
  PROVE  World'
BY DEF InventoryInv, World, world

LEMMA CreateBegins ==
  ASSUME Params, InventoryInv, NEW c \in Call, NEW g \in Guest,
         NEW a \in Account \cup {None}, NEW d \in Dna, Create(c, g, a, d)
  PROVE  Kept
<1>1. UNCHANGED <<device, row, selected, unchecked, locked>> /\ World'
  BY WorldStays DEF Create, tables
<1>2. Begin(c, "create", g, a, None, d, "lock")
  BY DEF Create
<1> QED
  BY <1>1, <1>2, BeginStep

LEMMA CopyBegins ==
  ASSUME Params, InventoryInv, NEW c \in Call, NEW g \in Guest,
         NEW a \in Account \cup {None}, NEW m \in Monster, Copy(c, g, a, m)
  PROVE  Kept
<1>1. UNCHANGED <<device, row, selected, unchecked, locked>> /\ World'
  BY WorldStays DEF Copy, tables
<1>2. Begin(c, "copy", g, a, None, row[m].dna, "lock") /\ row[m] # None
  BY DEF Copy, MayUse, Exists
<1>3. row[m].dna \in Dna
  BY <1>2, RowFields
<1> QED
  BY <1>1, <1>2, <1>3, BeginStep

LEMMA UpdateBegins ==
  ASSUME Params, InventoryInv, NEW c \in Call, NEW g, NEW m \in Monster, NEW d,
         \/ g \in Guest /\ d \in Dna /\ Update(c, g, m, d)
         \/ d \in Dna /\ AdminUpdate(c, m, d)
         \/ g \in Guest /\ Join(c, g, m)
  PROVE  Kept
<1>1. UNCHANGED <<device, row, selected, unchecked, locked>> /\ World'
  BY WorldStays DEF Update, AdminUpdate, Join, tables
<1>2. CASE g \in Guest /\ d \in Dna /\ Update(c, g, m, d)
  <2>1. Begin(c, "update", g, None, m, d, "write")
    BY <1>2 DEF Update
  <2> QED
    BY <1>1, <1>2, <2>1, BeginStep
<1>3. CASE d \in Dna /\ AdminUpdate(c, m, d)
  <2>1. Begin(c, "adminUpdate", None, None, m, d, "write")
    BY <1>3 DEF AdminUpdate
  <2> QED
    BY <1>1, <1>3, <2>1, BeginStep
<1>4. CASE g \in Guest /\ Join(c, g, m)
  <2>1. Begin(c, "join", g, None, m, row[m].dna, "enter") /\ row[m] # None
    BY <1>4 DEF Join, Exists
  <2>2. row[m].dna \in Dna
    BY <1>4, <2>1, RowFields
  <2> QED
    BY <1>1, <1>4, <2>1, <2>2, BeginStep
<1> QED
  BY <1>2, <1>3, <1>4

LEMMA MayUseReaches ==
  ASSUME NEW g, NEW a, NEW m, MayUse(g, a, m)
  PROVE  Reach(g, m) /\ (row[m].ownerId # g => row[m].accountOwnerId # None)
BY DEF MayUse, Reach, Exists

LEMMA SelectBegins ==
  ASSUME Params, InventoryInv, NEW c \in Call, NEW g \in Guest,
         NEW a \in Account \cup {None}, NEW m \in Monster, Select(c, g, a, m)
  PROVE  Kept
<1>1. UNCHANGED <<device, row, selected, unchecked, locked>> /\ World'
  BY WorldStays DEF Select, tables
<1>2. Reach(g, m) /\ (row[m].ownerId # g => row[m].accountOwnerId # None)
  BY MayUseReaches DEF Select
<1>3. PICK pc \in {"choose", "rebind"} :
        /\ Begin(c, "select", g, None, m, None, pc)
        /\ pc = "rebind" => row[m].ownerId # g
  <2>1. Begin(c, "select", g, None, m, None, IF row[m].ownerId = g THEN "choose" ELSE "rebind")
    BY DEF Select
  <2>2. CASE row[m].ownerId = g
    BY <2>1, <2>2
  <2>3. CASE row[m].ownerId # g
    BY <2>1, <2>3
  <2> QED
    BY <2>2, <2>3
<1> QED
  BY <1>1, <1>2, <1>3, BeginStep

LEMMA AdminBegins ==
  ASSUME Params, InventoryInv, NEW c \in Call, NEW m, NEW d,
         \/ m \in Monster /\ (AdminSpawn(c, m) \/ AdminKill(c, m))
         \/ d \in Dna /\ \E spawn \in BOOLEAN : AdminCreate(c, d, spawn)
         \/ \E service \in {"reset", "daily"} : Reset(c, service)
  PROVE  Kept
<1>1. UNCHANGED <<device, row, selected, unchecked, locked>>
  BY DEF AdminSpawn, AdminKill, AdminCreate, Reset, tables
<1>2. CASE m \in Monster /\ AdminSpawn(c, m)
  <2>1. Begin(c, "adminSpawn", None, None, m, row[m].dna, "mutate") /\ row[m] # None
    BY <1>2 DEF AdminSpawn, Exists
  <2>2. row[m].dna \in Dna /\ World'
    BY <1>2, <2>1, RowFields, WorldStays DEF AdminSpawn
  <2> QED
    BY <1>1, <1>2, <2>1, <2>2, BeginStep
<1>3. CASE m \in Monster /\ AdminKill(c, m)
  <2>1. Begin(c, "adminKill", None, None, m, None, "mutate") /\ World'
    BY <1>3, WorldStays DEF AdminKill
  <2> QED
    BY <1>1, <1>3, <2>1, BeginStep
<1>4. CASE d \in Dna /\ \E spawn \in BOOLEAN : AdminCreate(c, d, spawn)
  <2>1. PICK pc \in {"store", "keep"} :
          Begin(c, "adminCreate", None, None, None, d, pc)
    BY <1>4 DEF AdminCreate
  <2>2. World'
    BY <1>4, WorldStays DEF AdminCreate
  <2> QED
    BY <1>1, <1>4, <2>1, <2>2, BeginStep
<1>5. CASE \E service \in {"reset", "daily"} : Reset(c, service)
  <2>1. PICK service \in {"reset", "daily"} :
          Begin(c, service, None, None, None, None, "resetting")
    BY <1>5 DEF Reset
  <2>2. World'
    BY <1>5 DEF Reset, InventoryInv, World
  <2> QED
    BY <1>1, <2>1, <2>2, BeginStep
<1> QED
  BY <1>2, <1>3, <1>4, <1>5

\* ... with one.
LEMMA HoldingBegins ==
  ASSUME Params, InventoryInv, NEW c \in Call, NEW g \in Guest,
         NEW a \in Account \cup {None}, NEW m,
         \/ m \in Monster /\ Respawn(c, g, a, m)
         \/ Claim(c, g, a) \/ Release(c, g, a)
  PROVE  Kept
<1>1. UNCHANGED <<device, row, selected, unchecked>> /\ World' /\ Lock(c, g)
  BY WorldStays DEF Respawn, Claim, Release, tables
<1>2. ASSUME NEW y \in Request, Turn(c, y), call[c] = None,
             spent' \in [calls : 0..MaxCalls, faults : 0..MaxFaults], y # None,
             y.guest = g, Holds(y), Served(y), MoverOK(y), HolderOK(y), RoomOK(y)
      PROVE  Kept
  <2>1. LocksOK'
    BY <1>1, <1>2, LockTaken
  <2> QED
    BY <1>1, <1>2, <2>1, ReadingStep
<1>3. CASE m \in Monster /\ Respawn(c, g, a, m)
  <2>1. Reach(g, m) /\ row[m].dna \in Dna
    BY <1>3, MayUseReaches, RowFields DEF Respawn, Reach
  <2>2. PICK pc \in {"mutate", "move", "bind"} :
          /\ Begin(c, "respawn", g, None, m, row[m].dna, pc)
          /\ pc # "bind" => Cardinality(Living(g) \ {m}) < MAX_OWNED_MONSTERS
    <3> DEFINE needs == IF live[m] # None THEN ~live[m].alive ELSE ~row[m].alive
               counts == needs \/ row[m].ownerId # g
    <3>1. /\ counts => Cardinality(Living(g) \ {m}) < MAX_OWNED_MONSTERS
          /\ Begin(c, "respawn", g, None, m, row[m].dna,
                   IF needs THEN "mutate" ELSE IF counts THEN "move" ELSE "bind")
      BY <1>3 DEF Respawn
    <3>2. needs => counts
      OBVIOUS
    <3> HIDE DEF needs, counts
    <3>3. CASE needs
      BY <3>1, <3>2, <3>3
    <3>4. CASE ~needs /\ counts
      BY <3>1, <3>4
    <3>5. CASE ~needs /\ ~counts
      BY <3>1, <3>5
    <3> QED
      BY <3>3, <3>4, <3>5
  <2>3. PICK y \in Request :
          /\ Turn(c, y) /\ call[c] = None
          /\ spent' \in [calls : 0..MaxCalls, faults : 0..MaxFaults]
          /\ y.service = "respawn" /\ y.guest = g /\ y.id = m
          /\ y.dna = row[m].dna /\ y.pc = pc /\ y # None
    BY <1>3, <2>1, <2>2, Begins
  <2>4. pc # "bind" => Cardinality(Counted(g) \ {m}) < MAX_OWNED_MONSTERS
    <3>1. Counted(g) \ {m} \subseteq Living(g) \ {m}
      BY DEF Counted
    <3>2. IsFiniteSet(Living(g) \ {m}) /\ MAX_OWNED_MONSTERS \in Nat
      <4>1. Living(g) \ {m} \subseteq Monster /\ IsFiniteSet(Monster)
        BY DEF Living, Owned, Params, InventoryConstants
      <4> QED
        BY <4>1, FS_Subset, Nones
    <3> QED
      BY <2>2, <3>1, <3>2, Fewer
  <2>5. Served(y) /\ MoverOK(y) /\ HolderOK(y) /\ Holds(y)
    BY <1>3, <2>1, <2>3 DEF Served, MoverOK, Moves, HolderOK, Holds
  <2>6. RoomOK(y)
    BY <1>3, <2>3, <2>4 DEF RoomOK
  <2> QED
    BY <1>2, <2>3, <2>5, <2>6
<1>4. CASE Claim(c, g, a)
  <2>1. /\ a \in Account /\ device[g] \in {None, a}
        /\ Begin(c, "claim", g, a, None, None, "transfer")
    BY <1>4 DEF Claim
  <2>2. PICK y \in Request :
          /\ Turn(c, y) /\ call[c] = None
          /\ spent' \in [calls : 0..MaxCalls, faults : 0..MaxFaults]
          /\ y.guest = g /\ y.account = a /\ y.pc = "transfer" /\ y # None
    BY <2>1, Begins
  <2>3. Served(y) /\ MoverOK(y) /\ HolderOK(y) /\ Holds(y) /\ RoomOK(y)
    BY <2>1, <2>2 DEF Served, MoverOK, Moves, HolderOK, Holds, RoomOK
  <2> QED
    BY <1>2, <2>2, <2>3
<1>5. CASE Release(c, g, a)
  <2>1. /\ a \in Account /\ device[g] = a
        /\ Begin(c, "release", g, a, None, None, "memberships")
    BY <1>5 DEF Release
  <2>2. PICK y \in Request :
          /\ Turn(c, y) /\ call[c] = None
          /\ spent' \in [calls : 0..MaxCalls, faults : 0..MaxFaults]
          /\ y.guest = g /\ y.account = a /\ y.pc = "memberships" /\ y # None
    BY <2>1, Begins
  <2>3. Served(y) /\ MoverOK(y) /\ HolderOK(y) /\ Holds(y) /\ RoomOK(y)
    BY <2>1, <2>2 DEF Served, MoverOK, Moves, HolderOK, Holds, RoomOK
  <2> QED
    BY <1>2, <2>2, <2>3
<1> QED
  BY <1>3, <1>4, <1>5
-----------------------------------------------------------------------------------
(* A request goes on, and the tables are only read.                                *)

LEMMA Calls ==
  ASSUME Params, InventoryInv, NEW c \in Call, call[c] # None
  PROVE  /\ call[c] \in Request /\ Served(call[c]) /\ MoverOK(call[c])
         /\ HolderOK(call[c]) /\ RoomOK(call[c])
         /\ Holds(call[c]) => locked[call[c].guest] = c
BY DEF InventoryInv, CallsOK, LocksOK

LEMMA Answers ==
  ASSUME Params, InventoryInv, NEW c, Answer(c)
  PROVE  Turn(c, None)
BY DEF Answer, Turn, InventoryInv, CallsOK

LEMMA Goes ==
  ASSUME Params, InventoryInv, NEW c \in Call, call[c] # None, NEW pc, Goto(c, pc),
         pc \in {"insert", "sync", "choose", "mutating", "lost", "move"}
  PROVE  \E y \in Request :
           /\ Turn(c, y) /\ y # None /\ y.service = call[c].service
           /\ y.guest = call[c].guest /\ y.account = call[c].account
           /\ y.id = call[c].id /\ y.dna = call[c].dna /\ y.pc = pc
<1>1. call[c] \in Request /\ call \in [Call -> Request \cup {None}]
  BY DEF InventoryInv, CallsOK
<1> DEFINE y == [call[c] EXCEPT !.pc = pc]
<1>2. /\ y \in Request /\ y.service = call[c].service
      /\ y.guest = call[c].guest /\ y.account = call[c].account
      /\ y.id = call[c].id /\ y.dna = call[c].dna /\ y.pc = pc
  BY <1>1 DEF Request
<1>3. call' = [call EXCEPT ![c] = y]
  BY <1>1 DEF Goto
<1> HIDE DEF y
<1>4. Turn(c, y) /\ y # None
  BY <1>1, <1>2, <1>3, Nones DEF Turn
<1> QED
  BY <1>2, <1>4

LEMMA Spending ==
  ASSUME Params, InventoryInv,
         \/ UNCHANGED spent
         \/ spent.faults < MaxFaults /\ spent' = [spent EXCEPT !.faults = @ + 1]
  PROVE  spent' \in [calls : 0..MaxCalls, faults : 0..MaxFaults]
BY Nones DEF InventoryInv, Tables

LEMMA CountStep ==
  ASSUME Params, InventoryInv, NEW c \in Call, CreateOwned_Count(c)
  PROVE  Kept
<1> DEFINE g == call[c].guest
<1>1. /\ call[c] # None /\ call[c].pc = "lock" /\ g \in Guest /\ call[c].dna \in Dna
      /\ ~Holds(call[c])
      /\ UNCHANGED <<device, row, selected, unchecked>> /\ World'
      /\ spent' \in [calls : 0..MaxCalls, faults : 0..MaxFaults]
  BY Calls, WorldStays, Spending DEF CreateOwned_Count, At, tables, Served, Holds
<1>2. CASE Cardinality(Living(g)) < MAX_OWNED_MONSTERS
  <2>1. Lock(c, g) /\ Goto(c, "insert")
    BY <1>2 DEF CreateOwned_Count
  <2>2. PICK y \in Request :
          /\ Turn(c, y) /\ y # None
          /\ y.guest = call[c].guest /\ y.dna = call[c].dna /\ y.pc = "insert"
    BY <1>1, <2>1, Goes
  <2>3. Served(y) /\ MoverOK(y) /\ HolderOK(y) /\ Holds(y)
    BY <1>1, <2>2 DEF Served, MoverOK, Moves, HolderOK, Holds
  <2>4. RoomOK(y)
    <3>1. Counted(g) \subseteq Living(g)
      BY DEF Counted
    <3>2. IsFiniteSet(Living(g)) /\ MAX_OWNED_MONSTERS \in Nat
      <4>1. Living(g) \subseteq Monster /\ IsFiniteSet(Monster)
        BY DEF Living, Owned, Params, InventoryConstants
      <4> QED
        BY <4>1, FS_Subset, Nones
    <3>3. Cardinality(Counted(g)) < MAX_OWNED_MONSTERS
      BY <1>2, <3>1, <3>2, Fewer
    <3> QED
      BY <2>2, <3>3 DEF RoomOK
  <2>5. LocksOK'
    BY <1>1, <2>1, <2>2, <2>3, LockTaken
  <2> QED
    BY <1>1, <2>2, <2>3, <2>4, <2>5, ReadingStep
<1>3. CASE ~(Cardinality(Living(g)) < MAX_OWNED_MONSTERS)
  <2>1. Answer(c) /\ locked' = locked
    BY <1>3 DEF CreateOwned_Count
  <2>2. Turn(c, None)
    BY <2>1, Answers
  <2>3. LocksOK'
    BY <1>1, <2>1, <2>2, LockKept
  <2> QED
    BY <1>1, <2>2, <2>3, ReadingStep
<1> QED
  BY <1>2, <1>3

LEMMA QueueStep ==
  ASSUME Params, InventoryInv, NEW c \in Call,
         Update_Sync(c) \/ Join_Enter(c) \/ AdminCreate_Announce(c)
  PROVE  Kept
<1>1. /\ call[c] # None /\ call[c].pc \in {"sync", "enter", "announce"}
      /\ UNCHANGED <<device, row, selected, unchecked, locked, mode, live, spent>>
      /\ Answer(c)
  BY DEF Update_Sync, Join_Enter, AdminCreate_Announce, At, tables
<1>2. ~Holds(call[c])
  BY <1>1, Calls DEF Holds
<1>3. World' /\ spent' \in [calls : 0..MaxCalls, faults : 0..MaxFaults]
  BY <1>1, Spending DEF InventoryInv, World
<1>4. Turn(c, None)
  BY <1>1, Answers
<1>5. LocksOK'
  BY <1>1, <1>2, <1>4, LockKept
<1> QED
  BY <1>1, <1>3, <1>4, <1>5, ReadingStep

\* A request that is over gives its lock back.
LEMMA OverStep ==
  ASSUME Params, InventoryInv, NEW c \in Call, Answer(c), Unlock(c),
         UNCHANGED <<device, row, selected, unchecked>>, World',
         spent' \in [calls : 0..MaxCalls, faults : 0..MaxFaults]
  PROVE  Kept
<1>1. Turn(c, None)
  BY Answers
<1>2. LocksOK'
  BY <1>1, LockLeft
<1> QED
  BY <1>1, <1>2, ReadingStep

LEMMA MutateStep ==
  ASSUME Params, InventoryInv, NEW c \in Call, Mutate(c)
  PROVE  Kept
<1>1. /\ call[c] # None /\ call[c].pc = "mutate"
      /\ UNCHANGED <<device, row, selected, unchecked>>
      /\ spent' \in [calls : 0..MaxCalls, faults : 0..MaxFaults]
      /\ World'
  BY Spending DEF Mutate, At, tables, InventoryInv, World
<1>2. CASE mode = "running"
  <2>1. Goto(c, "mutating") /\ locked' = locked
    BY <1>2 DEF Mutate
  <2>2. PICK y \in Request :
          /\ Turn(c, y) /\ y # None /\ y.service = call[c].service
          /\ y.guest = call[c].guest /\ y.id = call[c].id /\ y.dna = call[c].dna
          /\ y.pc = "mutating"
    BY <1>1, <2>1, Goes
  <2>3. Served(y) /\ MoverOK(y) /\ HolderOK(y) /\ RoomOK(y)
        /\ (Holds(y) <=> Holds(call[c]))
    BY <1>1, <2>2, Calls DEF Served, MoverOK, Moves, HolderOK, RoomOK, Holds
  <2>4. LocksOK'
    BY <1>1, <2>1, <2>2, <2>3, LockKept
  <2> QED
    BY <1>1, <2>2, <2>3, <2>4, ReadingStep
<1>3. CASE mode # "running"
  BY <1>1, <1>3, OverStep DEF Mutate
<1> QED
  BY <1>2, <1>3

LEMMA FailStep ==
  ASSUME Params, InventoryInv, NEW c \in Call, MutationFails(c) \/ Fail(c)
  PROVE  Kept
<1>1. /\ UNCHANGED <<device, row, selected, unchecked>> /\ Unlock(c)
      /\ spent' \in [calls : 0..MaxCalls, faults : 0..MaxFaults]
      /\ World'
  BY Spending DEF MutationFails, Fail, tables, world, InventoryInv, World
<1>2. CASE Answer(c)
  BY <1>1, <1>2, OverStep
<1>3. CASE ~Answer(c)
  <2>1. /\ call[c] # None /\ call[c].pc = "mutating" /\ call[c].service = "respawn"
        /\ Goto(c, "lost")
    BY <1>3 DEF MutationFails, Fail, At
  <2>2. PICK y \in Request :
          /\ Turn(c, y) /\ y # None /\ y.service = call[c].service
          /\ y.guest = call[c].guest /\ y.id = call[c].id /\ y.dna = call[c].dna
          /\ y.pc = "lost"
    BY <2>1, Goes
  <2>3. Served(y) /\ MoverOK(y) /\ HolderOK(y) /\ RoomOK(y) /\ ~Holds(y)
    BY <2>1, <2>2, Calls DEF Served, MoverOK, Moves, HolderOK, RoomOK, Holds
  <2>4. LocksOK'
    BY <1>1, <2>2, <2>3, LockLeft
  <2> QED
    BY <1>1, <2>2, <2>3, <2>4, ReadingStep
<1> QED
  BY <1>2, <1>3

\* A request that notes the ids to spare.
LEMMA NotingStep ==
  ASSUME Params, InventoryInv, NEW c \in Call, Reset_ReadSaved(c) \/ Release_Memberships(c)
  PROVE  Kept
<1>1. /\ call[c] # None /\ call[c].pc \in {"resetting", "memberships"}
      /\ UNCHANGED <<device, row, selected, unchecked, locked>>
      /\ spent' \in [calls : 0..MaxCalls, faults : 0..MaxFaults]
      /\ World'
  BY Spending, WorldStays DEF Reset_ReadSaved, Release_Memberships, At, tables
<1>2. call[c] \in Request /\ call \in [Call -> Request \cup {None}]
  BY <1>1, Calls DEF InventoryInv, CallsOK
<1>3. PICK ids \in SUBSET Monster, pc \in {"replace", "unbind"} :
        /\ call' = [call EXCEPT ![c].spared = ids, ![c].pc = pc]
        /\ pc = "replace" <=> call[c].pc = "resetting"
  <2>1. CASE Reset_ReadSaved(c)
    <3> DEFINE ids == {m \in Monster : Saved(m)}
    <3>1. call' = [call EXCEPT ![c].spared = ids, ![c].pc = "replace"]
          /\ ids \in SUBSET Monster /\ call[c].pc = "resetting"
      BY <2>1 DEF Reset_ReadSaved, At
    <3> HIDE DEF ids
    <3> QED
      BY <3>1
  <2>2. CASE Release_Memberships(c)
    <3> DEFINE ids == {selected[call[c].guest]} \ {None}
    <3>1. call' = [call EXCEPT ![c].spared = ids, ![c].pc = "unbind"]
          /\ call[c].pc = "memberships"
      BY <2>2 DEF Release_Memberships, At
    <3>2. call[c].guest \in Guest
      BY <1>1, <3>1, Calls DEF Served
    <3>3. ids \in SUBSET Monster
      BY <3>2 DEF InventoryInv, Tables
    <3> HIDE DEF ids
    <3> QED
      BY <3>1, <3>3
  <2> QED
    BY <2>1, <2>2
<1> DEFINE y == [call[c] EXCEPT !.spared = ids, !.pc = pc]
<1>4. /\ y \in Request /\ y.service = call[c].service
      /\ y.guest = call[c].guest /\ y.account = call[c].account /\ y.pc = pc
  BY <1>2 DEF Request
<1>5. call' = [call EXCEPT ![c] = y]
  BY <1>2, <1>3
<1> HIDE DEF y
<1>6. Turn(c, y) /\ y # None
  BY <1>2, <1>4, <1>5, Nones DEF Turn
<1>7. Served(y) /\ MoverOK(y) /\ HolderOK(y) /\ RoomOK(y)
      /\ (Holds(y) <=> Holds(call[c]))
  BY <1>1, <1>3, <1>4, Calls DEF Served, MoverOK, Moves, HolderOK, RoomOK, Holds
<1>8. LocksOK'
  BY <1>1, <1>4, <1>6, <1>7, LockKept
<1> QED
  BY <1>1, <1>4, <1>6, <1>7, <1>8, ReadingStep
-----------------------------------------------------------------------------------
(* Rows are written.                                                               *)

LEMMA WritingStep ==
  ASSUME Params, InventoryInv, Tables', World', NEW c, NEW y, Turn(c, y),
         ReachStays, OthersStay(c), LocksOK',
         y # None =>
           y \in Request /\ Served(y) /\ MoverOK(y)' /\ HolderOK(y)' /\ RoomOK(y)',
         \A g \in Guest : selected'[g] \in {selected[g], None} \/ Reach(g, selected[g])',
         \A g \in Guest : \/ Counted(g)' \subseteq Counted(g)
                          \/ Cardinality(Counted(g)') <= MAX_OWNED_MONSTERS,
         SavedStep, LocalStep, HeldStep, HistoryStep
  PROVE  Kept
<1>1. CallsOK'
  BY CallsStay
<1>2. SelectionsOK'
  BY SelectionsStay DEF Tables
<1>3. QuotaOK'
  BY QuotaStays
<1> QED
  BY <1>1, <1>2, <1>3 DEF Kept, InventoryInv

\* A set with room for one.
LEMMA OneMore ==
  ASSUME NEW S, NEW T, NEW x, IsFiniteSet(T), S \subseteq T \cup {x}, NEW k \in Nat,
         Cardinality(T) < k
  PROVE  Cardinality(S) <= k
<1> DEFINE U == T \cup {x}
<1>1. /\ IsFiniteSet(U)
      /\ Cardinality(U) = IF x \in T THEN Cardinality(T) ELSE Cardinality(T) + 1
      /\ Cardinality(T) \in Nat
  BY FS_AddElement, FS_CardinalityType
<1> HIDE DEF U
<1>2. Cardinality(S) <= Cardinality(U) /\ Cardinality(S) \in Nat
  BY <1>1, FS_Subset, FS_CardinalityType DEF U
<1> QED
  BY <1>1, <1>2

\* What counts, by the rows.
LEMMA CountedIs ==
  /\ \A g, m : m \in Counted(g) <=> /\ m \in Monster /\ row[m] # None
                                    /\ row[m].ownerId = g /\ row[m].alive
                                    /\ m \notin unchecked
  /\ \A g, m : m \in Counted(g)' <=> /\ m \in Monster /\ row'[m] # None
                                     /\ row'[m].ownerId = g /\ row'[m].alive
                                     /\ m \notin unchecked'
BY DEF Counted, Living, Owned, Exists

LEMMA ChooseStep ==
  ASSUME Params, InventoryInv, NEW c \in Call, Select_Choose(c)
  PROVE  Kept
<1>1. /\ call[c] # None /\ call[c].pc = "choose"
      /\ selected' = [selected EXCEPT ![call[c].guest] = call[c].id]
      /\ Answer(c) /\ UNCHANGED <<device, row, unchecked, locked, spent>> /\ World'
  BY WorldStays DEF Select_Choose, At
<1>2. /\ Reach(call[c].guest, call[c].id) /\ ~Holds(call[c])
      /\ call[c].guest \in Guest /\ call[c].id \in Monster
  BY <1>1, Calls DEF Served, MoverOK, Moves, Holds
<1>3. PICK g \in Guest, n \in Monster :
        /\ selected' = [selected EXCEPT ![g] = n]
        /\ Reach(g, n)
  BY <1>1, <1>2
<1>4. Tables' /\ \A h \in Guest : selected'[h] = IF h = g THEN n ELSE selected[h]
  BY <1>1, <1>3 DEF InventoryInv, Tables
<1>5. OwnersKept /\ UNCHANGED device
  BY <1>1 DEF OwnersKept
<1>6. SavedStep /\ LocalStep /\ HeldStep /\ HistoryStep /\ ReachStays
  BY <1>5, OwnersKeptSteps
<1>7. \A h \in Guest : Counted(h)' \subseteq Counted(h)
  BY <1>1, CountedIs
<1>8. OthersStay(c)
  BY <1>5, <1>7 DEF OthersStay
<1>9. Turn(c, None)
  BY <1>1, Answers
<1>10. LocksOK'
  BY <1>1, <1>2, <1>9, LockKept
<1>11. \A h \in Guest : selected'[h] \in {selected[h], None} \/ Reach(h, selected[h])'
  BY <1>1, <1>3, <1>4 DEF Reach
<1> QED
  BY <1>1, <1>4, <1>6, <1>7, <1>8, <1>9, <1>10, <1>11, WritingStep

\* A row for an id that had none.
LEMMA NewRow ==
  ASSUME Params, InventoryInv, NEW n \in Monster, row[n] = None, NEW r \in Row,
         row' = [row EXCEPT ![n] = r], UNCHANGED device
  PROVE  /\ SavedStep /\ LocalStep /\ HeldStep /\ HistoryStep /\ ReachStays
         /\ row' \in [Monster -> Row \cup {None}] /\ row'[n] = r
         /\ \A m \in Monster : m # n => row'[m] = row[m]
<1>1. /\ row' \in [Monster -> Row \cup {None}] /\ row'[n] = r
      /\ \A m \in Monster : m # n => row'[m] = row[m]
  BY DEF InventoryInv, Tables
<1>2. SavedStep /\ LocalStep /\ HeldStep
  BY <1>1 DEF SavedStep, LocalStep, HeldStep, Saved, Exists
<1>3. HistoryStep
  <2> SUFFICES ASSUME NEW m \in Monster, Exists(m), row'[m] # None, row[m].ownerId # None
               PROVE  /\ row'[m].accountOwnerId = row[m].accountOwnerId
                      /\ row'[m].ownerId # None
    BY DEF HistoryStep
  <2> QED
    BY <1>1 DEF Exists
<1>4. ReachStays
  BY <1>1 DEF ReachStays, Reach
<1> QED
  BY <1>1, <1>2, <1>3, <1>4

LEMMA InsertStep ==
  ASSUME Params, InventoryInv, NEW c \in Call, CreateOwned_Insert(c)
  PROVE  Kept
<1>1. /\ call[c] # None /\ call[c].pc = "insert" /\ Unlock(c) /\ Answer(c)
      /\ UNCHANGED <<device, spent>> /\ World'
  BY WorldStays DEF CreateOwned_Insert, At
<1>2. PICK new \in Monster :
        /\ Fresh(new)
        /\ row' = [row EXCEPT ![new] =
             [ownerId |-> call[c].guest, accountOwnerId |-> call[c].account,
              alive |-> TRUE, dna |-> call[c].dna]]
        /\ selected' = [selected EXCEPT ![call[c].guest] = new]
        /\ unchecked' = unchecked \ {new}
  BY DEF CreateOwned_Insert
<1>3. /\ call[c].guest \in Guest /\ call[c].dna \in Dna /\ Holds(call[c])
      /\ call[c].account \in Account \cup {None}
      /\ locked[call[c].guest] = c
      /\ Cardinality(Counted(call[c].guest)) < MAX_OWNED_MONSTERS
  BY <1>1, Calls DEF Served, RoomOK, Holds, Request
<1>4. PICK g \in Guest, r \in Row :
        /\ row' = [row EXCEPT ![new] = r] /\ r.ownerId = g /\ r # None
        /\ selected' = [selected EXCEPT ![g] = new]
        /\ locked[g] = c /\ Cardinality(Counted(g)) < MAX_OWNED_MONSTERS
  <2> DEFINE r == [ownerId |-> call[c].guest, accountOwnerId |-> call[c].account,
                   alive |-> TRUE, dna |-> call[c].dna]
  <2>1. r \in Row /\ r.ownerId = call[c].guest
    BY <1>3 DEF Row
  <2>2. row' = [row EXCEPT ![new] = r]
    BY <1>2
  <2> HIDE DEF r
  <2> QED
    BY <1>2, <1>3, <2>1, <2>2, Nones
<1>5. row[new] = None
  BY <1>2 DEF Fresh, Exists
<1>6. /\ SavedStep /\ LocalStep /\ HeldStep /\ HistoryStep /\ ReachStays
      /\ row' \in [Monster -> Row \cup {None}] /\ row'[new] = r
      /\ \A m \in Monster : m # new => row'[m] = row[m]
  BY <1>1, <1>4, <1>5, NewRow
<1>7. Tables' /\ \A h \in Guest : selected'[h] = IF h = g THEN new ELSE selected[h]
  BY <1>1, <1>2, <1>4, <1>6 DEF InventoryInv, Tables
<1>8. /\ \A h \in Guest : h # g => Counted(h)' \subseteq Counted(h)
      /\ Counted(g)' \subseteq Counted(g) \cup {new}
  BY <1>2, <1>4, <1>6, CountedIs
<1>9. Cardinality(Counted(g)') <= MAX_OWNED_MONSTERS
  BY <1>4, <1>8, CountedFinite, Nones, OneMore
<1>10. OthersStay(c)
  BY <1>1, <1>4, <1>8 DEF OthersStay
<1>11. Turn(c, None)
  BY <1>1, Answers
<1>12. LocksOK'
  BY <1>1, <1>11, LockLeft
<1>13. \A h \in Guest : selected'[h] \in {selected[h], None} \/ Reach(h, selected[h])'
  BY <1>4, <1>6, <1>7 DEF Reach
<1> QED
  BY <1>1, <1>6, <1>7, <1>8, <1>9, <1>10, <1>11, <1>12, <1>13, WritingStep

LEMMA StoreStep ==
  ASSUME Params, InventoryInv, NEW c \in Call, AdminCreate_Store(c)
  PROVE  Kept
<1>1. /\ call[c] # None /\ call[c].pc \in {"store", "keep"}
      /\ UNCHANGED <<device, selected, locked, spent>> /\ World'
  BY WorldStays DEF AdminCreate_Store, At
<1>2. PICK new \in Monster :
        /\ Fresh(new)
        /\ row' = [row EXCEPT ![new] = [ownerId |-> None, accountOwnerId |-> None,
                                        alive |-> TRUE, dna |-> call[c].dna]]
        /\ \/ call' = [call EXCEPT ![c].id = new, ![c].pc = "announce"]
           \/ Answer(c)
        /\ unchecked' = unchecked \ {new}
  BY DEF AdminCreate_Store
<1>3. /\ call[c].dna \in Dna /\ ~Holds(call[c]) /\ call[c] \in Request
      /\ call \in [Call -> Request \cup {None}]
  BY <1>1, Calls DEF Served, Holds, InventoryInv, CallsOK
<1>4. PICK r \in Row : row' = [row EXCEPT ![new] = r] /\ r.ownerId = None
  <2> DEFINE r == [ownerId |-> None, accountOwnerId |-> None,
                   alive |-> TRUE, dna |-> call[c].dna]
  <2>1. r \in Row /\ r.ownerId = None
    BY <1>3 DEF Row
  <2>2. row' = [row EXCEPT ![new] = r]
    BY <1>2
  <2> HIDE DEF r
  <2> QED
    BY <2>1, <2>2
<1>5. row[new] = None
  BY <1>2 DEF Fresh, Exists
<1>6. /\ SavedStep /\ LocalStep /\ HeldStep /\ HistoryStep /\ ReachStays
      /\ row' \in [Monster -> Row \cup {None}] /\ row'[new] = r
      /\ \A m \in Monster : m # new => row'[m] = row[m]
  BY <1>1, <1>4, <1>5, NewRow
<1>7. Tables'
  BY <1>1, <1>2, <1>6 DEF InventoryInv, Tables
<1>8. \A h \in Guest : Counted(h)' \subseteq Counted(h)
  BY <1>2, <1>4, <1>6, CountedIs, Nones
<1>9. OthersStay(c)
  BY <1>1, <1>8 DEF OthersStay
<1>10. \A h \in Guest : selected'[h] \in {selected[h], None}
  BY <1>1
<1>11. CASE Answer(c)
  <2>1. Turn(c, None)
    BY <1>11, Answers
  <2>2. LocksOK'
    BY <1>1, <1>3, <2>1, LockKept
  <2> QED
    BY <1>1, <1>6, <1>7, <1>8, <1>9, <1>10, <2>1, <2>2, WritingStep
<1>12. CASE call' = [call EXCEPT ![c].id = new, ![c].pc = "announce"]
  <2> DEFINE y == [call[c] EXCEPT !.id = new, !.pc = "announce"]
  <2>1. /\ y \in Request /\ y.id = new /\ y.dna = call[c].dna /\ y.pc = "announce"
    BY <1>3 DEF Request
  <2>2. call' = [call EXCEPT ![c] = y]
    BY <1>3, <1>12
  <2> HIDE DEF y
  <2>3. Turn(c, y) /\ y # None
    BY <1>3, <2>1, <2>2, Nones DEF Turn
  <2>4. PICK x \in Request : x = y
    BY <2>1
  <2>5. Served(x) /\ MoverOK(x)' /\ HolderOK(x)' /\ RoomOK(x)' /\ ~Holds(x)
    BY <1>3, <2>1, <2>4 DEF Served, MoverOK, Moves, HolderOK, RoomOK, Holds
  <2>6. LocksOK'
    BY <1>1, <1>3, <2>3, <2>4, <2>5, LockKept
  <2>7. Turn(c, x) /\ x # None
    BY <2>3, <2>4
  <2> QED
    BY <1>1, <1>6, <1>7, <1>8, <1>9, <1>10, <2>5, <2>6, <2>7, WritingStep
<1> QED
  BY <1>2, <1>11, <1>12
LEMMA RowWith ==
  ASSUME NEW x \in Row, NEW b \in BOOLEAN, NEW d \in Dna, NEW g \in Guest \cup {None},
         NEW a \in Account \cup {None}
  PROVE  /\ [x EXCEPT !.alive = b] \in Row /\ [x EXCEPT !.alive = b].alive = b
         /\ [x EXCEPT !.alive = b].ownerId = x.ownerId
         /\ [x EXCEPT !.alive = b].accountOwnerId = x.accountOwnerId
         /\ [x EXCEPT !.dna = d] \in Row /\ [x EXCEPT !.dna = d].alive = x.alive
         /\ [x EXCEPT !.dna = d].ownerId = x.ownerId
         /\ [x EXCEPT !.dna = d].accountOwnerId = x.accountOwnerId
         /\ [x EXCEPT !.ownerId = g] \in Row /\ [x EXCEPT !.ownerId = g].alive = x.alive
         /\ [x EXCEPT !.ownerId = g].ownerId = g
         /\ [x EXCEPT !.ownerId = g].accountOwnerId = x.accountOwnerId
         /\ [x EXCEPT !.accountOwnerId = a] \in Row
         /\ [x EXCEPT !.accountOwnerId = a].alive = x.alive
         /\ [x EXCEPT !.accountOwnerId = a].ownerId = x.ownerId
         /\ [x EXCEPT !.accountOwnerId = a].accountOwnerId = a
BY DEF Row

\* A row with the same owners in place of another.
LEMMA SameOwnersRow ==
  ASSUME Params, InventoryInv, NEW n \in Monster, row[n] # None, NEW r \in Row,
         r.ownerId = row[n].ownerId, r.accountOwnerId = row[n].accountOwnerId,
         row' = [row EXCEPT ![n] = r]
  PROVE  /\ OwnersKept /\ row' \in [Monster -> Row \cup {None}]
         /\ \A m \in Monster : row'[m] = IF m = n THEN r ELSE row[m]
BY Nones DEF InventoryInv, Tables, OwnersKept

LEMMA UpdateWriteStep ==
  ASSUME Params, InventoryInv, NEW c \in Call, Update_Write(c)
  PROVE  Kept
<1> DEFINE n == call[c].id
<1>1. /\ call[c] # None /\ call[c].pc = "write" /\ n \in Monster /\ call[c].dna \in Dna
      /\ UNCHANGED <<device, selected, locked, unchecked>> /\ World'
      /\ spent' = spent /\ ~Holds(call[c])
      /\ spent' \in [calls : 0..MaxCalls, faults : 0..MaxFaults]
  BY Calls, WorldStays, Spending DEF Update_Write, At, Served, Holds
<1>2. CASE row[n] # None
  <2>1. row' = [row EXCEPT ![n].dna = call[c].dna] /\ Goto(c, "sync")
    BY <1>2 DEF Update_Write, Exists
  <2>2. row[n] \in Row
    BY <1>1, <1>2, RowFields
  <2> DEFINE r == [row[n] EXCEPT !.dna = call[c].dna]
  <2>3. /\ r \in Row /\ r.ownerId = row[n].ownerId /\ r.alive = row[n].alive
        /\ r.accountOwnerId = row[n].accountOwnerId
    BY <1>1, <2>2 DEF Row
  <2>4. row' = [row EXCEPT ![n] = r]
    BY <1>1, <2>1 DEF InventoryInv, Tables
  <2> HIDE DEF r
  <2>5. /\ OwnersKept /\ row' \in [Monster -> Row \cup {None}]
        /\ \A m \in Monster : row'[m] = IF m = n THEN r ELSE row[m]
    BY <1>1, <1>2, <2>3, <2>4, SameOwnersRow
  <2>6. Tables'
    BY <1>1, <2>5 DEF InventoryInv, Tables
  <2>7. \A g \in Guest : Counted(g)' \subseteq Counted(g)
    BY <1>1, <1>2, <2>3, <2>5, CountedIs
  <2>8. PICK y \in Request :
          /\ Turn(c, y) /\ y # None
          /\ y.guest = call[c].guest /\ y.id = call[c].id /\ y.dna = call[c].dna
          /\ y.pc = "sync"
    BY <1>1, <2>1, Goes
  <2>9. Served(y) /\ MoverOK(y)' /\ HolderOK(y)' /\ RoomOK(y)' /\ ~Holds(y)
    BY <1>1, <2>8 DEF Served, MoverOK, Moves, HolderOK, RoomOK, Holds
  <2>10. LocksOK'
    BY <1>1, <2>8, <2>9, LockKept
  <2> QED
    BY <1>1, <2>5, <2>6, <2>7, <2>8, <2>9, <2>10, OwnersKeptStep
<1>3. CASE row[n] = None
  <2>1. Answer(c) /\ row' = row
    BY <1>3 DEF Update_Write, Exists
  <2>2. Turn(c, None)
    BY <2>1, Answers
  <2>3. LocksOK'
    BY <1>1, <2>2, LockKept
  <2> QED
    BY <1>1, <2>1, <2>2, <2>3, ReadingStep
<1> QED
  BY <1>2, <1>3

\* The living of one monster, on or off.
LEMMA AliveRow ==
  ASSUME Params, InventoryInv, NEW n \in Monster, NEW b \in BOOLEAN,
         row' = IF Exists(n) THEN [row EXCEPT ![n].alive = b] ELSE row
  PROVE  /\ OwnersKept /\ row' \in [Monster -> Row \cup {None}]
         /\ \A m \in Monster :
              /\ row'[m] = None <=> row[m] = None
              /\ row[m] # None => /\ row'[m].ownerId = row[m].ownerId
                                  /\ row'[m].alive = IF m = n THEN b ELSE row[m].alive
<1>1. CASE row[n] = None
  BY <1>1 DEF Exists, OwnersKept, InventoryInv, Tables
<1>2. CASE row[n] # None
  <2>1. row[n] \in Row /\ row' = [row EXCEPT ![n].alive = b]
    BY <1>2, RowFields DEF Exists
  <2> DEFINE r == [row[n] EXCEPT !.alive = b]
  <2>2. /\ r \in Row /\ r.ownerId = row[n].ownerId /\ r.alive = b
        /\ r.accountOwnerId = row[n].accountOwnerId
    BY <2>1 DEF Row
  <2>3. row' = [row EXCEPT ![n] = r]
    BY <2>1 DEF InventoryInv, Tables
  <2> HIDE DEF r
  <2>4. /\ OwnersKept /\ row' \in [Monster -> Row \cup {None}]
        /\ \A m \in Monster : row'[m] = IF m = n THEN r ELSE row[m]
    BY <1>2, <2>2, <2>3, SameOwnersRow
  <2> QED
    BY <1>2, <2>2, <2>4, Nones
<1> QED
  BY <1>1, <1>2

\* What the end of a keeper action makes of its request.
LEMMA Resumed ==
  ASSUME Params, InventoryInv, NEW c \in Call, call[c] # None, Resume(c),
         call[c].pc \in {"mutating", "lost"}
  PROVE  \E y : /\ Turn(c, y) /\ mode' = "running"
                /\ IF call[c].service = "respawn" /\ call[c].pc = "mutating"
                   THEN /\ y \in Request /\ y # None /\ y.pc = "move"
                        /\ y.guest = call[c].guest /\ y.id = call[c].id
                        /\ Served(y) /\ MoverOK(y) /\ HolderOK(y) /\ Holds(y)
                        /\ Holds(call[c]) /\ y.guest \in Guest /\ y.id \in Monster
                        /\ Cardinality(Counted(y.guest) \ {y.id}) < MAX_OWNED_MONSTERS
                        /\ locked[y.guest] = c
                   ELSE y = None /\ ~Holds(call[c])
<1>1. CASE call[c].service = "respawn" /\ call[c].pc = "mutating"
  <2>1. Goto(c, "move") /\ mode' = "running"
    BY <1>1 DEF Resume
  <2>2. PICK y \in Request :
          /\ Turn(c, y) /\ y # None /\ y.service = call[c].service
          /\ y.guest = call[c].guest /\ y.id = call[c].id /\ y.pc = "move"
    BY <2>1, Goes
  <2>3. /\ Served(y) /\ MoverOK(y) /\ HolderOK(y) /\ Holds(y) /\ Holds(call[c])
        /\ y.guest \in Guest /\ y.id \in Monster
        /\ Cardinality(Counted(y.guest) \ {y.id}) < MAX_OWNED_MONSTERS
        /\ locked[y.guest] = c
    BY <1>1, <2>2, Calls DEF Served, MoverOK, Moves, HolderOK, RoomOK, Holds
  <2> QED
    BY <1>1, <2>1, <2>2, <2>3
<1>2. CASE ~(call[c].service = "respawn" /\ call[c].pc = "mutating")
  BY <1>2, Answers DEF Resume, Holds
<1> QED
  BY <1>1, <1>2

\* ... and of its lock.
LEMMA ResumedLock ==
  ASSUME Params, InventoryInv, NEW c \in Call, NEW y, Turn(c, y), locked' = locked,
         call[c] # None,
         \/ y # None /\ Holds(y) /\ Holds(call[c]) /\ y.guest = call[c].guest
         \/ y = None /\ ~Holds(call[c])
  PROVE  LocksOK'
BY LockKept
LEMMA SpawnedStep ==
  ASSUME Params, InventoryInv, NEW c \in Call, Spawned(c)
  PROVE  Kept
<1> DEFINE n == call[c].id
<1>1. /\ call[c] # None /\ call[c].pc \in {"mutating", "lost"} /\ n \in Monster
      /\ call[c].service \in {"respawn", "adminSpawn"} /\ Resume(c)
      /\ UNCHANGED <<device, selected, locked, spent>>
      /\ spent' \in [calls : 0..MaxCalls, faults : 0..MaxFaults]
  BY Calls, Spending DEF Spawned, At, Served
<1>2. PICK y : /\ Turn(c, y) /\ mode' = "running"
               /\ IF call[c].service = "respawn" /\ call[c].pc = "mutating"
                  THEN /\ y \in Request /\ y # None /\ y.pc = "move"
                       /\ y.guest = call[c].guest /\ y.id = call[c].id
                       /\ Served(y) /\ MoverOK(y) /\ HolderOK(y) /\ Holds(y)
                       /\ Holds(call[c]) /\ y.guest \in Guest /\ y.id \in Monster
                       /\ Cardinality(Counted(y.guest) \ {y.id}) < MAX_OWNED_MONSTERS
                       /\ locked[y.guest] = c
                  ELSE y = None /\ ~Holds(call[c])
  BY <1>1, Resumed
<1>3. LocksOK' /\ World'
  BY <1>1, <1>2, ResumedLock DEF World
<1>4. CASE live[n] # None /\ live[n].alive
  <2>1. UNCHANGED <<row, unchecked>>
    BY <1>4 DEF Spawned
  <2>2. y # None => RoomOK(y)
    BY <1>2 DEF RoomOK
  <2> QED
    BY <1>1, <1>2, <1>3, <2>1, <2>2, ReadingStep
<1>5. CASE ~(live[n] # None /\ live[n].alive)
  <2> DEFINE counts == call[c].pc = "mutating" /\ row[n] # None
                       /\ row[n].ownerId = call[c].guest
  <2>1. /\ row' = IF Exists(n) THEN [row EXCEPT ![n].alive = TRUE] ELSE row
        /\ unchecked' = IF counts THEN unchecked \ {n} ELSE unchecked \cup {n}
    BY <1>1, <1>5 DEF Spawned, At, Exists
  <2>2. /\ OwnersKept /\ row' \in [Monster -> Row \cup {None}]
        /\ \A m \in Monster :
             /\ row'[m] = None <=> row[m] = None
             /\ row[m] # None => /\ row'[m].ownerId = row[m].ownerId
                                 /\ row'[m].alive = IF m = n THEN TRUE ELSE row[m].alive
    BY <1>1, <2>1, AliveRow
  <2>3. Tables'
    BY <1>1, <2>1, <2>2 DEF InventoryInv, Tables
  <2>4. SavedStep /\ LocalStep /\ HeldStep /\ HistoryStep /\ ReachStays
    BY <1>1, <2>2, OwnersKeptSteps
  <2>5. \A g \in Guest : \/ Counted(g)' \subseteq Counted(g)
                         \/ /\ counts /\ g = call[c].guest
                            /\ Counted(g)' \subseteq Counted(g) \cup {n}
    <3> SUFFICES ASSUME NEW g \in Guest
                 PROVE  \/ Counted(g)' \subseteq Counted(g)
                        \/ /\ counts /\ g = call[c].guest
                           /\ Counted(g)' \subseteq Counted(g) \cup {n}
      OBVIOUS
    <3>1. \A m \in Counted(g)' : m # n => m \in Counted(g)
      BY <2>1, <2>2, CountedIs
    <3>2. n \in Counted(g)' => counts /\ g = call[c].guest
      BY <1>1, <2>1, <2>2, CountedIs
    <3> HIDE DEF counts
    <3> QED
      BY <3>1, <3>2
  <2>6. ASSUME NEW g \in Guest, ~(Counted(g)' \subseteq Counted(g))
        PROVE  /\ call[c].service = "respawn" /\ call[c].pc = "mutating"
               /\ g = call[c].guest /\ Counted(g)' \subseteq Counted(g) \cup {n}
    <3>1. counts /\ g = call[c].guest /\ Counted(g)' \subseteq Counted(g) \cup {n}
      BY <2>5, <2>6
    <3>2. call[c].service # "respawn" => call[c].guest = None
      BY <1>1, <3>1, Calls DEF Served
    <3> QED
      BY <3>1, <3>2, Nones
  <2>7. OthersStay(c)
    BY <1>1, <1>2, <2>6 DEF OthersStay
  <2>8. \A g \in Guest : \/ Counted(g)' \subseteq Counted(g)
                         \/ Cardinality(Counted(g)') <= MAX_OWNED_MONSTERS
    <3> SUFFICES ASSUME NEW g \in Guest, ~(Counted(g)' \subseteq Counted(g))
                 PROVE  Cardinality(Counted(g)') <= MAX_OWNED_MONSTERS
      OBVIOUS
    <3> DEFINE T == Counted(g) \ {n}
               S == Counted(g)'
    <3>1. S \subseteq T \cup {n}
      BY <2>6
    <3>2. Cardinality(T) < MAX_OWNED_MONSTERS /\ IsFiniteSet(T)
      BY <1>2, <2>6, CountedFinite
    <3> HIDE DEF S, T
    <3>3. Cardinality(S) <= MAX_OWNED_MONSTERS
      BY <3>1, <3>2, Nones, OneMore
    <3> QED
      BY <3>3 DEF S
  <2>9. y # None => MoverOK(y)' /\ HolderOK(y)' /\ RoomOK(y)'
    <3> SUFFICES ASSUME y # None
                 PROVE  \E x : x = y /\ MoverOK(x)' /\ HolderOK(x)' /\ RoomOK(x)'
      <4>1. PICK x : x = y
        OBVIOUS
      <4> QED
        BY <4>1
    <3>1. PICK x \in Request : x = y
      BY <1>2
    <3>2. /\ x.pc = "move" /\ x.guest = call[c].guest /\ x.id = n
          /\ x.guest \in Guest /\ x.id \in Monster
          /\ Reach(x.guest, x.id) /\ HolderOK(x)
          /\ Cardinality(Counted(x.guest) \ {x.id}) < MAX_OWNED_MONSTERS
      BY <1>2, <3>1 DEF MoverOK, Moves
    <3>3. MoverOK(x)' /\ HolderOK(x)'
      BY <2>4, <3>2 DEF MoverOK, HolderOK, ReachStays
    <3>4. Counted(x.guest)' \ {x.id} \subseteq Counted(x.guest) \ {x.id}
      BY <2>5, <3>2
    <3>5. Cardinality(Counted(x.guest)' \ {x.id}) < MAX_OWNED_MONSTERS
      <4> DEFINE S == Counted(x.guest)' \ {x.id}
                 T == Counted(x.guest) \ {x.id}
      <4>1. IsFiniteSet(T) /\ S \subseteq T /\ Cardinality(T) < MAX_OWNED_MONSTERS
        BY <3>2, <3>4, CountedFinite
      <4> HIDE DEF S, T
      <4>2. Cardinality(S) < MAX_OWNED_MONSTERS
        BY <4>1, Nones, Fewer
      <4> QED
        BY <4>2 DEF S
    <3>6. RoomOK(x)'
      BY <3>2, <3>5 DEF RoomOK
    <3> QED
      BY <3>1, <3>3, <3>6
  <2>10. \A g \in Guest : selected'[g] \in {selected[g], None}
    BY <1>1
  <2>11. y # None => y \in Request /\ Served(y)
    BY <1>2
  <2> QED
    BY <1>2, <1>3, <2>3, <2>4, <2>7, <2>8, <2>9, <2>10, <2>11, WritingStep
<1> QED
  BY <1>4, <1>5

\* Deaths only take away from what counts.
LEMMA KilledStep ==
  ASSUME Params, InventoryInv, NEW c \in Call, Killed(c)
  PROVE  Kept
<1> DEFINE n == call[c].id
<1>1. /\ call[c] # None /\ call[c].pc = "mutating" /\ n \in Monster
      /\ call[c].service = "adminKill" /\ Resume(c)
      /\ UNCHANGED <<device, selected, locked, unchecked, spent>>
      /\ spent' \in [calls : 0..MaxCalls, faults : 0..MaxFaults]
  BY Calls, Spending DEF Killed, At, Served
<1>2. mode' = "running" /\ Turn(c, None) /\ ~Holds(call[c])
  BY <1>1, Resumed
<1>3. LocksOK' /\ World'
  BY <1>1, <1>2, ResumedLock DEF World
<1>4. \/ row' = IF Exists(n) THEN [row EXCEPT ![n].alive = FALSE] ELSE row
      \/ row' = row
  BY <1>1 DEF Killed
<1>5. /\ OwnersKept /\ row' \in [Monster -> Row \cup {None}]
      /\ \A m \in Monster :
           /\ row'[m] = None <=> row[m] = None
           /\ row[m] # None => /\ row'[m].ownerId = row[m].ownerId
                               /\ row'[m].alive => row[m].alive
  <2>1. CASE row' = row
    BY <2>1 DEF OwnersKept, InventoryInv, Tables
  <2>2. CASE row' # row
    <3>1. PICK b \in BOOLEAN :
            /\ row' = IF Exists(n) THEN [row EXCEPT ![n].alive = b] ELSE row
            /\ b = FALSE
      BY <1>4, <2>2
    <3> QED
      BY <1>1, <3>1, AliveRow
  <2> QED
    BY <2>1, <2>2
<1>6. Tables'
  BY <1>1, <1>5 DEF InventoryInv, Tables
<1>7. \A g \in Guest : Counted(g)' \subseteq Counted(g)
  BY <1>1, <1>5, CountedIs
<1> QED
  BY <1>1, <1>2, <1>3, <1>5, <1>6, <1>7, OwnersKeptStep
\* A monster within the reach of a device is bound to it.
LEMMA BoundRow ==
  ASSUME Params, InventoryInv, NEW n \in Monster, NEW g \in Guest, Reach(g, n),
         row' = [row EXCEPT ![n].ownerId = g], UNCHANGED device
  PROVE  /\ SavedStep /\ LocalStep /\ HeldStep /\ HistoryStep /\ ReachStays
         /\ row' \in [Monster -> Row \cup {None}]
         /\ \A m \in Monster :
              /\ row'[m] = None <=> row[m] = None
              /\ m # n => row'[m] = row[m]
         /\ row'[n].ownerId = g /\ row'[n].alive = row[n].alive
         /\ row'[n].accountOwnerId = row[n].accountOwnerId
         /\ Reach(g, n)'
<1>1. row[n] # None /\ row[n] \in Row
  BY RowFields DEF Reach
<1> DEFINE r == [row[n] EXCEPT !.ownerId = g]
<1>2. /\ r \in Row /\ r.ownerId = g /\ r.alive = row[n].alive
      /\ r.accountOwnerId = row[n].accountOwnerId
  BY <1>1 DEF Row
<1>3. row' = [row EXCEPT ![n] = r]
  BY <1>1 DEF InventoryInv, Tables
<1> HIDE DEF r
<1>4. /\ row' \in [Monster -> Row \cup {None}] /\ row'[n] = r /\ r # None /\ g # None
      /\ \A m \in Monster : m # n => row'[m] = row[m]
  BY <1>2, <1>3, Nones DEF InventoryInv, Tables
<1>5. SavedStep /\ HeldStep
  BY <1>2, <1>4 DEF SavedStep, HeldStep, Saved, Exists
<1>6. LocalStep
  BY <1>2, <1>4 DEF LocalStep, Saved, Exists, Reach
<1>7. HistoryStep
  <2> SUFFICES ASSUME NEW m \in Monster, Exists(m), row'[m] # None, row[m].ownerId # None
               PROVE  /\ row'[m].accountOwnerId = row[m].accountOwnerId
                      /\ row'[m].ownerId # None
    BY DEF HistoryStep
  <2> QED
    BY <1>2, <1>4 DEF Exists
<1>8. ReachStays
  BY <1>1, <1>2, <1>4 DEF ReachStays, Reach
<1>9. Reach(g, n)'
  BY <1>2, <1>4 DEF Reach
<1> QED
  BY <1>1, <1>2, <1>4, <1>5, <1>6, <1>7, <1>8, <1>9

LEMMA RebindStep ==
  ASSUME Params, InventoryInv, NEW c \in Call, Select_Rebind(c)
  PROVE  Kept
<1>1. /\ call[c] # None /\ call[c].pc = "rebind" /\ Goto(c, "choose")
      /\ row' = [row EXCEPT ![call[c].id].ownerId = call[c].guest]
      /\ unchecked' = unchecked \cup {call[c].id}
      /\ UNCHANGED <<device, selected, locked, spent>> /\ World'
  BY WorldStays DEF Select_Rebind, At
<1>2. /\ Reach(call[c].guest, call[c].id) /\ ~Holds(call[c])
      /\ call[c].guest \in Guest /\ call[c].id \in Monster
  BY <1>1, Calls DEF Served, MoverOK, Moves, Holds
<1>3. PICK g \in Guest, n \in Monster : g = call[c].guest /\ n = call[c].id
  BY <1>2
<1>4. /\ SavedStep /\ LocalStep /\ HeldStep /\ HistoryStep /\ ReachStays
      /\ row' \in [Monster -> Row \cup {None}]
      /\ \A m \in Monster :
           /\ row'[m] = None <=> row[m] = None
           /\ m # n => row'[m] = row[m]
      /\ Reach(g, n)'
  BY <1>1, <1>2, <1>3, BoundRow
<1>5. Tables'
  BY <1>1, <1>3, <1>4 DEF InventoryInv, Tables
<1>6. \A h \in Guest : Counted(h)' \subseteq Counted(h)
  BY <1>1, <1>3, <1>4, CountedIs
<1>7. OthersStay(c)
  BY <1>1, <1>6 DEF OthersStay
<1>8. PICK y \in Request :
        Turn(c, y) /\ y # None /\ y.guest = g /\ y.id = n /\ y.pc = "choose"
  BY <1>1, <1>3, Goes
<1>9. Served(y) /\ MoverOK(y)' /\ HolderOK(y)' /\ RoomOK(y)' /\ ~Holds(y)
  BY <1>4, <1>8 DEF Served, MoverOK, HolderOK, RoomOK, Holds
<1>10. LocksOK'
  BY <1>1, <1>2, <1>8, <1>9, LockKept
<1>11. \A h \in Guest : selected'[h] \in {selected[h], None}
  BY <1>1
<1> QED
  BY <1>1, <1>4, <1>5, <1>6, <1>7, <1>8, <1>9, <1>10, <1>11, WritingStep

\* The end of a respawn: what its device gains it has counted.
LEMMA BindStep ==
  ASSUME Params, InventoryInv, NEW c \in Call, Respawn_Bind(c)
  PROVE  Kept
<1>1. /\ call[c] # None /\ call[c].pc \in {"bind", "move"} /\ Answer(c) /\ Unlock(c)
      /\ row' = [row EXCEPT ![call[c].id].ownerId = call[c].guest]
      /\ selected' = [selected EXCEPT ![call[c].guest] = call[c].id]
      /\ UNCHANGED <<device, spent>> /\ World'
  BY WorldStays DEF Respawn_Bind, At
<1>2. /\ Reach(call[c].guest, call[c].id) /\ Holds(call[c]) /\ locked[call[c].guest] = c
      /\ call[c].guest \in Guest /\ call[c].id \in Monster
      /\ call[c].pc = "move" =>
           Cardinality(Counted(call[c].guest) \ {call[c].id}) < MAX_OWNED_MONSTERS
  BY <1>1, Calls DEF Served, MoverOK, Moves, Holds, RoomOK
<1>3. PICK g \in Guest, n \in Monster : g = call[c].guest /\ n = call[c].id
  BY <1>2
<1>4. /\ SavedStep /\ LocalStep /\ HeldStep /\ HistoryStep /\ ReachStays
      /\ row' \in [Monster -> Row \cup {None}]
      /\ \A m \in Monster :
           /\ row'[m] = None <=> row[m] = None
           /\ m # n => row'[m] = row[m]
      /\ row'[n].ownerId = g /\ row'[n].alive = row[n].alive
      /\ Reach(g, n)'
  BY <1>1, <1>2, <1>3, BoundRow
<1>5. unchecked' = IF call[c].pc = "move" THEN unchecked \ {n}
                   ELSE IF row[n].ownerId # g THEN unchecked \cup {n} ELSE unchecked
  BY <1>1, <1>3 DEF Respawn_Bind, At
<1>6. Tables' /\ \A h \in Guest : selected'[h] = IF h = g THEN n ELSE selected[h]
  BY <1>1, <1>3, <1>4, <1>5 DEF InventoryInv, Tables
<1>7. \A h \in Guest : h # g => Counted(h)' \subseteq Counted(h)
  BY <1>4, <1>5, CountedIs
<1>8. Counted(g)' \subseteq Counted(g) \/ Cardinality(Counted(g)') <= MAX_OWNED_MONSTERS
  <2>1. CASE call[c].pc = "move"
    <3> DEFINE T == Counted(g) \ {n}
               S == Counted(g)'
    <3>1. S \subseteq T \cup {n}
      BY <1>4, <1>5, <2>1, CountedIs
    <3>2. Cardinality(T) < MAX_OWNED_MONSTERS /\ IsFiniteSet(T)
      BY <1>2, <1>3, <2>1, CountedFinite
    <3> HIDE DEF S, T
    <3>3. Cardinality(S) <= MAX_OWNED_MONSTERS
      BY <3>1, <3>2, Nones, OneMore
    <3> QED
      BY <3>3 DEF S
  <2>2. CASE call[c].pc = "bind"
    <3>1. Counted(g)' \subseteq Counted(g)
      BY <1>4, <1>5, <2>2, CountedIs
    <3> QED
      BY <3>1
  <2> QED
    BY <1>1, <2>1, <2>2
<1>10. OthersStay(c)
  BY <1>1, <1>2, <1>3, <1>7 DEF OthersStay
<1>11. Turn(c, None)
  BY <1>1, Answers
<1>12. LocksOK'
  BY <1>1, <1>11, LockLeft
<1>13. \A h \in Guest : selected'[h] \in {selected[h], None} \/ Reach(h, selected[h])'
  BY <1>4, <1>6
<1>14. \A h \in Guest : \/ Counted(h)' \subseteq Counted(h)
                        \/ Cardinality(Counted(h)') <= MAX_OWNED_MONSTERS
  BY <1>7, <1>8
<1> QED
  BY <1>1, <1>4, <1>6, <1>10, <1>11, <1>12, <1>13, <1>14, WritingStep
\* A reset deletes only rows that neither a device nor an account owns.
LEMMA ResetStep ==
  ASSUME Params, InventoryInv, NEW c \in Call, Reset_Commit(c)
  PROVE  Kept
<1>1. /\ call[c] # None /\ call[c].pc = "replace" /\ Answer(c) /\ mode' = "running"
      /\ UNCHANGED <<device, locked, unchecked, spent>>
  BY DEF Reset_Commit, At
<1>2. /\ World' /\ ~Holds(call[c])
      /\ spent' \in [calls : 0..MaxCalls, faults : 0..MaxFaults]
  BY <1>1, Spending, Calls DEF World, Holds
<1>3. \A g \in Guest : selected'[g] \in {selected[g], None}
  BY DEF Reset_Commit
<1>4. row' = [m \in Monster |->
               IF Saved(m) \/ (Exists(m) /\ call[c].service = "daily")
               THEN [row[m] EXCEPT !.alive = FALSE] ELSE None]
  BY DEF Reset_Commit
<1>5. selected' \in [Guest -> Monster \cup {None}]
  BY DEF Reset_Commit, InventoryInv, Tables
<1>6. \A m \in Monster :
        /\ Saved(m) => row'[m] # None
        /\ row'[m] # None => /\ row[m] # None /\ row'[m] \in Row
                             /\ row'[m].ownerId = row[m].ownerId
                             /\ row'[m].accountOwnerId = row[m].accountOwnerId
                             /\ row'[m].alive = FALSE
  <2> SUFFICES ASSUME NEW m \in Monster
               PROVE  /\ Saved(m) => row'[m] # None
                      /\ row'[m] # None =>
                           /\ row[m] # None /\ row'[m] \in Row
                           /\ row'[m].ownerId = row[m].ownerId
                           /\ row'[m].accountOwnerId = row[m].accountOwnerId
                           /\ row'[m].alive = FALSE
    OBVIOUS
  <2>1. CASE row[m] = None
    BY <1>4, <2>1 DEF Saved, Exists
  <2>2. CASE row[m] # None
    <3>1. row[m] \in Row
      BY <2>2, RowFields
    <3> DEFINE r == [row[m] EXCEPT !.alive = FALSE]
    <3>2. /\ r \in Row /\ r.ownerId = row[m].ownerId /\ r.alive = FALSE
          /\ r.accountOwnerId = row[m].accountOwnerId
      BY <3>1 DEF Row
    <3>3. row'[m] \in {r, None} /\ (Saved(m) => row'[m] = r)
      BY <1>4
    <3> HIDE DEF r
    <3> QED
      BY <2>2, <3>2, <3>3, Nones
  <2> QED
    BY <2>1, <2>2
<1>7. row' \in [Monster -> Row \cup {None}]
  <2>1. \A m \in Monster : row'[m] \in Row \cup {None}
    BY <1>6
  <2> QED
    BY <1>4, <2>1
<1>8. Tables'
  BY <1>1, <1>2, <1>5, <1>7 DEF InventoryInv, Tables
<1>9. SavedStep
  BY <1>6 DEF SavedStep, Saved, Exists
<1>10. LocalStep
  BY <1>6 DEF LocalStep
<1>11. HeldStep
  BY <1>1 DEF HeldStep
<1>12. HistoryStep
  <2> SUFFICES ASSUME NEW m \in Monster, Exists(m), row'[m] # None, row[m].ownerId # None
               PROVE  /\ row'[m].accountOwnerId = row[m].accountOwnerId
                      /\ row'[m].ownerId # None
    BY DEF HistoryStep
  <2> QED
    BY <1>6
<1>13. ReachStays
  <2> SUFFICES ASSUME NEW m \in Monster
               PROVE  /\ \A g \in Guest : Reach(g, m) => Reach(g, m)'
                      /\ row[m] # None /\ row[m].accountOwnerId # None =>
                           row'[m] # None /\ row'[m].accountOwnerId # None
    BY DEF ReachStays
  <2>1. \A g \in Guest : Reach(g, m) => Saved(m)
    BY Nones DEF Reach, Saved, Exists
  <2>2. row[m] # None /\ row[m].accountOwnerId # None => Saved(m)
    BY DEF Saved, Exists
  <2> QED
    BY <1>6, <2>1, <2>2 DEF Reach
<1>14. \A g \in Guest : Counted(g)' \subseteq Counted(g)
  BY <1>6, CountedIs
<1>15. OthersStay(c)
  BY <1>1, <1>14 DEF OthersStay
<1>16. Turn(c, None)
  BY <1>1, Answers
<1>17. LocksOK'
  BY <1>1, <1>2, <1>16, LockKept
<1> QED
  BY <1>2, <1>3, <1>8, <1>9, <1>10, <1>11, <1>12, <1>13, <1>14, <1>15, <1>16, <1>17,
     WritingStep

\* A claim of a free device, or of one's own: rows of the device gain the account.
LEMMA TransferStep ==
  ASSUME Params, InventoryInv, NEW c \in Call, Claim_Transfer(c)
  PROVE  Kept
<1>1. /\ call[c] # None /\ call[c].pc = "transfer" /\ Answer(c) /\ Unlock(c)
      /\ UNCHANGED <<selected, unchecked, spent>> /\ World'
      /\ spent' \in [calls : 0..MaxCalls, faults : 0..MaxFaults]
  BY WorldStays, Spending DEF Claim_Transfer, At
<1>2. /\ call[c].guest \in Guest /\ call[c].account \in Account /\ Holds(call[c])
      /\ device[call[c].guest] \in {None, call[c].account}
      /\ locked[call[c].guest] = c
  BY <1>1, Calls DEF Served, HolderOK, Holds
<1>3. PICK g \in Guest, a \in Account : g = call[c].guest /\ a = call[c].account
  BY <1>2
<1>4. device' = [device EXCEPT ![g] = a]
  BY <1>3 DEF Claim_Transfer
<1>5. row' = [m \in Monster |-> IF m \in Owned(g) /\ row[m].accountOwnerId = None
                                THEN [row[m] EXCEPT !.accountOwnerId = a] ELSE row[m]]
  BY <1>3 DEF Claim_Transfer
<1> DEFINE gains(m) == row[m] # None /\ row[m].ownerId = g /\ row[m].accountOwnerId = None
<1>6. \A m \in Monster :
        /\ ~gains(m) => row'[m] = row[m]
        /\ gains(m) => /\ row'[m] \in Row /\ row'[m] # None
                       /\ row'[m].ownerId = g
                       /\ row'[m].accountOwnerId = a
                       /\ row'[m].alive = row[m].alive
  <2> SUFFICES ASSUME NEW m \in Monster
               PROVE  /\ ~gains(m) => row'[m] = row[m]
                      /\ gains(m) => /\ row'[m] \in Row /\ row'[m] # None
                                     /\ row'[m].ownerId = g
                                     /\ row'[m].accountOwnerId = a
                                     /\ row'[m].alive = row[m].alive
    OBVIOUS
  <2> DEFINE r == [row[m] EXCEPT !.accountOwnerId = a]
  <2>1. /\ ~gains(m) => row'[m] = row[m]
        /\ gains(m) => row'[m] = r
    BY <1>5 DEF Owned, Exists
  <2>2. row[m] # None => /\ r \in Row /\ r.ownerId = row[m].ownerId
                         /\ r.alive = row[m].alive /\ r.accountOwnerId = a
    BY RowFields DEF Row
  <2> HIDE DEF r
  <2> QED
    BY <2>1, <2>2, Nones
<1> HIDE DEF gains
<1>7. row' \in [Monster -> Row \cup {None}] /\ device' \in [Guest -> Account \cup {None}]
  <2>1. \A m \in Monster : row'[m] \in Row \cup {None}
    BY <1>6 DEF InventoryInv, Tables
  <2> QED
    BY <1>4, <1>5, <2>1 DEF InventoryInv, Tables
<1>8. Tables'
  BY <1>1, <1>7 DEF InventoryInv, Tables
<1>9. a # None /\ g # None
  BY Nones
<1>10. SavedStep
  BY <1>6, <1>9 DEF SavedStep, Saved, Exists
<1>11. LocalStep
  BY <1>6 DEF LocalStep, gains
<1>12. /\ \A h \in Guest : device'[h] = IF h = g THEN a ELSE device[h]
       /\ device[g] \in {None, a}
  BY <1>2, <1>3, <1>4 DEF InventoryInv, Tables
<1>13. HeldStep
  BY <1>12 DEF HeldStep
<1>14. HistoryStep
  <2> SUFFICES ASSUME NEW m \in Monster, Exists(m), row'[m] # None, row[m].ownerId # None
               PROVE  /\ row'[m].accountOwnerId # row[m].accountOwnerId =>
                           /\ row[m].accountOwnerId = None
                           /\ row'[m].accountOwnerId = device'[row[m].ownerId]
                      /\ row'[m].ownerId # None
    BY DEF HistoryStep
  <2>1. CASE gains(m)
    BY <1>6, <1>9, <1>12, <2>1 DEF gains
  <2>2. CASE ~gains(m)
    BY <1>6, <2>2
  <2> QED
    BY <2>1, <2>2
<1>15. ReachStays
  BY <1>6, <1>9 DEF ReachStays, Reach, gains
<1>16. \A h \in Guest : Counted(h)' \subseteq Counted(h)
  BY <1>1, <1>6, CountedIs DEF gains
<1>17. OthersStay(c)
  BY <1>2, <1>3, <1>12, <1>16 DEF OthersStay
<1>18. Turn(c, None)
  BY <1>1, Answers
<1>19. LocksOK'
  BY <1>1, <1>18, LockLeft
<1>20. \A h \in Guest : selected'[h] \in {selected[h], None}
  BY <1>1
<1> QED
  BY <1>1, <1>8, <1>10, <1>11, <1>13, <1>14, <1>15, <1>16, <1>17, <1>18, <1>19, <1>20,
     WritingStep

\* A release of one's own device: it leaves only what the account keeps.
LEMMA UnbindStep ==
  ASSUME Params, InventoryInv, NEW c \in Call, Release_Unbind(c)
  PROVE  Kept
<1>1. /\ call[c] # None /\ call[c].pc = "unbind" /\ Answer(c) /\ Unlock(c)
      /\ UNCHANGED <<selected, unchecked, spent>> /\ World'
      /\ spent' \in [calls : 0..MaxCalls, faults : 0..MaxFaults]
  BY WorldStays, Spending DEF Release_Unbind, At
<1>2. /\ call[c].guest \in Guest /\ call[c].account \in Account /\ Holds(call[c])
      /\ device[call[c].guest] = call[c].account
      /\ locked[call[c].guest] = c
  BY <1>1, Calls DEF Served, HolderOK, Holds
<1>3. PICK g \in Guest, a \in Account : g = call[c].guest /\ a = call[c].account
  BY <1>2
<1>4. device' = [device EXCEPT ![g] = None]
  BY <1>3 DEF Release_Unbind
<1>5. row' = [m \in Monster |->
                IF m \in Owned(g) \ call[c].spared /\ row[m].accountOwnerId = a
                THEN [row[m] EXCEPT !.ownerId = None] ELSE row[m]]
  BY <1>3 DEF Release_Unbind
<1> DEFINE leaves(m) == /\ row[m] # None /\ row[m].ownerId = g /\ m \notin call[c].spared
                        /\ row[m].accountOwnerId = a
<1>6. \A m \in Monster :
        /\ ~leaves(m) => row'[m] = row[m]
        /\ leaves(m) => /\ row'[m] \in Row /\ row'[m] # None
                        /\ row'[m].ownerId = None
                        /\ row'[m].accountOwnerId = a
  <2> SUFFICES ASSUME NEW m \in Monster
               PROVE  /\ ~leaves(m) => row'[m] = row[m]
                      /\ leaves(m) => /\ row'[m] \in Row /\ row'[m] # None
                                      /\ row'[m].ownerId = None
                                      /\ row'[m].accountOwnerId = a
    OBVIOUS
  <2> DEFINE r == [row[m] EXCEPT !.ownerId = None]
  <2>1. /\ ~leaves(m) => row'[m] = row[m]
        /\ leaves(m) => row'[m] = r
    BY <1>5 DEF Owned, Exists
  <2>2. row[m] # None => /\ r \in Row /\ r.ownerId = None
                         /\ r.accountOwnerId = row[m].accountOwnerId
    BY RowFields DEF Row
  <2> HIDE DEF r
  <2> QED
    BY <2>1, <2>2, Nones
<1> HIDE DEF leaves
<1>7. row' \in [Monster -> Row \cup {None}] /\ device' \in [Guest -> Account \cup {None}]
  <2>1. \A m \in Monster : row'[m] \in Row \cup {None}
    BY <1>6 DEF InventoryInv, Tables
  <2> QED
    BY <1>4, <1>5, <2>1 DEF InventoryInv, Tables
<1>8. Tables'
  BY <1>1, <1>7 DEF InventoryInv, Tables
<1>9. a # None /\ g # None
  BY Nones
<1>10. SavedStep
  BY <1>6, <1>9 DEF SavedStep, Saved, Exists
<1>11. LocalStep
  BY <1>6, <1>9 DEF LocalStep, leaves
<1>12. /\ \A h \in Guest : device'[h] = IF h = g THEN None ELSE device[h]
       /\ device[g] = a
  BY <1>2, <1>3, <1>4 DEF InventoryInv, Tables
<1>13. HeldStep
  BY <1>1, <1>3, <1>12 DEF HeldStep, At
<1>14. HistoryStep
  <2> SUFFICES ASSUME NEW m \in Monster, Exists(m), row'[m] # None, row[m].ownerId # None
               PROVE  /\ row'[m].accountOwnerId = row[m].accountOwnerId
                      /\ row'[m].ownerId = None =>
                           /\ device[row[m].ownerId] = row[m].accountOwnerId
                           /\ device'[row[m].ownerId] = None
    BY DEF HistoryStep
  <2>1. CASE leaves(m)
    BY <1>6, <1>9, <1>12, <2>1 DEF leaves
  <2>2. CASE ~leaves(m)
    BY <1>6, <2>2
  <2> QED
    BY <2>1, <2>2
<1>15. ReachStays
  BY <1>6, <1>9 DEF ReachStays, Reach, leaves
<1>16. \A h \in Guest : Counted(h)' \subseteq Counted(h)
  <2> SUFFICES ASSUME NEW h \in Guest, NEW m \in Counted(h)'
               PROVE  m \in Counted(h)
    OBVIOUS
  <2>1. m \in Monster /\ row'[m].ownerId = h /\ h # None
    BY CountedIs, Nones
  <2>2. row'[m] = row[m]
    BY <1>6, <2>1
  <2> QED
    BY <1>1, <2>2, CountedIs
<1>17. OthersStay(c)
  BY <1>2, <1>3, <1>12, <1>16 DEF OthersStay
<1>18. Turn(c, None)
  BY <1>1, Answers
<1>19. LocksOK'
  BY <1>1, <1>18, LockLeft
<1>20. \A h \in Guest : selected'[h] \in {selected[h], None}
  BY <1>1
<1> QED
  BY <1>1, <1>8, <1>10, <1>11, <1>13, <1>14, <1>15, <1>16, <1>17, <1>18, <1>19, <1>20,
     WritingStep-----------------------------------------------------------------------------------
(* The world meanwhile.                                                            *)

\* A tick: what the commands do to the live world does not matter here, only which
\* rows they revive, and that those do not count.
LEMMA TickStep ==
  ASSUME Params, InventoryInv, Tick
  PROVE  Kept
<1>1. UNCHANGED <<device, selected, locked, mode, call, spent>>
  BY DEF Tick
<1>2. \E revived \in SUBSET Monster :
        /\ \A m \in revived : row[m] # None
        /\ row' = [m \in Monster |->
                     IF m \in revived THEN [row[m] EXCEPT !.alive = TRUE] ELSE row[m]]
        /\ unchecked' = unchecked \cup revived
  <2> DEFINE after == CHOOSE f : f = [i \in 0..Len(commands) |->
                        IF i = 0 THEN live ELSE Applied(f[i - 1], commands[i])]
             revived == {m \in {m \in Monster : live[m] = None
                                               /\ after[Len(commands)][m] # None} :
                          Exists(m) /\ ~row[m].alive}
  <2>1. /\ row' = [m \in Monster |->
                     IF m \in revived THEN [row[m] EXCEPT !.alive = TRUE] ELSE row[m]]
        /\ unchecked' = unchecked \cup revived
    BY DEF Tick
  <2>2. revived \in SUBSET Monster /\ \A m \in revived : row[m] # None
    BY DEF Exists
  <2> HIDE DEF revived
  <2> QED
    BY <2>1, <2>2
<1>3. PICK revived \in SUBSET Monster :
        /\ \A m \in revived : row[m] # None
        /\ row' = [m \in Monster |->
                     IF m \in revived THEN [row[m] EXCEPT !.alive = TRUE] ELSE row[m]]
        /\ unchecked' = unchecked \cup revived
  BY <1>2
<1>4. \A m \in Monster :
        /\ m \notin revived => row'[m] = row[m]
        /\ m \in revived => /\ row'[m] \in Row /\ row'[m] # None
                            /\ row'[m].ownerId = row[m].ownerId
                            /\ row'[m].accountOwnerId = row[m].accountOwnerId
  <2> SUFFICES ASSUME NEW m \in Monster, m \in revived
               PROVE  /\ row'[m] \in Row /\ row'[m] # None
                      /\ row'[m].ownerId = row[m].ownerId
                      /\ row'[m].accountOwnerId = row[m].accountOwnerId
    BY <1>3
  <2> DEFINE r == [row[m] EXCEPT !.alive = TRUE]
  <2>1. row'[m] = r /\ row[m] \in Row
    BY <1>3, RowFields
  <2>2. /\ r \in Row /\ r.ownerId = row[m].ownerId
        /\ r.accountOwnerId = row[m].accountOwnerId
    BY <2>1 DEF Row
  <2> HIDE DEF r
  <2> QED
    BY <2>1, <2>2, Nones
<1>5. OwnersKept
  BY <1>3, <1>4 DEF OwnersKept
<1>6. row' \in [Monster -> Row \cup {None}]
  <2>1. \A m \in Monster : row'[m] \in Row \cup {None}
    BY <1>4 DEF InventoryInv, Tables
  <2> QED
    BY <1>3, <2>1
<1>7. Tables' /\ World'
  <2>1. unchecked' \subseteq Monster
    BY <1>3 DEF InventoryInv, Tables
  <2> QED
    BY <1>1, <1>6, <2>1 DEF InventoryInv, Tables, World
<1>8. \A g \in Guest : Counted(g)' \subseteq Counted(g)
  <2> SUFFICES ASSUME NEW g \in Guest, NEW m \in Counted(g)'
               PROVE  m \in Counted(g)
    OBVIOUS
  <2>1. m \in Monster /\ m \notin unchecked'
    BY CountedIs
  <2>2. m \notin revived /\ m \notin unchecked
    BY <1>3, <2>1
  <2>3. row'[m] = row[m]
    BY <1>4, <2>1, <2>2
  <2> QED
    BY <2>1, <2>2, <2>3, CountedIs
<1>9. Turn(None, None)
  BY <1>1, Nones DEF Turn, InventoryInv, CallsOK
<1>10. LocksOK'
  BY <1>1, <1>9, Nones, LockKept
<1> QED
  BY <1>1, <1>5, <1>7, <1>8, <1>9, <1>10, OwnersKeptStep

LEMMA DieStep ==
  ASSUME Params, InventoryInv, NEW n \in Monster, Die(n)
  PROVE  Kept
<1>1. /\ UNCHANGED <<device, selected, locked, mode, call, unchecked>>
      /\ row' = IF Exists(n) THEN [row EXCEPT ![n].alive = FALSE] ELSE row
      /\ spent' \in [calls : 0..MaxCalls, faults : 0..MaxFaults]
  BY Spending DEF Die
<1>2. PICK b \in BOOLEAN :
        /\ row' = IF Exists(n) THEN [row EXCEPT ![n].alive = b] ELSE row
        /\ b = FALSE
  BY <1>1
<1>3. /\ OwnersKept /\ row' \in [Monster -> Row \cup {None}]
      /\ \A m \in Monster :
           /\ row'[m] = None <=> row[m] = None
           /\ row[m] # None => /\ row'[m].ownerId = row[m].ownerId
                               /\ row'[m].alive => row[m].alive
  BY <1>2, AliveRow
<1>4. Tables' /\ World'
  BY <1>1, <1>3 DEF InventoryInv, Tables, World
<1>5. \A g \in Guest : Counted(g)' \subseteq Counted(g)
  BY <1>1, <1>3, CountedIs
<1>6. Turn(None, None)
  BY <1>1, Nones DEF Turn, InventoryInv, CallsOK
<1>7. LocksOK'
  BY <1>1, <1>6, Nones, LockKept
<1> QED
  BY <1>1, <1>3, <1>4, <1>5, <1>6, <1>7, OwnersKeptStep

\* Nothing of the requests or the tables moves.
LEMMA IdleStep ==
  ASSUME Params, InventoryInv,
         \/ \E m \in Monster : BodyRemoved(m)
         \/ Pause \/ Unpause \/ UNCHANGED vars
  PROVE  Kept
<1>1. /\ UNCHANGED <<device, row, selected, unchecked, locked, call>> /\ World'
      /\ spent' \in [calls : 0..MaxCalls, faults : 0..MaxFaults]
  BY Spending
     DEF BodyRemoved, Pause, Unpause, vars, tables, world, InventoryInv, World
<1>2. Turn(None, None)
  BY <1>1, Nones DEF Turn, InventoryInv, CallsOK
<1>3. LocksOK'
  BY <1>1, <1>2, Nones, LockKept
<1> QED
  BY <1>1, <1>2, <1>3, ReadingStep

-----------------------------------------------------------------------------------
(* The invariant.                                                                  *)

LEMMA RequestsStep ==
  ASSUME Params, InventoryInv, NEW c \in Call, Requests(c)
  PROVE  Kept
<1>1. ASSUME NEW g \in Guest, NEW a \in Account \cup {None},
             \/ \E d \in Dna : Create(c, g, a, d)
             \/ \E m \in Monster : Copy(c, g, a, m) \/ Select(c, g, a, m) \/ Respawn(c, g, a, m)
             \/ Claim(c, g, a) \/ Release(c, g, a)
      PROVE  Kept
  <2>1. ASSUME NEW d \in Dna, Create(c, g, a, d)
        PROVE  Kept
    BY <2>1, CreateBegins
  <2>2. ASSUME NEW m \in Monster,
               Copy(c, g, a, m) \/ Select(c, g, a, m) \/ Respawn(c, g, a, m)
        PROVE  Kept
    BY <2>2, CopyBegins, SelectBegins, HoldingBegins
  <2>3. CASE Claim(c, g, a) \/ Release(c, g, a)
    BY <2>3, HoldingBegins
  <2> QED
    BY <1>1, <2>1, <2>2, <2>3
<1>2. ASSUME NEW g \in Guest, NEW m \in Monster,
             Join(c, g, m) \/ \E d \in Dna : Update(c, g, m, d)
      PROVE  Kept
  BY <1>2, UpdateBegins
<1>3. ASSUME NEW m \in Monster,
             AdminSpawn(c, m) \/ AdminKill(c, m) \/ \E d \in Dna : AdminUpdate(c, m, d)
      PROVE  Kept
  BY <1>3, AdminBegins, UpdateBegins
<1>4. ASSUME \/ \E d \in Dna, spawn \in BOOLEAN : AdminCreate(c, d, spawn)
             \/ \E service \in {"reset", "daily"} : Reset(c, service)
      PROVE  Kept
  BY <1>4, AdminBegins
<1> QED
  BY <1>1, <1>2, <1>3, <1>4 DEF Requests

LEMMA StepsStep ==
  ASSUME Params, InventoryInv, NEW c \in Call, Steps(c)
  PROVE  Kept
BY CountStep, InsertStep, UpdateWriteStep, QueueStep, RebindStep, ChooseStep, MutateStep,
   SpawnedStep, KilledStep, FailStep, BindStep, StoreStep, NotingStep, ResetStep,
   TransferStep, UnbindStep
   DEF Steps

LEMMA NextStep ==
  ASSUME InventoryInv, [Next]_vars
  PROVE  Kept
<1>1. Params
  BY ParamsHold
<1>2. CASE Next
  BY <1>1, <1>2, RequestsStep, StepsStep, TickStep, DieStep, IdleStep DEF Next
<1>3. CASE UNCHANGED vars
  BY <1>1, <1>3, IdleStep
<1> QED
  BY <1>2, <1>3

LEMMA InitHolds == Init => InventoryInv
<1> SUFFICES ASSUME Init
             PROVE  InventoryInv
  OBVIOUS
<1>1. Params
  BY ParamsHold
<1>2. row \in [Monster -> Row \cup {None}]
  BY DEF Init, Row
<1>3. Tables /\ World
  BY <1>1, <1>2, Nones DEF Init, Tables, World
<1>4. CallsOK
  BY DEF Init, CallsOK
<1>5. LocksOK
  BY <1>1, Nones DEF Init, LocksOK
<1>6. SelectionsOK
  BY <1>1, Nones DEF Init, SelectionsOK, Reach, Owned, Exists
<1>7. QuotaOK
  <2> SUFFICES ASSUME NEW g \in Guest
               PROVE  Cardinality(Counted(g)) <= MAX_OWNED_MONSTERS
    BY DEF QuotaOK
  <2> DEFINE T == Owned(g) \ unchecked
             S == Counted(g)
  <2>1. Cardinality(T) <= MAX_OWNED_MONSTERS
    BY DEF Init
  <2>2. S \subseteq T
    BY DEF Counted, Living
  <2>3. IsFiniteSet(T)
    <3>1. T \subseteq Monster /\ IsFiniteSet(Monster)
      BY <1>1 DEF Owned, Params, InventoryConstants
    <3> HIDE DEF T
    <3> QED
      BY <3>1, FS_Subset
  <2> HIDE DEF S, T
  <2>4. /\ Cardinality(S) <= Cardinality(T) /\ Cardinality(S) \in Nat
        /\ Cardinality(T) \in Nat /\ MAX_OWNED_MONSTERS \in Nat
    BY <1>1, <2>2, <2>3, Nones, FS_Subset, FS_CardinalityType
  <2> QED
    BY <2>1, <2>4 DEF S
<1> QED
  BY <1>3, <1>4, <1>5, <1>6, <1>7 DEF InventoryInv

LEMMA Invariance == Spec => []InventoryInv
<1>1. InventoryInv /\ [Next]_vars => InventoryInv'
  BY NextStep DEF Kept
<1> QED
  BY InitHolds, <1>1, PTL DEF Spec

-----------------------------------------------------------------------------------
(* The live world and its queue, which no row depends on for its owner.  A tick     *)
(* folds the queue, a keeper action filters it.                                     *)

LiveOK == live \in [Monster -> Body \cup {None}] /\ commands \in Seq(Command)

LEMMA BodyFields ==
  ASSUME NEW b \in Body
  PROVE  /\ \A d \in Dna : [b EXCEPT !.dna = d] \in Body
         /\ [b EXCEPT !.alive = FALSE] \in Body
BY DEF Body

LEMMA NewBody ==
  ASSUME NEW w \in [Monster -> Body \cup {None}], NEW n \in Monster,
         NEW b \in Body \cup {None}
  PROVE  [w EXCEPT ![n] = b] \in [Monster -> Body \cup {None}]
OBVIOUS

LEMMA AppliedType ==
  ASSUME NEW w \in [Monster -> Body \cup {None}], NEW x \in Command
  PROVE  Applied(w, x) \in [Monster -> Body \cup {None}]
<1>1. x.entityId \in Monster /\ x.dna \in Dna
  BY DEF Command
<1>2. PICK n \in Monster : n = x.entityId
  BY <1>1
<1>3. CASE x.type = "spawn"
  <2>1. [alive |-> TRUE, dna |-> x.dna] \in Body
    BY <1>1 DEF Body
  <2> QED BY <1>2, <1>3, <2>1, NewBody DEF Applied
<1>4. CASE x.type # "spawn" /\ w[n] # None
  <2>1. w[n] \in Body
    BY <1>4
  <2>2. PICK b \in Body : b = [w[n] EXCEPT !.dna = x.dna]
    BY <1>1, <2>1, BodyFields
  <2>3. Applied(w, x) = [w EXCEPT ![n] = b]
    BY <1>2, <1>4, <2>2 DEF Applied
  <2> QED BY <2>3, NewBody
<1>5. CASE x.type # "spawn" /\ w[n] = None
  BY <1>2, <1>5 DEF Applied
<1> QED BY <1>3, <1>4, <1>5

\* A function that has the recursion of Tick up to n.
Lives(f, w, q, n) ==
  f = [i \in 0..n |-> IF i = 0 THEN w ELSE Applied(f[i - 1], q[i])]

LEMMA LivesExist ==
  ASSUME NEW w, NEW q, NEW n \in Nat
  PROVE  \E f : Lives(f, w, q, n)
<1> DEFINE T == {k \in Nat : \E f : Lives(f, w, q, k)}
<1>1. 0 \in T
  <2>1. Lives([i \in 0..0 |-> w], w, q, 0)
    BY DEF Lives
  <2> QED BY <2>1
<1>2. ASSUME NEW k \in 1..n, k - 1 \in T PROVE k \in T
  <2>1. k \in Nat /\ k - 1 \in Nat /\ k # 0
    OBVIOUS
  <2>2. PICK f : Lives(f, w, q, k - 1)
    BY <1>2
  <2> DEFINE g == [i \in 0..k |-> IF i = k THEN Applied(f[k - 1], q[k]) ELSE f[i]]
  <2>3. \A i \in 0..k : g[i] = IF i = 0 THEN w ELSE Applied(g[i - 1], q[i])
    <3> TAKE i \in 0..k
    <3>1. \A j \in 0..k - 1 : f[j] = IF j = 0 THEN w ELSE Applied(f[j - 1], q[j])
      BY <2>2 DEF Lives
    <3>2. CASE i = k
      BY <3>2, <2>1
    <3>3. CASE i # k
      <4>1. i \in 0..k - 1 /\ g[i] = f[i]
        BY <3>3, <2>1
      <4>2. i # 0 => i - 1 \in 0..k /\ i - 1 # k /\ g[i - 1] = f[i - 1]
        BY <3>3, <2>1
      <4> QED BY <4>1, <4>2, <3>1
    <3> QED BY <3>2, <3>3
  <2>4. Lives(g, w, q, k)
    BY <2>3 DEF Lives
  <2> QED BY <2>1, <2>4
<1>3. \A i \in 0..n : i \in T
  <2> HIDE DEF T
  <2> QED BY <1>1, <1>2, Inducts
<1> QED BY <1>3

LEMMA LivesType ==
  ASSUME NEW w \in [Monster -> Body \cup {None}], NEW q \in Seq(Command), NEW f,
         Lives(f, w, q, Len(q))
  PROVE  f[Len(q)] \in [Monster -> Body \cup {None}]
<1>1. PICK n \in Nat : Len(q) = n
  BY LenProperties
<1> DEFINE T == {i \in 0..n : f[i] \in [Monster -> Body \cup {None}]}
<1>2. \A i \in 0..n : f[i] = IF i = 0 THEN w ELSE Applied(f[i - 1], q[i])
  BY <1>1 DEF Lives
<1>3. 0 \in T
  BY <1>2
<1>4. ASSUME NEW i \in 1..n, i - 1 \in T PROVE i \in T
  <2>1. q[i] \in Command /\ i \in 0..n /\ i # 0
    BY <1>1, ElementOfSeq
  <2>2. f[i - 1] \in [Monster -> Body \cup {None}]
    BY <1>4
  <2>3. Applied(f[i - 1], q[i]) \in [Monster -> Body \cup {None}]
    BY <2>1, <2>2, AppliedType
  <2> QED BY <1>2, <2>1, <2>3
<1>5. \A i \in 0..n : i \in T
  <2> HIDE DEF T
  <2> QED BY <1>3, <1>4, Inducts
<1> QED BY <1>1, <1>5

LEMMA TickLives ==
  ASSUME LiveOK, Tick
  PROVE  LiveOK'
<1>1. PICK w \in [Monster -> Body \cup {None}] : w = live
  BY DEF LiveOK
<1>2. PICK q \in Seq(Command) : q = commands
  BY DEF LiveOK
<1>3. Len(q) \in Nat
  BY LenProperties
<1>4. PICK f : f = CHOOSE g : Lives(g, w, q, Len(q))
  OBVIOUS
<1>5. Lives(f, w, q, Len(q))
  BY <1>3, <1>4, LivesExist
<1>6. live' = f[Len(q)]
  BY <1>1, <1>2, <1>4 DEF Tick, Lives
<1>7. f[Len(q)] \in [Monster -> Body \cup {None}]
  BY <1>5, LivesType
<1>8. commands' = <<>>
  BY DEF Tick
<1> QED BY <1>6, <1>7, <1>8, EmptySeq DEF LiveOK

\* The handlers that push a command.
LEMMA EnqueueLives ==
  ASSUME Params, InventoryInv, LiveOK, NEW c \in Call,
         Update_Sync(c) \/ Join_Enter(c) \/ AdminCreate_Announce(c)
  PROVE  LiveOK'
<1>1. call[c] # None /\ call[c].pc \in {"sync", "enter", "announce"} /\ live' = live
  BY DEF Update_Sync, Join_Enter, AdminCreate_Announce, At
<1>2. call[c].id \in Monster /\ call[c].dna \in Dna
  BY <1>1, Calls DEF Served
<1>3. \/ commands' = commands
      \/ \E t \in {"spawn", "updateDna"} :
           commands' = Append(commands, [type |-> t, entityId |-> call[c].id, dna |-> call[c].dna])
  BY DEF Update_Sync, Join_Enter, AdminCreate_Announce, Enqueue
<1>4. ASSUME NEW t \in {"spawn", "updateDna"},
             commands' = Append(commands, [type |-> t, entityId |-> call[c].id, dna |-> call[c].dna])
      PROVE  commands' \in Seq(Command)
  <2>1. [type |-> t, entityId |-> call[c].id, dna |-> call[c].dna] \in Command
    BY <1>2 DEF Command
  <2> QED BY <1>4, <2>1, AppendProperties DEF LiveOK
<1> QED BY <1>1, <1>3, <1>4 DEF LiveOK

\* A body falls.
LEMMA Falls ==
  ASSUME NEW w \in [Monster -> Body \cup {None}], NEW n \in Monster, w[n] # None
  PROVE  [w EXCEPT ![n].alive = FALSE] \in [Monster -> Body \cup {None}]
<1>1. w[n] \in Body
  OBVIOUS
<1>2. PICK b \in Body : b = [w[n] EXCEPT !.alive = FALSE]
  BY <1>1, BodyFields
<1>3. [w EXCEPT ![n].alive = FALSE] = [w EXCEPT ![n] = b]
  BY <1>2
<1> QED BY <1>3, NewBody

LEMMA KeeperLives ==
  ASSUME Params, InventoryInv, LiveOK, NEW c \in Call, Spawned(c) \/ Killed(c)
  PROVE  LiveOK'
<1> DEFINE n == call[c].id
           q == Without(commands, {x \in Command : x.entityId = n})
<1>1. /\ call[c] # None /\ n \in Monster
      /\ Spawned(c) => call[c].dna \in Dna
  BY Calls DEF Spawned, Killed, At, Served
<1>2. q \in Seq(Command)
  BY WithoutIsSeq DEF LiveOK
<1>3. CASE Spawned(c)
  <2>1. [alive |-> TRUE, dna |-> call[c].dna] \in Body
    BY <1>1, <1>3 DEF Body
  <2>2. \/ UNCHANGED <<live, commands>>
        \/ /\ live' = [live EXCEPT ![n] = [alive |-> TRUE, dna |-> call[c].dna]]
           /\ commands' = q
    BY <1>3 DEF Spawned
  <2> HIDE DEF n, q
  <2> QED BY <1>1, <1>2, <2>1, <2>2, NewBody DEF LiveOK
<1>4. CASE Killed(c)
  <2>1. /\ live' = live \/ (live[n] # None /\ live' = [live EXCEPT ![n].alive = FALSE])
        /\ commands' = commands \/ commands' = q
    BY <1>4 DEF Killed
  <2> HIDE DEF n, q
  <2>2. PICK w \in [Monster -> Body \cup {None}] : w = live
    BY DEF LiveOK
  <2>3. CASE live[n] # None /\ live' = [live EXCEPT ![n].alive = FALSE]
    <3>1. [w EXCEPT ![n].alive = FALSE] \in [Monster -> Body \cup {None}]
      BY <1>1, <2>2, <2>3, Falls
    <3> QED BY <1>2, <2>1, <2>2, <2>3, <3>1 DEF LiveOK
  <2>4. CASE live' = live
    BY <1>2, <2>1, <2>4 DEF LiveOK
  <2> QED BY <2>1, <2>3, <2>4
<1> QED BY <1>3, <1>4

LEMMA BodyLives ==
  ASSUME LiveOK, NEW n \in Monster, Die(n) \/ BodyRemoved(n)
  PROVE  LiveOK'
<1>1. PICK w \in [Monster -> Body \cup {None}] : w = live
  BY DEF LiveOK
<1>2. w[n] # None /\ commands' = commands
  BY <1>1 DEF Die, BodyRemoved
<1>3. CASE Die(n)
  <2>1. [w EXCEPT ![n].alive = FALSE] \in [Monster -> Body \cup {None}]
    BY <1>2, Falls
  <2> QED BY <1>1, <1>2, <1>3, <2>1 DEF Die, LiveOK
<1>4. CASE BodyRemoved(n)
  <2>1. [w EXCEPT ![n] = None] \in [Monster -> Body \cup {None}]
    BY NewBody
  <2> QED BY <1>1, <1>2, <1>4, <2>1 DEF BodyRemoved, LiveOK
<1> QED BY <1>3, <1>4

LEMMA ResetLives ==
  ASSUME LiveOK, NEW c \in Call, NEW service, Reset(c, service) \/ Reset_Commit(c)
  PROVE  LiveOK'
BY EmptySeq DEF Reset, Reset_Commit, world, LiveOK

LEMMA RequestsLive ==
  ASSUME LiveOK, NEW c \in Call, Requests(c)
  PROVE  LiveOK'
<1>1. ASSUME NEW g \in Guest, NEW a \in Account \cup {None},
             \/ \E d \in Dna : Create(c, g, a, d)
             \/ \E m \in Monster : Copy(c, g, a, m) \/ Select(c, g, a, m) \/ Respawn(c, g, a, m)
             \/ Claim(c, g, a) \/ Release(c, g, a)
      PROVE  UNCHANGED <<live, commands>>
  BY <1>1 DEF Create, Copy, Select, Respawn, Claim, Release, world
<1>2. ASSUME NEW g \in Guest, NEW m \in Monster,
             Join(c, g, m) \/ \E d \in Dna : Update(c, g, m, d)
      PROVE  UNCHANGED <<live, commands>>
  BY <1>2 DEF Join, Update, world
<1>3. ASSUME NEW m \in Monster,
             AdminSpawn(c, m) \/ AdminKill(c, m) \/ \E d \in Dna : AdminUpdate(c, m, d)
      PROVE  UNCHANGED <<live, commands>>
  BY <1>3 DEF AdminSpawn, AdminKill, AdminUpdate, world
<1>4. ASSUME NEW d \in Dna, NEW spawn \in BOOLEAN, AdminCreate(c, d, spawn)
      PROVE  UNCHANGED <<live, commands>>
  BY <1>4 DEF AdminCreate, world
<1>5. (\E service \in {"reset", "daily"} : Reset(c, service)) \/ UNCHANGED <<live, commands>>
  BY <1>1, <1>2, <1>3, <1>4 DEF Requests
<1> QED BY <1>5, ResetLives DEF LiveOK

LEMMA StepsLive ==
  ASSUME Params, InventoryInv, LiveOK, NEW c \in Call, Steps(c)
  PROVE  LiveOK'
<1>1. \/ Update_Sync(c) \/ Join_Enter(c) \/ AdminCreate_Announce(c)
      \/ Spawned(c) \/ Killed(c) \/ Reset_Commit(c)
      \/ UNCHANGED <<live, commands>>
  BY DEF Steps, CreateOwned_Count, CreateOwned_Insert, Update_Write, Select_Rebind,
         Select_Choose, Mutate, MutationFails, Respawn_Bind, AdminCreate_Store,
         Reset_ReadSaved, Claim_Transfer, Release_Memberships, Release_Unbind, Fail, world
<1> QED BY <1>1, EnqueueLives, KeeperLives, ResetLives DEF LiveOK

LEMMA NextLives ==
  ASSUME InventoryInv, LiveOK, [Next]_vars
  PROVE  LiveOK'
<1>1. Params
  BY ParamsHold
<1>2. CASE Pause \/ Unpause \/ UNCHANGED vars
  BY <1>2 DEF Pause, Unpause, vars, world, LiveOK
<1> QED BY <1>1, <1>2, RequestsLive, StepsLive, BodyLives, TickLives DEF Next

LEMMA InitLives == Init => LiveOK
BY EmptySeq DEF Init, LiveOK

-----------------------------------------------------------------------------------
(* What holds of every run.                                                        *)

\* No handler leaves a request at an await without what its next part reads there, and
\* no command without a design reaches the queue: what a handler checked or read before
\* an await is still in its request after it.
THEOREM InventoryTypeCorrect == Spec => []TypeOK
<1>1. Init => InventoryInv /\ LiveOK
  BY InitHolds, InitLives
<1>2. InventoryInv /\ LiveOK /\ [Next]_vars => InventoryInv' /\ LiveOK'
  BY NextStep, NextLives DEF Kept
<1>3. InventoryInv /\ LiveOK => TypeOK
  BY DEF InventoryInv, LiveOK, Tables, World, CallsOK, LocksOK, TypeOK
<1> QED BY <1>1, <1>2, <1>3, PTL DEF Spec

\* The monster a device selected can always be got back by it: selectMonster and
\* respawnMonster check ownership before several awaits, and in between other devices
\* rebind it, releases drop the device from its row and a reset deletes unowned rows.
THEOREM SelectedStaysReachable == Spec => []SelectedIsReachable
<1>1. InventoryInv => SelectedIsReachable
  BY DEF InventoryInv, SelectionsOK, Reach, SelectedIsReachable, Exists
<1> QED
  BY <1>1, Invariance, PTL

\* The quota of createOwnedMonster and respawnMonster is kept, whatever overlaps: the
\* count they take under the lock of the device is still right when they write, also
\* after the keeper action for which a respawn keeps its transaction open.
THEOREM QuotaAlwaysKept == Spec => []QuotaKept
<1>1. InventoryInv => QuotaKept
  BY DEF InventoryInv, QuotaOK, QuotaKept, Counted
<1> QED
  BY <1>1, Invariance, PTL

\* No step loses a monster that a device or an account owns: releaseDevice leaves a
\* row to its account, and adminResetWorld decides in its transaction what to delete.
THEOREM NothingSavedIsLost == Spec => SavedForever
<1>1. InventoryInv /\ [Next]_vars => SavedStep
  BY NextStep DEF Kept
<1> QED
  BY <1>1, Invariance, PTL DEF Spec, SavedForever, SavedStep

\* A monster without an account stays with its device: of selectMonster, respawnMonster
\* and releaseDevice, none moves it, however old what they read of it is.
THEOREM LocalNeverLeaves == Spec => LocalStays
<1>1. InventoryInv /\ [Next]_vars => LocalStep
  BY NextStep DEF Kept
<1> QED
  BY <1>1, Invariance, PTL DEF Spec, LocalStays, LocalStep

\* An account holds its device until its own releaseDevice: claimDevice and
\* releaseDevice decide under the lock of the device, and their later statements find
\* it as they left it.
THEOREM DeviceStaysHeld == Spec => DeviceHeld
<1>1. InventoryInv /\ [Next]_vars => HeldStep
  BY NextStep DEF Kept
<1> QED
  BY <1>1, Invariance, PTL DEF Spec, DeviceHeld, HeldStep

\* The owners of a row change with its device only: a row gains the account that its
\* device has just been attached to, and leaves the device when that account does.
THEOREM HistoryFollowsDevice == Spec => HistoryMovesWithDevice
<1>1. InventoryInv /\ [Next]_vars => HistoryStep
  BY NextStep DEF Kept
<1> QED
  BY <1>1, Invariance, PTL DEF Spec, HistoryMovesWithDevice, HistoryStep
===================================================================================
