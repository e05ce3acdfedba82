--------------------------- MODULE WorldGatewayProofs ---------------------------
(* Proofs about WorldGateway: a monster has one controlling session, a session *)
(* never goes back to an earlier request, and once the queue is applied the    *)
(* simulation follows the registry.                                            *)
EXTENDS WorldGateway, PrefixInduction, SequenceTheorems, TLAPS

GenerationOK == generation \in Nat

\* A request is granted to a session at most once it has been made.
GrantedWasAsked ==
  \A s \in Socket :
    /\ session[s].conn = "new" => granted[s] = 0
    /\ Open(s) => granted[s] <= session[s].joinVersion

GatewayInv == SessionsOK /\ GenerationOK /\ OneController /\ GrantedWasAsked

--------------------------------------------------------------------------------
(* Sessions and calls are records.                                             *)

LEMMA SessionUpdate ==
  ASSUME NEW x \in Session, NEW v \in Nat, NEW m \in MonsterOrNone,
         NEW b \in BOOLEAN, NEW c \in {"new", "open", "closed"}
  PROVE  /\ [x EXCEPT !.conn = c] \in Session
         /\ [x EXCEPT !.joinVersion = v] \in Session
         /\ [x EXCEPT !.isController = b] \in Session
         /\ [x EXCEPT !.entityId = m, !.isController = b] \in Session
         /\ [x EXCEPT !.joinVersion = v, !.entityId = m, !.isController = b]
              \in Session
BY DEF Session

LEMMA JoinUpdate ==
  ASSUME NEW j \in JoinCall, NEW m \in MonsterOrNone, NEW g \in Nat
  PROVE  /\ [j EXCEPT !.pc = "lookup", !.state = g] \in JoinCall
         /\ [j EXCEPT !.pc = "read", !.found = m] \in JoinCall
         /\ [j EXCEPT !.pc = "held"] \in JoinCall
         /\ [j EXCEPT !.pc = "room", !.found = m] \in JoinCall
BY DEF JoinCall

LEMMA LookUpCall ==
  ASSUME GenerationOK, NEW j \in JoinCall
  PROVE  LookUp(j) \subseteq JoinCall
BY JoinUpdate, None \in MonsterOrNone DEF LookUp, GenerationOK, MonsterOrNone

LEMMA InitHolds ==
  ASSUME GatewayConstants, Init
  PROVE  GatewayInv
BY DEF GatewayConstants, Init, GatewayInv, SessionsOK, GenerationOK,
       OneController, GrantedWasAsked, Open, Session, NoSession,
       SocketOrNone, MonsterOrNone

--------------------------------------------------------------------------------
(* Each step preserves the invariant and takes no grant back.                  *)

Kept == GatewayInv' /\ \A s \in Socket : granted'[s] >= granted[s]

\* What leaves the sessions, the registry and the grants alone.
LEMMA QuietStep ==
  ASSUME GatewayInv, UNCHANGED <<session, controllers, granted>>,
         told' \in [Socket -> MonsterOrNone],
         joins' \in SUBSET JoinCall, generation' \in Nat
  PROVE  Kept
BY DEF Kept, GatewayInv, SessionsOK, GenerationOK, OneController,
       GrantedWasAsked, Open

LEMMA ConnectStep ==
  ASSUME GatewayConstants, GatewayInv, NEW s \in Socket, HandleConnection(s)
  PROVE  Kept
<1>1. session[s] \in Session
  BY DEF GatewayInv, SessionsOK
<1>2. session' \in [Socket -> Session]
  BY <1>1, SessionUpdate, None \in MonsterOrNone
  DEF GatewayInv, SessionsOK, HandleConnection, MonsterOrNone
<1>3. UNCHANGED <<controllers, joins, told, granted, generation>>
  BY DEF HandleConnection, runner
<1>4. /\ \A t \in Socket : t # s => session'[t] = session[t]
      /\ session[s].conn = "new" /\ session'[s].conn = "open"
      /\ session'[s].joinVersion = session[s].joinVersion
      /\ session'[s].entityId = session[s].entityId
      /\ session'[s].isController = session[s].isController
  BY <1>1 DEF HandleConnection, GatewayInv, SessionsOK, Session
<1>5. OneController'
  BY <1>1, <1>3, <1>4
  DEF GatewayInv, SessionsOK, OneController, Open, GatewayConstants,
      SocketOrNone, MonsterOrNone
<1>6. GrantedWasAsked'
  BY <1>1, <1>3, <1>4
  DEF GatewayInv, SessionsOK, GrantedWasAsked, Open, Session
<1> QED
  BY <1>2, <1>3, <1>5, <1>6
  DEF Kept, GatewayInv, SessionsOK, GenerationOK

\* The registry once s has given up m.
LEMMA ReleasedRegistry ==
  ASSUME GatewayConstants, controllers \in [Monster -> SocketOrNone],
         NEW s \in Socket, NEW m \in Monster
  PROVE  /\ Released(s, m) \in [Monster -> SocketOrNone]
         /\ Released(s, m)[m] # s
         /\ controllers[m] # s => Released(s, m)[m] = controllers[m]
         /\ controllers[m] = s => Released(s, m)[m] = None
         /\ \A n \in Monster : n # m => Released(s, m)[n] = controllers[n]
BY DEF Released, SocketOrNone, GatewayConstants

\* A session s that gives up its monster m, whatever else changes about it.
LEMMA GivesUp ==
  ASSUME GatewayConstants, GatewayInv, NEW s \in Socket,
         session' \in [Socket -> Session],
         \A t \in Socket : t # s => session'[t] = session[t],
         ~session'[s].isController,
         IF session[s].entityId = None THEN controllers' = controllers
         ELSE controllers' = Released(s, session[s].entityId)
  PROVE  OneController' /\ controllers' \in [Monster -> SocketOrNone]
<1> DEFINE m == session[s].entityId
<1>1. session[s] \in Session /\ m \in MonsterOrNone
  BY DEF GatewayInv, SessionsOK, Session
<1>2. controllers \in [Monster -> SocketOrNone]
  BY DEF GatewayInv, SessionsOK
<1>3. CASE m = None
  <2>1. \A n \in Monster : controllers[n] # s
    BY <1>3, <1>1, <1>2 DEF GatewayInv, OneController, GatewayConstants
  <2> QED
    BY <1>3, <1>2, <2>1
    DEF GatewayInv, OneController, Open, GatewayConstants, SocketOrNone,
        MonsterOrNone, SessionsOK, Session
<1>4. CASE m # None
  <2>1. m \in Monster
    BY <1>4, <1>1 DEF MonsterOrNone
  <2>2. controllers' = Released(s, m)
    BY <1>4
  <2>3. \A n \in Monster : controllers'[n] # s
    BY <2>1, <2>2, <1>2, ReleasedRegistry
    DEF GatewayInv, OneController, GatewayConstants
  <2>4. \A n \in Monster : controllers'[n] \in {None, controllers[n]}
    BY <2>1, <2>2, <1>2, ReleasedRegistry
  <2>5. \A n \in Monster : controllers[n] # s => controllers'[n] = controllers[n]
    BY <2>1, <2>2, <1>2, ReleasedRegistry
  <2>6. controllers' \in [Monster -> SocketOrNone]
    BY <2>1, <2>2, <1>2, ReleasedRegistry
  <2>7. ASSUME NEW n \in Monster, controllers'[n] # None
        PROVE  /\ session'[controllers'[n]].conn = "open"
               /\ session'[controllers'[n]].entityId = n
               /\ session'[controllers'[n]].isController
    <3>1. controllers'[n] = controllers[n] /\ controllers[n] # s
      BY <2>3, <2>4, <2>7
    <3>2. controllers[n] \in Socket
      BY <3>1, <2>7, <1>2 DEF SocketOrNone
    <3>3. session'[controllers[n]] = session[controllers[n]]
      BY <3>1, <3>2
    <3>4. /\ session[controllers[n]].conn = "open"
          /\ session[controllers[n]].entityId = n
          /\ session[controllers[n]].isController
      BY <3>1, <2>7 DEF GatewayInv, OneController, Open
    <3> QED
      BY <3>1, <3>3, <3>4
  <2>8. ASSUME NEW t \in Socket, session'[t].isController
        PROVE  session'[t].entityId # None
               /\ controllers'[session'[t].entityId] = t
    <3>1. t # s /\ session'[t] = session[t]
      BY <2>8
    <3>2. session[t].entityId # None /\ controllers[session[t].entityId] = t
      BY <3>1, <2>8 DEF GatewayInv, OneController
    <3>3. session[t].entityId \in Monster
      BY <3>2 DEF GatewayInv, SessionsOK, Session, MonsterOrNone
    <3> QED
      BY <3>1, <3>2, <3>3, <2>5
  <2> QED
    BY <2>6, <2>7, <2>8 DEF OneController, Open
<1> QED
  BY <1>3, <1>4

LEMMA DisconnectStep ==
  ASSUME GatewayConstants, GatewayInv, NEW s \in Socket, HandleDisconnect(s)
  PROVE  Kept
<1>1. session[s] \in Session
  BY DEF GatewayInv, SessionsOK
<1>2. [NoSession EXCEPT !.conn = "closed"] \in Session
  BY DEF NoSession, Session, MonsterOrNone
<1>3. session' \in [Socket -> Session]
  BY <1>2 DEF GatewayInv, SessionsOK, HandleDisconnect
<1>4. /\ \A t \in Socket : t # s => session'[t] = session[t]
      /\ session'[s].conn = "closed" /\ ~session'[s].isController
  BY DEF HandleDisconnect, GatewayInv, SessionsOK, NoSession
<1>5. OneController' /\ controllers' \in [Monster -> SocketOrNone]
  BY <1>3, <1>4, GivesUp DEF HandleDisconnect
<1>6. UNCHANGED <<joins, granted, generation>>
      /\ told' \in [Socket -> MonsterOrNone]
  BY DEF HandleDisconnect, GatewayInv, SessionsOK, MonsterOrNone
<1>7. GrantedWasAsked'
  BY <1>4, <1>6 DEF GatewayInv, GrantedWasAsked, Open
<1> QED
  BY <1>3, <1>5, <1>6, <1>7 DEF Kept, GatewayInv, SessionsOK, GenerationOK

LEMMA LeaveStep ==
  ASSUME GatewayConstants, GatewayInv, NEW s \in Socket, OnLeave(s)
  PROVE  Kept
<1> DEFINE m == session[s].entityId
           v == session[s].joinVersion + 1
<1>1. session[s] \in Session /\ m \in MonsterOrNone /\ v \in Nat
  BY DEF GatewayInv, SessionsOK, Session
<1>2. /\ session' \in [Socket -> Session]
      /\ \A t \in Socket : t # s => session'[t] = session[t]
      /\ session'[s].conn = session[s].conn
      /\ session'[s].joinVersion = v
      /\ ~session'[s].isController
  <2>1. CASE m = None
    <3>1. session' = [session EXCEPT ![s].joinVersion = v]
      BY <2>1 DEF OnLeave
    <3>2. [session[s] EXCEPT !.joinVersion = v] \in Session
      BY <1>1, SessionUpdate, FALSE \in BOOLEAN
    <3>3. ~session[s].isController
      BY <2>1 DEF GatewayInv, OneController
    <3> QED
      BY <3>1, <3>2, <3>3, <1>1 DEF GatewayInv, SessionsOK, Session
  <2>2. CASE m # None
    <3> DEFINE x == [session[s] EXCEPT !.joinVersion = v, !.entityId = None,
                                       !.isController = FALSE]
    <3>1. session' = [session EXCEPT ![s] = x]
      BY <2>2 DEF OnLeave
    <3>2. x \in Session
      BY <1>1, SessionUpdate, FALSE \in BOOLEAN, None \in MonsterOrNone
      DEF MonsterOrNone
    <3>3. x.conn = session[s].conn /\ x.joinVersion = v /\ ~x.isController
      BY <1>1 DEF Session
    <3> HIDE DEF x
    <3> QED
      BY <3>1, <3>2, <3>3 DEF GatewayInv, SessionsOK
  <2> QED
    BY <2>1, <2>2
<1>3. OneController' /\ controllers' \in [Monster -> SocketOrNone]
  BY <1>2, GivesUp DEF OnLeave
<1>4. UNCHANGED <<joins, generation>>
      /\ told' \in [Socket -> MonsterOrNone]
  BY DEF OnLeave, GatewayInv, SessionsOK, MonsterOrNone
<1>5. granted' = [granted EXCEPT ![s] = v]
  BY <1>2 DEF OnLeave
<1>6. granted[s] \in Nat /\ granted[s] <= v /\ session[s].conn = "open"
  BY <1>1 DEF GatewayInv, SessionsOK, GrantedWasAsked, OnLeave, Open, Session
<1>7. granted' \in [Socket -> Nat] /\ GrantedWasAsked'
      /\ \A t \in Socket : granted'[t] >= granted[t]
  BY <1>1, <1>2, <1>5, <1>6
  DEF GatewayInv, SessionsOK, GrantedWasAsked, Open
<1> QED
  BY <1>2, <1>3, <1>4, <1>7 DEF Kept, GatewayInv, SessionsOK, GenerationOK

LEMMA InputStep ==
  ASSUME GatewayInv, NEW s \in Socket, OnInput(s)
  PROVE  Kept
BY QuietStep DEF OnInput, gateway, GatewayInv, SessionsOK, GenerationOK

\* A call between its first await and its answer.
LEMMA JoinAwaits ==
  ASSUME GatewayInv, NEW j \in joins,
         JoinLooksUp(j) \/ JoinReads(j) \/ JoinHeld(j) \/ JoinDropped(j)
           \/ JoinEnds(j)
  PROVE  Kept
<1>1. j \in JoinCall /\ joins \in SUBSET JoinCall /\ generation \in Nat
      /\ told \in [Socket -> MonsterOrNone] /\ None \in MonsterOrNone
  BY DEF GatewayInv, SessionsOK, GenerationOK, MonsterOrNone
<1>2. UNCHANGED <<session, controllers, granted, generation>>
  BY DEF JoinLooksUp, JoinReads, JoinHeld, JoinDropped, JoinEnds, runner
<1>3. joins' \in SUBSET JoinCall /\ told' \in [Socket -> MonsterOrNone]
  <2>1. CASE JoinLooksUp(j)
    <3>1. LookUp(j) \subseteq JoinCall
      BY <1>1, LookUpCall DEF GatewayInv
    <3> QED
      BY <2>1, <3>1, <1>1 DEF JoinLooksUp
  <2>2. CASE JoinReads(j)
    <3> DEFINE living == {m \in Monster : row[m]}
               found == IF j.wanted \in living THEN j.wanted ELSE None
    <3>1. found \in MonsterOrNone
      BY DEF MonsterOrNone
    <3>2. [j EXCEPT !.pc = "read", !.found = found] \in JoinCall
      BY <1>1, <3>1, JoinUpdate
    <3> QED
      BY <2>2, <3>2, <1>1 DEF JoinReads
  <2>3. CASE JoinHeld(j)
    BY <2>3, <1>1, JoinUpdate DEF JoinHeld
  <2>4. CASE JoinDropped(j)
    BY <2>4, <1>1 DEF JoinDropped
  <2>5. CASE JoinEnds(j)
    BY <2>5, <1>1 DEF JoinEnds, JoinCall
  <2> QED
    BY <2>1, <2>2, <2>3, <2>4, <2>5
<1> QED
  BY <1>1, <1>2, <1>3, QuietStep

LEMMA JoinStarts ==
  ASSUME GatewayConstants, GatewayInv, NEW s \in Socket,
         NEW m \in MonsterOrNone, OnJoin(s, m)
  PROVE  Kept
<1> DEFINE v == session[s].joinVersion + 1
           j == [socket |-> s, version |-> v, wanted |-> m, found |-> None,
                 state |-> 0, pc |-> "wait"]
<1>1. session[s] \in Session /\ v \in Nat /\ session[s].conn = "open"
      /\ session[s].joinVersion \in Nat
  BY DEF GatewayInv, SessionsOK, Session, OnJoin, Open
<1>2. j \in JoinCall
  BY <1>1 DEF JoinCall, MonsterOrNone
<1>3. joins' \in SUBSET JoinCall
  <2>1. LookUp(j) \subseteq JoinCall
    BY <1>2, LookUpCall DEF GatewayInv
  <2>2. joins' = joins \cup IF NoPendingCommit THEN LookUp(j) ELSE {j}
    BY DEF OnJoin
  <2> HIDE DEF j
  <2> QED
    BY <2>1, <2>2, <1>2 DEF GatewayInv, SessionsOK
<1>4. UNCHANGED <<controllers, told, granted, generation>>
  BY DEF OnJoin, runner
<1>5. [session[s] EXCEPT !.joinVersion = v] \in Session
  BY <1>1, SessionUpdate, FALSE \in BOOLEAN, None \in MonsterOrNone
  DEF MonsterOrNone
<1>6. session' = [session EXCEPT ![s] = [session[s] EXCEPT !.joinVersion = v]]
  BY DEF OnJoin, GatewayInv, SessionsOK
<1>7. /\ session' \in [Socket -> Session]
      /\ \A t \in Socket :
           /\ session'[t].conn = session[t].conn
           /\ session'[t].entityId = session[t].entityId
           /\ session'[t].isController = session[t].isController
      /\ \A t \in Socket : t # s => session'[t] = session[t]
      /\ session'[s].joinVersion = v
  BY <1>1, <1>5, <1>6 DEF GatewayInv, SessionsOK, Session
<1>8. OneController'
  <2>1. \A n \in Monster : controllers[n] \in SocketOrNone
    BY DEF GatewayInv, SessionsOK
  <2> QED
    BY <2>1, <1>4, <1>7
    DEF GatewayInv, OneController, Open, SocketOrNone
<1>9. GrantedWasAsked'
  <2>1. granted[s] \in Nat /\ granted[s] <= session[s].joinVersion
    BY <1>1 DEF GatewayInv, SessionsOK, GrantedWasAsked, Open
  <2> QED
    BY <2>1, <1>1, <1>4, <1>7 DEF GatewayInv, GrantedWasAsked, Open
<1> QED
  BY <1>3, <1>4, <1>7, <1>8, <1>9, \A s2 \in Socket : granted[s2] >= granted[s2]
  DEF Kept, GatewayInv, SessionsOK, GenerationOK

\* What the answer to a call finds, and what it grants.
LEMMA JoinGranted ==
  ASSUME GatewayInv, NEW j \in joins, Joins(j)
  PROVE  /\ j.socket \in Socket /\ Target(j) \in MonsterOrNone
         /\ joins' \in SUBSET JoinCall
         /\ session[j.socket].conn = "open"
         /\ granted' = [granted EXCEPT ![j.socket] =
                                        session[j.socket].joinVersion]
<1>1. j \in JoinCall /\ joins \in SUBSET JoinCall
  BY DEF GatewayInv, SessionsOK
<1>2. j.socket \in Socket /\ j.found \in MonsterOrNone
  BY <1>1 DEF JoinCall
<1>3. Target(j) \in MonsterOrNone
  BY <1>2 DEF Target, MonsterOrNone
<1>4. [j EXCEPT !.pc = "room", !.found = Target(j)] \in JoinCall
  BY <1>1, <1>3, JoinUpdate, 0 \in Nat
<1> QED
  BY <1>1, <1>2, <1>3, <1>4 DEF Joins, Superseded, Open

\* The latest request of s is granted: its sessions keep their connections
\* and versions, whatever else changes.
LEMMA GrantKeeps ==
  ASSUME GatewayInv, NEW s \in Socket,
         session[s].conn = "open", session' \in [Socket -> Session],
         \A t \in Socket : /\ session'[t].conn = session[t].conn
                           /\ session'[t].joinVersion = session[t].joinVersion,
         granted' = [granted EXCEPT ![s] = session[s].joinVersion]
  PROVE  /\ granted' \in [Socket -> Nat]
         /\ GrantedWasAsked'
         /\ \A t \in Socket : granted'[t] >= granted[t]
<1>1. session[s].joinVersion \in Nat /\ granted \in [Socket -> Nat]
      /\ granted[s] <= session[s].joinVersion
  BY DEF GatewayInv, SessionsOK, Session, GrantedWasAsked, Open
<1> QED
  BY <1>1 DEF GatewayInv, GrantedWasAsked, Open

LEMMA ObserveStep ==
  ASSUME GatewayConstants, GatewayInv, NEW j \in joins, JoinObserves(j)
  PROVE  Kept
<1> DEFINE s == j.socket
           x == [session[s] EXCEPT !.entityId = None, !.isController = FALSE]
<1>1. /\ s \in Socket /\ session[s].conn = "open"
      /\ joins' \in SUBSET JoinCall
      /\ granted' = [granted EXCEPT ![s] = session[s].joinVersion]
  BY JoinGranted DEF JoinObserves
<1>2. session[s] \in Session
  BY <1>1 DEF GatewayInv, SessionsOK
<1>3. x \in Session
  BY <1>2, SessionUpdate, FALSE \in BOOLEAN, None \in MonsterOrNone, 0 \in Nat
  DEF MonsterOrNone
<1>4. session' = [session EXCEPT ![s] = x]
  BY DEF JoinObserves
<1>5. /\ x.conn = session[s].conn /\ ~x.isController
      /\ x.joinVersion = session[s].joinVersion
  BY <1>2 DEF Session
<1>6. /\ session' \in [Socket -> Session]
      /\ \A t \in Socket : t # s => session'[t] = session[t]
      /\ \A t \in Socket : /\ session'[t].conn = session[t].conn
                            /\ session'[t].joinVersion = session[t].joinVersion
      /\ ~session'[s].isController
  <2> HIDE DEF x, s
  <2> QED
    BY <1>1, <1>3, <1>4, <1>5 DEF GatewayInv, SessionsOK
<1>7. IF session[s].entityId = None THEN controllers' = controllers
      ELSE controllers' = Released(s, session[s].entityId)
  BY DEF JoinObserves, RegistryWithout, LeftBehind
<1>8. OneController' /\ controllers' \in [Monster -> SocketOrNone]
  <2> HIDE DEF x, s
  <2> QED
    BY <1>1, <1>6, <1>7, GivesUp
<1>9. UNCHANGED <<told, generation>>
  BY DEF JoinObserves
<1>10. /\ granted' \in [Socket -> Nat] /\ GrantedWasAsked'
       /\ \A t \in Socket : granted'[t] >= granted[t]
  <2> HIDE DEF x, s
  <2> QED
    BY <1>1, <1>6, GrantKeeps
<1> QED
  BY <1>1, <1>6, <1>8, <1>9, <1>10 DEF Kept, GatewayInv, SessionsOK, GenerationOK

\* s takes m: it has given up its monster already, if that was another one, and
\* the socket that controlled m loses it.
TakesOver(s, m) ==
  /\ session[s].conn = "open"
  /\ session' \in [Socket -> Session]
  /\ \A t \in Socket : session'[t].conn = session[t].conn
  /\ \A t \in Socket : t # s => session'[t].entityId = session[t].entityId
  /\ \A t \in Socket : t # s => session'[t].isController =
       IF t = controllers[m] THEN FALSE ELSE session[t].isController
  /\ session'[s].entityId = m /\ session'[s].isController
  /\ controllers'[m] = s
  /\ \A n \in Monster : n # m => controllers'[n] =
       IF controllers[n] = s THEN None ELSE controllers[n]

LEMMA Takes ==
  ASSUME GatewayConstants, GatewayInv, NEW s \in Socket, NEW m \in Monster,
         TakesOver(s, m)
  PROVE  OneController'
<1>0. /\ session[s].conn = "open"
      /\ session' \in [Socket -> Session]
      /\ \A t \in Socket : session'[t].conn = session[t].conn
      /\ \A t \in Socket : t # s => session'[t].entityId = session[t].entityId
      /\ \A t \in Socket : t # s => session'[t].isController =
           IF t = controllers[m] THEN FALSE ELSE session[t].isController
      /\ session'[s].entityId = m /\ session'[s].isController
  BY DEF TakesOver
<1>1. /\ controllers'[m] = s
      /\ \A n \in Monster : n # m => controllers'[n] =
           IF controllers[n] = s THEN None ELSE controllers[n]
  BY DEF TakesOver
<1>2. ASSUME NEW n \in Monster, controllers'[n] # None
      PROVE  /\ session'[controllers'[n]].conn = "open"
             /\ session'[controllers'[n]].entityId = n
             /\ session'[controllers'[n]].isController
  <2>1. CASE n = m
    BY <2>1, <1>0, <1>1
  <2>2. CASE n # m
    <3>1. controllers'[n] = controllers[n] /\ controllers[n] # s
      BY <2>2, <1>1, <1>2
    <3>2. controllers[n] \in Socket
      BY <3>1, <1>2 DEF GatewayInv, SessionsOK, SocketOrNone
    <3>3. /\ session[controllers[n]].conn = "open"
          /\ session[controllers[n]].entityId = n
          /\ session[controllers[n]].isController
      BY <3>1, <1>2 DEF GatewayInv, OneController, Open
    <3>4. controllers[n] # controllers[m]
      BY <2>2, <3>1, <1>2, <3>3 DEF GatewayInv, OneController
    <3>5. session'[controllers[n]].isController = session[controllers[n]].isController
      BY <3>1, <3>2, <3>4, <1>0
    <3>6. /\ session'[controllers[n]].conn = session[controllers[n]].conn
          /\ session'[controllers[n]].entityId = session[controllers[n]].entityId
      BY <3>1, <3>2, <1>0
    <3> QED
      BY <3>1, <3>3, <3>5, <3>6, Zenon
  <2> QED
    BY <2>1, <2>2
<1>3. ASSUME NEW t \in Socket, session'[t].isController
      PROVE  session'[t].entityId # None
             /\ controllers'[session'[t].entityId] = t
  <2>1. CASE t = s
    BY <2>1, <1>0, <1>1 DEF GatewayConstants
  <2>2. CASE t # s
    <3> DEFINE n == session[t].entityId
    <3>1. session[t].isController /\ t # controllers[m] /\ session'[t].entityId = n
      BY <2>2, <1>3, <1>0
    <3>2. n # None /\ controllers[n] = t
      BY <3>1 DEF GatewayInv, OneController
    <3>3. n \in Monster /\ n # m
      BY <3>1, <3>2 DEF GatewayInv, SessionsOK, Session, MonsterOrNone
    <3>4. controllers'[n] = t
      BY <3>2, <3>3, <2>2, <1>1
    <3> QED
      BY <3>1, <3>2, <3>4, <1>0
  <2> QED
    BY <2>1, <2>2
<1> QED
  BY <1>1, <1>2, <1>3 DEF OneController, Open

\* The registry without what s leaves behind when it joins m.
LEMMA WithoutOther ==
  ASSUME GatewayConstants, GatewayInv, NEW s \in Socket, NEW m \in Monster
  PROVE  /\ RegistryWithout(s, m) \in [Monster -> SocketOrNone]
         /\ \A n \in Monster : n # m =>
              RegistryWithout(s, m)[n] =
                IF controllers[n] = s THEN None ELSE controllers[n]
<1> DEFINE e == session[s].entityId
<1>1. e \in MonsterOrNone /\ controllers \in [Monster -> SocketOrNone]
  BY DEF GatewayInv, SessionsOK, Session
<1>2. \A n \in Monster : controllers[n] = s => n = e
  BY DEF GatewayInv, OneController, GatewayConstants
<1>3. CASE e \in {None, m}
  BY <1>1, <1>2, <1>3 DEF RegistryWithout, LeftBehind, GatewayConstants
<1>4. CASE e \notin {None, m}
  <2>1. e \in Monster
    BY <1>1, <1>4 DEF MonsterOrNone
  <2>2. RegistryWithout(s, m) = Released(s, e)
    BY <1>4 DEF RegistryWithout, LeftBehind
  <2> QED
    BY <1>1, <1>2, <2>1, <2>2, ReleasedRegistry
<1> QED
  BY <1>3, <1>4

\* A takeover only demotes.
LEMMA Demotes ==
  ASSUME GatewayConstants, GatewayInv, NEW s \in Socket, NEW m \in Monster
  PROVE  /\ Demoted(m, s) \in [Socket -> Session]
         /\ \A t \in Socket :
              /\ Demoted(m, s)[t].conn = session[t].conn
              /\ Demoted(m, s)[t].joinVersion = session[t].joinVersion
              /\ Demoted(m, s)[t].entityId = session[t].entityId
              /\ t # s => Demoted(m, s)[t].isController =
                IF t = controllers[m] THEN FALSE ELSE session[t].isController
<1> DEFINE c == controllers[m]
<1>1. c \in SocketOrNone /\ session \in [Socket -> Session]
  BY DEF GatewayInv, SessionsOK
<1>2. CASE c \in {None, s}
  BY <1>1, <1>2 DEF Demoted, GatewayConstants, Session
<1>3. CASE c \notin {None, s}
  <2>1. c \in Socket /\ session[c] \in Session
    BY <1>1, <1>3 DEF SocketOrNone
  <2> DEFINE x == [session[c] EXCEPT !.isController = FALSE]
  <2>2. Demoted(m, s) = [session EXCEPT ![c] = x]
    BY <1>1, <1>3, <2>1 DEF Demoted
  <2>3. x \in Session /\ x.conn = session[c].conn /\ ~x.isController
        /\ x.joinVersion = session[c].joinVersion
        /\ x.entityId = session[c].entityId
    BY <2>1 DEF Session
  <2>4. x.isController = FALSE
    BY <2>3
  <2> HIDE DEF x
  <2> QED
    BY <1>1, <2>1, <2>2, <2>3, <2>4
<1> QED
  BY <1>2, <1>3

LEMMA ControlStep ==
  ASSUME GatewayConstants, GatewayInv, NEW j \in joins, JoinControls(j)
  PROVE  Kept
<1>s. PICK s \in Socket : s = j.socket
  BY JoinGranted DEF JoinControls
<1>m. PICK m \in Monster : m = Target(j)
  BY JoinGranted DEF JoinControls, MonsterOrNone
<1> DEFINE d == Demoted(m, s)
           x == [d[s] EXCEPT !.entityId = m, !.isController = TRUE]
<1>1. /\ session[s].conn = "open"
      /\ joins' \in SUBSET JoinCall
      /\ granted' = [granted EXCEPT ![s] = session[s].joinVersion]
  BY <1>s, JoinGranted DEF JoinControls
<1>2. /\ d \in [Socket -> Session]
      /\ \A t \in Socket :
           /\ d[t].conn = session[t].conn
           /\ d[t].joinVersion = session[t].joinVersion
           /\ d[t].entityId = session[t].entityId
           /\ t # s => d[t].isController =
                IF t = controllers[m] THEN FALSE ELSE session[t].isController
  BY <1>1, Demotes
<1>3. d[s] \in Session /\ m \in MonsterOrNone
  BY <1>1, <1>2 DEF MonsterOrNone
<1>4. x \in Session
  BY <1>3, SessionUpdate, TRUE \in BOOLEAN, 0 \in Nat
<1>5. /\ x.conn = d[s].conn /\ x.joinVersion = d[s].joinVersion
      /\ x.entityId = m /\ x.isController = TRUE
  BY <1>3 DEF Session
<1>6. session' = [d EXCEPT ![s] = x]
      /\ controllers' = [RegistryWithout(s, m) EXCEPT ![m] = s]
      /\ UNCHANGED generation
  BY <1>s, <1>m DEF JoinControls
<1>7. told' \in [Socket -> MonsterOrNone]
  BY DEF JoinControls, GatewayInv, SessionsOK, MonsterOrNone
<1> HIDE DEF d, x
<1>8. /\ session' \in [Socket -> Session]
      /\ session'[s] = x
      /\ \A t \in Socket : t # s => session'[t] = d[t]
  BY <1>1, <1>2, <1>4, <1>6
<1>9. ASSUME NEW t \in Socket
      PROVE  /\ session'[t].conn = session[t].conn
             /\ session'[t].joinVersion = session[t].joinVersion
             /\ t # s => session'[t].entityId = session[t].entityId
             /\ t # s => session'[t].isController =
                  IF t = controllers[m] THEN FALSE ELSE session[t].isController
  <2>1. CASE t = s
    BY <2>1, <1>1, <1>2, <1>5, <1>8, Zenon
  <2>2. CASE t # s
    BY <2>2, <1>2, <1>8, Zenon
  <2> QED
    BY <2>1, <2>2
<1>10. OneController' /\ controllers' \in [Monster -> SocketOrNone]
  <2>1. /\ \A t \in Socket : session'[t].conn = session[t].conn
        /\ \A t \in Socket : t # s =>
             session'[t].entityId = session[t].entityId
        /\ \A t \in Socket : t # s => session'[t].isController =
             IF t = controllers[m] THEN FALSE ELSE session[t].isController
    BY <1>9
  <2>2. session'[s].entityId = m /\ session'[s].isController
    BY <1>5, <1>8, Zenon
  <2> DEFINE w == RegistryWithout(s, m)
  <2>w. /\ w \in [Monster -> SocketOrNone]
        /\ \A n \in Monster : n # m =>
             w[n] = IF controllers[n] = s THEN None ELSE controllers[n]
    BY <1>1, WithoutOther
  <2>c. controllers' = [w EXCEPT ![m] = s]
    BY <1>6
  <2> HIDE DEF w
  <2>3. /\ controllers' \in [Monster -> SocketOrNone]
        /\ controllers'[m] = s
        /\ \A n \in Monster : n # m => controllers'[n] =
             IF controllers[n] = s THEN None ELSE controllers[n]
    BY <1>1, <2>w, <2>c DEF SocketOrNone
  <2>4. TakesOver(s, m)
    BY <1>1, <1>8, <2>1, <2>2, <2>3 DEF TakesOver
  <2>5. OneController'
    BY <2>4, Takes
  <2> QED
    BY <2>3, <2>5
<1>11. /\ granted' \in [Socket -> Nat] /\ GrantedWasAsked'
       /\ \A t \in Socket : granted'[t] >= granted[t]
  BY <1>1, <1>8, <1>9, GrantKeeps
<1> QED
  BY <1>1, <1>6, <1>7, <1>8, <1>10, <1>11
  DEF Kept, GatewayInv, SessionsOK, GenerationOK

\* A reset releases every session.
LEMMA ResetStep ==
  ASSUME GatewayConstants, GatewayInv, ResetSaved
  PROVE  Kept
<1> DEFINE x(s) == [session[s] EXCEPT !.joinVersion = session[s].joinVersion + 1,
                                      !.entityId = None, !.isController = FALSE]
<1>1. \A s \in Socket : session[s] \in Session /\ granted[s] \in Nat
                        /\ session[s].joinVersion \in Nat
  BY DEF GatewayInv, SessionsOK, Session
<1>2. ASSUME NEW s \in Socket
      PROVE  /\ x(s) \in Session
             /\ x(s).conn = session[s].conn
             /\ x(s).joinVersion = session[s].joinVersion + 1
             /\ x(s).isController = FALSE
  <2>1. session[s].joinVersion + 1 \in Nat /\ None \in MonsterOrNone
        /\ FALSE \in BOOLEAN /\ session[s] \in Session
    BY <1>1 DEF MonsterOrNone
  <2>2. x(s) \in Session
    BY <2>1, SessionUpdate
  <2> QED
    BY <2>1, <2>2 DEF Session
<1>3. /\ session' = [s \in Socket |-> IF Open(s) THEN x(s) ELSE session[s]]
      /\ controllers' = [m \in Monster |-> None]
      /\ granted' = [s \in Socket |->
           IF Open(s) THEN session[s].joinVersion + 1 ELSE granted[s]]
      /\ told' \in [Socket -> MonsterOrNone]
      /\ joins' = joins /\ generation' = generation + 1
  BY DEF ResetSaved, MonsterOrNone, GatewayInv, SessionsOK
<1> HIDE DEF x
<1>4. session' \in [Socket -> Session] /\ granted' \in [Socket -> Nat]
  <2>1. \A s \in Socket : x(s) \in Session /\ session[s] \in Session
    BY <1>1, <1>2
  <2>2. \A s \in Socket : session[s].joinVersion + 1 \in Nat /\ granted[s] \in Nat
    <3> TAKE s \in Socket
    <3>1. session[s].joinVersion \in Nat /\ granted[s] \in Nat
      BY <1>1
    <3> QED
      BY <3>1
  <2> QED
    BY <2>1, <2>2, <1>3
<1>5. \A s \in Socket : session'[s].isController = FALSE
  <2>1. \A s \in Socket : ~Open(s) => session[s].isController = FALSE
    BY <1>1 DEF GatewayInv, OneController, SessionsOK, MonsterOrNone,
                GatewayConstants, Session
  <2> QED
    BY <1>2, <1>3, <2>1
<1>6. OneController' /\ controllers' \in [Monster -> SocketOrNone]
  BY <1>3, <1>5 DEF OneController, SocketOrNone
<1>7. \A s \in Socket :
        IF Open(s)
        THEN /\ session'[s].conn = "open"
             /\ granted'[s] = session'[s].joinVersion
             /\ granted'[s] = session[s].joinVersion + 1
        ELSE session'[s] = session[s] /\ granted'[s] = granted[s]
  BY <1>2, <1>3 DEF Open
<1>8. GrantedWasAsked' /\ \A s \in Socket : granted'[s] >= granted[s]
  BY <1>1, <1>4, <1>7 DEF GatewayInv, GrantedWasAsked, Open, Session
<1> QED
  BY <1>3, <1>4, <1>6, <1>8 DEF Kept, GatewayInv, SessionsOK, GenerationOK

\* Ticks, saves, keeper actions, reloads and lost locks do not touch the gateway.
LEMMA WorldStep ==
  ASSUME GatewayInv,
         \/ Ticks \/ SaveCommits \/ SaveFails
         \/ \E m \in Monster : BodyExpires(m)
         \/ Keeper
         \/ ResetWorld \/ LoadResets
         \/ \E D \in SUBSET Monster : ResetFails(D) \/ Reloads(D)
         \/ \E landed \in BOOLEAN : LockLost(landed)
  PROVE  Kept
<1>1. generation \in Nat /\ generation + 1 \in Nat
      /\ joins \in SUBSET JoinCall /\ told \in [Socket -> MonsterOrNone]
  BY DEF GatewayInv, GenerationOK, SessionsOK
<1>2. UNCHANGED gateway /\ generation' \in {generation, generation + 1}
  <2>1. CASE Ticks
    BY <2>1 DEF Ticks, Tick
  <2>2. CASE SaveCommits
    BY <2>2 DEF SaveCommits
  <2>3. CASE SaveFails
    BY <2>3 DEF SaveFails
  <2>4. CASE \E m \in Monster : BodyExpires(m)
    BY <2>4 DEF BodyExpires
  <2>5. CASE Keeper
    <3>1. \A m \in Monster, b \in {"absent", "alive", "dead"} :
            KeeperCommits(m, b) =>
              UNCHANGED gateway /\ generation' = generation + 1
      BY DEF KeeperCommits
    <3>2. CASE KeeperPauses \/ KeeperEnds
      BY <3>2 DEF KeeperPauses, KeeperEnds
    <3>3. CASE \E m \in Monster : KillMonster(m) \/ SpawnMonster(m)
      BY <3>1, <3>3 DEF KillMonster, SpawnMonster
    <3> QED
      BY <2>5, <3>2, <3>3 DEF Keeper
  <2>6. CASE ResetWorld
    BY <2>6 DEF ResetWorld
  <2>7. CASE LoadResets
    BY <2>7 DEF LoadResets
  <2>8. CASE \E D \in SUBSET Monster : ResetFails(D) \/ Reloads(D)
    BY <2>8 DEF ResetFails, Reloads
  <2>9. CASE \E landed \in BOOLEAN : LockLost(landed)
    BY <2>9 DEF LockLost
  <2> QED
    BY <2>1, <2>2, <2>3, <2>4, <2>5, <2>6, <2>7, <2>8, <2>9
<1> QED
  BY <1>1, <1>2, QuietStep DEF gateway

LEMMA ClientStep ==
  ASSUME GatewayConstants, GatewayInv, NEW s \in Socket, Client(s)
  PROVE  Kept
<1>1. CASE HandleConnection(s)
  BY <1>1, ConnectStep
<1>2. CASE HandleDisconnect(s)
  BY <1>2, DisconnectStep
<1>3. CASE OnLeave(s)
  BY <1>3, LeaveStep
<1>4. CASE OnInput(s)
  BY <1>4, InputStep
<1>5. CASE \E m \in MonsterOrNone : OnJoin(s, m)
  BY <1>5, JoinStarts
<1> QED
  BY <1>1, <1>2, <1>3, <1>4, <1>5 DEF Client

LEMMA JoinSteps ==
  ASSUME GatewayConstants, GatewayInv, NEW j \in joins, JoinStep(j)
  PROVE  Kept
BY JoinAwaits, ObserveStep, ControlStep DEF JoinStep

LEMMA NextStep ==
  ASSUME GatewayConstants, GatewayInv, [Next]_vars
  PROVE  Kept
<1>1. CASE \E s \in Socket : Client(s)
  BY <1>1, ClientStep
<1>2. CASE \E j \in joins : JoinStep(j)
  BY <1>2, JoinSteps
<1>3. CASE ResetSaved
  BY <1>3, ResetStep
<1>4. CASE \/ Ticks \/ SaveCommits \/ SaveFails
           \/ \E m \in Monster : BodyExpires(m)
           \/ Keeper
           \/ ResetWorld \/ LoadResets
           \/ \E D \in SUBSET Monster : ResetFails(D) \/ Reloads(D)
           \/ \E landed \in BOOLEAN : LockLost(landed)
  BY <1>4, WorldStep
<1>5. CASE UNCHANGED vars
  BY <1>5, QuietStep
  DEF vars, gateway, runner, GatewayInv, SessionsOK, GenerationOK
<1> QED
  BY <1>1, <1>2, <1>3, <1>4, <1>5 DEF Next, Replace

LEMMA Invariance == Spec => []GatewayInv
<1>1. Init => GatewayInv
  BY InitHolds, GatewayConstants
<1>2. GatewayInv /\ [Next]_vars => GatewayInv'
  BY NextStep, GatewayConstants DEF Kept
<1> QED
  BY <1>1, <1>2, PTL DEF Spec

--------------------------------------------------------------------------------
\* However joins, takeovers, leaves, disconnects and resets interleave, and
\* whatever the world refuses, drops or reloads meanwhile, a monster has at most
\* one session that controls it, connected and registered as its controller.
THEOREM OneControllerAlways == Spec => []OneController
<1>1. GatewayInv => OneController
  BY DEF GatewayInv
<1> QED
  BY <1>1, Invariance, PTL

\* What a session holds is the answer to a request that no answered leave, join
\* or reset of that session has followed: the version check after the lookup of
\* onJoin lets no late answer take it back.
THEOREM RequestsMoveForward == Spec => NeverBackwards
<1>1. GatewayInv /\ [Next]_vars
        => [\A s \in Socket : granted'[s] >= granted[s]]_granted
  BY NextStep, GatewayConstants DEF Kept
<1> QED
  BY <1>1, Invariance, PTL DEF Spec, NeverBackwards

--------------------------------------------------------------------------------
(* What the queue makes of the entities, by induction over its prefixes.       *)

\* A function that has the recursion of Worlds up to n.
Runs(f, e, q, n) ==
  f = [i \in 0..n |-> IF i = 0 THEN [entity |-> e, critical |-> FALSE]
                      ELSE ApplyCommand(f[i - 1], q[i])]

LEMMA RunsExist ==
  ASSUME NEW e, NEW q, NEW n \in Nat
  PROVE  \E f : Runs(f, e, q, n)
<1> DEFINE T == {k \in Nat : \E f : Runs(f, e, q, k)}
           start == [entity |-> e, critical |-> FALSE]
<1>1. 0 \in T
  <2>1. Runs([i \in 0..0 |-> start], e, q, 0)
    BY DEF Runs
  <2> QED BY <2>1
<1>2. ASSUME NEW k \in 1..n, k - 1 \in T PROVE k \in T
  <2>1. k \in Nat /\ k - 1 \in Nat /\ k # 0
    OBVIOUS
  <2>2. PICK f : Runs(f, e, q, k - 1)
    BY <1>2
  <2> DEFINE g == [i \in 0..k |-> IF i = k THEN ApplyCommand(f[k - 1], q[k]) ELSE f[i]]
  <2>3. \A i \in 0..k : g[i] = IF i = 0 THEN start ELSE ApplyCommand(g[i - 1], q[i])
    <3> TAKE i \in 0..k
    <3>1. \A j \in 0..k - 1 : f[j] = IF j = 0 THEN start ELSE ApplyCommand(f[j - 1], q[j])
      BY <2>2 DEF Runs
    <3> HIDE DEF start
    <3>2. CASE i = k
      BY <3>2, <2>1
    <3>3. CASE i # k
      <4>1. i \in 0..k - 1 /\ g[i] = f[i]
        BY <3>3, <2>1
      <4>2. i # 0 => i - 1 \in 0..k /\ i - 1 # k /\ g[i - 1] = f[i - 1]
        BY <3>3, <2>1
      <4> QED BY <4>1, <4>2, <3>1
    <3> QED BY <3>2, <3>3
  <2>4. Runs(g, e, q, k)
    BY <2>3 DEF Runs
  <2> QED BY <2>1, <2>4
<1>3. \A i \in 0..n : i \in T
  <2> HIDE DEF T
  <2> QED BY <1>1, <1>2, Inducts
<1> QED BY <1>3

LEMMA WorldsRuns ==
  ASSUME NEW e, NEW q, NEW n \in Nat, Len(q) = n
  PROVE  /\ Worlds(e, q)[0] = [entity |-> e, critical |-> FALSE]
         /\ \A i \in 1..n : Worlds(e, q)[i] = ApplyCommand(Worlds(e, q)[i - 1], q[i])
<1>1. \E f : Runs(f, e, q, Len(q))
  BY RunsExist
<1>2. Worlds(e, q) =
        CHOOSE f : f = [i \in 0..Len(q) |-> IF i = 0 THEN [entity |-> e, critical |-> FALSE]
                                            ELSE ApplyCommand(f[i - 1], q[i])]
  BY DEF Worlds
<1>3. Worlds(e, q) = CHOOSE f : Runs(f, e, q, Len(q))
  BY <1>2 DEF Runs
<1>4. PICK f : f = Worlds(e, q)
  OBVIOUS
<1>5. Runs(f, e, q, n)
  BY <1>1, <1>3, <1>4
<1>6. f[0] = [entity |-> e, critical |-> FALSE]
  BY <1>5 DEF Runs
<1>7. ASSUME NEW i \in 1..n PROVE f[i] = ApplyCommand(f[i - 1], q[i])
  <2>1. i \in 0..n /\ i # 0
    OBVIOUS
  <2> QED BY <2>1, <1>5 DEF Runs
<1> QED BY <1>4, <1>6, <1>7

\* The entities once the queue q has been applied to the entities e.
Final(e, q) == Worlds(e, q)[Len(q)].entity

LEMMA FinalEmpty ==
  ASSUME NEW e
  PROVE  Final(e, <<>>) = e
<1>1. Len(<<>>) = 0
  BY EmptySeq
<1>2. PICK q : q = <<>>
  OBVIOUS
<1>3. Worlds(e, q)[0] = [entity |-> e, critical |-> FALSE]
  BY <1>1, <1>2, WorldsRuns
<1> QED BY <1>1, <1>2, <1>3 DEF Final

LEMMA WorldsAppend ==
  ASSUME NEW e, NEW q \in Seq(Command), NEW c \in Command
  PROVE  Worlds(e, Append(q, c))[Len(Append(q, c))] = ApplyCommand(Worlds(e, q)[Len(q)], c)
<1>1. PICK t : t = Append(q, c)
  OBVIOUS
<1>2. PICK n \in Nat : n = Len(q)
  OBVIOUS
<1>3. n + 1 \in Nat /\ Len(t) = n + 1 /\ t[n + 1] = c /\ \A i \in 1..n : t[i] = q[i]
  BY <1>1, <1>2
<1>4. PICK f : f = Worlds(e, q)
  OBVIOUS
<1>5. PICK g : g = Worlds(e, t)
  OBVIOUS
<1>6. /\ f[0] = [entity |-> e, critical |-> FALSE]
      /\ \A i \in 1..n : f[i] = ApplyCommand(f[i - 1], q[i])
  BY <1>2, <1>4, WorldsRuns
<1>7. /\ g[0] = [entity |-> e, critical |-> FALSE]
      /\ \A i \in 1..n + 1 : g[i] = ApplyCommand(g[i - 1], t[i])
  BY <1>3, <1>5, WorldsRuns
<1>8. \A i \in 0..n : f[i] = g[i]
  <2> DEFINE T == {i \in 0..n : f[i] = g[i]}
  <2>1. 0 \in T
    BY <1>6, <1>7
  <2>2. ASSUME NEW i \in 1..n, i - 1 \in T PROVE i \in T
    <3>1. i \in 1..n + 1 /\ i \in 0..n /\ f[i - 1] = g[i - 1]
      BY <2>2
    <3>2. g[i] = ApplyCommand(g[i - 1], t[i]) /\ t[i] = q[i]
      BY <3>1, <1>3, <1>7
    <3>3. f[i] = ApplyCommand(f[i - 1], q[i])
      BY <1>6
    <3> QED BY <3>1, <3>2, <3>3
  <2>3. \A i \in 0..n : i \in T
    <3> HIDE DEF T
    <3> QED BY <2>1, <2>2, Inducts
  <2> QED BY <2>3
<1>9. g[n + 1] = ApplyCommand(f[n], c)
  <2>1. n + 1 \in 1..n + 1 /\ n + 1 - 1 = n /\ n \in 0..n
    OBVIOUS
  <2>2. g[n + 1] = ApplyCommand(g[n + 1 - 1], t[n + 1])
    BY <2>1, <1>7
  <2> QED BY <2>1, <2>2, <1>3, <1>8
<1> QED BY <1>1, <1>2, <1>3, <1>4, <1>5, <1>9
LEMMA AfterType ==
  ASSUME NEW x \in Entity, NEW c \in Command
  PROVE  After(x, c) \in Entity
<1>1. c.type \in {"spawn", "attach", "detach", "input"} /\ c.connectionId \in SocketOrNone
  BY DEF Command, SocketOrNone
<1>2. CASE c.type = "spawn"
  BY <1>2 DEF After, Body, Entity, SocketOrNone
<1>3. CASE c.type = "attach"
  BY <1>1, <1>3 DEF After, AfterAttach, Entity, SocketOrNone
<1>4. CASE c.type = "detach"
  BY <1>1, <1>4 DEF After, AfterDetach, Entity, SocketOrNone
<1>5. CASE c.type = "input"
  BY <1>1, <1>5 DEF After, Entity, SocketOrNone
<1> QED BY <1>1, <1>2, <1>3, <1>4, <1>5

\* What one command does to the entities.
LEMMA ApplyType ==
  ASSUME NEW w, w.entity \in [Monster -> Entity], NEW c \in Command
  PROVE  /\ ApplyCommand(w, c).entity \in [Monster -> Entity]
         /\ ApplyCommand(w, c).entity[c.entityId] = After(w.entity[c.entityId], c)
         /\ \A m \in Monster : m # c.entityId => ApplyCommand(w, c).entity[m] = w.entity[m]
<1>1. c.entityId \in Monster
  BY DEF Command
<1>2. After(w.entity[c.entityId], c) \in Entity
  BY <1>1, AfterType
<1>3. ApplyCommand(w, c).entity = [w.entity EXCEPT ![c.entityId] = After(w.entity[c.entityId], c)]
  BY DEF ApplyCommand
<1> QED BY <1>1, <1>2, <1>3

\* The commands of q on m keep an entity in the set S.
KeepIn(S, q, m) ==
  \A i \in 1..Len(q) : q[i].entityId = m => \A x \in S : After(x, q[i]) \in S

LEMMA WorldsIn ==
  ASSUME NEW e \in [Monster -> Entity], NEW q \in Seq(Command), NEW m \in Monster,
         NEW S, e[m] \in S, KeepIn(S, q, m), NEW i \in 0..Len(q)
  PROVE  /\ Worlds(e, q)[i].entity \in [Monster -> Entity]
         /\ Worlds(e, q)[i].entity[m] \in S
<1>1. PICK n \in Nat : n = Len(q)
  OBVIOUS
<1>2. PICK f : f = Worlds(e, q)
  OBVIOUS
<1>3. /\ f[0] = [entity |-> e, critical |-> FALSE]
      /\ \A k \in 1..n : f[k] = ApplyCommand(f[k - 1], q[k])
  BY <1>1, <1>2, WorldsRuns
<1> DEFINE T == {k \in 0..n : f[k].entity \in [Monster -> Entity] /\ f[k].entity[m] \in S}
<1>4. 0 \in T
  BY <1>3
<1>5. ASSUME NEW k \in 1..n, k - 1 \in T PROVE k \in T
  <2>1. PICK w : w = f[k - 1]
    OBVIOUS
  <2>2. w.entity \in [Monster -> Entity] /\ w.entity[m] \in S
    BY <1>5, <2>1
  <2>3. PICK c \in Command : c = q[k]
    BY <1>1
  <2>4. f[k] = ApplyCommand(w, c)
    BY <1>3, <2>1, <2>3
  <2>5. c.entityId = m => After(w.entity[m], c) \in S
    BY <1>1, <2>2, <2>3 DEF KeepIn
  <2>6. /\ f[k].entity \in [Monster -> Entity]
        /\ f[k].entity[m] \in S
    <3> USE ApplyType, <2>2, <2>4
    <3>1. CASE c.entityId = m
      BY <3>1, <2>5
    <3>2. CASE c.entityId # m
      BY <3>2
    <3> QED BY <3>1, <3>2
  <2> QED BY <2>6
<1>6. i \in T
  <2> HIDE DEF T
  <2> QED BY <1>1, <1>4, <1>5, Inducts
<1> QED BY <1>1, <1>2, <1>6

LEMMA FinalType ==
  ASSUME NEW e \in [Monster -> Entity], NEW q \in Seq(Command)
  PROVE  Final(e, q) \in [Monster -> Entity]
<1>1. Len(q) \in 0..Len(q)
  BY LenProperties
<1>2. CASE Monster = {}
  <2>1. PICK f : f = Worlds(e, q)
    OBVIOUS
  <2>2. \A k \in 1..Len(q) : FALSE
    BY <1>2, ElementOfSeq DEF Command
  <2>3. Len(q) = 0
    BY <2>2, LenProperties
  <2>4. f[0] = [entity |-> e, critical |-> FALSE]
    BY <2>1, <2>3, WorldsRuns
  <2> QED BY <2>1, <2>3, <2>4 DEF Final
<1>3. CASE Monster # {}
  <2>1. PICK m \in Monster : TRUE
    BY <1>3
  <2>2. KeepIn(Entity, q, m)
    BY AfterType, ElementOfSeq DEF KeepIn
  <2> QED BY <1>1, <2>2, WorldsIn DEF Final
<1> QED BY <1>2, <1>3

LEMMA FinalIn ==
  ASSUME NEW e \in [Monster -> Entity], NEW q \in Seq(Command), NEW m \in Monster,
         NEW S, e[m] \in S, KeepIn(S, q, m)
  PROVE  Final(e, q)[m] \in S
BY Len(q) \in 0..Len(q), LenProperties, WorldsIn DEF Final

LEMMA FinalAppend ==
  ASSUME NEW e \in [Monster -> Entity], NEW q \in Seq(Command), NEW c \in Command
  PROVE  /\ Final(e, Append(q, c))[c.entityId] = After(Final(e, q)[c.entityId], c)
         /\ \A m \in Monster : m # c.entityId => Final(e, Append(q, c))[m] = Final(e, q)[m]
<1>1. PICK w : w = Worlds(e, q)[Len(q)]
  OBVIOUS
<1>2. w.entity = Final(e, q)
  BY <1>1 DEF Final
<1>3. w.entity \in [Monster -> Entity]
  BY <1>2, FinalType
<1>4. Final(e, Append(q, c)) = ApplyCommand(w, c).entity
  BY <1>1, WorldsAppend DEF Final
<1> QED BY <1>2, <1>3, <1>4, ApplyType
--------------------------------------------------------------------------------
(* A queue without some of its commands.                                       *)

\* R relates what the commands of q make of m to what those outside C make of it.
KeepRelated(R, q, C, m) ==
  \A i \in 1..Len(q) : q[i].entityId = m =>
    \A x, y \in Entity : <<x, y>> \in R =>
      <<After(x, q[i]), IF q[i] \in C THEN y ELSE After(y, q[i])>> \in R

\* The commands of q that are not in C.
Others(q, C) == {c \in Command : c \notin C /\ \E i \in 1..Len(q) : q[i] = c}

LEMMA WithoutRelates ==
  ASSUME NEW e \in [Monster -> Entity], NEW d \in [Monster -> Entity],
         NEW q \in Seq(Command), NEW C, NEW m \in Monster,
         NEW R, <<e[m], d[m]>> \in R, KeepRelated(R, q, C, m)
  PROVE  /\ Without(q, C) \in Seq(Others(q, C))
         /\ <<Final(e, q)[m], Final(d, Without(q, C))[m]>> \in R
<1>1. PICK n \in Nat : n = Len(q)
  OBVIOUS
<1>2. PICK f : f = Worlds(e, q)
  OBVIOUS
<1>3. /\ f[0] = [entity |-> e, critical |-> FALSE]
      /\ \A k \in 1..n : f[k] = ApplyCommand(f[k - 1], q[k])
  BY <1>1, <1>2, WorldsRuns
<1>10. PICK g : Filters(g, q, C, n) /\ Without(q, C) = g[n]
  BY <1>1, WithoutKeeps
<1>4. /\ g[0] = <<>>
      /\ \A k \in 1..n : g[k] = IF q[k] \in C THEN g[k - 1] ELSE Append(g[k - 1], q[k])
      /\ Without(q, C) = g[n]
  BY <1>10 DEF Filters
<1>o. PICK O : O = Others(q, C)
  OBVIOUS
<1>t. O \subseteq Command
  BY <1>o DEF Others
<1> DEFINE T == {k \in 0..n : /\ f[k].entity \in [Monster -> Entity]
                              /\ g[k] \in Seq(O)
                              /\ <<f[k].entity[m], Final(d, g[k])[m]>> \in R}
<1>5. 0 \in T
  <2>1. Final(d, g[0]) = d
    BY <1>4, FinalEmpty
  <2>2. g[0] \in Seq(O)
    BY <1>4
  <2>3. f[0].entity = e
    BY <1>3
  <2>4. <<f[0].entity[m], Final(d, g[0])[m]>> \in R
    BY <2>1, <2>3, Zenon
  <2>5. 0 \in 0..n /\ f[0].entity \in [Monster -> Entity]
    BY <2>3
  <2> QED BY <2>2, <2>4, <2>5
<1>6. ASSUME NEW k \in 1..n, k - 1 \in T PROVE k \in T
  <2>1. PICK w : w = f[k - 1]
    OBVIOUS
  <2>2. PICK p \in Seq(O) : p = g[k - 1]
    BY <1>6
  <2>3. w.entity \in [Monster -> Entity] /\ <<w.entity[m], Final(d, p)[m]>> \in R
    BY <1>6, <2>1, <2>2
  <2>4. PICK c \in Command : c = q[k]
    BY <1>1
  <2>5. f[k] = ApplyCommand(w, c)
    BY <1>3, <2>1, <2>4
  <2>6. p \in Seq(Command)
    BY <1>t, <2>2, SeqDef
  <2>7. w.entity[m] \in Entity /\ Final(d, p)[m] \in Entity
    BY <2>3, <2>6, FinalType
  <2>8. PICK x : x = w.entity[m]
    OBVIOUS
  <2>9. PICK y : y = Final(d, p)[m]
    OBVIOUS
  <2>10. c.entityId = m => <<After(x, c), IF c \in C THEN y ELSE After(y, c)>> \in R
    BY <1>1, <2>3, <2>4, <2>7, <2>8, <2>9 DEF KeepRelated
  <2>11. /\ f[k].entity \in [Monster -> Entity]
         /\ f[k].entity[m] = IF c.entityId = m THEN After(x, c) ELSE x
    BY <2>3, <2>5, <2>8, ApplyType
  <2>12. CASE c \in C
    <3>1. g[k] = p
      BY <1>4, <2>2, <2>4, <2>12
    <3>2. <<f[k].entity[m], y>> \in R
      BY <2>3, <2>8, <2>9, <2>10, <2>11, <2>12
    <3>3. <<f[k].entity[m], Final(d, g[k])[m]>> \in R
      BY <2>9, <3>1, <3>2, Zenon
    <3>4. g[k] \in Seq(O) /\ k \in 0..n
      BY <2>2, <3>1
    <3> QED BY <2>11, <3>3, <3>4
  <2>13. CASE c \notin C
    <3>1. c \in O
      BY <1>1, <1>o, <2>4, <2>13 DEF Others
    <3>2. PICK r : r = Append(p, c)
      OBVIOUS
    <3>3. g[k] = r
      BY <1>4, <2>2, <2>4, <2>13, <3>2
    <3>4. r \in Seq(O)
      BY <2>2, <3>1, <3>2
    <3>5. Final(d, r)[m] = IF c.entityId = m THEN After(y, c) ELSE y
      BY <2>6, <2>9, <3>2, FinalAppend
    <3>6. <<f[k].entity[m], Final(d, r)[m]>> \in R
      BY <2>3, <2>8, <2>9, <2>10, <2>11, <2>13, <3>5
    <3>7. <<f[k].entity[m], Final(d, g[k])[m]>> \in R
      BY <3>3, <3>6, Zenon
    <3>8. g[k] \in Seq(O) /\ k \in 0..n
      BY <3>3, <3>4
    <3> QED BY <2>11, <3>7, <3>8
  <2> QED BY <2>12, <2>13
<1>7. n \in T
  <2>1. n \in 0..n
    OBVIOUS
  <2> HIDE DEF T
  <2> QED BY <2>1, <1>5, <1>6, Inducts
<1>8. f[n].entity = Final(e, q)
  BY <1>1, <1>2 DEF Final
<1> QED BY <1>4, <1>7, <1>8, <1>o
LEMMA WithoutType ==
  ASSUME NEW m \in Monster, NEW q \in Seq(Command), NEW C
  PROVE  /\ Without(q, C) \in Seq(Others(q, C))
         /\ Without(q, C) \in Seq(Command)
<1>1. PICK e : e = [n \in Monster |-> Body("absent")]
  OBVIOUS
<1>2. e \in [Monster -> Entity]
  BY <1>1 DEF Body, Entity, SocketOrNone
<1>3. KeepRelated(Entity \X Entity, q, C, m)
  <2>1. \A x \in Entity, i \in 1..Len(q) : After(x, q[i]) \in Entity
    BY AfterType, ElementOfSeq
  <2> QED BY <2>1 DEF KeepRelated
<1>4. <<e[m], e[m]>> \in Entity \X Entity
  BY <1>2
<1>5. Without(q, C) \in Seq(Others(q, C))
  BY <1>2, <1>3, <1>4, WithoutRelates
<1>6. Others(q, C) \subseteq Command
  BY DEF Others
<1> QED BY <1>5, <1>6, SeqDef

--------------------------------------------------------------------------------
(* The types of the queue and of the world.                                    *)

LEMMA CommandType ==
  ASSUME NEW t \in {"spawn", "attach", "detach", "input"}, NEW m \in Monster, NEW s \in Socket
  PROVE  /\ Cmd(t, m, s) \in Command /\ Cmd(t, m, s).type = t
         /\ Cmd(t, m, s).entityId = m /\ Cmd(t, m, s).connectionId = s
BY DEF Cmd, Command

LEMMA PushType ==
  ASSUME NEW q \in Seq(Command), NEW c \in Command
  PROVE  Push(q, c) \in Seq(Command)
<1>1. c.entityId \in Monster
  BY DEF Command
<1>2. PICK p : p = Coalesced(q, c)
  OBVIOUS
<1>3. p \in Seq(Command)
  BY <1>1, <1>2, WithoutType DEF Coalesced
<1>4. Push(q, c) \in {q, Append(p, c)}
  BY <1>2 DEF Push
<1> QED BY <1>3, <1>4

\* What a socket gives up and takes.
LEMMA DetachedType ==
  ASSUME NEW q \in Seq(Command), NEW s \in Socket, NEW m \in Monster
  PROVE  Detached(q, s, m) \in Seq(Command)
BY CommandType, PushType DEF Detached

LEMMA QueueWithoutType ==
  ASSUME GatewayConstants, GatewayInv, commands \in Seq(Command), NEW s \in Socket, NEW m
  PROVE  QueueWithout(s, m) \in Seq(Command)
<1>1. session[s].entityId \in MonsterOrNone
  BY DEF GatewayInv, SessionsOK, Session
<1>2. LeftBehind(s, m) => session[s].entityId \in Monster
  BY <1>1 DEF LeftBehind, MonsterOrNone
<1> QED BY <1>2, DetachedType DEF QueueWithout

LEMMA BodyType ==
  ASSUME NEW b \in {"absent", "alive", "dead"}
  PROVE  Body(b) \in Entity /\ Body(b).body = b
BY DEF Body, Entity, SocketOrNone

LEMMA RowsType ==
  ASSUME RunnerOK, NEW b \in [Monster -> {"absent", "alive", "dead"}]
  PROVE  Bodies \in [Monster -> {"absent", "alive", "dead"}]
         /\ Rows(b) \in [Monster -> BOOLEAN]
BY DEF RunnerOK, Entity, Bodies, Rows

LEMMA InitRunner ==
  ASSUME Init
  PROVE  RunnerOK
<1>1. [m \in Monster |-> Body("absent")] \in [Monster -> Entity]
  BY BodyType
<1> QED BY <1>1 DEF Init, RunnerOK
\* What counts a request, a fault or an upheaval.
LEMMA SpentType ==
  ASSUME RunnerOK
  PROVE  /\ [spent EXCEPT !.requests = @ + 1] \in [requests : Nat, faults : Nat, upheavals : Nat]
         /\ [spent EXCEPT !.faults = @ + 1] \in [requests : Nat, faults : Nat, upheavals : Nat]
         /\ [spent EXCEPT !.upheavals = @ + 1] \in [requests : Nat, faults : Nat, upheavals : Nat]
<1>1. spent \in [requests : Nat, faults : Nat, upheavals : Nat]
  BY DEF RunnerOK
<1> QED BY <1>1

\* Only the queue changes.
LEMMA QueueTyped ==
  ASSUME RunnerOK, commands' \in Seq(Command),
         UNCHANGED <<phase, generation, entity, row, saved>>,
         spent' = spent \/ Request
  PROVE  RunnerOK'
<1>1. spent' \in [requests : Nat, faults : Nat, upheavals : Nat]
  BY SpentType DEF RunnerOK, Request
<1> QED BY <1>1 DEF RunnerOK

LEMMA ClientTyped ==
  ASSUME GatewayConstants, GatewayInv, RunnerOK, NEW s \in Socket, Client(s)
  PROVE  RunnerOK'
<1>1. session[s].entityId \in MonsterOrNone
  BY DEF GatewayInv, SessionsOK, Session
<1>2. commands \in Seq(Command)
  BY DEF RunnerOK
<1>3. session[s].entityId # None => session[s].entityId \in Monster
  BY <1>1 DEF MonsterOrNone
<1>4. CASE HandleConnection(s)
  BY <1>2, <1>4, QueueTyped DEF HandleConnection, runner
<1>5. CASE HandleDisconnect(s)
  <2>1. commands' \in Seq(Command)
    BY <1>2, <1>3, <1>5, DetachedType DEF HandleDisconnect
  <2> QED BY <2>1, <1>5, QueueTyped DEF HandleDisconnect
<1>6. CASE OnLeave(s)
  <2>1. commands' \in Seq(Command)
    BY <1>2, <1>3, <1>6, DetachedType DEF OnLeave
  <2> QED BY <2>1, <1>6, QueueTyped DEF OnLeave
<1>7. CASE OnInput(s)
  <2>1. commands' \in Seq(Command)
    BY <1>2, <1>3, <1>7, CommandType, PushType DEF OnInput
  <2> QED BY <2>1, <1>7, QueueTyped DEF OnInput
<1>8. CASE \E m \in MonsterOrNone : OnJoin(s, m)
  BY <1>2, <1>8, QueueTyped DEF OnJoin, runner
<1> QED BY <1>4, <1>5, <1>6, <1>7, <1>8 DEF Client

LEMMA JoinTyped ==
  ASSUME GatewayConstants, GatewayInv, RunnerOK, NEW j \in joins, JoinStep(j)
  PROVE  RunnerOK'
<1>1. commands \in Seq(Command)
  BY DEF RunnerOK
<1>2. CASE \/ JoinLooksUp(j) \/ JoinReads(j) \/ JoinHeld(j) \/ JoinDropped(j) \/ JoinEnds(j)
  BY <1>1, <1>2, QueueTyped
  DEF JoinLooksUp, JoinReads, JoinHeld, JoinDropped, JoinEnds, runner
<1>3. CASE JoinObserves(j)
  <2>1. j.socket \in Socket
    BY <1>3, JoinGranted DEF JoinObserves
  <2>2. commands' \in Seq(Command)
    BY <1>1, <1>3, <2>1, QueueWithoutType DEF JoinObserves
  <2> QED BY <2>2, <1>3, QueueTyped DEF JoinObserves
<1>4. CASE JoinControls(j)
  <2>1. PICK s \in Socket : s = j.socket
    BY <1>4, JoinGranted DEF JoinControls
  <2>2. PICK m \in Monster : m = Target(j)
    BY <1>4, JoinGranted DEF JoinControls, MonsterOrNone
  <2>3. QueueWithout(s, m) \in Seq(Command)
    BY <1>1, QueueWithoutType
  <2>4. PICK q \in Seq(Command) :
          /\ q \in {QueueWithout(s, m), Push(QueueWithout(s, m), Cmd("spawn", m, s))}
          /\ commands' = Push(q, Cmd("attach", m, s))
    BY <1>4, <2>1, <2>2, <2>3, CommandType, PushType DEF JoinControls
  <2>5. commands' \in Seq(Command)
    BY <2>4, CommandType, PushType
  <2> QED BY <2>5, <1>4, QueueTyped DEF JoinControls
<1> QED BY <1>2, <1>3, <1>4 DEF JoinStep
\* The entities after a tick that releases X and kills D.
AfterTick(f, X, D) ==
  [m \in Monster |-> IF m \in D THEN Body("dead") ELSE IF m \in X THEN Body(f[m].body) ELSE f[m]]

LEMMA AfterTickType ==
  ASSUME NEW f \in [Monster -> Entity], NEW X, NEW D
  PROVE  AfterTick(f, X, D) \in [Monster -> Entity]
<1>1. \A m \in Monster : f[m].body \in {"absent", "alive", "dead"}
  BY DEF Entity
<1>2. Body("dead") \in Entity /\ \A m \in Monster : Body(f[m].body) \in Entity /\ f[m] \in Entity
  BY <1>1, BodyType
<1> QED BY <1>2 DEF AfterTick

LEMMA TickMoves ==
  ASSUME NEW X, NEW D, Tick(X, D)
  PROVE  /\ phase = "running" /\ phase' \in {"running", "saving"} /\ commands' = <<>>
         /\ entity' = AfterTick(Final(entity, commands), X, D)
         /\ \A m \in X : entity[m].expiring /\ Final(entity, commands)[m].expiring
         /\ \A m \in D : Final(entity, commands)[m].body = "alive"
         /\ UNCHANGED <<gateway, generation, row, saved, spent>>
<1>1. Applied.entity = Final(entity, commands)
  BY DEF Applied, Final
<1>2. PICK f : f = Final(entity, commands)
  OBVIOUS
<1>3. entity' = [m \in Monster |-> CASE m \in D -> Body("dead")
                                     [] m \in X \ D -> Body(f[m].body)
                                     [] OTHER -> f[m]]
  BY <1>1, <1>2 DEF Tick
<1>4. entity' = AfterTick(f, X, D)
  <2>1. ASSUME NEW m \in Monster PROVE entity'[m] = AfterTick(f, X, D)[m]
    <3>1. CASE m \in D
      BY <1>3, <3>1 DEF AfterTick
    <3>2. CASE m \notin D /\ m \in X
      BY <1>3, <3>2 DEF AfterTick
    <3>3. CASE m \notin D /\ m \notin X
      BY <1>3, <3>3 DEF AfterTick
    <3> QED BY <3>1, <3>2, <3>3
  <2>2. DOMAIN entity' = Monster /\ entity' = [m \in Monster |-> entity'[m]]
    BY <1>3
  <2>3. AfterTick(f, X, D) = [m \in Monster |-> AfterTick(f, X, D)[m]]
    BY DEF AfterTick
  <2> HIDE DEF AfterTick
  <2> QED BY <2>1, <2>2, <2>3
<1> QED BY <1>1, <1>2, <1>4 DEF Tick, Expirable

LEMMA TickTyped ==
  ASSUME RunnerOK, NEW X, NEW D, Tick(X, D)
  PROVE  RunnerOK'
<1>1. PICK f : f = Final(entity, commands)
  OBVIOUS
<1>2. f \in [Monster -> Entity]
  BY <1>1, FinalType DEF RunnerOK
<1>4. AfterTick(f, X, D) \in [Monster -> Entity]
  BY <1>2, AfterTickType
<1>5. commands' = <<>> /\ <<>> \in Seq(Command)
  BY TickMoves, EmptySeq
<1>6. /\ phase' \in {"running", "saving"} /\ entity' = AfterTick(f, X, D)
      /\ UNCHANGED <<generation, row, saved, spent>>
  BY <1>1, TickMoves
<1> QED BY <1>4, <1>5, <1>6 DEF RunnerOK

\* A keeper's commit puts a body in the place of m.
LEMMA KeeperTyped ==
  ASSUME RunnerOK, NEW m \in Monster, NEW b \in {"absent", "alive", "dead"},
         KeeperCommits(m, b)
  PROVE  RunnerOK'
<1>1. [entity EXCEPT ![m] = Body(b)] \in [Monster -> Entity]
  BY BodyType DEF RunnerOK
<1>2. commands' \in Seq(Command)
  BY WithoutType DEF KeeperCommits, RunnerOK
<1>3. Bodies \in [Monster -> {"absent", "alive", "dead"}] /\ Rows(Bodies) \in [Monster -> BOOLEAN]
  BY RowsType DEF RunnerOK, Entity, Bodies
<1>4. saved' \in [Monster -> {"absent", "alive", "dead"}] /\ row' \in [Monster -> BOOLEAN]
  BY <1>3 DEF KeeperCommits
<1> QED BY <1>1, <1>2, <1>4 DEF KeeperCommits, RunnerOK

LEMMA RestoreTyped ==
  ASSUME RunnerOK, NEW D, Restore(D)
  PROVE  /\ \A m \in Monster : entity'[m] = Body(entity'[m].body)
         /\ entity' \in [Monster -> Entity]
         /\ saved' \in [Monster -> {"absent", "alive", "dead"}]
         /\ row' \in [Monster -> BOOLEAN]
<1>1. PICK b : b = [m \in Monster |-> IF m \in D THEN "dead" ELSE saved[m]]
  OBVIOUS
<1>2. b \in [Monster -> {"absent", "alive", "dead"}]
  BY <1>1 DEF RunnerOK
<1>3. entity' = [m \in Monster |-> Body(b[m])] /\ saved' = b /\ row' = Rows(b)
  BY <1>1 DEF Restore
<1>4. \A m \in Monster : Body(b[m]) \in Entity /\ Body(b[m]).body = b[m]
  BY <1>2, BodyType
<1> QED BY <1>2, <1>3, <1>4, RowsType

LEMMA WorldTyped ==
  ASSUME RunnerOK,
         \/ Ticks \/ SaveCommits \/ SaveFails
         \/ \E m \in Monster : BodyExpires(m)
         \/ Keeper \/ Replace
  PROVE  RunnerOK'
<1>1. CASE Ticks
  BY <1>1, TickTyped DEF Ticks
<1>2. CASE SaveCommits
  <2>1. Bodies \in [Monster -> {"absent", "alive", "dead"}] /\ Rows(Bodies) \in [Monster -> BOOLEAN]
    BY RowsType DEF RunnerOK, Entity, Bodies
  <2> QED BY <1>2, <2>1 DEF SaveCommits, RunnerOK
<1>3. CASE SaveFails
  BY <1>3, SpentType DEF SaveFails, RunnerOK
<1>4. CASE \E m \in Monster : BodyExpires(m)
  BY <1>4, BodyType DEF BodyExpires, RunnerOK
<1>5. CASE Keeper
  <2>1. CASE KeeperPauses
    BY <2>1, SpentType DEF KeeperPauses, Upheaval, RunnerOK
  <2>2. CASE KeeperEnds
    BY <2>2 DEF KeeperEnds, RunnerOK
  <2>3. CASE \E m \in Monster : KillMonster(m) \/ SpawnMonster(m)
    BY <2>3, KeeperTyped DEF KillMonster, SpawnMonster
  <2> QED BY <1>5, <2>1, <2>2, <2>3 DEF Keeper
<1>6. CASE Replace
  <2>1. generation + 1 \in Nat /\ <<>> \in Seq(Command)
    BY DEF RunnerOK
  <2>2. CASE ResetWorld
    BY <2>2, <2>1, SpentType DEF ResetWorld, Upheaval, RunnerOK
  <2>3. CASE ResetSaved
    <3>1. entity' \in [Monster -> Entity] /\ phase' = "running"
      BY <2>3, BodyType DEF ResetSaved, Renew
    <3>2. UNCHANGED <<commands, spent>> /\ generation' = generation + 1
          /\ saved' = [m \in Monster |-> "absent"] /\ row' = [m \in Monster |-> FALSE]
      BY <2>3 DEF ResetSaved, Renew
    <3> QED BY <3>1, <3>2, <2>1 DEF RunnerOK
  <2>4. CASE LoadResets
    <3>1. entity' \in [Monster -> Entity]
      BY <2>4, BodyType DEF LoadResets, Renew
    <3> QED BY <2>4, <3>1 DEF LoadResets, Renew, RunnerOK
  <2>5. CASE \E D \in SUBSET Monster : ResetFails(D)
    BY <2>5, <2>1, RestoreTyped DEF ResetFails, RunnerOK
  <2>6. CASE \E D \in SUBSET Monster : Reloads(D)
    BY <2>6, RestoreTyped DEF Reloads, RunnerOK
  <2>7. CASE \E landed \in BOOLEAN : LockLost(landed)
    <3>1. PICK landed \in BOOLEAN : LockLost(landed)
      BY <2>7
    <3>2. /\ Bodies \in [Monster -> {"absent", "alive", "dead"}]
          /\ Rows(Bodies) \in [Monster -> BOOLEAN]
      BY RowsType DEF RunnerOK, Entity, Bodies
    <3>3. saved' \in [Monster -> {"absent", "alive", "dead"}] /\ row' \in [Monster -> BOOLEAN]
      BY <3>1, <3>2 DEF LockLost, RunnerOK
    <3>4. entity' \in [Monster -> Entity]
      BY <3>1, BodyType DEF LockLost
    <3> QED BY <3>1, <3>3, <3>4, <2>1, SpentType DEF LockLost, Upheaval, RunnerOK
  <2> QED BY <1>6, <2>2, <2>3, <2>4, <2>5, <2>6, <2>7 DEF Replace
<1> QED BY <1>1, <1>2, <1>3, <1>4, <1>5, <1>6

LEMMA TypedStep ==
  ASSUME GatewayConstants, GatewayInv, RunnerOK, [Next]_vars
  PROVE  RunnerOK'
<1>1. CASE \E s \in Socket : Client(s)
  BY <1>1, ClientTyped
<1>2. CASE \E j \in joins : JoinStep(j)
  BY <1>2, JoinTyped
<1>3. CASE UNCHANGED vars
  BY <1>3 DEF vars, runner, RunnerOK
<1> QED BY <1>1, <1>2, <1>3, WorldTyped DEF Next

LEMMA Typing == Spec => []RunnerOK
<1>1. Init => RunnerOK
  BY InitRunner
<1>2. GatewayInv /\ RunnerOK /\ [Next]_vars => RunnerOK'
  BY TypedStep, GatewayConstants
<1> QED BY <1>1, <1>2, Invariance, PTL DEF Spec
--------------------------------------------------------------------------------
(* Who controls an entity, command by command.                                 *)

Steered(x) == x.controllerId # None => x.input \in {None, x.controllerId}
\* Nobody controls what is not alive.
Plain(x) == x.body # "alive" => x = Body(x.body)
\* The registry says c: the entity x has no other controller.
Agree(c, x) ==
  c # None /\ x.controllerId # None => x.controllerId = c /\ ~x.expiring
\* The registry says c, and c is what the entity x says, if it is alive.
Match(c, x) ==
  x.body = "alive" => c = IF x.expiring THEN None ELSE x.controllerId

SameControl(x, y) ==
  x.body = y.body /\ x.controllerId = y.controllerId /\ x.expiring = y.expiring

LEMMA BodyFits ==
  ASSUME NEW b, NEW c
  PROVE  /\ Steered(Body(b)) /\ Plain(Body(b)) /\ Agree(c, Body(b))
         /\ Match(None, Body(b)) /\ (b # "alive" => Match(c, Body(b)))
BY DEF Steered, Plain, Agree, Match, Body

LEMMA SpawnFits ==
  ASSUME NEW x \in Entity, NEW c \in Command, c.type = "spawn"
  PROVE  /\ Steered(x) => Steered(After(x, c))
         /\ Plain(x) => Plain(After(x, c))
<1>1. After(x, c) = IF x.body = "absent" THEN Body("alive") ELSE x
  BY DEF After
<1> QED BY <1>1, BodyFits

LEMMA AttachFits ==
  ASSUME GatewayConstants, NEW x \in Entity, NEW c \in Command, c.type = "attach"
  PROVE  /\ Steered(x) => Steered(After(x, c))
         /\ Plain(x) => Plain(After(x, c))
         /\ Plain(x) => Agree(c.connectionId, After(x, c))
         /\ Match(c.connectionId, After(x, c))
<1>1. PICK s \in Socket : s = c.connectionId
  BY DEF Command
<1>2. After(x, c) = AfterAttach(x, s)
  BY <1>1 DEF After
<1>3. CASE x.body # "alive"
  <2>1. After(x, c) = x
    BY <1>2, <1>3 DEF AfterAttach
  <2>2. Plain(x) => Agree(s, x)
    BY <1>3 DEF Plain, Agree, Body
  <2>3. Match(s, x)
    BY <1>3 DEF Match
  <2> QED BY <1>1, <2>1, <2>2, <2>3
<1>4. CASE x.body = "alive"
  <2>1. PICK y : y = After(x, c)
    OBVIOUS
  <2>2. y = [x EXCEPT !.controllerId = s, !.expiring = FALSE, !.input = None]
    BY <1>2, <1>4, <2>1 DEF AfterAttach
  <2>3. y.body = "alive" /\ y.controllerId = s /\ y.expiring = FALSE /\ y.input = None
    BY <1>4, <2>2 DEF Entity
  <2>4. Steered(y) /\ Plain(y) /\ Agree(s, y) /\ Match(s, y)
    BY <2>3 DEF Steered, Plain, Agree, Match
  <2> QED BY <1>1, <2>1, <2>4
<1> QED BY <1>3, <1>4

LEMMA DetachFits ==
  ASSUME GatewayConstants, NEW x \in Entity, NEW c \in Command, c.type = "detach"
  PROVE  /\ Steered(x) => Steered(After(x, c))
         /\ Plain(x) => Plain(After(x, c))
         /\ Match(c.connectionId, x) => Match(None, After(x, c))
<1>1. PICK s \in Socket : s = c.connectionId
  BY DEF Command
<1>2. After(x, c) = AfterDetach(x, s)
  BY <1>1 DEF After
<1>3. s # None
  BY DEF GatewayConstants
<1>4. CASE x.body = "absent" \/ x.controllerId # s
  <2>1. After(x, c) = x
    BY <1>2, <1>4 DEF AfterDetach
  <2>2. Match(s, x) => Match(None, x)
    BY <1>3, <1>4 DEF Match
  <2> QED BY <1>1, <2>1, <2>2
<1>5. CASE x.body # "absent" /\ x.controllerId = s
  <2>1. PICK y : y = After(x, c)
    OBVIOUS
  <2>2. y = [x EXCEPT !.expiring = TRUE, !.input = None]
    BY <1>2, <1>5, <2>1 DEF AfterDetach
  <2>3. y.body = x.body /\ y.expiring = TRUE /\ y.input = None
    BY <2>2 DEF Entity
  <2>4. Steered(y) /\ Match(None, y)
    BY <2>3 DEF Steered, Match
  <2>5. Plain(x) => Plain(y)
    BY <1>3, <1>5, <2>3 DEF Plain, Body
  <2> QED BY <1>1, <2>1, <2>4, <2>5
<1> QED BY <1>4, <1>5

LEMMA InputFits ==
  ASSUME GatewayConstants, NEW x \in Entity, NEW c \in Command, c.type = "input"
  PROVE  /\ SameControl(x, After(x, c))
         /\ Plain(x) => Plain(After(x, c))
         /\ Steered(x) /\ Agree(c.connectionId, x) => Steered(After(x, c))
<1>1. PICK s \in Socket : s = c.connectionId
  BY DEF Command
<1>2. After(x, c) = IF x.body = "alive" THEN [x EXCEPT !.input = s] ELSE x
  BY <1>1 DEF After
<1>3. s # None
  BY DEF GatewayConstants
<1>4. CASE x.body # "alive"
  BY <1>2, <1>4 DEF SameControl
<1>5. CASE x.body = "alive"
  <2>1. PICK y : y = After(x, c)
    OBVIOUS
  <2>2. y = [x EXCEPT !.input = s]
    BY <1>2, <1>5, <2>1
  <2>3. SameControl(x, y) /\ y.input = s /\ y.body = "alive"
    BY <1>5, <2>2 DEF Entity, SameControl
  <2>4. Plain(y)
    BY <2>3 DEF Plain
  <2>5. Agree(s, x) => Steered(y)
    BY <1>3, <2>3 DEF Agree, Steered, SameControl
  <2> QED BY <1>1, <2>1, <2>3, <2>4, <2>5
<1> QED BY <1>4, <1>5

LEMMA SameFits ==
  ASSUME NEW x, NEW y, SameControl(x, y), NEW c
  PROVE  (Agree(c, x) => Agree(c, y)) /\ (Match(c, x) => Match(c, y))
BY DEF SameControl, Agree, Match
\* Two worlds with the same m: what the queue makes of it is the same.
Alike(e, d, m) ==
  e \in [Monster -> Entity] /\ d \in [Monster -> Entity] /\ e[m] = d[m]

LEMMA FinalLocal ==
  ASSUME NEW e, NEW d, NEW q \in Seq(Command), NEW m \in Monster, Alike(e, d, m)
  PROVE  Final(e, q)[m] = Final(d, q)[m]
<1>0. e \in [Monster -> Entity] /\ d \in [Monster -> Entity] /\ e[m] = d[m]
  BY DEF Alike
<1>1. PICK n \in Nat : n = Len(q)
  OBVIOUS
<1>2. PICK f : f = Worlds(e, q)
  OBVIOUS
<1>3. PICK g : g = Worlds(d, q)
  OBVIOUS
<1>4. f[0] = [entity |-> e, critical |-> FALSE] /\ g[0] = [entity |-> d, critical |-> FALSE]
  BY <1>1, <1>2, <1>3, WorldsRuns
<1>5. \A k \in 1..n : f[k] = ApplyCommand(f[k - 1], q[k])
  BY <1>1, <1>2, WorldsRuns
<1>6. \A k \in 1..n : g[k] = ApplyCommand(g[k - 1], q[k])
  BY <1>1, <1>3, WorldsRuns
<1> DEFINE T == {k \in 0..n : /\ f[k].entity \in [Monster -> Entity]
                              /\ g[k].entity \in [Monster -> Entity]
                              /\ f[k].entity[m] = g[k].entity[m]}
<1>7. 0 \in T
  BY <1>0, <1>4
<1>8. ASSUME NEW k \in 1..n, k - 1 \in T PROVE k \in T
  <2>1. PICK w : w = f[k - 1]
    OBVIOUS
  <2>2. PICK v : v = g[k - 1]
    OBVIOUS
  <2>3. /\ w.entity \in [Monster -> Entity] /\ v.entity \in [Monster -> Entity]
        /\ w.entity[m] = v.entity[m]
    BY <1>8, <2>1, <2>2
  <2>4. PICK c \in Command : c = q[k]
    BY <1>1
  <2>5. f[k] = ApplyCommand(w, c) /\ g[k] = ApplyCommand(v, c)
    BY <1>5, <1>6, <2>1, <2>2, <2>4
  <2>6. /\ f[k].entity \in [Monster -> Entity]
        /\ f[k].entity[m] = IF m = c.entityId THEN After(w.entity[m], c) ELSE w.entity[m]
    BY <2>3, <2>5, ApplyType
  <2>7. /\ g[k].entity \in [Monster -> Entity]
        /\ g[k].entity[m] = IF m = c.entityId THEN After(v.entity[m], c) ELSE v.entity[m]
    BY <2>3, <2>5, ApplyType
  <2> QED BY <2>3, <2>6, <2>7
<1>9. n \in T
  <2>1. n \in 0..n
    OBVIOUS
  <2> HIDE DEF T
  <2> QED BY <2>1, <1>7, <1>8, Inducts
<1> QED BY <1>1, <1>2, <1>3, <1>9 DEF Final

--------------------------------------------------------------------------------
(* Who controls the entities once the queue q is applied to the entities e,    *)
(* when the registry is r.                                                     *)

Living(e, q) ==
  \A i \in 1..Len(q) :
    q[i].type \in {"spawn", "attach"} => e[q[i].entityId].body # "dead"

Good(e, q) ==
  /\ \A m \in Monster : Plain(e[m]) /\ Steered(e[m])
  /\ \A m \in Monster : Steered(Final(e, q)[m])
  /\ Living(e, q)

Agreed(e, q, r)  == \A m \in Monster : Agree(r[m], Final(e, q)[m])
Matched(e, q, r) == \A m \in Monster : Match(r[m], Final(e, q)[m])

LEMMA PlainKept ==
  ASSUME GatewayConstants, NEW x \in Entity, NEW c \in Command, Plain(x)
  PROVE  Plain(After(x, c))
<1>1. c.type \in {"spawn", "attach", "detach", "input"}
  BY DEF Command
<1> QED BY <1>1, SpawnFits, AttachFits, DetachFits, InputFits

LEMMA FinalPlain ==
  ASSUME GatewayConstants, NEW e \in [Monster -> Entity], NEW q \in Seq(Command),
         Good(e, q), NEW m \in Monster
  PROVE  Final(e, q)[m] \in Entity /\ Plain(Final(e, q)[m])
<1> DEFINE S == {x \in Entity : Plain(x)}
<1>1. e[m] \in S
  BY DEF Good
<1>2. KeepIn(S, q, m)
  <2>1. \A i \in 1..Len(q), x \in S : After(x, q[i]) \in Entity /\ Plain(After(x, q[i]))
    BY ElementOfSeq, AfterType, PlainKept
  <2> QED BY <2>1 DEF KeepIn
<1>3. Final(e, q)[m] \in S
  <2> HIDE DEF S
  <2> QED BY <1>1, <1>2, FinalIn
<1> QED BY <1>3

\* The empty queue.
LEMMA EmptyFits ==
  ASSUME NEW e, \A m \in Monster : Plain(e[m]) /\ Steered(e[m])
  PROVE  Good(e, <<>>) /\ Final(e, <<>>) = e
<1>1. Final(e, <<>>) = e /\ Len(<<>>) = 0
  BY FinalEmpty, EmptySeq
<1>2. PICK n : n = Len(<<>>)
  OBVIOUS
<1>3. \A i \in 1..n : FALSE
  BY <1>1, <1>2
<1>4. Living(e, <<>>)
  BY <1>2, <1>3, Zenon DEF Living
<1> QED BY <1>1, <1>4 DEF Good

\* One more command at the end.
LEMMA AppendFits ==
  ASSUME NEW e \in [Monster -> Entity], NEW q \in Seq(Command), Good(e, q),
         NEW c \in Command,
         c.type \in {"spawn", "attach"} => e[c.entityId].body # "dead",
         Steered(After(Final(e, q)[c.entityId], c))
  PROVE  Good(e, Append(q, c))
<1>1. PICK p : p = Append(q, c)
  OBVIOUS
<1>2. c.entityId \in Monster
  BY DEF Command
<1>3. /\ Final(e, p)[c.entityId] = After(Final(e, q)[c.entityId], c)
      /\ \A m \in Monster : m # c.entityId => Final(e, p)[m] = Final(e, q)[m]
  BY <1>1, FinalAppend
<1>4. ASSUME NEW m \in Monster PROVE Steered(Final(e, p)[m])
  <2>1. CASE m = c.entityId
    BY <2>1, <1>3
  <2>2. CASE m # c.entityId
    BY <2>2, <1>3 DEF Good
  <2> QED BY <2>1, <2>2
<1>5. Living(e, p)
  <2>1. PICK n \in Nat : n = Len(q)
    OBVIOUS
  <2>2. Len(p) = n + 1 /\ p[n + 1] = c /\ \A i \in 1..n : p[i] = q[i]
    BY <1>1, <2>1
  <2>3. ASSUME NEW i \in 1..n + 1, p[i].type \in {"spawn", "attach"}
        PROVE  e[p[i].entityId].body # "dead"
    <3>1. CASE i = n + 1
      BY <2>2, <2>3, <3>1
    <3>2. CASE i # n + 1
      <4>1. i \in 1..n /\ p[i] = q[i]
        BY <2>2, <3>2
      <4> QED BY <4>1, <2>1, <2>3 DEF Good, Living
    <3> QED BY <3>1, <3>2
  <2> QED BY <2>2, <2>3 DEF Living
<1> QED BY <1>1, <1>4, <1>5 DEF Good
\* A queue whose commands are among those of another one.
LEMMA SubqueueLiving ==
  ASSUME NEW e, NEW q, NEW C, NEW p \in Seq(Others(q, C)), Living(e, q)
  PROVE  Living(e, p)
<1>1. ASSUME NEW i \in 1..Len(p)
      PROVE  \E k \in 1..Len(q) : q[k] = p[i]
  BY ElementOfSeq DEF Others
<1> QED BY <1>1 DEF Living

\* Dropping inputs changes nothing for other monsters, and no one's control.
LEMMA InputsDropped ==
  ASSUME GatewayConstants, NEW e \in [Monster -> Entity], NEW q \in Seq(Command), Good(e, q),
         NEW m \in Monster, NEW C,
         C = {d \in Command : d.type = "input" /\ d.entityId = m}
  PROVE  /\ Good(e, Without(q, C))
         /\ \A n \in Monster : SameControl(Final(e, q)[n], Final(e, Without(q, C))[n])
<1>1. PICK p : p = Without(q, C)
  OBVIOUS
<1>2. p \in Seq(Others(q, C)) /\ p \in Seq(Command)
  BY <1>1, WithoutType
<1>3. ASSUME NEW n \in Monster, n # m PROVE Final(e, q)[n] = Final(e, p)[n]
  <2> DEFINE R == {w \in Entity \X Entity : w[1] = w[2]}
  <2>1. KeepRelated(R, q, C, n)
    <3>1. ASSUME NEW i \in 1..Len(q), q[i].entityId = n, NEW x \in Entity, NEW y \in Entity,
                 <<x, y>> \in R
          PROVE  <<After(x, q[i]), IF q[i] \in C THEN y ELSE After(y, q[i])>> \in R
      <4>1. q[i] \in Command /\ q[i] \notin C /\ x = y
        BY <1>3, <3>1, ElementOfSeq
      <4>2. After(x, q[i]) \in Entity
        BY <4>1, AfterType
      <4> QED BY <4>1, <4>2
    <3> HIDE DEF R
    <3> QED BY <3>1 DEF KeepRelated
  <2>2. <<e[n], e[n]>> \in R
    OBVIOUS
  <2>3. <<Final(e, q)[n], Final(e, p)[n]>> \in R
    <3> HIDE DEF R
    <3> QED BY <1>1, <2>1, <2>2, WithoutRelates
  <2> QED BY <2>3
<1>4. SameControl(Final(e, q)[m], Final(e, p)[m])
  <2> DEFINE R == {w \in Entity \X Entity : SameControl(w[1], w[2])}
  <2>1. KeepRelated(R, q, C, m)
    <3>1. ASSUME NEW i \in 1..Len(q), q[i].entityId = m, NEW x \in Entity, NEW y \in Entity,
                 <<x, y>> \in R
          PROVE  <<After(x, q[i]), IF q[i] \in C THEN y ELSE After(y, q[i])>> \in R
      <4>1. PICK c \in Command : c = q[i]
        BY ElementOfSeq
      <4>2. SameControl(x, y)
        BY <3>1
      <4>3. After(x, c) \in Entity /\ After(y, c) \in Entity
        BY AfterType
      <4>4. c.type \in {"spawn", "attach", "detach", "input"} /\ c.connectionId \in Socket
            /\ (c \in C <=> c.type = "input")
        BY <3>1, <4>1 DEF Command
      <4>5. CASE c.type = "input"
        <5>1. SameControl(After(x, c), y)
          BY <4>2, <4>5, InputFits DEF SameControl
        <5> QED BY <4>1, <4>3, <4>4, <4>5, <5>1
      <4>6. CASE c.type # "input"
        <5>1. SameControl(After(x, c), After(y, c))
          <6>1. CASE c.type = "spawn"
            BY <4>2, <6>1 DEF After, SameControl
          <6>2. CASE c.type = "attach"
            BY <4>2, <4>4, <6>2 DEF After, AfterAttach, SameControl, Entity
          <6>3. CASE c.type = "detach"
            BY <4>2, <4>4, <6>3 DEF After, AfterDetach, SameControl, Entity
          <6> QED BY <4>4, <4>6, <6>1, <6>2, <6>3
        <5> QED BY <4>1, <4>3, <4>4, <4>6, <5>1
      <4> QED BY <4>5, <4>6
    <3> HIDE DEF R
    <3> QED BY <3>1 DEF KeepRelated
  <2>2. <<e[m], e[m]>> \in R
    BY DEF SameControl
  <2>3. <<Final(e, q)[m], Final(e, p)[m]>> \in R
    <3> HIDE DEF R
    <3> QED BY <1>1, <2>1, <2>2, WithoutRelates
  <2> QED BY <2>3
<1>5. Steered(Final(e, p)[m])
  <2> DEFINE S == {x \in Entity : Steered(x)}
  <2>1. KeepIn(S, p, m)
    <3>1. ASSUME NEW i \in 1..Len(p), p[i].entityId = m, NEW x \in S
          PROVE  After(x, p[i]) \in S
      <4>1. PICK c \in Command : c = p[i]
        BY <1>2, ElementOfSeq
      <4>2. c \notin C
        BY <1>2, <4>1, ElementOfSeq DEF Others
      <4>3. c.type \in {"spawn", "attach", "detach"}
        BY <3>1, <4>1, <4>2 DEF Command
      <4>4. Steered(After(x, c)) /\ After(x, c) \in Entity
        BY <4>3, AfterType, SpawnFits, AttachFits, DetachFits
      <4> QED BY <4>1, <4>4
    <3> HIDE DEF S
    <3> QED BY <3>1 DEF KeepIn
  <2>2. e[m] \in S
    BY DEF Good
  <2>3. Final(e, p)[m] \in S
    <3> HIDE DEF S
    <3> QED BY <1>2, <2>1, <2>2, FinalIn
  <2> QED BY <2>3
<1>6. \A n \in Monster : SameControl(Final(e, q)[n], Final(e, p)[n])
  <2> TAKE n \in Monster
  <2>1. CASE n = m
    BY <2>1, <1>4
  <2>2. CASE n # m
    BY <2>2, <1>3 DEF SameControl
  <2> QED BY <2>1, <2>2
<1>7. \A n \in Monster : Steered(Final(e, p)[n])
  <2> TAKE n \in Monster
  <2>1. CASE n = m
    BY <2>1, <1>5
  <2>2. CASE n # m
    BY <2>2, <1>3 DEF Good
  <2> QED BY <2>1, <2>2
<1>8. Living(e, p)
  BY <1>2, SubqueueLiving DEF Good
<1> QED BY <1>1, <1>6, <1>7, <1>8 DEF Good
\* Whoever gives up m detaches it, if the world takes the command.
LEMMA DetachedFits ==
  ASSUME GatewayConstants, controllers \in [Monster -> SocketOrNone],
         NEW e \in [Monster -> Entity], NEW q \in Seq(Command), Good(e, q),
         NEW s \in Socket, NEW m \in Monster, NEW r, r = Released(s, m)
  PROVE  /\ Good(e, Detached(q, s, m))
         /\ phase \in {"keeper", "reset", "lost"} => Detached(q, s, m) = q
         /\ Agreed(e, q, controllers) => Agreed(e, Detached(q, s, m), r)
         /\ phase \in {"running", "saving", "failed"} /\ Matched(e, q, controllers)
              => Matched(e, Detached(q, s, m), r)
<1>0. /\ r \in [Monster -> SocketOrNone]
      /\ controllers[m] = s => r[m] = None
      /\ controllers[m] # s => r[m] = controllers[m]
      /\ \A n \in Monster : n # m => r[n] = controllers[n]
  BY ReleasedRegistry
<1>c. PICK c \in Command : c = Cmd("detach", m, s)
  BY CommandType
<1>d. c.type = "detach" /\ c.entityId = m /\ c.connectionId = s
  BY <1>c, CommandType
<1>1. CASE controllers[m] # s
  <2>1. Detached(q, s, m) = q /\ \A n \in Monster : r[n] = controllers[n]
    BY <1>0, <1>1 DEF Detached
  <2> QED BY <2>1 DEF Agreed, Matched
<1>2. CASE controllers[m] = s /\ phase \notin {"running", "saving", "failed"}
  <2>1. Detached(q, s, m) = q
    BY <1>2 DEF Detached, Push, Accepts
  <2>2. \A n \in Monster : r[n] \in {None, controllers[n]}
    BY <1>0, <1>2
  <2>3. Agreed(e, q, controllers) => Agreed(e, q, r)
    BY <2>2 DEF Agreed, Agree
  <2> QED BY <1>2, <2>1, <2>3
<1>3. CASE controllers[m] = s /\ phase \in {"running", "saving", "failed"}
  <2>1. Coalesced(q, c) = q /\ Accepts(q, c)
    BY <1>3, <1>d DEF Coalesced, Accepts
  <2>2. Detached(q, s, m) = Append(q, c)
    BY <1>3, <1>c, <2>1 DEF Detached, Push
  <2>3. PICK x : x = Final(e, q)[m]
    OBVIOUS
  <2>4. x \in Entity /\ Plain(x) /\ Steered(x)
    BY <2>3, FinalPlain DEF Good
  <2>5. Steered(After(x, c)) /\ (Match(s, x) => Match(None, After(x, c)))
    BY <1>d, <2>4, DetachFits
  <2>6. PICK p : p = Append(q, c)
    OBVIOUS
  <2>7. Good(e, p)
    BY <1>d, <2>3, <2>5, <2>6, AppendFits
  <2>8. Final(e, p)[m] = After(x, c) /\ \A n \in Monster : n # m => Final(e, p)[n] = Final(e, q)[n]
    BY <1>d, <2>3, <2>6, FinalAppend
  <2>9. Agreed(e, q, controllers) => Agreed(e, p, r)
    <3>1. ASSUME Agreed(e, q, controllers), NEW n \in Monster PROVE Agree(r[n], Final(e, p)[n])
      <4>1. CASE n = m
        BY <4>1, <1>0, <1>3 DEF Agree
      <4>2. CASE n # m
        BY <4>2, <3>1, <1>0, <2>8 DEF Agreed
      <4> QED BY <4>1, <4>2
    <3> QED BY <3>1 DEF Agreed
  <2>10. Matched(e, q, controllers) => Matched(e, p, r)
    <3>1. ASSUME Matched(e, q, controllers), NEW n \in Monster PROVE Match(r[n], Final(e, p)[n])
      <4>1. CASE n = m
        <5>1. Match(s, x)
          BY <3>1, <1>3, <2>3 DEF Matched
        <5> QED BY <4>1, <5>1, <1>0, <1>3, <2>5, <2>8
      <4>2. CASE n # m
        BY <4>2, <3>1, <1>0, <2>8 DEF Matched
      <4> QED BY <4>1, <4>2
    <3> QED BY <3>1 DEF Matched
  <2> QED BY <1>3, <2>2, <2>6, <2>7, <2>9, <2>10
<1> QED BY <1>1, <1>2, <1>3

\* The controller s of m moves it.
LEMMA InputFitsQueue ==
  ASSUME GatewayConstants, NEW e \in [Monster -> Entity], NEW q \in Seq(Command), Good(e, q),
         NEW s \in Socket, NEW m \in Monster, NEW r, r[m] = s,
         phase # "reset" => Agreed(e, q, r)
  PROVE  LET p == Push(q, Cmd("input", m, s)) IN
         /\ Good(e, p)
         /\ phase \in {"failed", "keeper", "reset", "lost"} => p = q
         /\ Agreed(e, q, r) => Agreed(e, p, r)
         /\ Matched(e, q, r) => Matched(e, p, r)
<1>c. PICK c \in Command : c = Cmd("input", m, s)
  BY CommandType
<1>d. c.type = "input" /\ c.entityId = m /\ c.connectionId = s
  BY <1>c, CommandType
<1>1. CASE ~Accepts(q, c)
  <2>1. Push(q, c) = q
    BY <1>1 DEF Push
  <2> QED BY <1>c, <2>1
<1>2. CASE Accepts(q, c)
  <2>1. phase \in {"running", "saving"}
    BY <1>2, <1>d DEF Accepts
  <2>2. PICK w : w = Coalesced(q, c)
    OBVIOUS
  <2>3. PICK C : C = {d \in Command : d.type = "input" /\ d.entityId = m}
    OBVIOUS
  <2>4. w = q \/ w = Without(q, C)
    BY <1>d, <2>2, <2>3 DEF Coalesced
  <2>5. /\ w \in Seq(Command) /\ Good(e, w)
        /\ \A n \in Monster : SameControl(Final(e, q)[n], Final(e, w)[n])
    <3>1. CASE w = q
      BY <3>1 DEF SameControl
    <3>2. CASE w = Without(q, C)
      BY <3>2, <2>3, InputsDropped, WithoutType
    <3> QED BY <2>4, <3>1, <3>2
  <2>6. PICK x : x = Final(e, w)[m]
    OBVIOUS
  <2>7. x \in Entity /\ Plain(x) /\ Steered(x)
    BY <2>5, <2>6, FinalPlain DEF Good
  <2>8. Agree(s, x)
    <3>1. Agree(s, Final(e, q)[m])
      BY <2>1 DEF Agreed
    <3> QED BY <3>1, <2>5, <2>6, SameFits
  <2>9. SameControl(x, After(x, c)) /\ Steered(After(x, c))
    BY <1>d, <2>7, <2>8, InputFits
  <2>10. PICK p : p = Append(w, c)
    OBVIOUS
  <2>11. Good(e, p)
    BY <1>d, <2>5, <2>6, <2>9, <2>10, AppendFits
  <2>12. Final(e, p)[m] = After(x, c) /\ \A n \in Monster : n # m => Final(e, p)[n] = Final(e, w)[n]
    BY <1>d, <2>5, <2>6, <2>10, FinalAppend
  <2>13. \A n \in Monster : SameControl(Final(e, q)[n], Final(e, p)[n])
    <3> TAKE n \in Monster
    <3>1. CASE n = m
      BY <3>1, <2>5, <2>6, <2>9, <2>12 DEF SameControl
    <3>2. CASE n # m
      BY <3>2, <2>5, <2>12
    <3> QED BY <3>1, <3>2
  <2>14. /\ Agreed(e, q, r) => Agreed(e, p, r)
         /\ Matched(e, q, r) => Matched(e, p, r)
    BY <2>13, SameFits DEF Agreed, Matched
  <2>15. Push(q, c) = p
    BY <1>2, <2>2, <2>10 DEF Push
  <2> QED BY <1>c, <2>1, <2>11, <2>14, <2>15
<1> QED BY <1>1, <1>2
\* A running world with room in its queue takes the spawn and the attach of m.
LEMMA TakenFits ==
  ASSUME GatewayConstants, phase = "running",
         NEW e \in [Monster -> Entity], NEW q \in Seq(Command), Good(e, q),
         NEW r \in [Monster -> SocketOrNone], Agreed(e, q, r),
         NEW s \in Socket, NEW m \in Monster, e[m].body # "dead", Len(q) + 1 < QueueLimit,
         NEW w, w = IF e[m].body = "absent" THEN Push(q, Cmd("spawn", m, s)) ELSE q
  PROVE  LET p == Push(w, Cmd("attach", m, s)) IN
         /\ Good(e, p)
         /\ Agreed(e, p, [r EXCEPT ![m] = s])
         /\ Matched(e, q, r) => Matched(e, p, [r EXCEPT ![m] = s])
<1>b. PICK b \in Command : b = Cmd("spawn", m, s)
  BY CommandType
<1>c. PICK c \in Command : c = Cmd("attach", m, s)
  BY CommandType
<1>d. /\ b.type = "spawn" /\ b.entityId = m
      /\ c.type = "attach" /\ c.entityId = m /\ c.connectionId = s
  BY <1>b, <1>c, CommandType
<1>n. QueueLimit \in Nat /\ Len(q) \in Nat /\ Len(q) < QueueLimit
  BY LenProperties DEF GatewayConstants
<1>1. /\ w \in Seq(Command) /\ Good(e, w) /\ Len(w) < QueueLimit
      /\ \A n \in Monster : n # m => Final(e, w)[n] = Final(e, q)[n]
  <2>1. CASE e[m].body # "absent"
    BY <2>1, <1>n
  <2>2. CASE e[m].body = "absent"
    <3>1. Coalesced(q, b) = q /\ Accepts(q, b)
      BY <1>d, <1>n DEF Coalesced, Accepts
    <3>2. w = Append(q, b)
      BY <2>2, <3>1, <1>b DEF Push
    <3>3. Final(e, q)[m] \in Entity /\ Steered(Final(e, q)[m])
      BY FinalPlain DEF Good
    <3>4. Steered(After(Final(e, q)[m], b))
      BY <1>d, <3>3, SpawnFits
    <3>5. Good(e, w)
      BY <1>d, <3>2, <3>4, AppendFits
    <3>6. Len(w) = Len(q) + 1 /\ w \in Seq(Command)
      BY <3>2
    <3>7. Len(w) < QueueLimit
      <4>1. PICK k \in Nat : k = Len(q)
        BY <1>n
      <4>2. PICK l : l = Len(w)
        OBVIOUS
      <4>3. l = k + 1 /\ k + 1 < QueueLimit
        BY <3>6, <4>1, <4>2
      <4> QED BY <4>2, <4>3
    <3>8. ASSUME NEW n \in Monster, n # m PROVE Final(e, w)[n] = Final(e, q)[n]
      <4>1. PICK v : v = Append(q, b)
        OBVIOUS
      <4>2. Final(e, v)[n] = Final(e, q)[n]
        BY <1>d, <3>8, <4>1, FinalAppend
      <4> QED BY <3>2, <4>1, <4>2
    <3> QED BY <3>5, <3>6, <3>7, <3>8
  <2> QED BY <2>1, <2>2
<1>2. PICK p : p = Append(w, c)
  OBVIOUS
<1>3. Push(w, c) = p
  <2>1. Coalesced(w, c) = w /\ Accepts(w, c)
    BY <1>d, <1>1 DEF Coalesced, Accepts
  <2> QED BY <2>1, <1>2 DEF Push
<1>4. PICK x : x = Final(e, w)[m]
  OBVIOUS
<1>5. x \in Entity /\ Plain(x) /\ Steered(x)
  BY <1>1, <1>4, FinalPlain DEF Good
<1>6. Steered(After(x, c)) /\ Agree(s, After(x, c)) /\ Match(s, After(x, c))
  BY <1>d, <1>5, AttachFits
<1>7. Good(e, p)
  BY <1>d, <1>1, <1>2, <1>4, <1>6, AppendFits
<1>8. /\ Final(e, p)[m] = After(x, c)
      /\ \A n \in Monster : n # m => Final(e, p)[n] = Final(e, q)[n]
  BY <1>d, <1>1, <1>2, <1>4, FinalAppend
<1>9. PICK k : k = [r EXCEPT ![m] = s]
  OBVIOUS
<1>10. k[m] = s /\ \A n \in Monster : n # m => k[n] = r[n]
  BY <1>9
<1>11. Agreed(e, p, k)
  <2>1. ASSUME NEW n \in Monster PROVE Agree(k[n], Final(e, p)[n])
    <3>1. CASE n = m
      BY <3>1, <1>6, <1>8, <1>10
    <3>2. CASE n # m
      BY <3>2, <1>8, <1>10 DEF Agreed
    <3> QED BY <3>1, <3>2
  <2> QED BY <2>1 DEF Agreed
<1>12. ASSUME Matched(e, q, r) PROVE Matched(e, p, k)
  <2>1. ASSUME NEW n \in Monster PROVE Match(k[n], Final(e, p)[n])
    <3>1. CASE n = m
      BY <3>1, <1>6, <1>8, <1>10
    <3>2. CASE n # m
      BY <3>2, <1>8, <1>10, <1>12 DEF Matched
    <3> QED BY <3>1, <3>2
  <2> QED BY <2>1 DEF Matched
<1> QED BY <1>c, <1>3, <1>7, <1>9, <1>11, <1>12

\* The commit of a keeper replaces m and drops what was queued for it.
LEMMA KeeperFits ==
  ASSUME NEW e \in [Monster -> Entity], NEW q \in Seq(Command), Good(e, q),
         NEW m \in Monster, NEW b \in {"absent", "alive", "dead"},
         NEW d, d = [e EXCEPT ![m] = Body(b)],
         NEW C, C = {c \in Command : c.entityId = m}, NEW r
  PROVE  /\ Good(d, Without(q, C))
         /\ Agreed(e, q, r) => Agreed(d, Without(q, C), r)
<1>1. PICK x \in Entity : x = Body(b)
  BY BodyType
<1>2. d \in [Monster -> Entity] /\ d[m] = x /\ \A n \in Monster : n # m => d[n] = e[n]
  BY <1>1
<1>3. PICK p : p = Without(q, C)
  OBVIOUS
<1>4. p \in Seq(Others(q, C)) /\ p \in Seq(Command)
  BY <1>3, WithoutType
<1>5. ASSUME NEW n \in Monster, n # m PROVE Final(d, p)[n] = Final(e, q)[n]
  <2> DEFINE R == {w \in Entity \X Entity : w[1] = w[2]}
  <2>1. KeepRelated(R, q, C, n)
    <3>1. ASSUME NEW i \in 1..Len(q), q[i].entityId = n, NEW y \in Entity, NEW z \in Entity,
                 <<y, z>> \in R
          PROVE  <<After(y, q[i]), IF q[i] \in C THEN z ELSE After(z, q[i])>> \in R
      <4>1. q[i] \in Command /\ q[i] \notin C /\ y = z
        BY <1>5, <3>1, ElementOfSeq
      <4>2. After(y, q[i]) \in Entity
        BY <4>1, AfterType
      <4> QED BY <4>1, <4>2
    <3> HIDE DEF R
    <3> QED BY <3>1 DEF KeepRelated
  <2>2. <<e[n], d[n]>> \in R
    BY <1>2, <1>5
  <2>3. <<Final(e, q)[n], Final(d, p)[n]>> \in R
    <3> HIDE DEF R
    <3> QED BY <1>2, <1>3, <2>1, <2>2, WithoutRelates
  <2> QED BY <2>3
<1>6. Final(d, p)[m] = x
  <2>1. KeepIn({x}, p, m)
    <3>1. ASSUME NEW i \in 1..Len(p), p[i].entityId = m PROVE FALSE
      BY <3>1, <1>4, ElementOfSeq DEF Others
    <3> QED BY <3>1 DEF KeepIn
  <2>2. Final(d, p)[m] \in {x}
    BY <1>2, <1>4, <2>1, FinalIn
  <2> QED BY <2>2
<1>7. Living(d, p)
  <2>1. Living(e, p)
    BY <1>4, SubqueueLiving DEF Good
  <2>2. \A i \in 1..Len(p) : p[i].entityId \in Monster /\ p[i].entityId # m
    BY <1>4, ElementOfSeq DEF Others, Command
  <2> QED BY <1>2, <2>1, <2>2 DEF Living
<1>8. Plain(x) /\ Steered(x) /\ \A c : Agree(c, x)
  BY <1>1, BodyFits
<1>9. ASSUME NEW n \in Monster
      PROVE  /\ Plain(d[n]) /\ Steered(d[n]) /\ Steered(Final(d, p)[n])
             /\ Agreed(e, q, r) => Agree(r[n], Final(d, p)[n])
  <2>1. CASE n = m
    BY <2>1, <1>2, <1>6, <1>8
  <2>2. CASE n # m
    BY <2>2, <1>2, <1>5 DEF Good, Agreed
  <2> QED BY <2>1, <2>2
<1> QED BY <1>3, <1>7, <1>9 DEF Good, Agreed

\* A corpse goes: nothing that is queued for it brings it back.
LEMMA ExpiryFits ==
  ASSUME GatewayConstants, NEW e \in [Monster -> Entity], NEW q \in Seq(Command), Good(e, q),
         NEW m \in Monster, e[m].body = "dead",
         NEW d, d = [e EXCEPT ![m] = Body("absent")], NEW r
  PROVE  /\ Good(d, q)
         /\ Agreed(e, q, r) => Agreed(d, q, r)
         /\ Matched(e, q, r) => Matched(d, q, r)
<1>1. PICK x \in Entity : x = Body("absent")
  BY BodyType
<1>2. d \in [Monster -> Entity] /\ d[m] = x /\ \A n \in Monster : n # m => d[n] = e[n]
  BY <1>1
<1>3. x.body = "absent" /\ x.controllerId = None
  BY <1>1 DEF Body
<1>4. ASSUME NEW n \in Monster, n # m PROVE Final(d, q)[n] = Final(e, q)[n]
  <2>1. d[n] = e[n]
    BY <1>2, <1>4
  <2>2. Alike(d, e, n)
    BY <2>1, <1>2 DEF Alike
  <2> QED BY <2>2, FinalLocal
<1>5. Final(d, q)[m] = x
  <2>1. KeepIn({x}, q, m)
    <3>1. ASSUME NEW i \in 1..Len(q), q[i].entityId = m PROVE After(x, q[i]) = x
      <4>1. PICK c \in Command : c = q[i]
        BY ElementOfSeq
      <4>2. c.type \in {"detach", "input"}
        BY <3>1, <4>1 DEF Good, Living, Command
      <4>3. After(x, c) = x
        BY <1>3, <4>2 DEF After, AfterDetach
      <4> QED BY <4>1, <4>3
    <3> QED BY <3>1 DEF KeepIn
  <2>2. Final(d, q)[m] \in {x}
    BY <1>2, <2>1, FinalIn
  <2> QED BY <2>2
<1>6. Living(d, q)
  <2>1. \A i \in 1..Len(q) : q[i].entityId \in Monster
    <3> TAKE i \in 1..Len(q)
    <3>1. q[i] \in Command
      BY ElementOfSeq
    <3> QED BY <3>1 DEF Command
  <2> QED BY <1>2, <1>3, <2>1 DEF Good, Living
<1>7. Plain(x) /\ Steered(x) /\ \A c : Agree(c, x) /\ Match(c, x)
  BY <1>1, BodyFits
<1>8. ASSUME NEW n \in Monster
      PROVE  /\ Plain(d[n]) /\ Steered(d[n]) /\ Steered(Final(d, q)[n])
             /\ Agreed(e, q, r) => Agree(r[n], Final(d, q)[n])
             /\ Matched(e, q, r) => Match(r[n], Final(d, q)[n])
  <2>1. CASE n = m
    BY <2>1, <1>2, <1>5, <1>7
  <2>2. CASE n # m
    BY <2>2, <1>2, <1>4 DEF Good, Agreed, Matched
  <2> QED BY <2>1, <2>2
<1> QED BY <1>6, <1>8 DEF Good, Agreed, Matched

\* A tick makes the queue's outcome the state of the world.
LEMMA TickFits ==
  ASSUME GatewayConstants, NEW e \in [Monster -> Entity], NEW q \in Seq(Command), Good(e, q),
         NEW f, f = Final(e, q), NEW X, NEW D, \A m \in X : f[m].expiring,
         NEW r, Agreed(e, q, r), NEW m \in Monster, NEW y, y = AfterTick(f, X, D)[m]
  PROVE  /\ Plain(y) /\ Steered(y) /\ Agree(r[m], y)
         /\ Matched(e, q, r) => Match(r[m], y)
<1>1. y = IF m \in D THEN Body("dead") ELSE IF m \in X THEN Body(f[m].body) ELSE f[m]
  BY DEF AfterTick
<1>2. f[m] \in Entity /\ Plain(f[m]) /\ Steered(f[m]) /\ Agree(r[m], f[m])
  BY FinalPlain DEF Good, Agreed
<1>3. Matched(e, q, r) => Match(r[m], f[m])
  BY DEF Matched
<1>4. CASE m \in D
  BY <1>1, <1>4, BodyFits
<1>5. CASE m \notin D /\ m \in X
  <2>1. y = Body(f[m].body) /\ f[m].expiring
    BY <1>1, <1>5
  <2>2. Match(r[m], f[m]) /\ f[m].body = "alive" => r[m] = None
    BY <2>1 DEF Match
  <2> QED BY <1>3, <2>1, <2>2, BodyFits
<1>6. CASE m \notin D /\ m \notin X
  BY <1>1, <1>2, <1>3, <1>6
<1> QED BY <1>4, <1>5, <1>6
--------------------------------------------------------------------------------
(* The invariant: once the queue is applied, the simulation names nobody whom  *)
(* the registry contradicts.                                                   *)

Sound(p, e, q, r) ==
  /\ Good(e, q)
  /\ p \in {"reset", "lost"} => q = <<>>
  /\ p # "reset" => Agreed(e, q, r)

\* Where only resets replace the world, the two say the same.
Matching(p, e, q, r) ==
  /\ p \in {"running", "saving", "failed", "reset"}
  /\ p # "reset" => Matched(e, q, r)

ControlInv == Sound(phase, entity, commands, controllers)
MatchInv   == Matching(phase, entity, commands, controllers)

OnlyResets == Upheavals \subseteq {"reset"}

\* The queue of a running world has room for what one join enqueues: enqueue
\* refuses commands other than a detach when it has not, and they are lost.
QueueHasRoom == phase = "running" => Len(commands) + 2 < QueueLimit

World == GatewayInv /\ RunnerOK /\ ControlInv
Held  == ControlInv' /\ (OnlyResets /\ MatchInv => MatchInv')

LEMMA Holds ==
  ASSUME NEW p, NEW e, NEW q, NEW r,
         phase' = p, entity' = e, commands' = q, controllers' = r,
         Sound(p, e, q, r),
         OnlyResets /\ MatchInv => Matching(p, e, q, r)
  PROVE  Held
BY DEF Held, ControlInv, MatchInv

LEMMA WorldFacts ==
  ASSUME World
  PROVE  /\ entity \in [Monster -> Entity] /\ commands \in Seq(Command)
         /\ controllers \in [Monster -> SocketOrNone]
         /\ session \in [Socket -> Session]
         /\ Good(entity, commands)
         /\ phase \in {"reset", "lost"} => commands = <<>>
         /\ phase # "reset" => Agreed(entity, commands, controllers)
         /\ phase \in {"running", "saving", "failed", "keeper", "reset", "lost"}
BY DEF World, GatewayInv, SessionsOK, RunnerOK, ControlInv, Sound

LEMMA InitControl ==
  ASSUME Init
  PROVE  ControlInv /\ MatchInv
<1>1. PICK e : e = entity
  OBVIOUS
<1>2. PICK r : r = controllers
  OBVIOUS
<1>3. \A m \in Monster : e[m] = Body("absent") /\ r[m] = None
  BY <1>1, <1>2 DEF Init
<1>4. \A m \in Monster : Plain(e[m]) /\ Steered(e[m]) /\ Agree(r[m], e[m]) /\ Match(r[m], e[m])
  BY <1>3, BodyFits
<1>5. Good(e, <<>>) /\ Final(e, <<>>) = e
  BY <1>4, EmptyFits
<1>6. Agreed(e, <<>>, r) /\ Matched(e, <<>>, r)
  BY <1>4, <1>5 DEF Agreed, Matched
<1>7. phase = "running" /\ commands = <<>>
  BY DEF Init
<1> QED BY <1>1, <1>2, <1>5, <1>6, <1>7 DEF ControlInv, MatchInv, Sound, Matching

\* What leaves control alone.
LEMMA QuietControl ==
  ASSUME World, UNCHANGED <<phase, entity, commands, controllers>>
  PROVE  Held
BY DEF Held, World, ControlInv, MatchInv

LEMMA GiveUpControl ==
  ASSUME GatewayConstants, World, NEW s \in Socket, NEW m \in Monster,
         commands' = Detached(commands, s, m), controllers' = Released(s, m),
         UNCHANGED <<phase, entity>>
  PROVE  Held
<1>p. PICK p : p = phase
  OBVIOUS
<1>e. PICK e : e = entity
  OBVIOUS
<1>q. PICK q : q = Detached(commands, s, m)
  OBVIOUS
<1>r. PICK r : r = Released(s, m)
  OBVIOUS
<1>1. Good(e, q)
  BY <1>e, <1>q, <1>r, WorldFacts, DetachedFits
<1>2. p \in {"reset", "lost"} => q = <<>>
  BY <1>p, <1>q, <1>r, WorldFacts, DetachedFits
<1>3. p # "reset" => Agreed(e, q, r)
  BY <1>p, <1>e, <1>q, <1>r, WorldFacts, DetachedFits
<1>4. MatchInv => Matching(p, e, q, r)
  BY <1>p, <1>e, <1>q, <1>r, WorldFacts, DetachedFits DEF MatchInv, Matching
<1> QED BY <1>p, <1>e, <1>q, <1>r, <1>1, <1>2, <1>3, <1>4, Holds DEF Sound

LEMMA InputControl ==
  ASSUME GatewayConstants, World, NEW s \in Socket, OnInput(s)
  PROVE  Held
<1>m. PICK m \in Monster : m = session[s].entityId
  BY WorldFacts DEF OnInput, Session, MonsterOrNone
<1>p. PICK p : p = phase
  OBVIOUS
<1>e. PICK e : e = entity
  OBVIOUS
<1>q. PICK q : q = Push(commands, Cmd("input", m, s))
  OBVIOUS
<1>r. PICK r : r = controllers
  OBVIOUS
<1>1. r[m] = s
  BY <1>m, <1>r DEF OnInput, World, GatewayInv, OneController
<1>2. /\ Good(e, q)
      /\ p \in {"failed", "keeper", "reset", "lost"} => q = commands
      /\ Agreed(e, commands, r) => Agreed(e, q, r)
      /\ Matched(e, commands, r) => Matched(e, q, r)
  BY <1>1, <1>p, <1>e, <1>q, <1>r, WorldFacts, InputFitsQueue
<1>3. Sound(p, e, q, r)
  BY <1>2, <1>p, <1>e, <1>r, WorldFacts DEF Sound
<1>4. MatchInv => Matching(p, e, q, r)
  BY <1>2, <1>p, <1>e, <1>r DEF MatchInv, Matching
<1>5. phase' = p /\ entity' = e /\ commands' = q /\ controllers' = r
  BY <1>m, <1>p, <1>e, <1>q, <1>r DEF OnInput, gateway
<1> QED BY <1>3, <1>4, <1>5, Holds
LEMMA ClientControl ==
  ASSUME GatewayConstants, World, NEW s \in Socket, Client(s)
  PROVE  Held
<1>1. session[s].entityId # None => session[s].entityId \in Monster
  BY WorldFacts DEF Session, MonsterOrNone
<1>2. CASE HandleConnection(s)
  BY <1>2, QuietControl DEF HandleConnection, runner
<1>3. CASE HandleDisconnect(s)
  <2>1. CASE session[s].entityId = None
    BY <1>3, <2>1, QuietControl DEF HandleDisconnect
  <2>2. CASE session[s].entityId # None
    BY <1>1, <1>3, <2>2, GiveUpControl DEF HandleDisconnect
  <2> QED BY <2>1, <2>2
<1>4. CASE OnLeave(s)
  <2>1. CASE session[s].entityId = None
    BY <1>4, <2>1, QuietControl DEF OnLeave
  <2>2. CASE session[s].entityId # None
    BY <1>1, <1>4, <2>2, GiveUpControl DEF OnLeave
  <2> QED BY <2>1, <2>2
<1>5. CASE OnInput(s)
  BY <1>5, InputControl
<1>6. CASE \E m \in MonsterOrNone : OnJoin(s, m)
  BY <1>6, QuietControl DEF OnJoin, runner
<1> QED BY <1>2, <1>3, <1>4, <1>5, <1>6 DEF Client

LEMMA ObserveControl ==
  ASSUME GatewayConstants, World, NEW j \in joins, JoinObserves(j)
  PROVE  Held
<1>s. PICK s \in Socket : s = j.socket
  BY JoinGranted DEF JoinObserves, World
<1>1. /\ commands' = QueueWithout(s, None) /\ controllers' = RegistryWithout(s, None)
      /\ UNCHANGED <<phase, entity>>
  BY <1>s DEF JoinObserves
<1>2. CASE session[s].entityId = None
  <2>1. UNCHANGED <<commands, controllers>>
    BY <1>1, <1>2 DEF QueueWithout, RegistryWithout, LeftBehind
  <2> QED BY <1>1, <2>1, QuietControl
<1>3. CASE session[s].entityId # None
  <2>1. PICK m \in Monster : m = session[s].entityId
    BY <1>3, WorldFacts DEF Session, MonsterOrNone
  <2>2. commands' = Detached(commands, s, m) /\ controllers' = Released(s, m)
    BY <1>1, <1>3, <2>1 DEF QueueWithout, RegistryWithout, LeftBehind
  <2> QED BY <1>1, <2>2, GiveUpControl
<1> QED BY <1>2, <1>3

\* What s leaves behind when it joins m in a running world.
LEMMA LeavesBehind ==
  ASSUME GatewayConstants, World, QueueHasRoom, phase = "running",
         NEW s \in Socket, NEW m \in Monster,
         NEW e, e = entity, NEW q, q = QueueWithout(s, m), NEW r, r = RegistryWithout(s, m)
  PROVE  /\ q \in Seq(Command) /\ r \in [Monster -> SocketOrNone]
         /\ Good(e, q) /\ Agreed(e, q, r) /\ (MatchInv => Matched(e, q, r))
         /\ Len(q) + 1 < QueueLimit
<1>0. q \in Seq(Command) /\ r \in [Monster -> SocketOrNone]
  BY WorldFacts, QueueWithoutType, WithoutOther DEF World
<1>1. Len(commands) + 2 < QueueLimit /\ QueueLimit \in Nat
  BY DEF QueueHasRoom, GatewayConstants
<1>2. CASE ~LeftBehind(s, m)
  <2>1. q = commands /\ r = controllers
    BY <1>2 DEF QueueWithout, RegistryWithout
  <2>2. PICK n \in Nat : n = Len(commands)
    BY WorldFacts, LenProperties
  <2>3. Len(q) + 1 < QueueLimit
    BY <1>1, <2>1, <2>2
  <2>4. Good(e, commands) /\ Agreed(e, commands, controllers)
    BY WorldFacts
  <2>5. MatchInv => Matched(e, commands, controllers)
    BY DEF MatchInv, Matching
  <2> QED BY <1>0, <2>1, <2>3, <2>4, <2>5
<1>3. CASE LeftBehind(s, m)
  <2>1. PICK n \in Monster : n = session[s].entityId
    BY <1>3, WorldFacts DEF LeftBehind, Session, MonsterOrNone
  <2>2. q = Detached(commands, s, n) /\ r = Released(s, n)
    BY <1>3, <2>1 DEF QueueWithout, RegistryWithout
  <2>3. PICK c \in Command : c = Cmd("detach", n, s)
    BY CommandType
  <2>4. PICK p \in Seq(Command) : p = commands
    BY WorldFacts
  <2>5. q = p \/ q = Append(p, c)
    <3>1. Coalesced(p, c) = p
      BY DEF Coalesced
    <3> QED BY <2>2, <2>3, <2>4, <3>1 DEF Detached, Push
  <2>6. Len(q) + 1 < QueueLimit
    <3>1. PICK k \in Nat : k = Len(p)
      BY LenProperties
    <3>2. k + 2 < QueueLimit
      BY <1>1, <2>4, <3>1
    <3>3. PICK l \in Nat : l = Len(q)
      BY <1>0, LenProperties
    <3>4. l = k \/ l = k + 1
      BY <2>5, <3>1, <3>3
    <3> QED BY <1>1, <3>2, <3>3, <3>4
  <2>7. Good(e, q)
    BY <2>2, WorldFacts, DetachedFits
  <2>8. Agreed(e, q, r)
    BY <2>2, WorldFacts, DetachedFits
  <2>9. MatchInv => Matched(e, q, r)
    BY <2>2, WorldFacts, DetachedFits DEF MatchInv, Matching
  <2> QED BY <1>0, <2>6, <2>7, <2>8, <2>9
<1> QED BY <1>2, <1>3

LEMMA TakeControl ==
  ASSUME GatewayConstants, World, QueueHasRoom, NEW j \in joins, JoinControls(j)
  PROVE  Held
<1>s. PICK s \in Socket : s = j.socket
  BY JoinGranted DEF JoinControls, World
<1>m. PICK m \in Monster : m = Target(j)
  BY JoinGranted DEF JoinControls, MonsterOrNone, World
<1>e. PICK e \in [Monster -> Entity] : e = entity
  BY WorldFacts
<1>q. PICK q : q = QueueWithout(s, m)
  OBVIOUS
<1>r. PICK r : r = RegistryWithout(s, m)
  OBVIOUS
<1>w. PICK w : w = IF e[m].body = "absent" THEN Push(q, Cmd("spawn", m, s)) ELSE q
  OBVIOUS
<1>p. PICK p : p = Push(w, Cmd("attach", m, s))
  OBVIOUS
<1>k. PICK k : k = [r EXCEPT ![m] = s]
  OBVIOUS
<1>1. phase = "running"
  BY DEF JoinControls, Joins, Unavailable
<1>2. e[m].body # "dead"
  BY <1>m, <1>e DEF Target, GatewayConstants
<1>3. /\ q \in Seq(Command) /\ r \in [Monster -> SocketOrNone]
      /\ Good(e, q) /\ Agreed(e, q, r) /\ (MatchInv => Matched(e, q, r))
      /\ Len(q) + 1 < QueueLimit
  BY <1>1, <1>e, <1>q, <1>r, LeavesBehind
<1>4. Good(e, p) /\ Agreed(e, p, k) /\ (Matched(e, q, r) => Matched(e, p, k))
  BY <1>1, <1>2, <1>3, <1>w, <1>p, <1>k, TakenFits
<1>5. phase' = "running" /\ entity' = e /\ commands' = p /\ controllers' = k
  BY <1>1, <1>s, <1>m, <1>e, <1>q, <1>r, <1>w, <1>p, <1>k DEF JoinControls
<1>6. Sound("running", e, p, k) /\ (MatchInv => Matching("running", e, p, k))
  BY <1>3, <1>4 DEF Sound, Matching
<1> QED BY <1>5, <1>6, Holds

LEMMA JoinControl ==
  ASSUME GatewayConstants, World, QueueHasRoom, NEW j \in joins, JoinStep(j)
  PROVE  Held
<1>1. CASE \/ JoinLooksUp(j) \/ JoinReads(j) \/ JoinHeld(j) \/ JoinDropped(j) \/ JoinEnds(j)
  BY <1>1, QuietControl DEF JoinLooksUp, JoinReads, JoinHeld, JoinDropped, JoinEnds, runner
<1>2. CASE JoinObserves(j)
  BY <1>2, ObserveControl
<1>3. CASE JoinControls(j)
  BY <1>3, TakeControl
<1> QED BY <1>1, <1>2, <1>3 DEF JoinStep
LEMMA TickControl ==
  ASSUME GatewayConstants, World, NEW X, NEW D, Tick(X, D)
  PROVE  Held
<1>q. PICK q \in Seq(Command) : q = commands
  BY WorldFacts
<1>d. PICK d \in [Monster -> Entity] : d = entity
  BY WorldFacts
<1>f. PICK f : f = Final(d, q)
  OBVIOUS
<1>e. PICK e : e = AfterTick(f, X, D)
  OBVIOUS
<1>r. PICK r : r = controllers
  OBVIOUS
<1>p. PICK p \in {"running", "saving"} : p = phase'
  BY TickMoves
<1>1. /\ phase = "running" /\ commands' = <<>> /\ entity' = e /\ controllers' = r
      /\ \A m \in X : f[m].expiring
  BY <1>q, <1>d, <1>f, <1>e, <1>r, TickMoves DEF gateway
<1>2. Good(d, q) /\ Agreed(d, q, r)
  BY <1>1, <1>q, <1>d, <1>r, WorldFacts
<1>3. ASSUME NEW m \in Monster
      PROVE  /\ Plain(e[m]) /\ Steered(e[m]) /\ Agree(r[m], e[m])
             /\ Matched(d, q, r) => Match(r[m], e[m])
  <2>1. PICK y : y = AfterTick(f, X, D)[m]
    OBVIOUS
  <2>2. /\ Plain(y) /\ Steered(y) /\ Agree(r[m], y)
        /\ Matched(d, q, r) => Match(r[m], y)
    BY <1>1, <1>2, <1>f, <2>1, TickFits
  <2> QED BY <2>1, <2>2, <1>e
<1>4. Good(e, <<>>) /\ Final(e, <<>>) = e
  BY <1>3, EmptyFits
<1>5. Agreed(e, <<>>, r) /\ (Matched(d, q, r) => Matched(e, <<>>, r))
  BY <1>3, <1>4 DEF Agreed, Matched
<1>6. Sound(p, e, <<>>, r)
  BY <1>4, <1>5 DEF Sound
<1>7. MatchInv => Matching(p, e, <<>>, r)
  BY <1>1, <1>5, <1>q, <1>d, <1>r DEF MatchInv, Matching
<1> QED BY <1>1, <1>p, <1>6, <1>7, Holds

\* Only the reason of a pause changes.
LEMMA PhaseControl ==
  ASSUME World, UNCHANGED <<entity, commands, controllers>>,
         phase \notin {"reset", "lost"}, phase' \notin {"reset", "lost"},
         OnlyResets /\ phase \in {"running", "saving", "failed"}
           => phase' \in {"running", "saving", "failed"}
  PROVE  Held
<1>p. PICK p : p = phase'
  OBVIOUS
<1>e. PICK e : e = entity
  OBVIOUS
<1>q. PICK q : q = commands
  OBVIOUS
<1>r. PICK r : r = controllers
  OBVIOUS
<1>1. Sound(p, e, q, r)
  BY <1>p, <1>e, <1>q, <1>r, WorldFacts DEF Sound
<1>2. OnlyResets /\ MatchInv => Matching(p, e, q, r)
  BY <1>p, <1>e, <1>q, <1>r DEF MatchInv, Matching
<1>3. phase' = p /\ entity' = e /\ commands' = q /\ controllers' = r
  BY <1>p, <1>e, <1>q, <1>r
<1> QED BY <1>1, <1>2, <1>3, Holds

LEMMA ExpiryControl ==
  ASSUME GatewayConstants, World, NEW m \in Monster, BodyExpires(m)
  PROVE  Held
<1>d. PICK d \in [Monster -> Entity] : d = entity
  BY WorldFacts
<1>e. PICK e : e = [d EXCEPT ![m] = Body("absent")]
  OBVIOUS
<1>q. PICK q \in Seq(Command) : q = commands
  BY WorldFacts
<1>r. PICK r : r = controllers
  OBVIOUS
<1>1. /\ phase = "running" /\ phase' = "running" /\ d[m].body = "dead"
      /\ entity' = e /\ commands' = q /\ controllers' = r
  BY <1>d, <1>e, <1>q, <1>r DEF BodyExpires, gateway
<1>2. Good(d, q) /\ Agreed(d, q, r)
  BY <1>1, <1>d, <1>q, <1>r, WorldFacts
<1>3. /\ Good(e, q) /\ Agreed(e, q, r)
      /\ Matched(d, q, r) => Matched(e, q, r)
  BY <1>1, <1>2, <1>e, ExpiryFits
<1>4. Sound("running", e, q, r)
  BY <1>3 DEF Sound
<1>5. MatchInv => Matching("running", e, q, r)
  BY <1>1, <1>3, <1>d, <1>q, <1>r DEF MatchInv, Matching
<1> QED BY <1>1, <1>4, <1>5, Holds

LEMMA KeeperControl ==
  ASSUME World, NEW m \in Monster, NEW b \in {"absent", "alive", "dead"},
         KeeperCommits(m, b)
  PROVE  Held
<1>d. PICK d \in [Monster -> Entity] : d = entity
  BY WorldFacts
<1>e. PICK e : e = [d EXCEPT ![m] = Body(b)]
  OBVIOUS
<1>q. PICK q \in Seq(Command) : q = commands
  BY WorldFacts
<1>c. PICK C : C = {c \in Command : c.entityId = m}
  OBVIOUS
<1>p. PICK p : p = Without(q, C)
  OBVIOUS
<1>r. PICK r : r = controllers
  OBVIOUS
<1>1. /\ phase = "keeper" /\ phase' = "running"
      /\ entity' = e /\ commands' = p /\ controllers' = r
  BY <1>d, <1>e, <1>q, <1>c, <1>p, <1>r DEF KeeperCommits, gateway
<1>2. Good(d, q) /\ Agreed(d, q, r)
  BY <1>1, <1>d, <1>q, <1>r, WorldFacts
<1>3. Good(e, p) /\ Agreed(e, p, r)
  BY <1>2, <1>e, <1>c, <1>p, KeeperFits
<1>4. Sound("running", e, p, r) /\ ~MatchInv
  BY <1>1, <1>3 DEF Sound, MatchInv, Matching
<1> QED BY <1>1, <1>4, Holds

\* The world is replaced by one without controllers.
LEMMA ReplacedControl ==
  ASSUME World, NEW e, entity' = e, commands' = <<>>,
         \A m \in Monster : e[m] = Body(e[m].body),
         NEW r, controllers' = r, phase' \in {"running", "lost"},
         OnlyResets /\ MatchInv
           => /\ phase' = "running"
              /\ \A m \in Monster : r[m] = None \/ e[m].body # "alive"
  PROVE  Held
<1>p. PICK p : p = phase'
  OBVIOUS
<1>1. ASSUME NEW m \in Monster
      PROVE  /\ Plain(e[m]) /\ Steered(e[m]) /\ Agree(r[m], e[m])
             /\ OnlyResets /\ MatchInv => Match(r[m], e[m])
  <2>1. PICK b : b = e[m].body
    OBVIOUS
  <2>2. e[m] = Body(b)
    BY <2>1
  <2> QED BY <2>1, <2>2, BodyFits
<1>2. Good(e, <<>>) /\ Final(e, <<>>) = e
  BY <1>1, EmptyFits
<1>3. Sound(p, e, <<>>, r)
  BY <1>1, <1>2 DEF Sound, Agreed
<1>4. OnlyResets /\ MatchInv => Matching(p, e, <<>>, r)
  BY <1>p, <1>1, <1>2 DEF Matching, Matched
<1> QED BY <1>p, <1>3, <1>4, Holds
LEMMA ResetControl ==
  ASSUME World, ResetWorld
  PROVE  Held
<1>e. PICK e : e = entity
  OBVIOUS
<1>r. PICK r : r = controllers
  OBVIOUS
<1>1. phase' = "reset" /\ entity' = e /\ commands' = <<>> /\ controllers' = r
  BY <1>e, <1>r DEF ResetWorld, gateway
<1>2. \A m \in Monster : Plain(e[m]) /\ Steered(e[m])
  BY <1>e, WorldFacts DEF Good
<1>3. Good(e, <<>>)
  BY <1>2, EmptyFits
<1>4. Sound("reset", e, <<>>, r) /\ Matching("reset", e, <<>>, r)
  BY <1>3 DEF Sound, Matching
<1> QED BY <1>1, <1>4, Holds

LEMMA ReplaceControl ==
  ASSUME GatewayConstants, World, Replace
  PROVE  Held
<1>e. PICK e : e = entity'
  OBVIOUS
<1>r. PICK r : r = controllers'
  OBVIOUS
<1>0. /\ phase \in {"reset", "lost"} => commands = <<>>
      /\ OnlyResets => "reload" \notin Upheavals /\ "lock" \notin Upheavals
      /\ MatchInv => phase # "lost"
  BY WorldFacts DEF OnlyResets, MatchInv, Matching
<1>b. Body("absent").body = "absent" /\ "absent" # "alive"
  BY BodyType
<1>1. CASE ResetWorld
  BY <1>1, ResetControl
<1>2. CASE ResetSaved
  <2>1. e = [m \in Monster |-> Body("absent")] /\ r = [m \in Monster |-> None]
    BY <1>2, <1>e, <1>r DEF ResetSaved, Renew
  <2>2. commands' = <<>> /\ phase' = "running"
    BY <1>0, <1>2 DEF ResetSaved
  <2>3. \A m \in Monster : e[m] = Body(e[m].body) /\ r[m] = None
    BY <1>b, <2>1
  <2> QED BY <1>e, <1>r, <2>2, <2>3, ReplacedControl
<1>3. CASE LoadResets
  <2>1. e = [m \in Monster |-> Body("absent")]
    BY <1>3, <1>e DEF LoadResets, Renew
  <2>2. commands' = <<>> /\ phase' = "running" /\ ~MatchInv
    BY <1>0, <1>3 DEF LoadResets
  <2>3. \A m \in Monster : e[m] = Body(e[m].body)
    BY <1>b, <2>1
  <2> QED BY <1>e, <1>r, <2>2, <2>3, ReplacedControl
<1>4. CASE \E D \in SUBSET Monster : ResetFails(D) \/ Reloads(D)
  <2>1. PICK D : ResetFails(D) \/ Reloads(D)
    BY <1>4
  <2>2. Restore(D) /\ commands' = <<>> /\ phase' = "running" /\ (OnlyResets => ~MatchInv)
    BY <1>0, <2>1 DEF ResetFails, Reloads
  <2>3. \A m \in Monster : e[m] = Body(e[m].body)
    BY <1>e, <2>2, RestoreTyped DEF World
  <2> QED BY <1>e, <1>r, <2>2, <2>3, ReplacedControl
<1>5. CASE \E landed \in BOOLEAN : LockLost(landed)
  <2>1. PICK landed \in BOOLEAN : LockLost(landed)
    BY <1>5
  <2>2. e = [m \in Monster |-> Body("absent")] /\ commands' = <<>> /\ phase' = "lost" /\ ~OnlyResets
    BY <1>0, <1>e, <2>1 DEF LockLost, Upheaval
  <2>3. \A m \in Monster : e[m] = Body(e[m].body)
    BY <1>b, <2>2
  <2> QED BY <1>e, <1>r, <2>2, <2>3, ReplacedControl
<1> QED BY <1>1, <1>2, <1>3, <1>4, <1>5 DEF Replace

LEMMA KeepersControl ==
  ASSUME World, Keeper
  PROVE  Held
<1>1. CASE KeeperPauses
  <2>1. ~OnlyResets
    BY <1>1 DEF KeeperPauses, Upheaval, OnlyResets
  <2> QED BY <1>1, <2>1, PhaseControl DEF KeeperPauses, gateway
<1>2. CASE KeeperEnds
  BY <1>2, PhaseControl DEF KeeperEnds, gateway
<1>3. CASE \E m \in Monster : KillMonster(m) \/ SpawnMonster(m)
  BY <1>3, KeeperControl DEF KillMonster, SpawnMonster
<1> QED BY <1>1, <1>2, <1>3 DEF Keeper

LEMMA HeldAlways ==
  ASSUME GatewayConstants, World, QueueHasRoom, [Next]_vars
  PROVE  Held
<1>1. CASE \E s \in Socket : Client(s)
  BY <1>1, ClientControl
<1>2. CASE \E j \in joins : JoinStep(j)
  BY <1>2, JoinControl
<1>3. CASE Ticks
  BY <1>3, TickControl DEF Ticks
<1>4. CASE SaveCommits
  BY <1>4, PhaseControl DEF SaveCommits, gateway
<1>5. CASE SaveFails
  BY <1>5, PhaseControl DEF SaveFails, gateway
<1>6. CASE \E m \in Monster : BodyExpires(m)
  BY <1>6, ExpiryControl
<1>7. CASE Keeper
  BY <1>7, KeepersControl
<1>8. CASE Replace
  BY <1>8, ReplaceControl
<1>9. CASE UNCHANGED vars
  BY <1>9, QuietControl DEF vars, gateway, runner
<1> QED BY <1>1, <1>2, <1>3, <1>4, <1>5, <1>6, <1>7, <1>8, <1>9 DEF Next

LEMMA ControlAlways == Spec /\ []QueueHasRoom => []World
<1>1. Init => ControlInv
  BY InitControl
<1>2. World /\ QueueHasRoom /\ [Next]_vars => ControlInv'
  BY HeldAlways, GatewayConstants DEF Held
<1>3. World <=> GatewayInv /\ RunnerOK /\ ControlInv
  BY DEF World
<1> QED BY <1>1, <1>2, <1>3, Invariance, Typing, PTL DEF Spec

LEMMA MatchAlways ==
  ASSUME OnlyResets
  PROVE  Spec /\ []QueueHasRoom => []MatchInv
<1>1. Init => MatchInv
  BY InitControl
<1>2. World /\ MatchInv /\ QueueHasRoom /\ [Next]_vars => MatchInv'
  BY HeldAlways, GatewayConstants DEF Held
<1> QED BY <1>1, <1>2, ControlAlways, PTL DEF Spec

--------------------------------------------------------------------------------
\* Sessions, calls, the queue, the entities and the rows keep their types,
\* whatever is dropped from the queue and however the commands fold.
THEOREM GatewayTypeCorrect == Spec => []TypeOK
<1>1. GatewayInv /\ RunnerOK => TypeOK
  BY DEF GatewayInv, TypeOK
<1> QED BY <1>1, Invariance, Typing, PTL

\* An input that is queued behind a takeover is dropped or belongs to the new
\* controller, and every attach and detach clears the input that was applied:
\* nobody moves a monster that someone else controls.
THEOREM MovedOnlyByController == Spec /\ []QueueHasRoom => []MovedByController
<1>1. World => MovedByController
  BY WorldFacts DEF Good, Steered, MovedByController
<1> QED BY <1>1, ControlAlways, PTL

\* Takeovers and departures reach the simulation in the order of the registry,
\* so that once the queue is applied nobody but the registered socket is left in
\* control, whatever a keeper, a failed save, a reset or a lost lock does.
THEOREM NoRivalEver == Spec /\ []QueueHasRoom => []NoRival
<1>1. World => NoRival
  <2>1. ASSUME World, phase = "running", commands = <<>>, NEW m \in Monster
        PROVE  Agree(controllers[m], entity[m])
    <3>1. Agreed(entity, <<>>, controllers)
      BY <2>1, WorldFacts
    <3>2. PICK e : e = entity
      OBVIOUS
    <3>3. Final(e, <<>>) = e
      BY FinalEmpty
    <3> QED BY <3>1, <3>2, <3>3 DEF Agreed
  <2> QED BY <2>1 DEF NoRival, Agree
<1> QED BY <1>1, ControlAlways, PTL

\* Where nothing but a successful reset replaces the world, nothing that the
\* gateway enqueues is lost: a living monster is in the hands of the socket that
\* the registry names, and free exactly when the registry has none.
THEOREM RegistryAlwaysMatches ==
  ASSUME OnlyResets
  PROVE  Spec /\ []QueueHasRoom => []RegistryMatchesWorld
<1>1. MatchInv => RegistryMatchesWorld
  <2>1. ASSUME MatchInv, phase = "running", commands = <<>>, NEW m \in Monster
        PROVE  Match(controllers[m], entity[m])
    <3>1. Matched(entity, <<>>, controllers)
      BY <2>1 DEF MatchInv, Matching
    <3>2. PICK e : e = entity
      OBVIOUS
    <3>3. Final(e, <<>>) = e
      BY FinalEmpty
    <3> QED BY <3>1, <3>2, <3>3 DEF Matched
  <2> QED BY <2>1 DEF RegistryMatchesWorld, Match
<1> QED BY <1>1, MatchAlways, PTL
================================================================================
