----------------------------- MODULE AgentToolsProofs -----------------------------
(* Proofs about AgentTools: what it keeps, that one call writes at a time, that *)
(* only a motion under way steers, that a deed is sent for the creature the     *)
(* call began with, and that a run that is over stays over.                     *)
EXTENDS AgentTools, TLAPS, FiniteSetTheorems

At == {"new", "fetch", "land", "approach", "motion", "deed", "rest", "settled"}

CallState == [at : At, answered : BOOLEAN, registration : 0..MaxRegistrations,
              creature : Monster \cup {None}, entity : Monster \cup {None},
              commandId : Nat]

\* What the page shows and holds.
PageOK ==
  /\ connected \in BOOLEAN /\ paused \in BOOLEAN /\ keys \in BOOLEAN
  /\ made \subseteq Monster
  /\ self \in Self \cup {Nobody}

\* The run of the agent; a call that waits with a creature, and buttons that are drawn,
\* come after its start.
ArenaInv ==
  /\ offered \in BOOLEAN
  /\ \/ arena = [status |-> "idle", root |-> None]
     \/ arena \in [status : {"active", "paused", "dead", "ended"}, root : Monster]
  /\ arena.status = "idle" =>
       ~offered /\ \A c \in Call : call[c].at \in {"new", "fetch", "settled"}

\* The registrations, and who holds a slot: a call that runs was made over the current
\* registration, holds its slot and is not answered.
SlotInv ==
  /\ registered \in 0..MaxRegistrations /\ registrations \in 0..MaxRegistrations
  /\ busy \in [1..MaxRegistrations -> BOOLEAN]
  /\ call \in [Call -> CallState]
  /\ OneWriter
  /\ \A c \in Call : Running(c) =>
       /\ registered # 0 /\ call[c].registration = registered /\ busy[registered] = TRUE
       /\ call[c].entity = call[c].creature

\* The calls that have had a command, if they had any.
Spent == {c \in Call : call[c].at \notin {"new", "land"}}

\* Commands are counted: none is given twice.
CommandInv ==
  /\ agent \in [enabled : BOOLEAN, commandId : Nat]
  /\ agent.commandId <= Cardinality(Spent)
  /\ \A c \in Call : call[c].commandId <= agent.commandId
  /\ SteeredByAMotion

SentOK == sent \in [Call -> Monster \cup {None}]

ToolsInv == PageOK /\ ArenaInv /\ SlotInv /\ CommandInv /\ SentOK

-----------------------------------------------------------------------------------
(* The calls that have had a command, counted.                                     *)

LEMMA SpentIsFinite ==
  ASSUME AgentToolsConstants
  PROVE  /\ IsFiniteSet(Spent) /\ Cardinality(Spent) \in Nat
         /\ IsFiniteSet(Call) /\ Cardinality(Call) \in Nat
         /\ Cardinality(Spent) <= Cardinality(Call)
<1>1. Spent \in SUBSET Call
  BY DEF Spent
<1> QED
  BY <1>1, FS_Subset, FS_CardinalityType DEF AgentToolsConstants

\* A call that is counted stays counted.
LEMMA SpentGrows ==
  ASSUME AgentToolsConstants, Spent \subseteq Spent'
  PROVE  /\ Cardinality(Spent) <= Cardinality(Spent)'
         /\ Cardinality(Spent)' \in Nat
<1> DEFINE S == Spent'
<1>1. S \in SUBSET Call
  BY DEF Spent
<1>2. IsFiniteSet(S) /\ Cardinality(S) \in Nat
  BY <1>1, FS_Subset, FS_CardinalityType DEF AgentToolsConstants
<1>3. Spent \in SUBSET S
  OBVIOUS
<1> HIDE DEF S
<1>4. Cardinality(Spent) <= Cardinality(S)
  BY <1>2, <1>3, FS_Subset
<1> QED
  BY <1>2, <1>4 DEF S

\* The call that gets its command is counted from then on.
LEMMA SpentByCommand ==
  ASSUME AgentToolsConstants, Spent \subseteq Spent', NEW c \in Spent', c \notin Spent
  PROVE  /\ Cardinality(Spent) + 1 <= Cardinality(Spent)'
         /\ Cardinality(Spent)' \in Nat
<1> DEFINE S == Spent'
           R == Spent \cup {c}
<1>1. S \in SUBSET Call
  BY DEF Spent
<1>2. IsFiniteSet(S) /\ Cardinality(S) \in Nat
  BY <1>1, FS_Subset, FS_CardinalityType DEF AgentToolsConstants
<1>3. R \in SUBSET S
  OBVIOUS
<1>4. Cardinality(R) = Cardinality(Spent) + 1
  BY SpentIsFinite, FS_AddElement
<1> HIDE DEF S, R
<1>5. Cardinality(R) <= Cardinality(S)
  BY <1>2, <1>3, FS_Subset
<1> QED
  BY <1>2, <1>4, <1>5 DEF S

-----------------------------------------------------------------------------------
(* What the tools do to the calls.                                                 *)

LEMMA HaltedAgent ==
  ASSUME agent \in [enabled : BOOLEAN, commandId : Nat], NEW cs \in SUBSET Call
  PROVE  /\ Halted(cs) \in [enabled : BOOLEAN, commandId : Nat]
         /\ Halted(cs).commandId = agent.commandId
         /\ Halted(cs).enabled =>
              /\ agent.enabled
              /\ \A c \in cs : ~(/\ call[c].at \in {"approach", "motion"}
                                 /\ call[c].commandId = agent.commandId)
BY DEF Halted

LEMMA SettledState ==
  ASSUME NEW m \in Monster \cup {None}, AgentToolsConstants
  PROVE  /\ Settled(m) \in CallState
         /\ Settled(m).at = "settled" /\ Settled(m).commandId = 0
BY DEF Settled, CallState, At, AgentToolsConstants

\* A set of running calls ends; the tools stay registered, or all that runs ends.
LEMMA StopStep ==
  ASSUME AgentToolsConstants, SlotInv, CommandInv, SentOK,
         NEW cs \in SUBSET {c \in Call : Running(c)}, Stop(cs), UNCHANGED registrations,
         \/ registered' = registered
         \/ registered' = 0 /\ \A c \in Call : Running(c) => c \in cs
  PROVE  /\ SlotInv' /\ CommandInv' /\ SentOK'
         /\ \A c \in Call : call'[c].at \in {call[c].at, "settled"}
<1> DEFINE over == Settled(None)
<1>1. over \in CallState /\ over.at = "settled" /\ over.commandId = 0
  BY SettledState
<1>2. call' = [c \in Call |-> IF c \in cs THEN over ELSE call[c]]
  BY DEF Stop
<1> HIDE DEF over
<1>3. \A c \in Call : call'[c] = IF c \in cs THEN over ELSE call[c]
  BY <1>2
<1>4. call' \in [Call -> CallState]
  BY <1>1, <1>2 DEF SlotInv
<1>5. \A c \in Call : Running(c)' => c \notin cs /\ Running(c) /\ call'[c] = call[c]
  BY <1>1, <1>3 DEF Running
<1>6. SlotInv'
  <2>1. registered' \in 0..MaxRegistrations /\ registrations' \in 0..MaxRegistrations
    BY DEF SlotInv, AgentToolsConstants
  <2>2. busy' = [r \in 1..MaxRegistrations |->
                   busy[r] /\ \A c \in cs : call[c].registration # r]
    BY DEF Stop
  <2>3. busy' \in [1..MaxRegistrations -> BOOLEAN]
    BY <2>2
  <2>4. OneWriter'
    BY <1>5 DEF SlotInv, OneWriter
  <2>5. ASSUME NEW c \in Call, Running(c)'
        PROVE  /\ registered' # 0 /\ call'[c].registration = registered'
               /\ busy'[registered'] = TRUE
               /\ call'[c].entity = call'[c].creature
    <3>1. c \notin cs /\ Running(c) /\ call'[c] = call[c]
      BY <1>5, <2>5
    <3>2. /\ registered # 0 /\ call[c].registration = registered
          /\ busy[registered] = TRUE /\ call[c].entity = call[c].creature
      BY <3>1 DEF SlotInv
    <3>3. registered' = registered
      BY <3>1
    <3>4. \A d \in cs : FALSE
      BY <3>1 DEF SlotInv, OneWriter
    <3>5. registered \in 1..MaxRegistrations
      BY <3>2 DEF SlotInv, AgentToolsConstants
    <3> QED
      BY <2>2, <3>1, <3>2, <3>3, <3>4, <3>5
  <2> QED
    BY <1>4, <2>1, <2>3, <2>4, <2>5 DEF SlotInv
<1>7. CommandInv'
  <2>1. agent' = Halted(cs) /\ cs \in SUBSET Call
    BY DEF Stop
  <2>2. /\ agent' \in [enabled : BOOLEAN, commandId : Nat]
        /\ agent'.commandId = agent.commandId
        /\ agent'.enabled =>
             /\ agent.enabled
             /\ \A c \in cs : ~(/\ call[c].at \in {"approach", "motion"}
                                /\ call[c].commandId = agent.commandId)
    BY <2>1, HaltedAgent DEF CommandInv
  <2>3. Spent \subseteq Spent'
    BY <1>1, <1>3 DEF Spent
  <2>4. agent'.commandId <= Cardinality(Spent)'
    BY <2>2, <2>3, SpentGrows, SpentIsFinite DEF CommandInv
  <2>5. \A c \in Call : call'[c].commandId <= agent'.commandId
    BY <1>1, <1>3, <2>2 DEF CommandInv
  <2>6. SteeredByAMotion'
    BY <1>3, <2>2 DEF CommandInv, SteeredByAMotion
  <2> QED
    BY <2>2, <2>4, <2>5, <2>6 DEF CommandInv
<1>8. SentOK'
  BY DEF Stop, SentOK
<1>9. \A c \in Call : call'[c].at \in {call[c].at, "settled"}
  BY <1>1, <1>3
<1> QED
  BY <1>6, <1>7, <1>8, <1>9

\* A call that begins, or goes on after landing, with a command of its own.
LEMMA CommandStep ==
  ASSUME AgentToolsConstants, SlotInv, CommandInv,
         NEW c \in Call, call[c].at \in {"new", "land"},
         NEW x \in CallState, call' = [call EXCEPT ![c] = x],
         x.at \notin {"new", "land"}, x.commandId \in {0, Command},
         NEW e \in BOOLEAN, agent' = [enabled |-> e, commandId |-> Command],
         e => x.at \in {"approach", "motion"} /\ x.commandId = Command
  PROVE  CommandInv'
<1>1. /\ \A d \in Call : call'[d] = IF d = c THEN x ELSE call[d]
      /\ call'[c] = x
  BY DEF SlotInv
<1>2. /\ agent.commandId \in Nat /\ agent'.commandId = agent.commandId + 1
      /\ agent'.enabled = e
      /\ agent' \in [enabled : BOOLEAN, commandId : Nat]
  BY DEF CommandInv, Command
<1>3. Spent \subseteq Spent' /\ c \in Spent' /\ c \notin Spent
  BY <1>1 DEF Spent
<1>4. agent'.commandId <= Cardinality(Spent)'
  BY <1>2, <1>3, SpentByCommand, SpentIsFinite DEF CommandInv
<1>5. \A d \in Call : call'[d].commandId <= agent'.commandId
  <2> TAKE d \in Call
  <2>1. call[d].commandId \in Nat
    BY DEF SlotInv, CallState
  <2>2. call[d].commandId <= agent.commandId
    BY DEF CommandInv
  <2>3. x.commandId <= agent'.commandId
    BY <1>2 DEF Command
  <2> QED
    BY <1>1, <1>2, <2>1, <2>2, <2>3
<1>6. SteeredByAMotion'
  BY <1>1, <1>2 DEF SteeredByAMotion, Command
<1> QED
  BY <1>2, <1>4, <1>5, <1>6 DEF CommandInv

\* A call that begins without a command.
LEMMA NoCommandStep ==
  ASSUME AgentToolsConstants, SlotInv, CommandInv,
         NEW c \in Call, call[c].at = "new",
         NEW x \in CallState, call' = [call EXCEPT ![c] = x], x.commandId = 0,
         agent' \in {agent, [agent EXCEPT !.enabled = FALSE]}
  PROVE  CommandInv'
<1>1. \A d \in Call : call'[d] = IF d = c THEN x ELSE call[d]
  BY DEF SlotInv
<1>2. /\ agent'.commandId = agent.commandId
      /\ agent'.enabled => agent.enabled
      /\ agent' \in [enabled : BOOLEAN, commandId : Nat]
  BY DEF CommandInv
<1>3. Spent \subseteq Spent'
  BY <1>1 DEF Spent
<1>4. agent'.commandId <= Cardinality(Spent)'
  BY <1>2, <1>3, SpentGrows, SpentIsFinite DEF CommandInv
<1>5. \A d \in Call : call'[d].commandId <= agent'.commandId
  BY <1>1, <1>2 DEF CommandInv
<1>6. SteeredByAMotion'
  BY <1>1, <1>2 DEF CommandInv, SteeredByAMotion
<1> QED
  BY <1>2, <1>4, <1>5, <1>6 DEF CommandInv

\* What a call takes with it, and what a call that does not run leaves.
LEMMA TakesStep ==
  ASSUME AgentToolsConstants, SlotInv, NEW c \in Call, MayRun(c),
         NEW at \in At \ {"new", "settled"},
         NEW m \in Monster \cup {None}, NEW n \in Nat, Takes(c, at, m, n)
  PROVE  /\ SlotInv'
         /\ \E x \in CallState :
              /\ call' = [call EXCEPT ![c] = x]
              /\ x.at = at /\ x.creature = m /\ x.commandId = n
<1> DEFINE x == [at |-> at, answered |-> FALSE, registration |-> registered,
                 creature |-> m, entity |-> m, commandId |-> n]
<1>1. /\ x \in CallState /\ x.at = at /\ x.creature = m /\ x.entity = m
      /\ x.commandId = n /\ x.registration = registered /\ x.answered = FALSE
  BY DEF SlotInv, CallState, At
<1>2. call' = [call EXCEPT ![c] = x]
  BY DEF Takes
<1> HIDE DEF x
<1>3. /\ call' \in [Call -> CallState]
      /\ \A d \in Call : call'[d] = IF d = c THEN x ELSE call[d]
  BY <1>1, <1>2 DEF SlotInv
<1>4. /\ registered \in 1..MaxRegistrations /\ ~busy[registered]
      /\ registered' = registered /\ registrations' = registrations
      /\ busy' = [busy EXCEPT ![registered] = TRUE]
  BY DEF MayRun, Takes, SlotInv, AgentToolsConstants
<1>5. \A d \in Call : ~Running(d)
  BY <1>4 DEF SlotInv
<1>6. \A d \in Call : Running(d)' => d = c
  BY <1>3, <1>5 DEF Running
<1>7. busy' \in [1..MaxRegistrations -> BOOLEAN] /\ busy'[registered] = TRUE
  BY <1>4 DEF SlotInv
<1>8. OneWriter'
  BY <1>1, <1>3, <1>6 DEF OneWriter
<1>9. \A d \in Call : Running(d)' =>
        /\ registered' # 0 /\ call'[d].registration = registered'
        /\ busy'[registered'] = TRUE
        /\ call'[d].entity = call'[d].creature
  BY <1>1, <1>3, <1>4, <1>6, <1>7, AgentToolsConstants DEF AgentToolsConstants
<1>10. registered' \in 0..MaxRegistrations /\ registrations' \in 0..MaxRegistrations
  BY <1>4 DEF SlotInv
<1> QED
  BY <1>1, <1>2, <1>3, <1>7, <1>8, <1>9, <1>10 DEF SlotInv

LEMMA TakesNotStep ==
  ASSUME AgentToolsConstants, SlotInv, NEW c \in Call, MayRun(c),
         NEW m \in Monster \cup {None}, TakesNot(c, m)
  PROVE  /\ SlotInv'
         /\ Settled(m) \in CallState /\ call' = [call EXCEPT ![c] = Settled(m)]
         /\ Settled(m).at = "settled" /\ Settled(m).commandId = 0
         /\ Settled(m).creature = m
<1>1. /\ Settled(m) \in CallState /\ Settled(m).at = "settled"
      /\ Settled(m).commandId = 0 /\ Settled(m).creature = m
  BY SettledState DEF Settled
<1>2. /\ call' = [call EXCEPT ![c] = Settled(m)]
      /\ UNCHANGED <<registered, busy, registrations>>
  BY DEF TakesNot, tools
<1>3. /\ call' \in [Call -> CallState]
      /\ \A d \in Call : call'[d] = IF d = c THEN Settled(m) ELSE call[d]
  BY <1>1, <1>2 DEF SlotInv
<1>4. \A d \in Call : Running(d)' => Running(d) /\ call'[d] = call[d]
  BY <1>1, <1>3 DEF Running
<1>5. OneWriter'
  BY <1>4 DEF SlotInv, OneWriter
<1> QED
  BY <1>1, <1>2, <1>3, <1>4, <1>5 DEF SlotInv

-----------------------------------------------------------------------------------
(* The actions.                                                                    *)

\* What a step may send, and whether it takes a run back into play.
Deed ==
  \A c \in Call : sent'[c] \notin {sent[c], None} =>
    /\ sent'[c] = call'[c].creature
    /\ connected /\ ~paused /\ self.alive /\ self.controller
    /\ arena'.status = "active"

Ends ==
  Over(arena) /\ ~Over(arena') =>
    offered \/ \E c \in Call : call[c].at = "fetch" /\ call'[c].at = "settled"

Kept == ToolsInv' /\ Deed /\ Ends

LEMMA ReadyFacts ==
  ASSUME PageOK, ArenaInv, Ready
  PROVE  /\ self.id \in Monster
         /\ Started \in [status : {"active"}, root : Monster]
         /\ Steering(Started) = Started /\ ~Over(arena)
<1>1. self \in Self /\ self.id \in Monster
  BY DEF PageOK, Ready, Self, Nobody
<1>2. Started \in [status : {"active"}, root : Monster]
  BY <1>1 DEF ArenaInv, Ready, Started
<1>3. Steering(Started) = Started
  BY <1>2 DEF Steering
<1> QED
  BY <1>1, <1>2, <1>3 DEF Ready, Over

\* A run that goes on: the calls may be at any wait.
LEMMA ActiveArena ==
  ASSUME arena' \in [status : {"active"}, root : Monster], offered' \in BOOLEAN
  PROVE  ArenaInv' /\ arena'.status = "active"
BY DEF ArenaInv

\* A call that ends leaves the run as it was.
LEMMA SameArena ==
  ASSUME ArenaInv, UNCHANGED <<arena, offered>>,
         \A c \in Call : call'[c].at \in {call[c].at, "settled"}
  PROVE  ArenaInv'
BY DEF ArenaInv

LEMMA NothingSent ==
  ASSUME SentOK, UNCHANGED sent
  PROVE  SentOK' /\ Deed
BY DEF SentOK, Deed

LEMMA SamePage ==
  ASSUME PageOK, UNCHANGED page
  PROVE  PageOK'
BY DEF PageOK, page

LEMMA MotionStep ==
  ASSUME AgentToolsConstants, ToolsInv, NEW c \in Call,
         NEW at \in {"approach", "motion"}, RunAgentMotion(c, at)
  PROVE  Kept
<1>1. /\ self.id \in Monster /\ ~Over(arena) /\ Command \in Nat
      /\ arena' \in [status : {"active"}, root : Monster]
      /\ offered' \in BOOLEAN /\ MayRun(c) /\ Ready /\ keys \in BOOLEAN
      /\ call[c].at = "new" /\ UNCHANGED sent /\ UNCHANGED page
      /\ agent' = [enabled |-> ~keys, commandId |-> Command]
  BY ReadyFacts
  DEF ToolsInv, PageOK, RunAgentMotion, ArenaInv, CommandInv, Command, MayRun
<1>2. CASE keys
  <2>1. TakesNot(c, None)
    BY <1>2 DEF RunAgentMotion
  <2>2. SlotInv' /\ \E x \in CallState :
                      /\ call' = [call EXCEPT ![c] = x]
                      /\ x.at = "settled" /\ x.commandId = 0
    BY <1>1, <2>1, TakesNotStep DEF ToolsInv
  <2>3. CommandInv'
    BY <1>1, <1>2, <2>2, CommandStep DEF ToolsInv
  <2> QED
    BY <1>1, <2>2, <2>3, ActiveArena, NothingSent, SamePage
    DEF ToolsInv, Kept, Ends
<1>3. CASE ~keys
  <2>1. Takes(c, at, self.id, Command) /\ at \in At \ {"new", "settled"}
    BY <1>3 DEF RunAgentMotion, At
  <2>2. SlotInv' /\ \E x \in CallState :
                      /\ call' = [call EXCEPT ![c] = x]
                      /\ x.at = at /\ x.commandId = Command
    BY <1>1, <2>1, TakesStep DEF ToolsInv
  <2>3. CommandInv'
    BY <1>1, <1>3, <2>2, CommandStep DEF ToolsInv
  <2> QED
    BY <1>1, <2>2, <2>3, ActiveArena, NothingSent, SamePage
    DEF ToolsInv, Kept, Ends
<1> QED
  BY <1>2, <1>3

LEMMA RestStep ==
  ASSUME AgentToolsConstants, ToolsInv, NEW c \in Call, Rest(c)
  PROVE  Kept
<1>1. /\ self.id \in Monster /\ ~Over(arena)
      /\ arena' \in [status : {"active"}, root : Monster]
      /\ offered' \in BOOLEAN /\ MayRun(c)
      /\ call[c].at = "new" /\ UNCHANGED sent /\ UNCHANGED page
      /\ agent' \in {agent, [agent EXCEPT !.enabled = FALSE]}
  BY ReadyFacts DEF ToolsInv, Rest, ArenaInv, MayRun
<1>2. SlotInv' /\ \E x \in CallState :
                    call' = [call EXCEPT ![c] = x] /\ x.commandId = 0
  <2>1. CASE keys
    <3>1. TakesNot(c, None)
      BY <2>1 DEF Rest
    <3> QED
      BY <1>1, <3>1, TakesNotStep DEF ToolsInv
  <2>2. CASE ~keys
    <3>1. Takes(c, "rest", self.id, 0) /\ "rest" \in At \ {"new", "settled"}
      BY <2>2 DEF Rest, At
    <3> QED
      BY <1>1, <3>1, TakesStep DEF ToolsInv
  <2> QED
    BY <2>1, <2>2
<1>3. CommandInv'
  BY <1>1, <1>2, NoCommandStep DEF ToolsInv
<1> QED
  BY <1>1, <1>2, <1>3, ActiveArena, NothingSent, SamePage
  DEF ToolsInv, Kept, Ends

LEMMA NoTargetStep ==
  ASSUME AgentToolsConstants, ToolsInv, NEW c \in Call, NoTarget(c)
  PROVE  Kept
<1>1. /\ ~Over(arena) /\ arena' \in [status : {"active"}, root : Monster]
      /\ offered' \in BOOLEAN /\ MayRun(c)
      /\ call[c].at = "new" /\ UNCHANGED sent /\ UNCHANGED page
      /\ agent' = agent
  BY ReadyFacts DEF ToolsInv, NoTarget, ArenaInv, MayRun
<1>2. SlotInv' /\ \E x \in CallState :
                    call' = [call EXCEPT ![c] = x] /\ x.commandId = 0
  BY <1>1, TakesNotStep DEF ToolsInv, NoTarget
<1>3. CommandInv'
  BY <1>1, <1>2, NoCommandStep DEF ToolsInv
<1> QED
  BY <1>1, <1>2, <1>3, ActiveArena, NothingSent, SamePage
  DEF ToolsInv, Kept, Ends

LEMMA LandStep ==
  ASSUME AgentToolsConstants, ToolsInv, NEW c \in Call, Land(c)
  PROVE  Kept
<1>1. /\ self.id \in Monster /\ ~Over(arena)
      /\ arena' \in [status : {"active"}, root : Monster]
      /\ offered' \in BOOLEAN /\ MayRun(c)
      /\ call[c].at = "new" /\ UNCHANGED sent /\ UNCHANGED page
      /\ agent' = agent
  BY ReadyFacts DEF ToolsInv, Land, ArenaInv, MayRun
<1>2. SlotInv' /\ \E x \in CallState :
                    call' = [call EXCEPT ![c] = x] /\ x.commandId = 0
  <2>1. CASE keys
    <3>1. TakesNot(c, None)
      BY <2>1 DEF Land
    <3> QED
      BY <1>1, <3>1, TakesNotStep DEF ToolsInv
  <2>2. CASE ~keys
    <3>1. Takes(c, "land", self.id, 0) /\ "land" \in At \ {"new", "settled"}
      BY <2>2 DEF Land, At
    <3> QED
      BY <1>1, <3>1, TakesStep DEF ToolsInv
  <2> QED
    BY <2>1, <2>2
<1>3. CommandInv'
  BY <1>1, <1>2, NoCommandStep DEF ToolsInv
<1> QED
  BY <1>1, <1>2, <1>3, ActiveArena, NothingSent, SamePage
  DEF ToolsInv, Kept, Ends

\* A deed of the creature that the page now has, noted for the call.
LEMMA ActsStep ==
  ASSUME SentOK, NEW c \in Call, self.id \in Monster, Acts(c)
  PROVE  /\ SentOK'
         /\ \A d \in Call : sent'[d] # sent[d] => d = c /\ sent'[d] = self.id
BY DEF SentOK, Acts

LEMMA ActAtOnceStep ==
  ASSUME AgentToolsConstants, ToolsInv, NEW c \in Call, ActAtOnce(c)
  PROVE  Kept
<1>1. /\ self.id \in Monster /\ ~Over(arena)
      /\ arena' \in [status : {"active"}, root : Monster]
      /\ offered' \in BOOLEAN /\ MayRun(c)
      /\ call[c].at = "new" /\ Acts(c) /\ UNCHANGED page
      /\ agent' = agent /\ Ready
  BY ReadyFacts DEF ToolsInv, ActAtOnce, ArenaInv, MayRun
<1>2. SlotInv' /\ \E x \in CallState :
                    /\ call' = [call EXCEPT ![c] = x] /\ x.commandId = 0
                    /\ x.creature = self.id
  <2>1. CASE keys
    <3>1. TakesNot(c, self.id)
      BY <2>1 DEF ActAtOnce
    <3> QED
      BY <1>1, <3>1, TakesNotStep DEF ToolsInv
  <2>2. CASE ~keys
    <3>1. Takes(c, "deed", self.id, 0) /\ "deed" \in At \ {"new", "settled"}
      BY <2>2 DEF ActAtOnce, At
    <3> QED
      BY <1>1, <3>1, TakesStep DEF ToolsInv
  <2> QED
    BY <2>1, <2>2
<1>3. CommandInv'
  BY <1>1, <1>2, NoCommandStep DEF ToolsInv
<1>4. call'[c].creature = self.id
  BY <1>2 DEF ToolsInv, SlotInv
<1>5. SentOK' /\ Deed
  BY <1>1, <1>4, ActsStep, ActiveArena DEF ToolsInv, Deed, Ready
<1> QED
  BY <1>1, <1>2, <1>3, <1>5, ActiveArena, SamePage DEF ToolsInv, Kept, Ends

LEMMA BeginCreateStep ==
  ASSUME AgentToolsConstants, ToolsInv, NEW c \in Call, BeginCreate(c)
  PROVE  Kept
<1>1. /\ MayRun(c) /\ call[c].at = "new" /\ agent' = agent
      /\ UNCHANGED sent /\ UNCHANGED page /\ UNCHANGED <<arena, offered>>
      /\ Takes(c, "fetch", None, 0) /\ "fetch" \in At \ {"new", "settled"}
  BY DEF BeginCreate, MayRun, At
<1>2. SlotInv' /\ \E x \in CallState :
                    /\ call' = [call EXCEPT ![c] = x]
                    /\ x.commandId = 0 /\ x.at = "fetch"
  BY <1>1, TakesStep DEF ToolsInv
<1>3. CommandInv'
  BY <1>1, <1>2, NoCommandStep DEF ToolsInv
<1>4. ArenaInv'
  BY <1>1, <1>2 DEF ToolsInv, ArenaInv, SlotInv
<1>5. Ends
  BY <1>1 DEF Ends, Over
<1> QED
  BY <1>1, <1>2, <1>3, <1>4, <1>5, NothingSent, SamePage DEF ToolsInv, Kept

\* The next wait of a call that runs: it keeps its creature, its slot and its owner.
LEMMA WaitStep ==
  ASSUME AgentToolsConstants, SlotInv, NEW c \in Call, Running(c),
         NEW x \in CallState, call' = [call EXCEPT ![c] = x],
         x.creature = call[c].creature, x.entity = call[c].entity,
         x.registration = call[c].registration, x.answered = call[c].answered,
         UNCHANGED tools
  PROVE  SlotInv'
<1>1. /\ call' \in [Call -> CallState]
      /\ \A d \in Call : call'[d] = IF d = c THEN x ELSE call[d]
  BY DEF SlotInv
<1>2. \A d \in Call : Running(d)' => Running(d)
  BY <1>1 DEF Running
<1>3. OneWriter'
  BY <1>1, <1>2 DEF SlotInv, OneWriter
<1>4. UNCHANGED <<registered, busy, registrations>>
  BY DEF tools
<1>5. \A d \in Call : Running(d)' =>
        /\ registered' # 0 /\ call'[d].registration = registered'
        /\ busy'[registered'] = TRUE
        /\ call'[d].entity = call'[d].creature
  BY <1>1, <1>2, <1>4 DEF SlotInv
<1> QED
  BY <1>1, <1>3, <1>4, <1>5 DEF SlotInv

LEMMA LandedStep ==
  ASSUME AgentToolsConstants, ToolsInv, NEW c \in Call, Landed(c)
  PROVE  Kept
<1> DEFINE x == [call[c] EXCEPT !.at = "approach", !.entity = self.id,
                                !.commandId = Command]
<1>1. /\ call[c].at = "land" /\ Running(c) /\ Ready /\ self.id = call[c].entity
      /\ agent' = [enabled |-> TRUE, commandId |-> Command]
      /\ arena' = Steering(arena) /\ offered' = offered
      /\ UNCHANGED sent /\ UNCHANGED page /\ UNCHANGED tools
      /\ Command \in Nat /\ self.id \in Monster
      /\ call' = [call EXCEPT ![c] = x] /\ call[c] \in CallState
  BY ReadyFacts
  DEF Landed, Undisturbed, Running, ToolsInv, CommandInv, Command, SlotInv
<1>2. /\ x \in CallState /\ x.at = "approach" /\ x.entity = call[c].entity
      /\ x.commandId = Command /\ x.creature = call[c].creature
      /\ x.registration = call[c].registration /\ x.answered = call[c].answered
  BY <1>1 DEF CallState, At
<1> HIDE DEF x
<1>5. SlotInv'
  BY <1>1, <1>2, WaitStep DEF ToolsInv
<1>3. CommandInv'
  BY <1>1, <1>2, CommandStep DEF ToolsInv
<1>4. /\ ~Over(arena) /\ arena' \in [status : {"active"}, root : Monster]
      /\ offered' \in BOOLEAN
  <2>1. arena \in [status : {"active"}, root : Monster]
    BY <1>1 DEF ToolsInv, ArenaInv, Ready
  <2> QED
    BY <1>1, <2>1 DEF Steering, Over, ToolsInv, ArenaInv
<1> QED
  BY <1>1, <1>3, <1>4, <1>5, ActiveArena, NothingSent, SamePage
  DEF ToolsInv, Kept, Ends

LEMMA ReachedStep ==
  ASSUME AgentToolsConstants, ToolsInv, NEW c \in Call, Reached(c)
  PROVE  Kept
<1> DEFINE x == [call[c] EXCEPT !.at = "deed", !.entity = self.id]
<1>1. /\ call[c].at \in {"land", "approach"} /\ Running(c)
      /\ Ready /\ self.id = call[c].entity
      /\ agent' = Halted({c}) /\ Acts(c) /\ UNCHANGED <<arena, offered>>
      /\ UNCHANGED page /\ UNCHANGED tools
      /\ call' = [call EXCEPT ![c] = x] /\ call[c] \in CallState
  BY DEF Reached, Undisturbed, Running, ToolsInv, SlotInv
<1>2. self.id \in Monster /\ call[c].commandId \in Nat
  BY <1>1, ReadyFacts DEF ToolsInv, CallState
<1>3. /\ x \in CallState /\ x.at = "deed" /\ x.entity = call[c].entity
      /\ x.commandId = call[c].commandId /\ x.creature = call[c].creature
      /\ x.registration = call[c].registration /\ x.answered = call[c].answered
  BY <1>1, <1>2 DEF CallState, At
<1> HIDE DEF x
<1>4. SlotInv'
  BY <1>1, <1>3, WaitStep DEF ToolsInv
<1>5. \A d \in Call : call'[d] = IF d = c THEN x ELSE call[d]
  BY <1>1 DEF ToolsInv, SlotInv
<1>6. CommandInv'
  <2>1. /\ agent' \in [enabled : BOOLEAN, commandId : Nat]
        /\ agent'.commandId = agent.commandId
        /\ agent'.enabled =>
             /\ agent.enabled
             /\ \A d \in {c} : ~(/\ call[d].at \in {"approach", "motion"}
                                 /\ call[d].commandId = agent.commandId)
    BY <1>1, HaltedAgent, {c} \in SUBSET Call DEF ToolsInv, CommandInv
  <2>2. Spent \subseteq Spent'
    BY <1>1, <1>3, <1>5 DEF Spent
  <2>3. agent'.commandId <= Cardinality(Spent)'
    BY <2>1, <2>2, SpentGrows, SpentIsFinite DEF ToolsInv, CommandInv
  <2>4. \A d \in Call : call'[d].commandId <= agent'.commandId
    BY <1>3, <1>5, <2>1 DEF ToolsInv, CommandInv
  <2>5. SteeredByAMotion'
    BY <1>3, <1>5, <2>1 DEF ToolsInv, CommandInv, SteeredByAMotion
  <2> QED
    BY <2>1, <2>3, <2>4, <2>5 DEF CommandInv
<1>7. call[c].entity = call[c].creature
  BY <1>1 DEF ToolsInv, SlotInv
<1>8. self.id \in Monster /\ arena.status = "active"
  BY <1>1, ReadyFacts DEF ToolsInv, ArenaInv, Ready
<1>9. SentOK' /\ Deed
  BY <1>1, <1>3, <1>5, <1>7, <1>8, ActsStep DEF ToolsInv, Deed, Ready
<1>10. ArenaInv'
  BY <1>1, <1>3, <1>5, <1>8 DEF ToolsInv, ArenaInv
<1> QED
  BY <1>1, <1>4, <1>6, <1>8, <1>9, <1>10, SamePage DEF ToolsInv, Kept, Ends, Over

\* The ways a call ends: its waits and its request come to an end, or are aborted.
LEMMA EndStep ==
  ASSUME AgentToolsConstants, ToolsInv, NEW c \in Call,
         Timeout(c) \/ Done(c) \/ Interrupted(c) \/ CreateFails(c)
  PROVE  Kept
<1>1. /\ Running(c) /\ Stop({c}) /\ UNCHANGED page /\ UNCHANGED <<arena, offered>>
      /\ registered' = registered /\ UNCHANGED registrations
  BY DEF Timeout, Done, Interrupted, CreateFails, Running
<1>2. {c} \in SUBSET {d \in Call : Running(d)}
  BY <1>1
<1>3. /\ SlotInv' /\ CommandInv' /\ SentOK'
      /\ \A d \in Call : call'[d].at \in {call[d].at, "settled"}
  BY <1>1, <1>2, StopStep DEF ToolsInv
<1>4. Deed
  BY <1>1 DEF Stop, Deed, SentOK, ToolsInv
<1>5. Ends
  BY <1>1 DEF Ends, Over
<1> QED
  BY <1>1, <1>3, <1>4, <1>5, SameArena, SamePage DEF ToolsInv, Kept

LEMMA CreatedStep ==
  ASSUME AgentToolsConstants, ToolsInv, NEW c \in Call, Created(c)
  PROVE  Kept
<1>1. PICK m \in Monster \ made :
        made' = made \cup {m} /\ arena' = [status |-> "active", root |-> m]
  BY DEF Created
<1>2. /\ call[c].at = "fetch" /\ Running(c) /\ Stop({c})
      /\ UNCHANGED <<connected, self, keys, offered>> /\ paused' = FALSE
      /\ registered' = registered /\ UNCHANGED registrations
  BY DEF Created, Running
<1>3. {c} \in SUBSET {d \in Call : Running(d)}
  BY <1>2
<1>4. SlotInv' /\ CommandInv' /\ SentOK'
  BY <1>2, <1>3, StopStep DEF ToolsInv
<1>5. PageOK'
  BY <1>1, <1>2 DEF ToolsInv, PageOK
<1>6. ArenaInv'
  BY <1>1, <1>2, ActiveArena DEF ToolsInv, ArenaInv
<1>7. Deed
  BY <1>2 DEF Stop, Deed, SentOK, ToolsInv
<1>8. call'[c].at = "settled"
  BY <1>2 DEF Stop, Settled
<1>9. Ends
  BY <1>2, <1>8 DEF Ends
<1> QED
  BY <1>4, <1>5, <1>6, <1>7, <1>9 DEF ToolsInv, Kept

LEMMA ToolStep ==
  ASSUME AgentToolsConstants, ToolsInv, NEW c \in Call, Tool(c)
  PROVE  Kept
<1>1. CASE \E at \in {"approach", "motion"} : RunAgentMotion(c, at)
  BY <1>1, MotionStep
<1>2. CASE Rest(c) \/ NoTarget(c) \/ Land(c) \/ ActAtOnce(c) \/ BeginCreate(c)
  BY <1>2, RestStep, NoTargetStep, LandStep, ActAtOnceStep, BeginCreateStep
<1>3. CASE Landed(c) \/ Reached(c) \/ Created(c)
  BY <1>3, LandedStep, ReachedStep, CreatedStep
<1>4. CASE Timeout(c) \/ Done(c) \/ Interrupted(c) \/ CreateFails(c)
  BY <1>4, EndStep
<1> QED
  BY <1>1, <1>2, <1>3, <1>4
  DEF Tool, Move, Explore, Flee, Eat, Attack, Breed, Approach

-----------------------------------------------------------------------------------
(* The registration, the world and the people.                                     *)

LEMMA UnregisterStep ==
  ASSUME AgentToolsConstants, ToolsInv, Unregister
  PROVE  Kept
<1> DEFINE cs == {c \in Call : /\ Running(c) /\ ~call[c].answered
                               /\ call[c].registration = registered}
<1>1. /\ Stop(cs) /\ UNCHANGED page /\ UNCHANGED <<arena, offered>>
      /\ registered' = 0 /\ UNCHANGED registrations
  BY DEF Unregister
<1>2. cs \in SUBSET {d \in Call : Running(d)}
  OBVIOUS
<1>3. \A c \in Call : Running(c) => c \in cs
  BY DEF ToolsInv, SlotInv, OneWriter
<1> HIDE DEF cs
<1>4. /\ SlotInv' /\ CommandInv' /\ SentOK'
      /\ \A d \in Call : call'[d].at \in {call[d].at, "settled"}
  BY <1>1, <1>2, <1>3, StopStep DEF ToolsInv
<1>5. Deed
  BY <1>1 DEF Stop, Deed, SentOK, ToolsInv
<1>6. Ends
  BY <1>1 DEF Ends, Over
<1> QED
  BY <1>1, <1>4, <1>5, <1>6, SameArena, SamePage DEF ToolsInv, Kept

LEMMA RegisterStep ==
  ASSUME AgentToolsConstants, ToolsInv, Register
  PROVE  Kept
<1>1. /\ registered = 0 /\ registered' \in 0..MaxRegistrations
      /\ registrations' \in 0..MaxRegistrations
      /\ UNCHANGED <<page, agent, arena, offered, busy, call, sent>>
  BY DEF Register, ToolsInv, SlotInv, AgentToolsConstants
<1>2. SlotInv'
  BY <1>1 DEF ToolsInv, SlotInv, OneWriter, Running
<1>3. CommandInv'
  BY <1>1 DEF ToolsInv, CommandInv, SteeredByAMotion, Spent
<1>4. ArenaInv' /\ Ends
  BY <1>1 DEF ToolsInv, ArenaInv, Ends, Over
<1> QED
  BY <1>1, <1>2, <1>3, <1>4, NothingSent, SamePage DEF ToolsInv, Kept

\* A step of the page that leaves the calls alone, and may only halt the agent.
LEMMA PageStep ==
  ASSUME ToolsInv, UNCHANGED <<tools, call, sent>>, PageOK', ArenaInv', Ends,
         agent' \in {agent, [agent EXCEPT !.enabled = FALSE]}
  PROVE  Kept
<1>1. SlotInv'
  BY DEF ToolsInv, SlotInv, OneWriter, Running, tools
<1>2. /\ agent' \in [enabled : BOOLEAN, commandId : Nat]
      /\ agent'.commandId = agent.commandId /\ (agent'.enabled => agent.enabled)
  BY DEF ToolsInv, CommandInv
<1>3. CommandInv'
  BY <1>2 DEF ToolsInv, CommandInv, SteeredByAMotion, Spent
<1> QED
  BY <1>1, <1>3, NothingSent DEF ToolsInv, Kept

\* A field that is given the value it has.
LEMMA SameRecord ==
  ASSUME NEW m, NEW F
  PROVE  LET x == [id |-> m, alive |-> F, controller |-> F]
         IN  [x EXCEPT !.controller = F] = x /\ [x EXCEPT !.alive = F] = x
OBVIOUS

\* What a lost link and a death leave of the creature.
LEMMA SelfUpdate ==
  ASSUME self \in Self \cup {Nobody}
  PROVE  /\ [self EXCEPT !.controller = FALSE] \in Self \cup {Nobody}
         /\ [self EXCEPT !.alive = FALSE] \in Self \cup {Nobody}
<1>1. CASE self \in Self
  BY <1>1 DEF Self
<1>2. CASE self = Nobody
  <2>1. /\ [Nobody EXCEPT !.controller = FALSE] = Nobody
        /\ [Nobody EXCEPT !.alive = FALSE] = Nobody
    BY SameRecord DEF Nobody
  <2> QED
    BY <1>2, <2>1
<1> QED
  BY <1>1, <1>2

LEMMA WorldStep ==
  ASSUME AgentToolsConstants, ToolsInv, World
  PROVE  Kept
<1>1. UNCHANGED <<tools, call, sent>> /\ offered' = offered
      /\ agent' \in {agent, [agent EXCEPT !.enabled = FALSE]}
  BY DEF World, LinkDown, LinkUp, Told, WorldReset, Death
<1>2. PageOK'
  <2>1. CASE LinkDown
    BY <2>1, SelfUpdate DEF LinkDown, ToolsInv, PageOK
  <2>2. CASE LinkUp
    BY <2>2 DEF LinkUp, ToolsInv, PageOK
  <2>3. CASE Told
    BY <2>3 DEF Told, ToolsInv, PageOK
  <2>4. CASE WorldReset
    BY <2>4 DEF WorldReset, ToolsInv, PageOK
  <2>5. ASSUME NEW m \in Monster, Death(m) PROVE PageOK'
    BY <2>5, SelfUpdate DEF Death, ToolsInv, PageOK
  <2> QED
    BY <2>1, <2>2, <2>3, <2>4, <2>5 DEF World
<1>3. ArenaInv' /\ Ends
  <2>1. CASE LinkDown \/ LinkUp \/ Told
    BY <1>1, <2>1 DEF LinkDown, LinkUp, Told, ToolsInv, ArenaInv, Ends, Over
  <2>2. CASE WorldReset
    BY <1>1, <2>2 DEF WorldReset, ToolsInv, ArenaInv, Ends, Over
  <2>3. ASSUME NEW m \in Monster, Death(m) PROVE ArenaInv' /\ Ends
    BY <1>1, <2>3, AgentToolsConstants
    DEF Death, ToolsInv, ArenaInv, Ends, Over, AgentToolsConstants
  <2> QED
    BY <2>1, <2>2, <2>3 DEF World
<1> QED
  BY <1>1, <1>2, <1>3, PageStep

LEMMA PeopleStep ==
  ASSUME AgentToolsConstants, ToolsInv, People
  PROVE  Kept
<1>1. UNCHANGED <<tools, call, sent>>
      /\ agent' \in {agent, [agent EXCEPT !.enabled = FALSE]}
  BY DEF People, Keys, Menu, HumanRespawn, Draw, CoachToggles, CoachEnds, page
<1>2. PageOK'
  BY DEF People, Keys, Menu, HumanRespawn, Draw, CoachToggles, CoachEnds, page,
         ToolsInv, PageOK
<1>3. ArenaInv' /\ Ends
  <2>1. CASE Keys \/ Menu \/ HumanRespawn
    BY <1>1, <2>1 DEF Keys, Menu, HumanRespawn, ToolsInv, ArenaInv, Ends, Over
  <2>3. CASE Draw
    <3>1. arena' = arena /\ offered' = (arena.status \in {"active", "paused"})
      BY <2>3 DEF Draw
    <3> QED
      BY <1>1, <3>1 DEF ToolsInv, ArenaInv, Ends, Over
  <2>2. CASE CoachToggles \/ CoachEnds
    <3>1. offered /\ offered' = offered
      BY <2>2 DEF CoachToggles, CoachEnds
    <3>2. arena \in [status : {"active", "paused", "dead", "ended"}, root : Monster]
      BY <3>1 DEF ToolsInv, ArenaInv
    <3>3. arena' \in [status : {"active", "paused", "ended"}, root : Monster]
      BY <2>2, <3>2 DEF CoachToggles, CoachEnds
    <3> QED
      BY <3>1, <3>3 DEF ToolsInv, ArenaInv, Ends
  <2> QED
    BY <2>1, <2>2, <2>3 DEF People
<1> QED
  BY <1>1, <1>2, <1>3, PageStep

LEMMA NextStep ==
  ASSUME AgentToolsConstants, ToolsInv, [Next]_vars
  PROVE  Kept
<1>1. CASE UNCHANGED vars
  <2>1. UNCHANGED <<tools, call, sent, page, arena, offered, agent>>
    BY <1>1 DEF vars
  <2>2. ArenaInv' /\ Ends
    BY <2>1 DEF ToolsInv, ArenaInv, Ends, Over
  <2> QED
    BY <2>1, <2>2, PageStep, SamePage DEF ToolsInv
<1> QED
  BY <1>1, ToolStep, RegisterStep, UnregisterStep, WorldStep, PeopleStep DEF Next

LEMMA InitHolds ==
  ASSUME AgentToolsConstants, Init
  PROVE  ToolsInv
<1>1. PageOK /\ ArenaInv /\ SentOK
  BY DEF Init, PageOK, ArenaInv, SentOK, Nobody
<1>2. SlotInv
  BY DEF Init, SlotInv, CallState, At, OneWriter, Running, AgentToolsConstants
<1>3. CommandInv
  BY SpentIsFinite DEF Init, CommandInv, SteeredByAMotion
<1> QED
  BY <1>1, <1>2, <1>3 DEF ToolsInv

LEMMA Invariance == Spec => []ToolsInv
<1>1. Init => ToolsInv
  BY InitHolds, AgentToolsConstants
<1>2. ToolsInv /\ [Next]_vars => ToolsInv'
  BY NextStep, AgentToolsConstants DEF Kept
<1> QED
  BY <1>1, <1>2, PTL DEF Spec

-----------------------------------------------------------------------------------
\* The page, the slots, the commands and the run are what their types say; in
\* particular no more commands are given than there are calls.
THEOREM ToolsTypeCorrect == Spec => []TypeOK
<1>1. ToolsInv => TypeOK
  <2> SUFFICES ASSUME ToolsInv PROVE TypeOK
    OBVIOUS
  <2>1. Cardinality(Spent) <= Cardinality(Call)
        /\ Cardinality(Spent) \in Nat /\ Cardinality(Call) \in Nat
    BY SpentIsFinite, AgentToolsConstants
  <2>2. agent \in [enabled : BOOLEAN, commandId : 0..Cardinality(Call)]
    BY <2>1 DEF ToolsInv, CommandInv
  <2>3. \A c \in Call : call[c] \in CallState /\ call[c].commandId \in 0..Cardinality(Call)
    BY <2>1 DEF ToolsInv, CommandInv, SlotInv, CallState
  <2>4. call \in [Call -> [at : At, answered : BOOLEAN,
                           registration : 0..MaxRegistrations,
                           creature : Monster \cup {None},
                           entity : Monster \cup {None},
                           commandId : 0..Cardinality(Call)]]
    BY <2>3 DEF ToolsInv, SlotInv, CallState
  <2> QED
    BY <2>2, <2>4 DEF ToolsInv, PageOK, ArenaInv, SlotInv, SentOK, TypeOK, At
<1> QED
  BY <1>1, Invariance, PTL

\* However registrations, calls, their waits, their aborts and their answers
\* interleave, one mutating call runs at a time, and none after its answer.
THEOREM OneWriterAlways == Spec => []OneWriter
<1>1. ToolsInv => OneWriter
  BY DEF ToolsInv, SlotInv
<1> QED
  BY <1>1, Invariance, PTL

\* Whenever the agent steers the creature, a motion that carries its latest command
\* is under way: every way out of a motion halts it.
THEOREM SteeredOnlyByAMotion == Spec => []SteeredByAMotion
<1>1. ToolsInv => SteeredByAMotion
  BY DEF ToolsInv, CommandInv
<1> QED
  BY <1>1, Invariance, PTL

\* A deed is sent for the creature that its call began with, as the page is told
\* that it may, whatever happened during the waits.
THEOREM DeedsStayCurrent == Spec => DeedsAreCurrent
<1>1. ToolsInv /\ [Next]_vars => [Deed]_vars
  BY NextStep, AgentToolsConstants DEF Kept
<1>2. [Deed]_vars
        => [\A c \in Call : sent'[c] \notin {sent[c], None} =>
              /\ sent'[c] = call'[c].creature
              /\ connected /\ ~paused /\ self.alive /\ self.controller
              /\ arena'.status = "active"]_vars
  BY DEF Deed
<1> QED
  BY <1>1, <1>2, Invariance, PTL DEF Spec, DeedsAreCurrent

\* A run that is over begins again only with a new creature, or by a click on a
\* button drawn before the end.
THEOREM ArenaStaysOver == Spec => RunStaysOver
<1>1. ToolsInv /\ [Next]_vars
        => [Over(arena) /\ ~Over(arena') =>
              offered \/ \E c \in Call :
                           call[c].at = "fetch" /\ call'[c].at = "settled"]_vars
  BY NextStep, AgentToolsConstants DEF Kept, Ends
<1> QED
  BY <1>1, Invariance, PTL DEF Spec, RunStaysOver
===================================================================================
