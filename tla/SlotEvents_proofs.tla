-------------------------- MODULE SlotEvents_proofs --------------------------
(***************************************************************************)
(* What TLAPS proves of SlotEvents for every set of jobs, every period of  *)
(* the crash-loop report and every count of restarts: the types, and what  *)
(* a listener may conclude from the events about the slot.  The comparison *)
(* is three steps long; the invariants say what holds between two of them. *)
(***************************************************************************)
EXTENDS SlotEvents, TLAPS

\* The view that is being compared, or else the last one that was, is not one of
\* an offline slot.
NotOffline == heard = "online" =>
    IF pc \in {"loops", "jobs"} THEN state.state # "offline" ELSE prev # "offline"

\* Nothing is told of a slot that is not remembered.
ToldOfKnown == heard = "online" => prev # None

\* Until the counts go down, the marker is the multiple of the one compared last.
Marked == seen # Unknown => cl = seen \div Every

\* A multiple of Every is no larger than the count.
LEMMA MultipleIsSmall ==
    ASSUME NEW n \in 0..MaxRestarts
    PROVE  n \div Every \in 0..MaxRestarts
BY EveryAssumption, MaxRestartsAssumption

\* Larger counts have larger multiples, and counts below Every have none.
LEMMA MultiplesGrow ==
    ASSUME NEW a \in 0..MaxRestarts, NEW b \in 0..MaxRestarts, a <= b
    PROVE  /\ a \div Every <= b \div Every
           /\ b < Every <=> b \div Every = 0
BY EveryAssumption, MaxRestartsAssumption

-----------------------------------------------------------------------------
\* The types, part by part.
WorldOK ==
    /\ env \in {"none", "true", "false"} /\ link \in BOOLEAN
    /\ unit \in {"active", "activating", "down"}
    /\ job \in Job \union {None}

PassOK ==
    /\ pc \in {"idle", "unit", "container", "failed", "states", "loops", "jobs", "dead"}
    /\ envRead \in {None, "true", "false"}
    /\ unitRead \in {None, "active", "restarting", "parked", "offline"}
    /\ (pc = "container" => unitRead \in {"active", "restarting", "parked", "offline"})

ViewOK == state \in View \union {None} /\ (pc \in {"states", "loops", "jobs"} => state \in View)

MemoryOK == prev \in State \union {None} /\ cl \in 0..MaxRestarts /\ prevJob \in Job \union {None}

HistoryOK ==
    /\ heard \in {"nothing", "offline", "online", "lost"} /\ heardJob \in Job \union {None}
    /\ seen \in 0..MaxRestarts \union {Unknown}

LEMMA Parts == TypeOK <=> WorldOK /\ PassOK /\ ViewOK /\ MemoryOK /\ HistoryOK
BY DEF TypeOK, WorldOK, PassOK, ViewOK, MemoryOK, HistoryOK

\* Only the slot itself changes it.
LEMMA WorldTypes == WorldOK /\ [Next]_vars => WorldOK'
<1> SUFFICES ASSUME WorldOK, [Next]_vars PROVE WorldOK'
  OBVIOUS
<1>1. CASE WorldStep
  <2>1. env' \in {"none", "true", "false"} /\ unit' \in {"active", "activating", "down"}
        /\ job' \in Job \union {None}
    BY <1>1 DEF WorldOK, WorldStep, WorldNext, Configure, UnitStarts, UnitIsUp, UnitGoesDown,
                JobStarts, JobEnds
  <2>2. link' \in BOOLEAN
    BY <1>1, Zenon DEF WorldOK, WorldStep, WorldNext, Configure, UnitStarts, UnitIsUp,
                       UnitGoesDown, JobStarts, JobEnds
  <2>3. QED BY <2>1, <2>2 DEF WorldOK
<1>2. CASE UNCHANGED world
  BY <1>2 DEF world, WorldOK
<1>3. QED
  BY <1>1, <1>2 DEF Next, PassStep, ReadEnv, NotListed, ReadUnit, KeepView, ReadContainer, TellState,
     TellLoop, TellJob, PollFails, PassBreaks, ManagerRestarts, vars

\* The pass goes from read to read and from comparison to comparison.
LEMMA PassTypes == TypeOK /\ [Next]_vars => PassOK'
<1> SUFFICES ASSUME WorldOK, PassOK, [Next]_vars PROVE PassOK'
  BY Parts
<1>1. CASE WorldStep \/ NotListed \/ UNCHANGED vars
  BY <1>1 DEF PassOK, WorldStep, NotListed, vars, locals
<1>2. CASE ReadEnv
  BY <1>2 DEF PassOK, WorldOK, ReadEnv
<1>3. CASE ReadUnit
  BY <1>3 DEF PassOK, ReadUnit, OfUnit
<1>4. ASSUME NEW count \in 0..MaxRestarts, NEW found \in {job, None}, ReadContainer(count, found)
      PROVE  PassOK'
  BY <1>4 DEF PassOK, ReadContainer, NoLocals
<1>5. CASE PollFails \/ KeepView \/ PassBreaks \/ ManagerRestarts
  BY <1>5 DEF PassOK, PollFails, KeepView, PassBreaks, Raise, ManagerRestarts, NoLocals, locals
<1>6. CASE TellState \/ TellLoop \/ TellJob
  BY <1>6 DEF PassOK, TellState, TellLoop, TellJob, Told, Slips, Raise, locals
<1>7. QED
  BY <1>1, <1>2, <1>3, <1>4, <1>5, <1>6 DEF Next, PassStep

\* A view is compared only when there is one.
LEMMA ViewTypes == TypeOK /\ [Next]_vars => ViewOK'
<1> SUFFICES ASSUME WorldOK, PassOK, ViewOK, [Next]_vars PROVE ViewOK'
  BY Parts
<1>1. CASE WorldStep \/ UNCHANGED vars
  BY <1>1 DEF ViewOK, WorldStep, vars
<1>2. CASE ReadEnv \/ ReadUnit \/ PassBreaks
  BY <1>2 DEF ViewOK, ReadEnv, ReadUnit, PassBreaks, Raise
<1>3. CASE NotListed \/ ManagerRestarts
  BY <1>3 DEF ViewOK, NotListed, ManagerRestarts
<1>4. ASSUME NEW count \in 0..MaxRestarts, NEW found \in {job, None}, ReadContainer(count, found)
      PROVE  ViewOK'
  <2>1. StateOf(unitRead, found) \in State
    BY <1>4 DEF PassOK, ReadContainer, StateOf, State, InService
  <2>2. state' \in View
    BY <1>4, <2>1 DEF ReadContainer, View, WorldOK
  <2>3. QED BY <2>2 DEF ViewOK
<1>5. CASE PollFails \/ KeepView
  BY <1>5 DEF ViewOK, PollFails, KeepView
<1>6. CASE TellState \/ TellLoop \/ TellJob
  BY <1>6 DEF ViewOK, TellState, TellLoop, TellJob, Told, Slips, Raise
<1>7. QED
  BY <1>1, <1>2, <1>3, <1>4, <1>5, <1>6 DEF Next, PassStep

\* The comparison remembers what it has compared.
LEMMA MemoryTypes == TypeOK /\ [Next]_vars => MemoryOK'
<1> SUFFICES ASSUME ViewOK, MemoryOK, [Next]_vars PROVE MemoryOK'
  BY Parts
<1>1. CASE UNCHANGED memory
  BY <1>1 DEF MemoryOK, memory
<1>2. CASE TellLoop
  <2>1. state.restarts \in 0..MaxRestarts
    BY <1>2 DEF ViewOK, View, TellLoop
  <2>2. state.restarts \div Every \in 0..MaxRestarts
    BY <2>1, MultipleIsSmall
  <2>3. cl' \in 0..MaxRestarts /\ UNCHANGED <<prev, prevJob>>
    BY <1>2, <2>2 DEF TellLoop, MemoryOK
  <2>4. QED BY <2>3 DEF MemoryOK
<1>3. CASE TellJob
  <2>1. state.state \in State /\ state.job \in Job \union {None}
    BY <1>3 DEF ViewOK, View, TellJob
  <2>2. QED BY <1>3, <2>1 DEF TellJob, Remember, MemoryOK
<1>4. CASE ManagerRestarts
  BY <1>4, MaxRestartsAssumption DEF ManagerRestarts, MemoryOK
<1>5. QED
  BY <1>1, <1>2, <1>3, <1>4 DEF Next, WorldStep, PassStep, ReadEnv, NotListed, ReadUnit,
     KeepView, ReadContainer, TellState, PollFails, PassBreaks, vars

\* What is told is about the view, and is one of the events.
LEMMA HistoryTypes == TypeOK /\ [Next]_vars => HistoryOK'
<1> SUFFICES ASSUME ViewOK, HistoryOK, [Next]_vars PROVE HistoryOK'
  BY Parts
<1>1. CASE UNCHANGED history
  BY <1>1 DEF HistoryOK, history
<1>2. CASE TellState
  <2>1. StateEvent \in {"nothing", "offline", "online"}
    BY DEF StateEvent
  <2>2. QED BY <1>2, <2>1 DEF TellState, Told, Slips, HistoryOK
<1>3. CASE TellLoop
  <2>1. state.restarts \in 0..MaxRestarts
    BY <1>3 DEF ViewOK, View, TellLoop
  <2>2. seen' \in 0..MaxRestarts \union {Unknown}
    BY <1>3, <2>1 DEF TellLoop, Count
  <2>3. QED BY <1>3, <2>2 DEF TellLoop, Told, Slips, HistoryOK
<1>4. CASE TellJob
  <2>1. state.job \in Job \union {None}
    BY <1>4 DEF ViewOK, View, TellJob
  <2>2. QED BY <1>4, <2>1 DEF TellJob, JobEvent, Told, Slips, HistoryOK
<1>5. CASE ManagerRestarts
  BY <1>5, MaxRestartsAssumption DEF ManagerRestarts, HistoryOK
<1>6. QED
  BY <1>1, <1>2, <1>3, <1>4, <1>5 DEF Next, WorldStep, PassStep, ReadEnv, NotListed, ReadUnit,
     KeepView, ReadContainer, PollFails, PassBreaks, vars

\* The variables keep to the values the code gives them.
THEOREM TypeCorrect == Spec => []TypeOK
<1>1. Init => TypeOK
  <2>1. Init => link \in BOOLEAN
    BY DEF Init, WorldInit
  <2>2. Init => WorldOK /\ HistoryOK
    BY <2>1, MaxRestartsAssumption DEF Init, WorldInit, WorldOK, HistoryOK
  <2>3. Init => PassOK /\ ViewOK /\ MemoryOK
    BY MaxRestartsAssumption DEF Init, PassOK, ViewOK, MemoryOK
  <2>4. QED
    BY <2>2, <2>3, Parts
<1>2. TypeOK /\ [Next]_vars => TypeOK'
  <2>1. WorldOK' /\ PassOK' /\ ViewOK' /\ MemoryOK' /\ HistoryOK' => TypeOK'
    BY DEF TypeOK, WorldOK, PassOK, ViewOK, MemoryOK, HistoryOK
  <2>2. QED
    BY <2>1, Parts, WorldTypes, PassTypes, ViewTypes, MemoryTypes, HistoryTypes
<1>3. QED
  BY <1>1, <1>2, PTL DEF Spec

-----------------------------------------------------------------------------
\* A slot that was told online is not one whose last view was offline.
LEMMA ComfortStep ==
    TypeOK /\ NotOffline /\ ToldOfKnown /\ [Next]_vars => NotOffline' /\ ToldOfKnown'
<1> SUFFICES ASSUME TypeOK, NotOffline, ToldOfKnown, [Next]_vars
             PROVE  NotOffline' /\ ToldOfKnown'
  OBVIOUS
<1>1. CASE WorldStep \/ UNCHANGED vars
  BY <1>1 DEF WorldStep, vars, memory, history, NotOffline, ToldOfKnown
<1>2. CASE ReadEnv \/ NotListed \/ ReadUnit \/ PollFails \/ KeepView \/ PassBreaks
  BY <1>2 DEF ReadEnv, NotListed, ReadUnit, PollFails, KeepView, PassBreaks, Raise, memory,
     history, NotOffline, ToldOfKnown
<1>3. ASSUME NEW count \in 0..MaxRestarts, NEW found \in {job, None}, ReadContainer(count, found)
      PROVE  NotOffline' /\ ToldOfKnown'
  BY <1>3 DEF ReadContainer, memory, history, NotOffline, ToldOfKnown
<1>4. CASE TellState
  <2>1. UNCHANGED <<state, prev>> /\ pc = "states"
    BY <1>4 DEF TellState, memory
  <2>2. CASE heard' = "online"
    <3>1. pc' = "loops" /\ (heard = "online" \/ StateEvent = "online")
      BY <1>4, <2>2 DEF TellState, Told, Slips
    <3>2. CASE StateEvent = "online"
      BY <2>1, <3>1, <3>2 DEF StateEvent, InService, NotOffline, ToldOfKnown
    <3>3. CASE heard = "online" /\ StateEvent # "online"
      <4>1. StateEvent = "nothing"
        BY <1>4, <2>2, <3>3 DEF TellState, Told, Slips
      <4>2. QED BY <2>1, <3>1, <3>3, <4>1 DEF StateEvent, NotOffline, ToldOfKnown
    <3>4. QED BY <3>1, <3>2, <3>3
  <2>3. QED BY <2>2 DEF NotOffline, ToldOfKnown
<1>5. CASE TellLoop
  <2>1. UNCHANGED <<state, prev>> /\ pc = "loops"
    BY <1>5 DEF TellLoop
  <2>2. heard' = "online" => heard = "online" /\ pc' = "jobs"
    BY <1>5 DEF TellLoop, Told, Slips
  <2>3. QED BY <2>1, <2>2 DEF NotOffline, ToldOfKnown
<1>6. CASE TellJob
  <2>1. pc = "jobs" /\ state.state # None
    BY <1>6, NoneAssumption DEF TellJob, TypeOK, View, State, InService
  <2>2. heard' = "online" => heard = "online" /\ pc' = "idle" /\ prev' = state.state
    BY <1>6 DEF TellJob, Told, Slips, Remember
  <2>3. QED BY <2>1, <2>2 DEF NotOffline, ToldOfKnown
<1>7. CASE ManagerRestarts
  BY <1>7 DEF ManagerRestarts, NotOffline, ToldOfKnown
<1>8. QED
  BY <1>1, <1>2, <1>3, <1>4, <1>5, <1>6, <1>7 DEF Next, PassStep

\* Unless an emission raised, nobody who follows the events of one process of the
\* manager takes the slot for online when the manager saw it offline last.
THEOREM NoFalseComfortHolds == Spec => []NoFalseComfort
<1>1. Init => NotOffline /\ ToldOfKnown
  BY DEF Init, NotOffline, ToldOfKnown
<1>2. NotOffline => NoFalseComfort
  BY DEF NotOffline, NoFalseComfort
<1>3. QED
  BY <1>1, <1>2, TypeCorrect, ComfortStep, PTL DEF Spec

-----------------------------------------------------------------------------
\* The marker and the count move together, also when the emission raises.
LEMMA MarkStep == TypeOK /\ Marked /\ [Next]_vars => Marked'
<1> SUFFICES ASSUME TypeOK, Marked, [Next]_vars PROVE Marked'
  OBVIOUS
<1>1. CASE UNCHANGED <<cl, seen>>
  BY <1>1 DEF Marked
<1>2. CASE TellLoop
  <2> DEFINE n == state.restarts
  <2>1. n \in 0..MaxRestarts
    BY <1>2 DEF TypeOK, TellLoop, View
  <2>2. CASE LoopIsNews
    BY <1>2, <2>2 DEF TellLoop, Count, Marked
  <2>3. CASE ~LoopIsNews /\ seen \in 0..n
    <3>1. seen \in 0..MaxRestarts /\ seen <= n /\ seen # Unknown
      BY <2>1, <2>3, MaxRestartsAssumption DEF Unknown
    <3>2. seen' = n /\ cl' = cl /\ cl = seen \div Every
      BY <1>2, <2>3, <3>1 DEF TellLoop, Count, Marked
    <3>3. CASE n < Every
      <4>1. seen < Every
        BY <2>1, <3>1, <3>3, EveryAssumption, MaxRestartsAssumption
      <4>2. seen \div Every = 0 /\ n \div Every = 0
        BY <2>1, <3>1, <3>3, <4>1, MultiplesGrow
      <4>3. QED BY <3>2, <4>2 DEF Marked
    <3>4. CASE ~(n < Every)
      <4>1. cl = n \div Every
        BY <2>1, <2>3, <3>4, EveryAssumption, MaxRestartsAssumption DEF LoopIsNews
      <4>2. QED BY <3>2, <4>1 DEF Marked
    <3>5. QED BY <3>3, <3>4
  <2>4. CASE ~LoopIsNews /\ seen \notin 0..n
    BY <1>2, <2>4 DEF TellLoop, Count, Marked
  <2>5. QED BY <2>2, <2>3, <2>4
<1>3. CASE ManagerRestarts
  <2>1. 0 \div Every = 0
    BY EveryAssumption
  <2>2. QED BY <1>3, <2>1 DEF ManagerRestarts, Marked
<1>4. QED
  BY <1>1, <1>2, <1>3 DEF Next, WorldStep, PassStep, ReadEnv, NotListed, ReadUnit, KeepView,
     ReadContainer, TellState, TellJob, PollFails, PassBreaks, vars, memory, history

\* As long as the counts have not gone down since the last report, a view is
\* reported exactly when its count has crossed a multiple since the view before,
\* for every period and count, also when the report raises.
THEOREM CrossingsTold == Spec => []CrossingsAreTold
<1>1. Init => Marked
  <2>1. 0 \div Every = 0
    BY EveryAssumption
  <2>2. QED BY <2>1 DEF Init, Marked
<1>2. TypeOK /\ Marked => CrossingsAreTold
  <2> DEFINE n == state.restarts
  <2> SUFFICES ASSUME TypeOK, Marked, pc = "loops", seen \in 0..n
               PROVE  LoopIsNews <=> n \div Every > seen \div Every
    BY DEF CrossingsAreTold
  <2>1. n \in 0..MaxRestarts
    BY DEF TypeOK, View
  <2>2. seen \in 0..MaxRestarts /\ seen <= n /\ cl = seen \div Every
    BY <2>1, MaxRestartsAssumption DEF Unknown, Marked
  <2>3. /\ seen \div Every \in 0..MaxRestarts /\ n \div Every \in 0..MaxRestarts
        /\ seen \div Every <= n \div Every
        /\ n < Every <=> n \div Every = 0
    BY <2>1, <2>2, MultipleIsSmall, MultiplesGrow
  <2>4. LoopIsNews <=> ~(n < Every) /\ cl # n \div Every
    BY <2>1, EveryAssumption, MaxRestartsAssumption DEF LoopIsNews
  <2> HIDE DEF n
  <2>5. QED BY <2>2, <2>3, <2>4, MaxRestartsAssumption
<1>3. QED
  BY <1>1, <1>2, TypeCorrect, MarkStep, PTL DEF Spec
=============================================================================
