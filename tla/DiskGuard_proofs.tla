-------------------------- MODULE DiskGuard_proofs ---------------------------
(***************************************************************************)
(* Theorems about DiskGuard, for all watermarks, in any order, and all     *)
(* usages.                                                                 *)
(***************************************************************************)
EXTENDS DiskGuard, TLAPS

USE DEF Level, High, vars, loop

\* What the agent reports is a number.
LEMMA ReportsAreNumbers == \A used \in Usage : Rounded(used) \subseteq Int
BY UsageAssumption, GrainAssumption DEF Rounded

\* Every watermark level is one of the four (level_for).
LEMMA LevelsAreLevels == \A used : LevelFor(used) \in Level
BY DEF LevelFor

\* The variables keep their types.
THEOREM TypeCorrect == Spec => []TypeOK
<1>1. Init => TypeOK
  BY UsageAssumption DEF Init, TypeOK
<1>2. TypeOK /\ [Next]_vars => TypeOK'
  <2> SUFFICES ASSUME TypeOK, [Next]_vars PROVE TypeOK'
    OBVIOUS
  <2> USE DEF TypeOK, PassEnds
  <2>1. CASE UsageChanges
    BY <2>1 DEF UsageChanges
  <2>2. CASE Ask \/ NoAnswer \/ AskPrune \/ PruneReturns
    BY <2>2 DEF Ask, NoAnswer, AskPrune, PruneReturns
  <2>9. CASE Measure
    <3>1. answer' \in Int
      BY <2>9, ReportsAreNumbers DEF Measure
    <3>2. QED
      BY <2>9, <3>1 DEF Measure
  <2>3. CASE Note
    BY <2>3, LevelsAreLevels DEF Note, Tell, Rises
  <2>4. CASE Told
    BY <2>4 DEF Told
  <2>5. CASE NoteBreaks
    BY <2>5, LevelsAreLevels DEF NoteBreaks, Raise
  <2>6. CASE PassBreaks
    BY <2>6 DEF PassBreaks, Raise
  <2>7. CASE ManagerRestarts
    BY <2>7 DEF ManagerRestarts
  <2>8. CASE UNCHANGED vars
    BY <2>8
  <2> QED
    BY <2>1, <2>2, <2>3, <2>4, <2>5, <2>6, <2>7, <2>8, <2>9 DEF Next, PassStep
<1> QED
  BY <1>1, <1>2, PTL DEF Spec

-----------------------------------------------------------------------------
(* A prune is pending exactly from the sample that found the rise to the   *)
(* call, and meanwhile none has been asked for.                            *)
Pending == rise /\ pc \in {"telling", "prune"}

PruneInv ==
    /\ pc = "prune" => rise
    /\ Pending => level \in High /\ tried = "no"
    /\ level \in High /\ tried = "no" => Pending

GuardInv == TypeOK /\ EventsTellTheLevel /\ PruneInv

THEOREM GuardInvariant == Spec => []GuardInv
<1>1. Init => GuardInv
  BY UsageAssumption DEF Init, GuardInv, TypeOK, EventsTellTheLevel, PruneInv, Pending
<1>2. TypeOK /\ TypeOK' /\ GuardInv /\ [Next]_vars => GuardInv'
  <2> SUFFICES ASSUME TypeOK, TypeOK', EventsTellTheLevel, PruneInv, [Next]_vars
               PROVE  EventsTellTheLevel' /\ PruneInv'
    BY DEF GuardInv
  <2> USE DEF EventsTellTheLevel, PruneInv, Pending, PassEnds
  <2>1. CASE UsageChanges
    BY <2>1 DEF UsageChanges
  <2>2. CASE Ask \/ Measure \/ NoAnswer
    BY <2>2 DEF Ask, Measure, NoAnswer
  <2>3. CASE Note
    <3> DEFINE new == LevelFor(answer)
    <3>1. pc = "measured" /\ level' = new /\ new \in Level
      BY <2>3, LevelsAreLevels DEF Note
    <3>2. EventsTellTheLevel'
      BY <2>3, <3>1 DEF Note, Tell, Changes
    <3>3. PruneInv'
      BY <2>3, <3>1 DEF Note, Changes, Rises, TypeOK
    <3> QED
      BY <3>2, <3>3
  <2>4. CASE Told
    BY <2>4 DEF Told
  <2>5. CASE AskPrune
    BY <2>5 DEF AskPrune
  <2>6. CASE PruneReturns
    BY <2>6 DEF PruneReturns
  <2>7. CASE NoteBreaks
    BY <2>7, LevelsAreLevels DEF NoteBreaks, Raise, Changes
  <2>8. CASE PassBreaks
    BY <2>8 DEF PassBreaks, Raise
  <2>9. CASE ManagerRestarts
    BY <2>9 DEF ManagerRestarts
  <2>10. CASE UNCHANGED vars
    BY <2>10
  <2> QED
    BY <2>1, <2>2, <2>3, <2>4, <2>5, <2>6, <2>7, <2>8, <2>9, <2>10 DEF Next, PassStep
<1> QED
  BY <1>1, <1>2, TypeCorrect, PTL DEF Spec, GuardInv

-----------------------------------------------------------------------------
\* Events and level agree after every step, unless the last change was lost: not
\* audited, not stored, or not told to every handler (sample_and_enforce, Hub.emit).
THEOREM EventsAreComplete == Spec => []EventsTellTheLevel
<1>1. GuardInv => EventsTellTheLevel
  BY DEF GuardInv
<1> QED
  BY <1>1, GuardInvariant, PTL

\* No rise goes without a prune, the first sample's included
\* (sample_and_enforce).
THEOREM RisesArePruned == Spec => []HighDiskWasPruned
<1>1. GuardInv => HighDiskWasPruned
  BY DEF GuardInv, PruneInv, Pending, HighDiskWasPruned
<1> QED
  BY <1>1, GuardInvariant, PTL

\* No rise is pruned twice (sample_and_enforce).
THEOREM RisesArePrunedOnce == Spec => PrunesOncePerRise
<1>1. GuardInv /\ [Next]_vars => [AskPrune => tried = "no"]_vars
  BY DEF GuardInv, PruneInv, Pending, AskPrune
<1> QED
  BY <1>1, GuardInvariant, PTL DEF Spec, PrunesOncePerRise
=============================================================================
