--------------------------- MODULE CacheGC_proofs ---------------------------
(***************************************************************************)
(* What TLAPS proves of CacheGC for every set of slots: the types, and     *)
(* that neither the script nor a delete takes a volume from a slot that    *)
(* keeps its file, unless the listing failed to show it, or from under a   *)
(* container.  The invariant behind it is that the slots which had a file  *)
(* all along are on the script's list or were missed by its find.          *)
(***************************************************************************)
EXTENDS CacheGC, TLAPS

\* A delete that goes on keeps to the steps of a delete.
LEMMA GoesOn ==
    ASSUME TypeOK, NEW s \in Slot, NEW from, NEW to \in SUBSET {"volume", "unlink"},
           Goes(s, from, to)
    PROVE  del' \in [Slot -> SUBSET {"volume", "unlink"}]
BY DEF Goes, TypeOK

\* A step of one slot keeps the types: no such step touches the script.
LEMMA SlotTypeStep ==
    ASSUME TypeOK, NEW s \in Slot, SlotStep(s)
    PROVE  TypeOK'
<1> USE DEF TypeOK, Volume, script, history
<1>1. CASE Create(s)
  BY <1>1 DEF Create
<1>2. CASE Finds(s) \/ Starts(s)
  BY <1>2 DEF Finds, Starts
<1>3. CASE Ends(s)
  BY <1>3 DEF Ends
<1>4. CASE Writes(s)
  BY <1>4 DEF Writes
<1>5. CASE Ages(s)
  BY <1>5 DEF Ages
<1>6. CASE ClearCache(s)
  BY <1>6 DEF ClearCache, Cleared
<1>7. CASE DeleteStops(s)
  BY <1>7, GoesOn DEF DeleteStops
<1>8. CASE DeleteRemoves(s)
  BY <1>8, GoesOn DEF DeleteRemoves, RemoveVolume
<1>9. CASE DeleteUnlinks(s)
  BY <1>9, GoesOn DEF DeleteUnlinks
<1>10. CASE DeleteFails(s)
  BY <1>10, GoesOn DEF DeleteFails
<1>11. QED
  BY <1>1, <1>2, <1>3, <1>4, <1>5, <1>6, <1>7, <1>8, <1>9, <1>10 DEF SlotStep

\* So does a step of the script: what it clears is off its list by then.
LEMMA ScriptTypeStep == TypeOK /\ ScriptStep => TypeOK'
<1> SUFFICES ASSUME TypeOK, ScriptStep PROVE TypeOK'
  OBVIOUS
<1> USE DEF TypeOK, Volume, host, history
<1>1. CASE ListSlots
  BY <1>1 DEF ListSlots, ConfiguredSlots
<1>2. CASE ListVolumes
  BY <1>2 DEF ListVolumes, Volumes
<1>3. CASE TimerStarts \/ Done
  BY <1>3 DEF TimerStarts, Done
<1>4. ASSUME NEW s \in Slot, RemoveOrphan(s) PROVE TypeOK'
  BY <1>4 DEF RemoveOrphan, RemoveVolume
<1>5. ASSUME NEW s \in Slot, Examine(s) PROVE TypeOK'
  BY <1>5 DEF Examine
<1>6. ASSUME NEW s \in Slot, ClearIdle(s) PROVE TypeOK'
  BY <1>6 DEF ClearIdle, Cleared
<1>7. QED BY <1>1, <1>2, <1>3, <1>4, <1>5, <1>6 DEF ScriptStep

\* The variables keep to their values for every set of slots, and a slot that
\* had a file ever since the script listed them is on its list or was missed by
\* a find that failed.
THEOREM TypeCorrect == Spec => []TypeOK
<1>1. Init => TypeOK
  BY DEF Init, TypeOK, Volume
<1>2. TypeOK /\ [Next]_vars => TypeOK'
  <2> SUFFICES ASSUME TypeOK, [Next]_vars PROVE TypeOK'
    OBVIOUS
  <2>1. CASE Crash
    BY <2>1 DEF Crash, TypeOK
  <2>2. CASE UNCHANGED vars
    BY <2>2 DEF vars, host, script, history, TypeOK
  <2>3. QED BY <2>1, <2>2, SlotTypeStep, ScriptTypeStep DEF Next
<1>3. QED BY <1>1, <1>2, PTL DEF Spec

-----------------------------------------------------------------------------
\* The slot s may lose its volume: it has no container, and is being deleted, has
\* had no file at some time since the script listed the slots, or was missed.
MayLose(s) == s \notin up' /\ ("volume" \in del[s] \/ s \notin steady \/ s \in missed)

\* Of all steps two can take a volume away, and both ask podman.
LEMMA OnlyTwoRemove ==
    ASSUME TypeOK, [Next]_vars, NEW s \in Slot, vol[s] # "none", vol'[s] = "none"
    PROVE  DeleteRemoves(s) \/ RemoveOrphan(s)
<1> USE DEF TypeOK, Volume
<1>1. ASSUME NEW t \in Slot, SlotStep(t) PROVE DeleteRemoves(s)
  BY <1>1 DEF SlotStep, Create, Finds, Starts, Ends, Writes, Ages, ClearCache, Cleared,
              DeleteStops, DeleteRemoves, RemoveVolume, DeleteUnlinks, DeleteFails
<1>2. CASE ScriptStep
  BY <1>2 DEF ScriptStep, TimerStarts, ListSlots, ListVolumes, Done, Examine, ClearIdle, Cleared,
              RemoveOrphan, RemoveVolume, host
<1>3. CASE Crash \/ UNCHANGED vars
  BY <1>3 DEF Crash, vars, host
<1>4. QED BY <1>1, <1>2, <1>3 DEF Next

\* However slots come and go behind the script's lists, a slot that keeps its
\* file keeps its volume, unless the listing failed to show that file, and no
\* volume goes from under a container.
THEOREM VolumesAreKept == Spec => SlotsKeepTheirVolumes
<1> DEFINE Kept == \A s \in Slot : vol[s] # "none" /\ vol'[s] = "none" => MayLose(s)
<1>1. TypeOK /\ [Next]_vars => [Kept]_vars
  <2> SUFFICES ASSUME TypeOK, [Next]_vars, NEW s \in Slot,
                      vol[s] # "none", vol'[s] = "none"
               PROVE  MayLose(s)
    OBVIOUS
  <2>1. CASE DeleteRemoves(s)
    BY <2>1 DEF DeleteRemoves, RemoveVolume, Goes, MayLose, TypeOK
  <2>2. CASE RemoveOrphan(s)
    BY <2>2 DEF RemoveOrphan, RemoveVolume, MayLose, TypeOK
  <2>3. QED BY <2>1, <2>2, OnlyTwoRemove
<1>2. QED BY <1>1, TypeCorrect, PTL DEF Spec, SlotsKeepTheirVolumes, MayLose
=============================================================================
