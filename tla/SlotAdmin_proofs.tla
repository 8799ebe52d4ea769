-------------------------- MODULE SlotAdmin_proofs ---------------------------
(***************************************************************************)
(* Theorems about SlotAdmin, for every set of requests, every bound on the *)
(* slot numbers and every size of a create.                                *)
(***************************************************************************)
EXTENDS SlotAdmin, TLAPS

USE DEF vars, host, local, history

\* The size of a create is between one and the most there may be (slot_create).
LEMMA ClampInRange == \A count \in 0..(MaxCount + 1) : Clamp(count) \in 1..MaxCount
BY MaxCountAssumption DEF Clamp

\* Every number a create may take is a slot's (slot_create).
LEMMA MadeAreSlots == \A r, n : Make(r, n) => n \in Slot
BY DEF Make, Free

\* The variables keep their types.
THEOREM TypeCorrect == Spec => []TypeOK
<1> USE MaxCountAssumption, MaxSlotAssumption
<1>1. Init => TypeOK
  <2> SUFFICES ASSUME Init PROVE TypeOK
    OBVIOUS
  <2>1. [r \in Request |-> {}] \in [Request -> SUBSET Slot]
    OBVIOUS
  <2>2. [r \in Request |-> {}] \in [Request -> SUBSET slots]
    OBVIOUS
  <2>3. [r \in Request |-> 0] \in [Request -> 0..MaxCount]
    OBVIOUS
  <2> QED
    BY <2>1, <2>2, <2>3 DEF Init, TypeOK
<1>2. TypeOK /\ [Next]_vars => TypeOK'
  <2> SUFFICES ASSUME TypeOK, [Next]_vars PROVE TypeOK'
    OBVIOUS
  <2> USE DEF TypeOK
  <2>1. ASSUME NEW r \in Request, NEW count \in 0..(MaxCount + 1), Create(r, count)
        PROVE  TypeOK'
    BY <2>1, ClampInRange DEF Create, Admit
  <2>2. ASSUME NEW r \in Request, Start(r) \/ List(r) PROVE TypeOK'
    BY <2>2 DEF Start, Admit, List
  <2>3. ASSUME NEW r \in Request, GiveUp(r) PROVE TypeOK'
    BY <2>3 DEF GiveUp, Over
  <2>4. ASSUME NEW r \in Request, NEW n \in Slot, MakeNext(r, n) PROVE TypeOK'
    BY <2>4 DEF MakeNext, Make
  <2>5. ASSUME NEW r \in Request, NEW n \in Slot, MakeLast(r, n) \/ MakeFails(r, n)
        PROVE  TypeOK'
    <3>1. Over(r) /\ frozen' = frozen /\ slots \subseteq slots'
      BY <2>5 DEF MakeLast, MakeFails, Make
    <3>2. slots' \subseteq Slot /\ on' \subseteq slots'
      BY <2>5 DEF MakeLast, MakeFails, Make
    <3>3. held' \in [Request -> SUBSET slots']
      BY <3>1 DEF Over
    <3> QED
      BY <3>1, <3>2, <3>3 DEF Over
  <2>6. ASSUME NEW r \in Request, NEW n \in Slot, StartTakes(r, n) PROVE TypeOK'
    BY <2>6 DEF StartTakes, Over
  <2>7. ASSUME NEW n \in Slot, Ungated(n) \/ Stop(n) \/ Delete(n) PROVE TypeOK'
    BY <2>7 DEF Ungated, ApiStart, Edit, Stop, Delete
  <2>8. CASE Sample
    BY <2>8 DEF Sample
  <2>9. CASE ManagerRestarts
    <3>1. /\ used' \in [Request -> SUBSET Slot] /\ made' \in [Request -> SUBSET Slot]
          /\ left' \in [Request -> 0..MaxCount]
      BY <2>9 DEF ManagerRestarts
    <3>2. slots' = slots /\ on' = on /\ held' \in [Request -> SUBSET slots']
      BY <2>9 DEF ManagerRestarts
    <3> QED
      BY <2>9, <3>1, <3>2 DEF ManagerRestarts
  <2>10. CASE UNCHANGED vars
    BY <2>10
  <2> QED
    BY <2>1, <2>2, <2>3, <2>4, <2>5, <2>6, <2>7, <2>8, <2>9, <2>10 DEF Next
<1> QED
  BY <1>1, <1>2, PTL DEF Spec

-----------------------------------------------------------------------------
(* A request under way on a frozen host was overtaken by the freeze.  What *)
(* a create takes for taken contains the slots that were there before it,  *)
(* and before it has listed them it has made none.                         *)
Overtaken == \A r \in Request : at[r] # "idle" /\ frozen => overtaken[r]
Lists     == \A r \in Request : IF at[r] = "make" THEN held[r] \subseteq used[r]
                                                 ELSE made[r] = {}

AdminInv == TypeOK /\ Overtaken /\ Lists /\ NumbersHaveNoGaps

THEOREM AdminInvariant == Spec => []AdminInv
<1> USE MaxCountAssumption, MaxSlotAssumption
<1>1. Init => Overtaken /\ Lists /\ NumbersHaveNoGaps
  BY DEF Init, Overtaken, Lists, NumbersHaveNoGaps
<1>2. TypeOK /\ TypeOK' /\ Overtaken /\ Lists /\ NumbersHaveNoGaps /\ [Next]_vars
         => (Overtaken /\ Lists /\ NumbersHaveNoGaps)'
  <2> SUFFICES ASSUME TypeOK, TypeOK', Overtaken, Lists, NumbersHaveNoGaps, [Next]_vars
               PROVE  Overtaken' /\ Lists' /\ NumbersHaveNoGaps'
    OBVIOUS
  <2> USE DEF Overtaken, Lists, NumbersHaveNoGaps
  <2>1. ASSUME NEW r \in Request, NEW count \in 0..(MaxCount + 1),
               Create(r, count) \/ Start(r)
        PROVE  Overtaken' /\ Lists' /\ NumbersHaveNoGaps'
    BY <2>1 DEF Create, Start, Admit, TypeOK
  <2>2. ASSUME NEW r \in Request, List(r)
        PROVE  Overtaken' /\ Lists' /\ NumbersHaveNoGaps'
    BY <2>2 DEF List, TypeOK
  <2>3. ASSUME NEW r \in Request, GiveUp(r)
        PROVE  Overtaken' /\ Lists' /\ NumbersHaveNoGaps'
    BY <2>3 DEF GiveUp, Over, TypeOK
  <2>4. ASSUME NEW r \in Request, NEW n \in Slot, MakeNext(r, n)
        PROVE  Overtaken' /\ Lists' /\ NumbersHaveNoGaps'
    <3>1. Overtaken' /\ Lists'
      BY <2>4 DEF MakeNext, Make, TypeOK
    <3>2. 1..n \subseteq used[r] \union {n}
      BY <2>4 DEF MakeNext, Make, Free, Slot
    <3>3. NumbersHaveNoGaps'
      BY <2>4, <3>2 DEF MakeNext, TypeOK
    <3> QED
      BY <3>1, <3>3
  <2>5. ASSUME NEW r \in Request, NEW n \in Slot,
               MakeLast(r, n) \/ MakeFails(r, n) \/ StartTakes(r, n)
        PROVE  Overtaken' /\ Lists' /\ NumbersHaveNoGaps'
    BY <2>5 DEF MakeLast, MakeFails, StartTakes, Over, TypeOK
  <2>6. ASSUME NEW n \in Slot, Ungated(n) \/ Stop(n) \/ Delete(n)
        PROVE  Overtaken' /\ Lists' /\ NumbersHaveNoGaps'
    BY <2>6 DEF Ungated, ApiStart, Edit, Stop, Delete, TypeOK
  <2>7. CASE Sample \/ ManagerRestarts
    BY <2>7 DEF Sample, ManagerRestarts, TypeOK
  <2>8. CASE UNCHANGED vars
    BY <2>8
  <2> QED
    BY <2>1, <2>2, <2>3, <2>4, <2>5, <2>6, <2>7, <2>8 DEF Next
<1> QED
  BY <1>1, <1>2, TypeCorrect, PTL DEF Spec, AdminInv

-----------------------------------------------------------------------------
\* A create fills gaps and counts every slot it makes (slot_create).
THEOREM CreatesFillGaps == Spec => []NumbersHaveNoGaps
<1>1. AdminInv => NumbersHaveNoGaps
  BY DEF AdminInv
<1> QED
  BY <1>1, AdminInvariant, PTL

\* The slots that were there before a create are not touched by it
\* (slot_create).
THEOREM OldSlotsAreSpared == Spec => CreateSparesOldSlots
<1>1. AdminInv /\ [Next]_vars =>
        [\A r \in Request : \A n \in Slot : Make(r, n) => n \notin held[r]]_vars
  BY DEF AdminInv, Lists, Make, Free
<1> QED
  BY <1>1, AdminInvariant, PTL DEF Spec, CreateSparesOldSlots

\* Only requests that the freeze has overtaken get through the gate
\* (slot_action, slot_create).
THEOREM TheGateHolds == Spec => GateHolds
<1> DEFINE Through ==
      frozen /\ ~(on' \subseteq on) /\ ~(\E n \in Slot : Ungated(n)) =>
          \E r \in Request : at[r] \in {"make", "start"} /\ overtaken[r]
<1>1. AdminInv /\ [Next]_vars => [Through]_vars
  <2> SUFFICES ASSUME AdminInv, [Next]_vars, frozen, ~(on' \subseteq on),
                      ~(\E n \in Slot : Ungated(n))
               PROVE  \E r \in Request : at[r] \in {"make", "start"} /\ overtaken[r]
    OBVIOUS
  <2>1. \E r \in Request, n \in Slot :
           MakeNext(r, n) \/ MakeLast(r, n) \/ MakeFails(r, n) \/ StartTakes(r, n)
    BY DEF Next, Create, Start, Admit, List, GiveUp, Stop, Delete, Sample, ManagerRestarts
  <2>2. PICK r \in Request : at[r] \in {"make", "start"}
    BY <2>1 DEF MakeNext, MakeLast, MakeFails, StartTakes, Make
  <2> QED
    BY <2>2 DEF AdminInv, Overtaken
<1> QED
  BY <1>1, AdminInvariant, PTL DEF Spec, GateHolds
=============================================================================
