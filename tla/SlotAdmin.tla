----------------------------- MODULE SlotAdmin ------------------------------
(***************************************************************************)
(* What the manager's requests about slots do to the slots of one host     *)
(* (manager/app.py, manager/api.py): "Create runners" lists the slots,     *)
(* chooses free numbers and has the agent make the slots one by one; start *)
(* and create are refused while the disk guard has the host frozen.        *)
(*                                                                         *)
(* A request awaits the agent at each call.  In between, other requests go *)
(* on, the guard samples the disk, and the manager may restart.  What the  *)
(* agent does with one call is the subject of RunnerSlot; here a slot is a *)
(* file and its ENABLED.                                                   *)
(***************************************************************************)
EXTENDS Integers, FiniteSets

CONSTANTS Request,    \* requests that go through the gate, each used again
          MaxSlot,    \* bound: the largest slot number
          MaxCount    \* the most slots of one create, 16 in the code

ASSUME MaxSlotAssumption == MaxSlot \in Nat
ASSUME MaxCountAssumption == MaxCount \in Nat \ {0}

VARIABLES
    frozen,      \* is_frozen(host), of the guard's last sample
    slots, on,   \* the slots with a file, and those with ENABLED=true
    at,          \* where the request waits
    used,        \* used: the numbers slot_create takes for taken
    made,        \* created
    left,        \* slots the loop has still to make
    held,        \* history: slots there since before the request was admitted
    overtaken    \* history: the host froze after the request was admitted

host    == <<slots, on>>
local   == <<at, used, made, left>>
history == <<held, overtaken>>
vars    == <<frozen, host, local, history>>

Slot == 1..MaxSlot

Init ==
    /\ frozen = FALSE /\ slots = {} /\ on = {}
    /\ at = [r \in Request |-> "idle"] /\ left = [r \in Request |-> 0]
    /\ used = [r \in Request |-> {}] /\ made = [r \in Request |-> {}]
    /\ held = [r \in Request |-> {}] /\ overtaken = [r \in Request |-> FALSE]

-----------------------------------------------------------------------------
(* Requests of the web UI that pass the gate.                              *)

Mutant_NoGate(r, place) ==
    /\ at[r] = "idle"
    /\ at' = [at EXCEPT ![r] = place]
    /\ held' = [held EXCEPT ![r] = slots]
    /\ overtaken' = [overtaken EXCEPT ![r] = FALSE]

\* 409 for a frozen host.
Admit(r, place) ==
    /\ at[r] = "idle" /\ ~frozen
    /\ at' = [at EXCEPT ![r] = place]
    /\ held' = [held EXCEPT ![r] = slots]
    /\ overtaken' = [overtaken EXCEPT ![r] = FALSE]

Mutant_Unclamped(count) == count

\* max(1, min(count, 16))
Clamp(count) == IF count < 1 THEN 1 ELSE IF count > MaxCount THEN MaxCount ELSE count

Create(r, count) ==
    /\ Admit(r, "list")
    /\ left' = [left EXCEPT ![r] = Clamp(count)]
    /\ UNCHANGED <<frozen, host, used, made>>

Start(r) ==
    /\ Admit(r, "start")
    /\ UNCHANGED <<frozen, host, used, made, left>>

\* The response is sent, or an error is.
Over(r) ==
    /\ at' = [at EXCEPT ![r] = "idle"] /\ left' = [left EXCEPT ![r] = 0]
    /\ used' = [used EXCEPT ![r] = {}] /\ made' = [made EXCEPT ![r] = {}]
    /\ held' = [held EXCEPT ![r] = {}] /\ overtaken' = [overtaken EXCEPT ![r] = FALSE]

Mutant_ListsEnabledSlots(r) ==
    /\ at[r] = "list" /\ Cardinality(slots) + left[r] <= MaxSlot
    /\ at' = [at EXCEPT ![r] = "make"]
    /\ used' = [used EXCEPT ![r] = on]
    /\ UNCHANGED <<frozen, host, made, left, history>>

\* The agent's GET /state.
List(r) ==
    /\ at[r] = "list" /\ Cardinality(slots) + left[r] <= MaxSlot
    /\ at' = [at EXCEPT ![r] = "make"]
    /\ used' = [used EXCEPT ![r] = slots]
    /\ UNCHANGED <<frozen, host, made, left, history>>

Free(r, n) == n \in Slot \ used[r] /\ \A k \in 1..(n - 1) : k \in used[r]

\* PUT /slots/n for the lowest number not taken.
Make(r, n) ==
    /\ at[r] = "make" /\ Free(r, n)
    /\ slots' = slots \union {n} /\ on' = on \union {n}

Mutant_ForgetsItsNumbers(r, n) ==
    /\ Make(r, n) /\ left[r] > 1
    /\ made' = [made EXCEPT ![r] = made[r] \union {n}]
    /\ left' = [left EXCEPT ![r] = left[r] - 1]
    /\ UNCHANGED <<frozen, at, used, history>>

MakeNext(r, n) ==
    /\ Make(r, n) /\ left[r] > 1
    /\ made' = [made EXCEPT ![r] = made[r] \union {n}]
    /\ used' = [used EXCEPT ![r] = used[r] \union {n}]
    /\ left' = [left EXCEPT ![r] = left[r] - 1]
    /\ UNCHANGED <<frozen, at, history>>

MakeLast(r, n) ==
    /\ Make(r, n) /\ left[r] = 1
    /\ Over(r)
    /\ UNCHANGED frozen

\* AgentError, which nothing catches: the file is written and the unit does
\* not start in time, or nothing was done.  What was made before stays.
MakeFails(r, n) ==
    /\ at[r] = "make"
    /\ Make(r, n) \/ UNCHANGED host
    /\ Over(r)
    /\ UNCHANGED frozen

\* POST /slots/n/start for a slot with a file.
StartTakes(r, n) ==
    /\ at[r] = "start" /\ n \in slots
    /\ on' = on \union {n}
    /\ Over(r)
    /\ UNCHANGED <<frozen, slots>>

\* The agent does not answer, or has no such slot.
GiveUp(r) ==
    /\ at[r] \in {"list", "start"}
    /\ Over(r)
    /\ UNCHANGED <<frozen, host>>

-----------------------------------------------------------------------------
(* Requests that pass no gate.                                             *)

\* POST /api/v1/hosts/h/slots/n/start
ApiStart(n) ==
    /\ n \in slots
    /\ on' = on \union {n}
    /\ UNCHANGED <<frozen, slots, local, history>>

\* An edit keeps ENABLED, true for a slot that is no longer there.
Edit(n) ==
    /\ slots' = slots \union {n}
    /\ on' = IF n \in slots THEN on ELSE on \union {n}
    /\ UNCHANGED <<frozen, local, history>>

\* Stop, or a drain that lands.
Stop(n) ==
    /\ n \in on
    /\ on' = on \ {n}
    /\ UNCHANGED <<frozen, slots, local, history>>

\* The last step of a delete.
Delete(n) ==
    /\ n \in slots
    /\ slots' = slots \ {n} /\ on' = on \ {n}
    /\ held' = [r \in Request |-> held[r] \ {n}]
    /\ UNCHANGED <<frozen, local, overtaken>>

-----------------------------------------------------------------------------
\* The guard notes a sample.
Sample ==
    /\ frozen' \in BOOLEAN
    /\ overtaken' = [r \in Request |-> overtaken[r] \/ (at[r] # "idle" /\ frozen')]
    /\ UNCHANGED <<host, local, held>>

\* The samples and the requests under way are gone.  Before it serves again
\* the manager samples the disk, but it serves also when that fails.
ManagerRestarts ==
    /\ frozen' = FALSE
    /\ at' = [r \in Request |-> "idle"] /\ left' = [r \in Request |-> 0]
    /\ used' = [r \in Request |-> {}] /\ made' = [r \in Request |-> {}]
    /\ held' = [r \in Request |-> {}] /\ overtaken' = [r \in Request |-> FALSE]
    /\ UNCHANGED host

Ungated(n) == ApiStart(n) \/ Edit(n)

Next ==
    \/ \E r \in Request :
          \/ \E count \in 0..(MaxCount + 1) : Create(r, count)
          \/ Start(r) \/ List(r) \/ GiveUp(r)
          \/ \E n \in Slot :
                MakeNext(r, n) \/ MakeLast(r, n) \/ MakeFails(r, n) \/ StartTakes(r, n)
    \/ \E n \in Slot : Ungated(n) \/ Stop(n) \/ Delete(n)
    \/ Sample \/ ManagerRestarts

Spec == Init /\ [][Next]_vars

-----------------------------------------------------------------------------
\* Every variable keeps to the values the code gives it.
TypeOK ==
    /\ frozen \in BOOLEAN /\ slots \subseteq Slot /\ on \subseteq slots
    /\ at \in [Request -> {"idle", "list", "make", "start"}]
    /\ used \in [Request -> SUBSET Slot] /\ made \in [Request -> SUBSET Slot]
    /\ left \in [Request -> 0..MaxCount]
    /\ held \in [Request -> SUBSET slots] /\ overtaken \in [Request -> BOOLEAN]

\* While the guard has the host frozen, a gated request puts a slot in service
\* only if it was admitted before the host froze (slot_action, slot_create).
GateHolds ==
    [][frozen /\ ~(on' \subseteq on) /\ ~(\E n \in Slot : Ungated(n)) =>
          \E r \in Request : at[r] \in {"make", "start"} /\ overtaken[r]]_vars

\* A create leaves alone every slot that was there, enabled or not, when it
\* was admitted and has not been deleted since, however the other requests
\* interleave (slot_create).
CreateSparesOldSlots ==
    [][\A r \in Request : \A n \in Slot : Make(r, n) => n \notin held[r]]_vars

\* A create fills gaps: below a number it has made, every number was taken
\* when it listed the slots or has been made by it (slot_create).
NumbersHaveNoGaps ==
    \A r \in Request : \A n \in made[r] : 1..n \subseteq used[r]

-----------------------------------------------------------------------------
(* What the documentation says and the code does not do.                   *)

\* freeze: "block creating/starting slots on that host until space is freed"
\* (README).
NothingStartsFrozen == [][frozen => on' \subseteq on]_vars
=============================================================================
