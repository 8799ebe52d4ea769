----------------------------- MODULE SlotEvents -----------------------------
(***************************************************************************)
(* What the manager reports about one slot (manager/fleet.py): it polls a  *)
(* view of the slot, keeps the last one, and compares each view with what  *)
(* it remembers to tell slot.offline, slot.online, slot.crashloop,         *)
(* job.started and job.finished.                                           *)
(*                                                                         *)
(* The agent puts a view together from the slot's file, systemd and podman *)
(* (agent/app.py), one after the other, while the slot goes on, and takes  *)
(* what a failing command printed for its answer.  A poll that fails as a  *)
(* whole leaves the last view in place, and it is compared again.  An      *)
(* emission may raise and end the pass, or the loop; what is told by then  *)
(* stays told.                                                             *)
(***************************************************************************)
EXTENDS Integers, SlotWorld   \* with the jobs, and None for no view, too

CONSTANTS TrackJobs,    \* [events] track_jobs
          Every,        \* a crash loop is reported at its multiples, 20 in the code
          MaxRestarts   \* bound: the largest count of restarts

ASSUME NoneAssumption ==
    None \notin Job \union {"idle", "running", "restarting", "parked", "offline"}
ASSUME TrackJobsAssumption == TrackJobs \in BOOLEAN
ASSUME EveryAssumption == Every \in Nat \ {0}
ASSUME MaxRestartsAssumption == MaxRestarts \in Nat

VARIABLES
    pc,                     \* the pass: what it awaits next
    envRead, unitRead,      \* slot_view's locals
    state,                  \* the slot's view in FLEET
    prev, cl, prevJob,      \* _slot_states: n, cl<n> and job<n>
    heard, heardJob,        \* history: what the events said of slot and job last,
                            \* lost once an emission about the slot has raised
    seen                    \* history: restarts of the view that was compared last

locals  == <<envRead, unitRead>>
memory  == <<prev, cl, prevJob>>
history == <<heard, heardJob, seen>>
vars    == <<world, pc, locals, state, memory, history>>

InService == {"idle", "running"}
State == InService \union {"restarting", "parked", "offline"}
View  == [state : State, restarts : 0..MaxRestarts, job : Job \union {None}]

Init ==
    /\ WorldInit
    /\ pc = "idle" /\ envRead = None /\ unitRead = None
    /\ state = None /\ prev = None /\ cl = 0 /\ prevJob = None
    /\ heard = "nothing" /\ heardJob = None /\ seen = 0

-----------------------------------------------------------------------------
\* The slot goes on, whoever looks at it.
WorldStep == WorldNext /\ UNCHANGED <<pc, locals, state, memory, history>>

-----------------------------------------------------------------------------
(* The poll: slot_view on the host.                                        *)

NoLocals == envRead' = None /\ unitRead' = None

ReadEnv ==
    /\ pc = "idle" /\ env # "none"
    /\ pc' = "unit" /\ envRead' = env
    /\ UNCHANGED <<world, unitRead, state, memory, history>>

\* A slot without a file is in no answer.
NotListed ==
    /\ pc = "idle" /\ env = "none"
    /\ state' = None
    /\ UNCHANGED <<world, pc, locals, memory, history>>

Mutant_ReadsUnitFileOnly(e, u, l) ==
    IF u = "down" THEN IF ~l THEN "parked" ELSE "offline"
    ELSE IF u = "active" THEN "active" ELSE "restarting"

\* drained and stopped are one here.
OfUnit(e, u, l) ==
    IF u = "down" THEN IF ~l /\ e = "false" THEN "parked" ELSE "offline"
    ELSE IF u = "active" THEN "active" ELSE "restarting"

\* systemctl show.  One that fails prints no property: the slot is offline then.
ReadUnit ==
    /\ pc = "unit"
    /\ pc' = "container"
    /\ unitRead' \in {OfUnit(envRead, unit, link), "offline"} /\ envRead' = None
    /\ UNCHANGED <<world, state, memory, history>>

Mutant_ActiveStateAsItIs(u, j) == IF u = "active" /\ j # None THEN "running" ELSE u

StateOf(u, j) == IF u # "active" THEN u ELSE IF j = None THEN "idle" ELSE "running"

\* podman inspect and logs, no job when one of them fails; the answer goes out
\* and the manager keeps it.  count is NRestarts, which grows with every restart,
\* starts anew when somebody starts the unit and reads 0 when systemctl fails:
\* between two polls it may come to any value.
ReadContainer(count, found) ==
    /\ pc = "container" /\ found \in {job, None}
    /\ pc' = "states"
    /\ state' = [state |-> StateOf(unitRead, found), restarts |-> count, job |-> found]
    /\ NoLocals
    /\ UNCHANGED <<world, memory, history>>

\* AgentError, and the other hosts are polled.
PollFails ==
    /\ pc \in {"idle", "unit", "container"}
    /\ pc' = "failed"
    /\ NoLocals
    /\ UNCHANGED <<world, state, memory, history>>

\* The view before is still there, if there is one.
KeepView ==
    /\ pc = "failed"
    /\ pc' = IF state = None THEN "idle" ELSE "states"
    /\ UNCHANGED <<world, locals, state, memory, history>>

-----------------------------------------------------------------------------
(* The comparison, with an await wherever something is told.               *)

\* An exception leaves reconcile.  The loop audits it, and ends for good if that
\* raises too.
Raise == pc' \in {"idle", "dead"}

\* The emission returns, or there was nothing to tell.
Told(next, said, saidJob) ==
    /\ pc' = next
    /\ IF heard = "lost" THEN UNCHANGED <<heard, heardJob>>
       ELSE heard' = said /\ heardJob' = saidJob

\* It raises: a handler failed and so did its audit.
Slips == Raise /\ heard' = "lost" /\ heardJob' = None

Mutant_OfflineFromServiceOnly ==
    IF prev \in InService /\ state.state = "offline" THEN "offline"
    ELSE IF prev = "offline" /\ state.state \in InService THEN "online"
    ELSE "nothing"

StateEvent ==
    IF prev = None \/ prev = state.state THEN "nothing"
    ELSE IF state.state = "offline" THEN "offline"
    ELSE IF prev = "offline" /\ state.state \in InService THEN "online"
    ELSE "nothing"

TellState ==
    /\ pc = "states"
    /\ \/ Told("loops", IF StateEvent = "nothing" THEN heard ELSE StateEvent, heardJob)
       \/ StateEvent # "nothing" /\ Slips
    /\ UNCHANGED <<world, locals, state, memory, seen>>

LoopIsNews == state.restarts >= Every /\ cl # state.restarts \div Every

Unknown == -1

\* The count of the view is now the one that was compared last; unknown after
\* it has gone down, until the next report.
Count == seen' = IF LoopIsNews \/ seen \in 0..state.restarts THEN state.restarts ELSE Unknown

Mutant_MarksAfterTelling ==
    /\ pc = "loops"
    /\ Count
    /\ \/ Told("jobs", heard, heardJob)
          /\ cl' = IF LoopIsNews THEN state.restarts \div Every ELSE cl
       \/ LoopIsNews /\ Slips /\ UNCHANGED cl
    /\ UNCHANGED <<world, locals, state, prev, prevJob>>

TellLoop ==
    /\ pc = "loops"
    /\ Count
    /\ cl' = IF LoopIsNews THEN state.restarts \div Every ELSE cl
    /\ Told("jobs", heard, heardJob) \/ (LoopIsNews /\ Slips)
    /\ UNCHANGED <<world, locals, state, prev, prevJob>>

JobIsNews == TrackJobs /\ state.job # prevJob

Mutant_OneEventPerPoll == IF prevJob # None THEN None ELSE state.job

\* job.started of the view's job, whatever ran before, or job.finished.
JobEvent == state.job

\* The job is remembered only with track_jobs, the state always.
Remember == prev' = state.state /\ prevJob' = IF JobIsNews THEN state.job ELSE prevJob

TellJob ==
    /\ pc = "jobs"
    /\ \/ Told("idle", heard, IF JobIsNews THEN JobEvent ELSE heardJob) /\ Remember
       \/ JobIsNews /\ Slips /\ UNCHANGED <<prev, prevJob>>
    /\ UNCHANGED <<world, locals, state, cl, seen>>

\* An answer that is no JSON, or what another slot or host has to tell raises.
PassBreaks ==
    /\ pc \in {"idle", "unit", "container", "failed", "states"} /\ Raise
    /\ NoLocals
    /\ UNCHANGED <<world, state, memory, history>>

\* FLEET is memory.  The events of the process before are not counted.
ManagerRestarts ==
    /\ pc' = "idle" /\ NoLocals
    /\ state' = None /\ prev' = None /\ cl' = 0 /\ prevJob' = None
    /\ heard' = "nothing" /\ heardJob' = None /\ seen' = 0
    /\ UNCHANGED world

PassStep ==
    \/ ReadEnv \/ NotListed \/ ReadUnit \/ KeepView
    \/ \E count \in 0..MaxRestarts, found \in {job, None} : ReadContainer(count, found)
    \/ TellState \/ TellLoop \/ TellJob

Next == WorldStep \/ PassStep \/ PollFails \/ PassBreaks \/ ManagerRestarts

Spec == Init /\ [][Next]_vars

(* The loop of background.py goes on, and the agent does.                  *)
FairSpec == Spec /\ WF_vars(PassStep)

-----------------------------------------------------------------------------
\* Every variable keeps to the values the code gives it.
TypeOK ==
    /\ env \in {"none", "true", "false"} /\ link \in BOOLEAN
    /\ unit \in {"active", "activating", "down"}
    /\ job \in Job \union {None}
    /\ pc \in {"idle", "unit", "container", "failed", "states", "loops", "jobs", "dead"}
    /\ envRead \in {None, "true", "false"}
    /\ unitRead \in {None, "active", "restarting", "parked", "offline"}
    /\ (pc = "container" => unitRead \in {"active", "restarting", "parked", "offline"})
    /\ state \in View \union {None} /\ (pc \in {"states", "loops", "jobs"} => state \in View)
    /\ prev \in State \union {None} /\ cl \in 0..MaxRestarts /\ prevJob \in Job \union {None}
    /\ heard \in {"nothing", "offline", "online", "lost"} /\ heardJob \in Job \union {None}
    /\ seen \in 0..MaxRestarts \union {Unknown}

\* Unless an emission raised, nobody who follows the events of one process of the
\* manager takes the slot for online when the manager saw it offline last: views
\* that were compared twice, polls that failed and passes that others broke do
\* not lose slot.offline (reconcile, step 3).  What happened to the slot while
\* the manager was restarted is told by no event at all.
NoFalseComfort == heard = "online" /\ pc \notin {"loops", "jobs"} => prev # "offline"

\* As long as the polled counts have not gone down since the last report, a view
\* is reported exactly when its count has crossed a multiple of Every since the
\* view before, even if an emission raised or polls failed (reconcile, step 3).
\* Once they have gone down nothing of the kind holds: see the README.
CrossingsAreTold ==
    pc = "loops" /\ seen \in 0..state.restarts =>
        (LoopIsNews <=> state.restarts \div Every > seen \div Every)

\* What the slot is, at one instant.
IsNow(s) ==
    CASE s = "running"    -> unit = "active" /\ job # None
      [] s = "idle"       -> unit = "active" /\ job = None
      [] s = "restarting" -> unit = "activating"
      [] s = "parked"     -> unit = "down" /\ ~link /\ env = "false"
      [] s = "offline"    -> unit = "down" /\ (link \/ env = "true")

\* A command of the agent fails, and the view shows what is not the case.
Misreads ==
    \/ pc = "unit" /\ pc' = "container" /\ unitRead' # OfUnit(envRead, unit, link)
    \/ pc = "container" /\ pc' = "states" /\ state'.job # job

Raises ==
    \/ pc \in {"unit", "container", "states", "loops"} /\ pc' \in {"idle", "dead"}
    \/ pc = "jobs" /\ (pc' = "dead" \/ prev' # state.state)

\* From some time on no poll and no command of it fails, nothing raises, the
\* manager is not restarted, and the loop has not died before.
Settles ==
    /\ <>[][~(Misreads \/ Raises \/ ManagerRestarts)]_vars
    /\ <>[](pc \notin {"failed", "dead"})

\* The slot is left as it is.
Rests == <>[][FALSE]_world /\ <>[](env # "none")

\* The agent's reads are of different moments, and a view may show what the
\* slot never was; but once the slot stays as it is, the manager shows it and
\* compares the next view with it (slot_view, reconcile).
ShownStateSettles ==
    Settles /\ Rests => <>[](state # None /\ IsNow(state.state) /\ prev = state.state)

\* Unless an emission has raised, the job that the events of this process leave
\* running is in the end the one that runs in the container, whatever was seen
\* too late, misread or not seen at all before (container_status, reconcile).
JobEventsSettle ==
    TrackJobs /\ Settles /\ Rests /\ <>[](heard # "lost") => <>[](heardJob = job)
=============================================================================
