----------------------------- MODULE RunnerSlot -----------------------------
(***************************************************************************)
(* One runner slot of one host: the slot's files, the systemd unit         *)
(* sp-runner@<n>, the scripts the unit runs, the job container and the     *)
(* requests the agent handles concurrently (agent/app.py).                 *)
(*                                                                         *)
(* The agent is one asyncio process: two handlers interleave only where    *)
(* one of them awaits.  The scripts, systemd and the host interleave with  *)
(* it everywhere.  Every operation on a file is a step of its own.         *)
(* Commands fail: where the code looks at the exit status the request ends *)
(* with an error, where it does not the next statement runs all the same.  *)
(***************************************************************************)
EXTENDS FiniteSets

CONSTANTS Request,       \* identifiers of concurrently handled agent requests
          Prestart       \* the prestart script, as an actor of the history

ASSUME PrestartAssumption == Prestart \notin Request

VARIABLES
    hostUp,      \* the host has power
    env,         \* ENABLED in slot-<n>.env, "none" when there is no file
    marker,      \* slot-<n>.drain exists
    enabled,     \* the unit is enabled: default.target starts it at boot
    unit,        \* what systemd does with the unit
    job,         \* the job of systemd that clients wait for
    pre,         \* next statement of sp-runner-prestart
    drainExit,   \* the last prestart ended with exit status 69
    container,   \* the container sp-runner-<n>
    op, pc,      \* the operation and the next step of each request
    calm,        \* history: actors that take the slot out of service, with no
                 \* request for service during it and no command failing so far
    settled,     \* history: how the slot was last taken out of service
    left         \* history: the unit has gone on without its container, which
                 \* podman rm -f has failed to remove

files    == <<env, marker, enabled>>
systemd  == <<unit, job, pre, drainExit>>
handlers == <<op, pc>>
history  == <<calm, settled>>
runner   == <<container, left>>
vars     == <<hostUp, files, systemd, runner, handlers, history>>

EnvValue  == {"none", "true", "false"}
UnitState == {"inactive", "prestart", "running", "stop", "post", "autorestart"}
Job       == {"none", "start", "stop"}
PreStep   == {"none", "check", "rm", "disable", "sed", "exit", "mint"}
Container == {"none", "config", "idle", "job"}
Op        == {"none", "start", "stop", "restart", "drain",
              "edit", "editOn", "editOff", "delete"}
Step      == {"idle", "write", "unlink", "reload", "enable", "disable",
              "submit", "wait", "rm", "unenv", "unmark"}

Init ==
    /\ hostUp = TRUE
    /\ env = "none" /\ marker = FALSE /\ enabled = FALSE
    /\ unit = "inactive" /\ job = "none" /\ pre = "none" /\ drainExit = FALSE
    /\ container = "none" /\ left = FALSE
    /\ op = [r \in Request |-> "none"] /\ pc = [r \in Request |-> "idle"]
    /\ calm = {} /\ settled = "deleted"

-----------------------------------------------------------------------------
(* The container and the runner in it.                                     *)

\* The container is no more.
Gone == container' = "none" /\ left' = FALSE

\* Where it may also live on, because podman rm -f fails.
MaybeGone == Gone \/ UNCHANGED runner

\* config.sh registers the runner; run.sh listens for a job.
Register ==
    /\ container = "config"
    /\ container' = "idle"
    /\ UNCHANGED <<left, hostUp, files, systemd, handlers, history>>

\* config.sh fails: bad token, GitHub unreachable.
ConfigFails ==
    /\ container = "config"
    /\ Gone
    /\ UNCHANGED <<hostUp, files, systemd, handlers, history>>

\* GitHub assigns a job to the listening runner.
TakeJob ==
    /\ container = "idle"
    /\ container' = "job"
    /\ UNCHANGED <<left, hostUp, files, systemd, handlers, history>>

\* --ephemeral: the runner exits after one job and GitHub drops it.
FinishJob ==
    /\ container = "job"
    /\ Gone
    /\ UNCHANGED <<hostUp, files, systemd, handlers, history>>

\* The container is killed (OOM, podman rm by hand).
ContainerDies ==
    /\ container # "none"
    /\ Gone
    /\ UNCHANGED <<hostUp, files, systemd, handlers, history>>

-----------------------------------------------------------------------------
(* systemd and the unit sp-runner@<n>.                                     *)

BeginPrestart == unit' = "prestart" /\ pre' = "check"

\* RestartSec is over.
RestartTimer ==
    /\ unit = "autorestart"
    /\ BeginPrestart
    /\ UNCHANGED <<hostUp, files, job, drainExit, runner, handlers, history>>

\* podman run returns: the container is gone.
MainExits ==
    /\ unit = "running" /\ container = "none"
    /\ unit' = "post"
    /\ UNCHANGED <<hostUp, files, job, pre, drainExit, runner, handlers, history>>

\* The podman client is killed and leaves its container behind.
ClientDies ==
    /\ unit = "running" /\ container # "none"
    /\ unit' = "post"
    /\ UNCHANGED <<hostUp, files, job, pre, drainExit, runner, handlers, history>>

\* ExecStop, sp-runner-stop: SIGINT, up to 30 s of patience, then rm -f.
ExecStop ==
    /\ unit = "stop"
    /\ unit' = "post" /\ MaybeGone
    /\ UNCHANGED <<hostUp, files, job, pre, drainExit, handlers, history>>

\* ExecStopPost: podman rm -f; systemd ignores its failure.
ExecStopPost ==
    /\ unit = "post" /\ container # "none"
    /\ \/ Gone
       \/ ~left /\ left' = TRUE /\ UNCHANGED container
    /\ UNCHANGED <<hostUp, files, systemd, handlers, history>>

Mutant_NoExecStopPost == TRUE

\* ExecStopPost has run, with or without success.
PostIsOver == container = "none" \/ left

Mutant_FailedIsAState ==
    IF drainExit THEN "failed" ELSE IF job = "stop" THEN "inactive" ELSE "autorestart"
Mutant_RestartsAfterStop == "autorestart"
Mutant_NeverRestarts == "inactive"

\* Restart=always, except after a stop.  RestartPreventExitStatus=69 is about
\* the main process, which a unit that fails in ExecStartPre does not have.
AfterPost == IF job = "stop" THEN "inactive" ELSE "autorestart"

\* The unit is down; a start that waits in the queue brings it up again.
UnitStops ==
    /\ unit = "post" /\ PostIsOver
    /\ job' = "none" /\ drainExit' = FALSE
    /\ IF job = "start"
         THEN BeginPrestart /\ UNCHANGED settled
         ELSE /\ unit' = AfterPost /\ UNCHANGED pre
              /\ settled' = IF drainExit /\ Prestart \in calm THEN "drained"
                                                              ELSE settled
    /\ UNCHANGED <<hostUp, files, runner, handlers, calm>>

\* systemctl start: joins a start under way, waits for a stop or a timer.
StartJob ==
    \/ unit = "inactive" /\ BeginPrestart /\ job' = "start"
    \/ unit = "running" /\ UNCHANGED <<unit, pre, job>>
    \/ unit \notin {"inactive", "running"} /\ job' = "start" /\ UNCHANGED <<unit, pre>>

\* systemctl stop: replaces a queued start, cancels the restart timer.
StopJob ==
    \/ unit = "inactive" /\ UNCHANGED <<unit, pre, job>>
    \/ unit = "autorestart" /\ unit' = "inactive" /\ job' = "none" /\ UNCHANGED pre
    \/ unit = "prestart" /\ unit' = "post" /\ pre' = "none" /\ job' = "stop"
    \/ unit = "running" /\ unit' = "stop" /\ job' = "stop" /\ UNCHANGED pre
    \/ unit \in {"stop", "post"} /\ job' = "stop" /\ UNCHANGED <<unit, pre>>

\* systemctl restart: a stop with a start behind it.
RestartJob ==
    /\ job' = "start"
    /\ \/ unit \in {"inactive", "autorestart"} /\ BeginPrestart
       \/ unit = "prestart" /\ unit' = "post" /\ pre' = "none"
       \/ unit = "running" /\ unit' = "stop" /\ UNCHANGED pre
       \/ unit \in {"stop", "post"} /\ UNCHANGED <<unit, pre>>

-----------------------------------------------------------------------------
(* sp-runner-prestart.                                                     *)

\* Some request in flight asks for the slot to be in service.
Asking == \E r \in Request : op[r] \in {"start", "restart", "editOn"}

\* The script exits; with it ends the start job that waited for it.
PreEnds(drained) ==
    /\ pre' = "none" /\ unit' = "post" /\ job' = "none"
    /\ drainExit' = drained

Mutant_MarkerTestedLast == marker /\ env = "none"

\* The first test of the script.
FindsMarker == marker

PreCheck ==
    /\ pre = "check"
    /\ \/ /\ FindsMarker
          /\ pre' = "rm"
          /\ calm' = IF Asking THEN calm \ {Prestart} ELSE calm \union {Prestart}
          /\ UNCHANGED <<unit, job, drainExit>>
       \/ /\ ~FindsMarker /\ env # "none"
          /\ pre' = "mint"
          /\ UNCHANGED <<unit, job, drainExit, calm>>
       \/ ~FindsMarker /\ env = "none" /\ PreEnds(FALSE) /\ UNCHANGED calm
    /\ UNCHANGED <<hostUp, files, runner, handlers, settled>>

PreRm ==
    /\ pre = "rm"
    /\ marker' = FALSE /\ pre' = "disable"
    /\ UNCHANGED <<hostUp, env, enabled, unit, job, drainExit, runner, handlers, history>>

\* History: a command of a fails and nobody looks at its exit status.
Slip(a) == calm' = calm \ {a} /\ UNCHANGED settled

Mutant_DrainKeepsUnitEnabled ==
    /\ pre = "disable"
    /\ pre' = "sed"
    /\ UNCHANGED <<hostUp, files, unit, job, drainExit, runner, handlers, history>>

\* systemctl disable || true
PreDisable ==
    /\ pre = "disable"
    /\ pre' = "sed"
    /\ \/ enabled' = FALSE /\ UNCHANGED history
       \/ Slip(Prestart) /\ UNCHANGED enabled
    /\ UNCHANGED <<hostUp, env, marker, unit, job, drainExit, runner, handlers>>

\* sed -i || true on the file, where there is one.
PreSed ==
    /\ pre = "sed"
    /\ pre' = "exit"
    /\ \/ env' = (IF env = "none" THEN "none" ELSE "false") /\ UNCHANGED history
       \/ env # "none" /\ Slip(Prestart) /\ UNCHANGED env
    /\ UNCHANGED <<hostUp, marker, enabled, unit, job, drainExit, runner, handlers>>

PreExit ==
    /\ pre = "exit"
    /\ PreEnds(TRUE)
    /\ UNCHANGED <<hostUp, files, runner, handlers, history>>

\* The manager or GitHub gives no token within 30 s.
MintFails ==
    /\ pre = "mint"
    /\ PreEnds(FALSE)
    /\ UNCHANGED <<hostUp, files, runner, handlers, history>>

\* With the token the script is done and ExecStart begins, sp-runner-run: it
\* removes a container that is left, and runs the new one or fails over the name.
MintSucceeds ==
    /\ pre = "mint"
    /\ pre' = "none" /\ job' = "none"
    /\ \/ unit' = "running" /\ container' = "config" /\ left' = FALSE
       \/ container # "none" /\ unit' = "post" /\ UNCHANGED runner
    /\ UNCHANGED <<hostUp, files, drainExit, handlers, history>>

-----------------------------------------------------------------------------
(* The requests the agent handles.                                         *)

\* r is inside a stretch of code without an await.
Mid(r) == pc[r] \in {"write", "unlink", "unmark"}

\* The event loop may run r.
Runs(r) == hostUp /\ \A s \in Request \ {r} : ~Mid(s)

Begin(r, o, step) ==
    /\ Runs(r) /\ pc[r] = "idle"
    /\ op' = [op EXCEPT ![r] = o] /\ pc' = [pc EXCEPT ![r] = step]

Goto(r, step) == pc' = [pc EXCEPT ![r] = step] /\ UNCHANGED op

Finish(r) ==
    /\ op' = [op EXCEPT ![r] = "none"] /\ pc' = [pc EXCEPT ![r] = "idle"]
    /\ calm' = calm \ {r}

\* History: r asks for service, which ends every earlier promise.
Ask == calm' = {} /\ settled' = "no"

\* History: r takes the slot out of service.
Retire(r) == calm' = IF Asking THEN calm ELSE calm \union {r}

BeginStart(r) ==
    /\ env # "none"
    /\ Begin(r, "start", "write") /\ Ask
    /\ UNCHANGED <<hostUp, files, systemd, runner>>

BeginStop(r) ==
    /\ env # "none"
    /\ Begin(r, "stop", "write") /\ Retire(r)
    /\ UNCHANGED <<hostUp, files, systemd, runner, settled>>

\* restart touches neither ENABLED nor the marker.
BeginRestart(r) ==
    /\ env # "none"
    /\ Begin(r, "restart", "submit") /\ Ask
    /\ UNCHANGED <<hostUp, files, systemd, runner>>

\* drain only leaves the marker behind.
Drain(r) ==
    /\ Runs(r) /\ pc[r] = "idle" /\ env # "none"
    /\ marker' = TRUE
    /\ UNCHANGED <<hostUp, env, enabled, systemd, runner, handlers, history>>

\* PUT of a slot: created with enabled=true, whatever file there is already,
\* or edited with ENABLED as it is.
BeginUpsert(r) ==
    /\ \/ Begin(r, "editOn", "write") /\ Ask
       \/ env = "false" /\ Begin(r, "editOff", "write") /\ UNCHANGED history
    /\ UNCHANGED <<hostUp, files, systemd, runner>>

BeginDelete(r) ==
    /\ Begin(r, "delete", "disable") /\ Retire(r)
    /\ UNCHANGED <<hostUp, files, systemd, runner, settled>>

\* write_slot_env.
Write(r) ==
    /\ Runs(r) /\ pc[r] = "write"
    /\ env' = IF op[r] \in {"start", "editOn"} THEN "true" ELSE "false"
    /\ Goto(r, CASE op[r] = "start" -> "unlink"
                 [] op[r] = "stop"  -> "disable"
                 [] OTHER           -> "reload")
    /\ UNCHANGED <<hostUp, marker, enabled, systemd, runner, history>>

\* start removes the marker.
Unlink(r) ==
    /\ Runs(r) /\ pc[r] = "unlink"
    /\ marker' = FALSE
    /\ Goto(r, "enable")
    /\ UNCHANGED <<hostUp, env, enabled, systemd, runner, history>>

\* daemon-reload returns; an enabled slot loses its marker too.
Reload(r) ==
    /\ Runs(r) /\ pc[r] = "reload"
    /\ \/ op[r] = "editOn" /\ marker' = FALSE /\ Goto(r, "enable") /\ UNCHANGED calm
       \/ op[r] = "editOff" /\ Finish(r) /\ UNCHANGED marker
    /\ UNCHANGED <<hostUp, env, enabled, systemd, runner, settled>>

\* systemctl enable --now, first half; its failure ends the request (Timeout).
Enable(r) ==
    /\ pc[r] = "enable"
    /\ enabled' = TRUE
    /\ Goto(r, "submit")
    /\ UNCHANGED <<hostUp, env, marker, systemd, runner, history>>

\* systemctl disable --now, first half.
Disable(r) ==
    /\ pc[r] = "disable"
    /\ enabled' = FALSE
    /\ Goto(r, "submit")
    /\ UNCHANGED <<hostUp, env, marker, systemd, runner, history>>

\* The second half, or systemctl restart: the job is queued.
Submit(r) ==
    /\ pc[r] = "submit"
    /\ \/ op[r] \in {"start", "editOn"} /\ StartJob
       \/ op[r] \in {"stop", "delete"} /\ StopJob
       \/ op[r] = "restart" /\ RestartJob
    /\ Goto(r, "wait")
    /\ UNCHANGED <<hostUp, files, drainExit, runner, history>>

Mutant_IgnoresStopJob(r) ==
    /\ Runs(r) /\ pc[r] = "wait"
    /\ IF op[r] = "delete" THEN Goto(r, "rm") /\ UNCHANGED history
       ELSE /\ Finish(r)
            /\ settled' = IF op[r] = "stop" /\ r \in calm THEN "stopped" ELSE settled
    /\ UNCHANGED <<hostUp, files, systemd, runner>>

\* systemctl returns: its job is done, has failed or was replaced.
JobReturns(r) ==
    /\ Runs(r) /\ pc[r] = "wait"
    /\ \/ op[r] \in {"start", "editOn", "restart"} /\ job # "start"
          /\ Finish(r) /\ UNCHANGED settled
       \/ op[r] = "stop" /\ job # "stop" /\ Finish(r)
          /\ settled' = IF r \in calm THEN "stopped" ELSE settled
       \/ op[r] = "delete" /\ job # "stop" /\ Goto(r, "rm") /\ UNCHANGED history
    /\ UNCHANGED <<hostUp, files, systemd, runner>>

\* disable --now fails, in either half, or its job does: stop is answered ok
\* and delete goes on.
DisableFails(r) ==
    /\ Runs(r) /\ pc[r] \in {"disable", "submit", "wait"}
    /\ \/ op[r] = "stop" /\ Finish(r) /\ UNCHANGED settled
       \/ op[r] = "delete" /\ Goto(r, "rm") /\ Slip(r)
    /\ UNCHANGED <<hostUp, files, systemd, runner>>

\* delete: podman rm -f, then the volume.
Remove(r) ==
    /\ pc[r] = "rm"
    /\ \/ Gone /\ UNCHANGED history
       \/ container # "none" /\ Slip(r) /\ UNCHANGED runner
    /\ Goto(r, "unenv")
    /\ UNCHANGED <<hostUp, files, systemd>>

UnlinkEnv(r) ==
    /\ Runs(r) /\ pc[r] = "unenv"
    /\ env' = "none"
    /\ Goto(r, "unmark")
    /\ UNCHANGED <<hostUp, marker, enabled, systemd, runner, history>>

Mutant_DeleteKeepsMarker(r) ==
    /\ Runs(r) /\ pc[r] = "unmark"
    /\ Finish(r)
    /\ settled' = IF r \in calm THEN "deleted" ELSE settled
    /\ UNCHANGED <<hostUp, files, systemd, runner>>

UnlinkMarker(r) ==
    /\ Runs(r) /\ pc[r] = "unmark"
    /\ marker' = FALSE
    /\ Finish(r)
    /\ settled' = IF r \in calm THEN "deleted" ELSE settled
    /\ UNCHANGED <<hostUp, env, enabled, systemd, runner>>

\* run() kills a command after its timeout and the request ends with 504, or a
\* command whose status is checked fails and it ends with 500; what systemd has
\* been asked to do goes on.
Timeout(r) ==
    /\ Runs(r) /\ pc[r] # "idle" /\ ~Mid(r)
    /\ Finish(r)
    /\ UNCHANGED <<hostUp, files, systemd, runner, settled>>

-----------------------------------------------------------------------------
(* Failures of processes and of the host.                                  *)

ForgetRequests ==
    /\ op' = [r \in Request |-> "none"] /\ pc' = [r \in Request |-> "idle"]

\* The agent dies, at any statement, and is started again.
AgentRestarts ==
    /\ hostUp
    /\ ForgetRequests /\ calm' = calm \intersect {Prestart}
    /\ UNCHANGED <<hostUp, files, systemd, runner, settled>>

\* Power is lost: only the files survive, and a drain halfway through may not.
Crash ==
    /\ hostUp
    /\ hostUp' = FALSE
    /\ unit' = "inactive" /\ job' = "none" /\ pre' = "none" /\ drainExit' = FALSE
    /\ Gone /\ ForgetRequests /\ calm' = {}
    /\ UNCHANGED <<files, settled>>

\* The user manager starts the units that are enabled.
Boot ==
    /\ ~hostUp
    /\ hostUp' = TRUE
    /\ IF enabled THEN BeginPrestart ELSE UNCHANGED <<unit, pre>>
    /\ UNCHANGED <<files, job, drainExit, runner, handlers, history>>

-----------------------------------------------------------------------------
RunnerStep == Register \/ ConfigFails \/ TakeJob \/ FinishJob \/ ContainerDies

SystemdStep == RestartTimer \/ MainExits \/ ClientDies \/ ExecStop \/ ExecStopPost \/ UnitStops

PrestartStep ==
    PreCheck \/ PreRm \/ PreDisable \/ PreSed \/ PreExit \/ MintFails \/ MintSucceeds

NewRequest(r) ==
    \/ BeginStart(r) \/ BeginStop(r) \/ BeginRestart(r) \/ Drain(r)
    \/ BeginUpsert(r) \/ BeginDelete(r)

HandlerStep(r) ==
    \/ Write(r) \/ Unlink(r) \/ Reload(r) \/ Enable(r) \/ Disable(r)
    \/ Submit(r) \/ JobReturns(r) \/ DisableFails(r) \/ Remove(r)
    \/ UnlinkEnv(r) \/ UnlinkMarker(r)

HostStep == AgentRestarts \/ Crash \/ Boot

Next ==
    \/ RunnerStep \/ SystemdStep \/ PrestartStep \/ HostStep
    \/ \E r \in Request : NewRequest(r) \/ HandlerStep(r) \/ Timeout(r)

Spec == Init /\ [][Next]_vars

(* systemd, the scripts and a running job make progress; a mint and a      *)
(* configuration that are tried again and again succeed some day.  GitHub  *)
(* owes no job to anyone, and nothing obliges an operator to ask.          *)
Fairness ==
    /\ WF_vars(RestartTimer) /\ WF_vars(MainExits) /\ WF_vars(ExecStop)
    /\ WF_vars(ExecStopPost) /\ WF_vars(UnitStops)
    /\ WF_vars(PreCheck) /\ WF_vars(PreRm) /\ WF_vars(PreDisable)
    /\ WF_vars(PreSed) /\ WF_vars(PreExit) /\ WF_vars(MintSucceeds \/ MintFails)
    /\ SF_vars(MintSucceeds) /\ SF_vars(Register) /\ WF_vars(FinishJob)
    /\ WF_vars(Boot)

FairSpec == Spec /\ Fairness

-----------------------------------------------------------------------------
\* Every variable keeps to the values the code and systemd give it.
TypeOK ==
    /\ hostUp \in BOOLEAN /\ env \in EnvValue /\ marker \in BOOLEAN /\ enabled \in BOOLEAN
    /\ unit \in UnitState /\ job \in Job /\ pre \in PreStep /\ drainExit \in BOOLEAN
    /\ container \in Container /\ left \in BOOLEAN
    /\ op \in [Request -> Op] /\ pc \in [Request -> Step]
    /\ calm \subseteq Request \union {Prestart}
    /\ settled \in {"no", "drained", "stopped", "deleted"}

\* No container is left, but for one that podman rm -f has failed to remove.
NoRunner == container = "none" \/ left

IsOff == unit = "inactive" /\ ~enabled /\ env # "true" /\ NoRunner

\* Taken out of service for good: systemd restarts a drained unit.
Retired == settled \in {"stopped", "deleted"}

\* A slot that a stop or a delete has taken out of service, whose systemctl and
\* podman commands did not fail, with no request for service during it or since,
\* is down and stays down, whatever drains, timeouts, power losses and requests
\* overlap: neither systemd nor a boot runs it, and its file agrees; the one
\* thing that may live on is a container that ExecStop and ExecStopPost could
\* not remove, and after a delete not even that (slot_action, slot_delete).
RetiredIsOff == /\ Retired => IsOff
                /\ settled = "deleted" => container = "none"

\* What the comments of the script and of the unit say: a drained slot is off
\* as well (sp-runner-prestart, sp-runner@.service).
SettledIsOff == settled # "no" => IsOff

\* A slot that was drained, stopped or deleted, with no request for service
\* since and no failed command in it, is not enabled, and its file does not say
\* it is: what systemd restarts all the same, the next boot does not
\* (sp-runner-prestart, slot_action, slot_delete).
SettledIsDisabled == settled # "no" => ~enabled /\ env # "true"

\* A drained slot whose unit restarts all the same serves only until the next
\* boot (sp-runner-prestart, the unit).
BootsLeaveItOff ==
    [][settled # "no" /\ ~hostUp /\ hostUp' => unit' = "inactive" /\ settled' # "no"]_vars

\* A deleted slot leaves nothing behind: neither its file nor a drain marker
\* that a later slot of the same number would trip over (slot_delete).
DeletedIsGone == settled = "deleted" => env = "none" /\ ~marker

\* A runner without a file, or one that prestart is about to let loose.
Stray == env = "none" /\ (container # "none" \/ pre = "mint")

\* A runner outlives its slot's file only by a delete that a request for service
\* has overlapped, or whose disable or podman rm has failed unchecked: any other
\* takes the runner away first, and nothing brings one up without a file
\* (slot_delete, sp-runner-prestart).
StraysComeFromDeletes ==
    [][~Stray /\ Stray' => \E r \in Request : UnlinkEnv(r) /\ r \notin calm]_vars

\* Neither a runner nor an enabled unit, which would restart for ever, is left
\* without the slot's file (slot_delete, slot_upsert, slot_action).
NothingWithoutFile == ~Stray /\ (enabled => env # "none")

\* The unchecked commands of a delete succeed.
DeleteCommandsWork ==
    \A r \in Request :
        op[r] = "delete" => ~DisableFails(r) /\ (Remove(r) => container' = "none")

\* Whenever prestart runs, and so whenever a drain is honoured, no container of
\* the slot is left, busy or not, unless podman rm -f has tried to remove it and
\* failed: a drain lands between jobs, whatever became of the podman client
\* (sp-runner-prestart, lines 5-9; ExecStopPost of the unit).
DrainsBetweenJobs == pre # "none" => unit = "prestart" /\ NoRunner

\* Some request other than a drain or an edit of a disabled slot is in flight.
Interferes == \E r \in Request : op[r] \notin {"none", "editOff"}

\* The drain that prestart honours has failed to disable the unit or to write
\* the file.
DrainSlips == pre = "exit" /\ Prestart \notin calm

\* A slot that is asked to drain while it works is drained at the end of its
\* job, disabled and with ENABLED=false: the request is lost only to a start,
\* restart, edit, stop or delete that comes in between, to a power loss or to a
\* failing command of the script (slot_action, sp-runner-prestart).
BusyDrainLands ==
    (marker /\ unit = "running" /\ container = "job")
        ~> \/ settled = "drained" /\ ~enabled /\ env # "true"
           \/ Interferes \/ ~hostUp \/ DrainSlips

\* The operators do not restart or drain the slot for ever: a restart kills what
\* prestart has begun, and a drain whose disable fails takes the turn of a start.
CallsEnd == <>[](~marker /\ \A r \in Request : op[r] # "restart")

\* Whatever ends the container, the slot of a living host listens for jobs
\* again, whichever removals fail, unless it is disabled, has lost its file, or
\* a stop or a delete of it is in flight (Restart=always of the unit).
ServesAgain ==
    CallsEnd =>
        ((unit = "running" /\ container = "none")
            ~> \/ container = "idle" \/ ~enabled \/ env = "none" \/ ~hostUp
               \/ \E r \in Request : op[r] \in {"stop", "delete"})

-----------------------------------------------------------------------------
(* The slot implements what AbstractSlot promises.                         *)

Phase ==
    IF ~hostUp THEN "dark"
    ELSE IF container \in {"idle", "job"} /\ ~left THEN container
    ELSE IF unit = "inactive" THEN "off" ELSE "between"

Promise == INSTANCE AbstractSlot WITH phase <- Phase, parked <- Retired, astray <- left

\* The slot made of files, scripts and systemd keeps the promise.
KeepsPromise == Promise!ASpec

(* The slot is the one that SlotEvents watches.                            *)

\* ActiveState as slot_view tells it apart.
ActiveState ==
    CASE unit \in {"prestart", "autorestart"} -> "activating"
      [] unit = "running" -> "active"
      [] unit \in {"stop", "post", "inactive"} -> "down"

Seen == INSTANCE SlotWorld WITH
    Job <- {"job"}, None <- "none", link <- enabled, unit <- ActiveState,
    job <- IF container = "job" THEN "job" ELSE "none"

\* Whatever the slot does, an observer of its file, link, unit and job sees a
\* slot as SlotEvents assumes it: one that comes up without a job, whatever was
\* left of the last one, and goes down with the job or before it (slot_view).
IsWhatEventsWatch == Seen!World
=============================================================================
