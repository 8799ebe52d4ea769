------------------------- MODULE RunnerSlot_proofs --------------------------
(***************************************************************************)
(* What TLAPS proves of RunnerSlot for every set of requests: the types,   *)
(* that a drain lands between jobs, that a slot taken out of service stays *)
(* out of service, how a runner may lose its slot's file, and that the     *)
(* slot keeps the promise of AbstractSlot and is a slot as SlotWorld has   *)
(* it.  Every command whose exit status the code ignores may fail.         *)
(***************************************************************************)
EXTENDS RunnerSlot, TLAPS

(* The parts of the inductive invariant.                                   *)

\* The script runs exactly while systemd is in ExecStartPre; a container
\* belongs to a unit that runs or is being taken down, or could not be removed;
\* without power there is nothing but files.
UnitShape ==
    /\ (pre # "none") <=> (unit = "prestart")
    /\ container # "none" => unit \in {"running", "stop", "post"} \/ left
    /\ left => container # "none" /\ unit \notin {"running", "stop"}
    /\ ~hostUp => unit = "inactive" /\ container = "none"
    /\ ~hostUp => \A r \in Request : op[r] = "none"

\* Which job can wait on which state of the unit.
JobShape ==
    /\ unit \in {"inactive", "running"} => job = "none"
    /\ unit \in {"prestart", "autorestart"} => job # "stop"
    /\ drainExit => unit = "post"

\* Which operation is at which step.
HandlerShape ==
    \A r \in Request :
        /\ (pc[r] = "idle") <=> (op[r] = "none")
        /\ pc[r] = "write" => op[r] \in {"start", "stop", "editOn", "editOff"}
        /\ pc[r] = "unlink" => op[r] = "start"
        /\ pc[r] = "reload" => op[r] \in {"editOn", "editOff"}
        /\ pc[r] = "enable" => op[r] \in {"start", "editOn"}
        /\ pc[r] = "disable" => op[r] \in {"stop", "delete"}
        /\ pc[r] \in {"submit", "wait"} =>
              op[r] \in {"start", "editOn", "restart", "stop", "delete"}
        /\ pc[r] \in {"rm", "unenv", "unmark"} => op[r] = "delete"

\* A promise is being kept or has been given only while nobody asks.
NobodyAsks == (calm # {} \/ settled # "no") => ~Asking

\* How far a stop or a delete has come that no request for service overlaps.
RetiringProgress ==
    \A r \in Request : r \in calm =>
        /\ op[r] \in {"stop", "delete"}
        /\ pc[r] \in {"submit", "wait", "rm", "unenv", "unmark"} => ~enabled
        /\ op[r] = "stop" /\ pc[r] # "write" => env # "true"
        /\ pc[r] = "wait" => unit = "inactive" \/ job = "stop"
        /\ pc[r] \in {"rm", "unenv", "unmark"} => unit = "inactive"
        /\ pc[r] \in {"unenv", "unmark"} => container = "none"
        /\ pc[r] = "unmark" => env = "none"

\* How far a drain has come that no request for service overlaps.
DrainProgress ==
    Prestart \in calm =>
        /\ pre \in {"sed", "exit"} => ~enabled
        /\ pre = "exit" => env # "true"
        /\ drainExit => ~enabled /\ env # "true"

\* Nobody is about to write the file of a slot that has been deleted.
DeletedIsQuiet == settled = "deleted" => \A r \in Request : pc[r] # "write"

Shape == TypeOK /\ UnitShape /\ JobShape /\ HandlerShape

Service ==
    /\ NobodyAsks /\ RetiringProgress /\ DrainProgress
    /\ RetiredIsOff /\ SettledIsDisabled /\ DeletedIsGone /\ DeletedIsQuiet

IInv == Shape /\ Service

-----------------------------------------------------------------------------
(* Types.                                                                  *)

\* A step of the container or of the registration keeps the types.
LEMMA RunnerTypes == TypeOK /\ RunnerStep => TypeOK'
<1> SUFFICES ASSUME TypeOK, RunnerStep PROVE TypeOK'
  OBVIOUS
<1> USE DEF TypeOK, files, systemd, runner, handlers, history, Gone, MaybeGone, Slip,
            Container
<1>1. CASE Register BY <1>1 DEF Register
<1>2. CASE ConfigFails BY <1>2 DEF ConfigFails
<1>3. CASE TakeJob BY <1>3 DEF TakeJob
<1>4. CASE FinishJob BY <1>4 DEF FinishJob
<1>5. CASE ContainerDies BY <1>5 DEF ContainerDies
<1>6. QED BY <1>1, <1>2, <1>3, <1>4, <1>5 DEF RunnerStep

\* A step of systemd keeps the types.
LEMMA SystemdTypes == TypeOK /\ SystemdStep => TypeOK'
<1> SUFFICES ASSUME TypeOK, SystemdStep PROVE TypeOK'
  OBVIOUS
<1> USE DEF TypeOK, files, systemd, runner, handlers, history, Gone, MaybeGone, Slip,
            UnitState, Job, PreStep, Container, BeginPrestart
<1>1. CASE RestartTimer BY <1>1 DEF RestartTimer
<1>2. CASE MainExits BY <1>2 DEF MainExits
<1>3. CASE ClientDies BY <1>3 DEF ClientDies
<1>4. CASE ExecStop
  <2>1. left' \in BOOLEAN BY <1>4, Zenon DEF ExecStop
  <2>2. QED BY <1>4, <2>1 DEF ExecStop
<1>5. CASE ExecStopPost
  <2>1. left' \in BOOLEAN BY <1>5, Zenon DEF ExecStopPost
  <2>2. container' \in Container BY <1>5 DEF ExecStopPost
  <2>3. QED BY <1>5, <2>1, <2>2 DEF ExecStopPost
<1>6. CASE UnitStops BY <1>6 DEF UnitStops, AfterPost
<1>7. QED BY <1>1, <1>2, <1>3, <1>4, <1>5, <1>6 DEF SystemdStep

\* A step of the prestart script keeps the types.
LEMMA PrestartTypes == TypeOK /\ PrestartStep => TypeOK'
<1> SUFFICES ASSUME TypeOK, PrestartStep PROVE TypeOK'
  OBVIOUS
<1> USE DEF TypeOK, files, runner, handlers, history, Gone, Slip, UnitState, Job,
            PreStep, EnvValue, Container, PreEnds
<1>1. CASE PreCheck BY <1>1 DEF PreCheck
<1>2. CASE PreRm
  <2>1. marker' \in BOOLEAN BY <1>2, Zenon DEF PreRm
  <2>2. QED BY <1>2, <2>1 DEF PreRm
<1>3. CASE PreDisable
  <2>1. enabled' \in BOOLEAN BY <1>3, Zenon DEF PreDisable
  <2>2. QED BY <1>3, <2>1 DEF PreDisable
<1>4. CASE PreSed BY <1>4 DEF PreSed
<1>5. CASE PreExit BY <1>5 DEF PreExit
<1>6. CASE MintFails BY <1>6 DEF MintFails
<1>7. CASE MintSucceeds BY <1>7 DEF MintSucceeds
<1>8. QED BY <1>1, <1>2, <1>3, <1>4, <1>5, <1>6, <1>7 DEF PrestartStep

\* A crash, a boot or a restart of the agent keeps the types.
LEMMA HostTypes == TypeOK /\ HostStep => TypeOK'
<1> SUFFICES ASSUME TypeOK, HostStep PROVE TypeOK'
  OBVIOUS
<1> USE DEF TypeOK, files, systemd, runner, handlers, history, Gone, MaybeGone, Slip,
            UnitState, Job, PreStep, Container, Op, Step, BeginPrestart, ForgetRequests
<1>1. CASE AgentRestarts BY <1>1 DEF AgentRestarts
<1>2. CASE Crash BY <1>2 DEF Crash
<1>3. CASE Boot BY <1>3 DEF Boot
<1>4. QED BY <1>1, <1>2, <1>3 DEF HostStep

\* A step of a request keeps the types.
LEMMA RequestTypes ==
  ASSUME NEW r \in Request, TypeOK, NewRequest(r) \/ HandlerStep(r) \/ Timeout(r)
  PROVE  TypeOK'
<1> USE DEF TypeOK, files, systemd, runner, handlers, history, Gone, MaybeGone, Slip,
            UnitState, Job, PreStep, EnvValue, Container, Op, Step, Begin, Goto, Finish,
            Ask, Retire
<1>1. CASE BeginStart(r) BY <1>1 DEF BeginStart
<1>2. CASE BeginStop(r) BY <1>2 DEF BeginStop
<1>3. CASE BeginRestart(r) BY <1>3 DEF BeginRestart
<1>4. CASE Drain(r) BY <1>4 DEF Drain
<1>5. CASE BeginUpsert(r) BY <1>5 DEF BeginUpsert
<1>6. CASE BeginDelete(r) BY <1>6 DEF BeginDelete
<1>7. CASE Write(r) BY <1>7 DEF Write
<1>8. CASE Unlink(r)
  <2>1. marker' \in BOOLEAN BY <1>8, Zenon DEF Unlink
  <2>2. QED BY <1>8, <2>1 DEF Unlink
<1>9. CASE Reload(r)
  <2>1. marker' \in BOOLEAN BY <1>9, Zenon DEF Reload
  <2>2. QED BY <1>9, <2>1 DEF Reload
<1>10. CASE Enable(r) BY <1>10 DEF Enable
<1>11. CASE Disable(r)
  <2>1. enabled' \in BOOLEAN BY <1>11, Zenon DEF Disable
  <2>2. QED BY <1>11, <2>1 DEF Disable
<1>12. CASE Submit(r)
  BY <1>12 DEF Submit, StartJob, StopJob, RestartJob, BeginPrestart
<1>13. CASE JobReturns(r) BY <1>13 DEF JobReturns
<1>14. CASE Remove(r)
  <2>1. left' \in BOOLEAN BY <1>14, Zenon DEF Remove
  <2>2. container' \in Container BY <1>14 DEF Remove
  <2>3. QED BY <1>14, <2>1, <2>2 DEF Remove
<1>15. CASE UnlinkEnv(r) BY <1>15 DEF UnlinkEnv
<1>16. CASE UnlinkMarker(r)
  <2>1. marker' \in BOOLEAN BY <1>16, Zenon DEF UnlinkMarker
  <2>2. QED BY <1>16, <2>1 DEF UnlinkMarker
<1>17. CASE Timeout(r) BY <1>17 DEF Timeout
<1>18. CASE DisableFails(r) BY <1>18 DEF DisableFails
<1>19. QED
  BY <1>1, <1>2, <1>3, <1>4, <1>5, <1>6, <1>7, <1>8, <1>9, <1>10, <1>11, <1>12,
     <1>13, <1>14, <1>15, <1>16, <1>17, <1>18 DEF NewRequest, HandlerStep

\* A step of the slot keeps the types.
LEMMA TypeStep == TypeOK /\ [Next]_vars => TypeOK'
<1> SUFFICES ASSUME TypeOK, [Next]_vars PROVE TypeOK'
  OBVIOUS
<1>1. CASE Next
  BY <1>1, RunnerTypes, SystemdTypes, PrestartTypes, HostTypes, RequestTypes DEF Next
<1>2. CASE UNCHANGED vars
  BY <1>2 DEF vars, files, systemd, runner, handlers, history, Gone, MaybeGone, Slip, TypeOK
<1>3. QED BY <1>1, <1>2

\* Every variable of the slot keeps to its type, for every set of requests.
THEOREM TypeCorrect == Spec => []TypeOK
<1>1. Init => TypeOK
  BY DEF Init, TypeOK, EnvValue, UnitState, Job, PreStep, Container, Op, Step
<1>2. QED BY <1>1, TypeStep, PTL DEF Spec

-----------------------------------------------------------------------------
(* The shape of the states: unit, script, container and handlers agree.    *)

\* A step of the container or of the registration keeps the shape.
LEMMA RunnerShape == Shape /\ RunnerStep => UnitShape' /\ JobShape' /\ HandlerShape'
<1> SUFFICES ASSUME Shape, RunnerStep PROVE UnitShape' /\ JobShape' /\ HandlerShape'
  OBVIOUS
<1> USE DEF Shape, UnitShape, JobShape, HandlerShape, TypeOK, UnitState, Job, PreStep,
            Container, Step, Op,
            files, systemd, runner, handlers, history, Gone, MaybeGone, Slip
<1>1. CASE Register BY <1>1 DEF Register
<1>2. CASE ConfigFails BY <1>2 DEF ConfigFails
<1>3. CASE TakeJob BY <1>3 DEF TakeJob
<1>4. CASE FinishJob BY <1>4 DEF FinishJob
<1>5. CASE ContainerDies BY <1>5 DEF ContainerDies
<1>6. QED
  BY <1>1, <1>2, <1>3, <1>4, <1>5 DEF RunnerStep

\* A step of systemd keeps the shape.
LEMMA SystemdShape == Shape /\ SystemdStep => UnitShape' /\ JobShape' /\ HandlerShape'
<1> SUFFICES ASSUME Shape, SystemdStep PROVE UnitShape' /\ JobShape' /\ HandlerShape'
  OBVIOUS
<1> USE DEF Shape, UnitShape, JobShape, HandlerShape, TypeOK, UnitState, Job, PreStep,
            Container, Step, Op,
            files, systemd, runner, handlers, history, Gone, MaybeGone, Slip, BeginPrestart
<1>1. CASE RestartTimer BY <1>1 DEF RestartTimer
<1>2. CASE MainExits BY <1>2 DEF MainExits
<1>3. CASE ClientDies BY <1>3 DEF ClientDies
<1>4. CASE ExecStop BY <1>4 DEF ExecStop
<1>5. CASE ExecStopPost BY <1>5 DEF ExecStopPost
<1>6. CASE UnitStops BY <1>6 DEF UnitStops, AfterPost, PostIsOver
<1>7. QED
  BY <1>1, <1>2, <1>3, <1>4, <1>5, <1>6 DEF SystemdStep

\* A step of the prestart script keeps the shape.
LEMMA PrestartShape == Shape /\ PrestartStep => UnitShape' /\ JobShape' /\ HandlerShape'
<1> SUFFICES ASSUME Shape, PrestartStep PROVE UnitShape' /\ JobShape' /\ HandlerShape'
  OBVIOUS
<1> USE DEF Shape, UnitShape, JobShape, HandlerShape, TypeOK, UnitState, Job, PreStep,
            Container, Step, Op,
            files, runner, handlers, history, Gone, Slip, PreEnds
<1>1. CASE PreCheck BY <1>1 DEF PreCheck
<1>2. CASE PreRm BY <1>2 DEF PreRm
<1>3. CASE PreDisable BY <1>3 DEF PreDisable
<1>4. CASE PreSed BY <1>4 DEF PreSed
<1>5. CASE PreExit BY <1>5 DEF PreExit
<1>6. CASE MintFails BY <1>6 DEF MintFails
<1>7. CASE MintSucceeds BY <1>7 DEF MintSucceeds
<1>8. QED
  BY <1>1, <1>2, <1>3, <1>4, <1>5, <1>6, <1>7 DEF PrestartStep

\* A crash, a boot or a restart of the agent keeps the shape.
LEMMA HostShape == Shape /\ HostStep => UnitShape' /\ JobShape' /\ HandlerShape'
<1> SUFFICES ASSUME Shape, HostStep PROVE UnitShape' /\ JobShape' /\ HandlerShape'
  OBVIOUS
<1> USE DEF Shape, UnitShape, JobShape, HandlerShape, TypeOK, UnitState, Job, PreStep,
            Container, Step, Op, files, systemd, runner, handlers, history, Gone,
            MaybeGone, Slip, ForgetRequests, BeginPrestart
<1>1. CASE AgentRestarts BY <1>1 DEF AgentRestarts
<1>2. CASE Crash BY <1>2 DEF Crash
<1>3. CASE Boot BY <1>3 DEF Boot
<1>4. QED
  BY <1>1, <1>2, <1>3 DEF HostStep

\* A step of a request keeps the shape.
LEMMA RequestShape ==
  ASSUME NEW r \in Request, Shape, NewRequest(r) \/ HandlerStep(r) \/ Timeout(r)
  PROVE  UnitShape' /\ JobShape' /\ HandlerShape'
<1> USE DEF Shape, UnitShape, JobShape, HandlerShape, TypeOK, UnitState, Job, PreStep,
            Container, Step, Op, files, systemd, runner, handlers, history, Gone,
            MaybeGone, Slip, Begin, Goto, Finish, Ask, Retire, Runs
<1>1. CASE BeginStart(r) BY <1>1 DEF BeginStart
<1>2. CASE BeginStop(r) BY <1>2 DEF BeginStop
<1>3. CASE BeginRestart(r) BY <1>3 DEF BeginRestart
<1>4. CASE Drain(r) BY <1>4 DEF Drain
<1>5. CASE BeginUpsert(r) BY <1>5 DEF BeginUpsert
<1>6. CASE BeginDelete(r) BY <1>6 DEF BeginDelete
<1>7. CASE Write(r) BY <1>7 DEF Write
<1>8. CASE Unlink(r) BY <1>8 DEF Unlink
<1>9. CASE Reload(r) BY <1>9 DEF Reload
<1>10. CASE Enable(r) BY <1>10 DEF Enable
<1>11. CASE Disable(r) BY <1>11 DEF Disable
<1>12. CASE Submit(r) BY <1>12 DEF Submit, StartJob, StopJob, RestartJob, BeginPrestart
<1>13. CASE JobReturns(r) BY <1>13 DEF JobReturns
<1>14. CASE Remove(r) BY <1>14 DEF Remove
<1>15. CASE UnlinkEnv(r) BY <1>15 DEF UnlinkEnv
<1>16. CASE UnlinkMarker(r) BY <1>16 DEF UnlinkMarker
<1>17. CASE Timeout(r) BY <1>17 DEF Timeout
<1>18. CASE DisableFails(r) BY <1>18 DEF DisableFails
<1>19. QED
  BY <1>1, <1>2, <1>3, <1>4, <1>5, <1>6, <1>7, <1>8, <1>9, <1>10, <1>11,
     <1>12, <1>13, <1>14, <1>15, <1>16, <1>17, <1>18 DEF NewRequest, HandlerStep

\* In every reachable state unit, script, container and handlers agree.
THEOREM ShapeInvariant == Spec => []Shape
<1>1. Init => Shape
  BY DEF Init, Shape, UnitShape, JobShape, HandlerShape, TypeOK, EnvValue, UnitState,
         Job, PreStep, Container, Op, Step
<1>2. Shape /\ [Next]_vars => Shape'
  <2> SUFFICES ASSUME Shape, [Next]_vars PROVE Shape'
    OBVIOUS
  <2>1. TypeOK'
    BY TypeStep DEF Shape
  <2>2. UnitShape' /\ JobShape' /\ HandlerShape'
    <3>1. CASE Next
      BY <3>1, RunnerShape, SystemdShape, PrestartShape, HostShape, RequestShape DEF Next
    <3>2. CASE UNCHANGED vars
      BY <3>2 DEF vars, files, systemd, runner, handlers, history, Shape, UnitShape,
                  JobShape, HandlerShape
    <3>3. QED BY <3>1, <3>2
  <2>3. QED BY <2>1, <2>2 DEF Shape
<1>3. QED BY <1>1, <1>2, PTL DEF Spec

\* A container alive when prestart runs is one that podman rm -f has failed to
\* remove: any other drain lands between jobs.
THEOREM DrainsLandBetweenJobs == Spec => []DrainsBetweenJobs
<1>1. Shape => DrainsBetweenJobs
  BY DEF Shape, UnitShape, DrainsBetweenJobs, NoRunner
<1>2. QED BY <1>1, ShapeInvariant, PTL

-----------------------------------------------------------------------------
(* The service invariant.                                                  *)

\* A step of the container or of the registration keeps the service invariant.
LEMMA RunnerService == IInv /\ RunnerStep => Service'
<1> SUFFICES ASSUME IInv, RunnerStep PROVE Service'
  OBVIOUS
<1> USE PrestartAssumption
        DEF IInv, Shape, UnitShape, JobShape, HandlerShape, TypeOK, Service, NobodyAsks,
            Asking, RetiringProgress, DrainProgress, RetiredIsOff, Retired, IsOff,
            NoRunner, SettledIsDisabled, DeletedIsGone, DeletedIsQuiet, UnitState, Job,
            PreStep, Container, Step, Op, files, systemd, runner, handlers, history,
            Gone, MaybeGone, Slip
<1>1. CASE Register BY <1>1 DEF Register
<1>2. CASE ConfigFails BY <1>2 DEF ConfigFails
<1>3. CASE TakeJob BY <1>3 DEF TakeJob
<1>4. CASE FinishJob BY <1>4 DEF FinishJob
<1>5. CASE ContainerDies BY <1>5 DEF ContainerDies
<1>6. QED
  BY <1>1, <1>2, <1>3, <1>4, <1>5 DEF RunnerStep

\* A step of systemd keeps the service invariant.
LEMMA SystemdService == IInv /\ SystemdStep => Service'
<1> SUFFICES ASSUME IInv, SystemdStep PROVE Service'
  OBVIOUS
<1> USE PrestartAssumption
        DEF IInv, Shape, UnitShape, JobShape, HandlerShape, TypeOK, Service, NobodyAsks,
            Asking, RetiringProgress, DrainProgress, RetiredIsOff, Retired, IsOff,
            NoRunner, SettledIsDisabled, DeletedIsGone, DeletedIsQuiet, UnitState, Job,
            PreStep, Container, Step, Op, files, systemd, runner, handlers, history,
            Gone, MaybeGone, Slip, BeginPrestart
<1>1. CASE RestartTimer BY <1>1 DEF RestartTimer
<1>2. CASE MainExits BY <1>2 DEF MainExits
<1>3. CASE ClientDies BY <1>3 DEF ClientDies
<1>4. CASE ExecStop BY <1>4 DEF ExecStop
<1>5. CASE ExecStopPost BY <1>5 DEF ExecStopPost
<1>6. CASE UnitStops BY <1>6 DEF UnitStops, AfterPost, PostIsOver
<1>7. QED
  BY <1>1, <1>2, <1>3, <1>4, <1>5, <1>6 DEF SystemdStep

\* A step of the prestart script keeps the service invariant.
LEMMA PrestartService == IInv /\ PrestartStep => Service'
<1> SUFFICES ASSUME IInv, PrestartStep PROVE Service'
  OBVIOUS
<1> USE PrestartAssumption
        DEF IInv, Shape, UnitShape, JobShape, HandlerShape, TypeOK, Service, NobodyAsks,
            Asking, RetiringProgress, DrainProgress, RetiredIsOff, Retired, IsOff,
            NoRunner, SettledIsDisabled, DeletedIsGone, DeletedIsQuiet, UnitState, Job,
            PreStep, Container, Step, Op, files, runner, handlers, history, Gone, Slip,
            PreEnds
<1>1. CASE PreCheck BY <1>1 DEF PreCheck
<1>2. CASE PreRm BY <1>2 DEF PreRm
<1>3. CASE PreDisable BY <1>3 DEF PreDisable
<1>4. CASE PreSed BY <1>4 DEF PreSed
<1>5. CASE PreExit BY <1>5 DEF PreExit
<1>6. CASE MintFails BY <1>6 DEF MintFails
<1>7. CASE MintSucceeds BY <1>7 DEF MintSucceeds
<1>8. QED
  BY <1>1, <1>2, <1>3, <1>4, <1>5, <1>6, <1>7 DEF PrestartStep

\* A crash, a boot or a restart of the agent keeps the service invariant.
LEMMA HostService == IInv /\ HostStep => Service'
<1> SUFFICES ASSUME IInv, HostStep PROVE Service'
  OBVIOUS
<1> USE PrestartAssumption
        DEF IInv, Shape, UnitShape, JobShape, HandlerShape, TypeOK, Service, NobodyAsks,
            Asking, RetiringProgress, DrainProgress, RetiredIsOff, Retired, IsOff,
            NoRunner, SettledIsDisabled, DeletedIsGone, DeletedIsQuiet, UnitState, Job,
            PreStep, Container, Step, Op, files, systemd, runner, handlers, history,
            Gone, MaybeGone, Slip, ForgetRequests, BeginPrestart
<1>1. CASE AgentRestarts BY <1>1 DEF AgentRestarts
<1>2. CASE Crash BY <1>2 DEF Crash
<1>3. CASE Boot BY <1>3 DEF Boot
<1>4. QED
  BY <1>1, <1>2, <1>3 DEF HostStep

\* A step of a request keeps the service invariant.
LEMMA RequestService ==
  ASSUME NEW r \in Request, IInv, NewRequest(r) \/ HandlerStep(r) \/ Timeout(r)
  PROVE  Service'
<1> USE PrestartAssumption
        DEF IInv, Shape, UnitShape, JobShape, HandlerShape, TypeOK, Service, NobodyAsks,
            Asking, RetiringProgress, DrainProgress, RetiredIsOff, Retired, IsOff,
            NoRunner, SettledIsDisabled, DeletedIsGone, DeletedIsQuiet, UnitState, Job,
            PreStep, Container, Step, Op, files, systemd, runner, handlers, history,
            Gone, MaybeGone, Slip, Begin, Goto, Finish, Ask, Retire, Runs, Mid
<1>1. CASE BeginStart(r) BY <1>1 DEF BeginStart
<1>2. CASE BeginStop(r) BY <1>2 DEF BeginStop
<1>3. CASE BeginRestart(r) BY <1>3 DEF BeginRestart
<1>4. CASE Drain(r) BY <1>4 DEF Drain
<1>5. CASE BeginUpsert(r) BY <1>5 DEF BeginUpsert
<1>6. CASE BeginDelete(r) BY <1>6 DEF BeginDelete
<1>7. CASE Write(r) BY <1>7 DEF Write
<1>8. CASE Unlink(r) BY <1>8 DEF Unlink
<1>9. CASE Reload(r) BY <1>9 DEF Reload
<1>10. CASE Enable(r) BY <1>10 DEF Enable
<1>11. CASE Disable(r) BY <1>11 DEF Disable
<1>12. CASE Submit(r) BY <1>12 DEF Submit, StartJob, StopJob, RestartJob, BeginPrestart
<1>13. CASE JobReturns(r) BY <1>13 DEF JobReturns
<1>14. CASE Remove(r) BY <1>14 DEF Remove
<1>15. CASE UnlinkEnv(r) BY <1>15 DEF UnlinkEnv
<1>16. CASE UnlinkMarker(r) BY <1>16 DEF UnlinkMarker
<1>17. CASE Timeout(r) BY <1>17 DEF Timeout
<1>18. CASE DisableFails(r) BY <1>18 DEF DisableFails
<1>19. QED
  BY <1>1, <1>2, <1>3, <1>4, <1>5, <1>6, <1>7, <1>8, <1>9, <1>10, <1>11,
     <1>12, <1>13, <1>14, <1>15, <1>16, <1>17, <1>18 DEF NewRequest, HandlerStep


\* The invariant of the whole slot is inductive.
THEOREM SlotInvariant == Spec => []IInv
<1>1. Init => Shape
  BY DEF Init, Shape, UnitShape, JobShape, HandlerShape, TypeOK, EnvValue, UnitState,
         Job, PreStep, Container, Op, Step
<1>2. Init => Service
  BY DEF Init, Service, NobodyAsks, Asking, RetiringProgress, DrainProgress,
         RetiredIsOff, Retired, IsOff, NoRunner, SettledIsDisabled, DeletedIsGone, DeletedIsQuiet
<1>3. IInv /\ [Next]_vars => Service'
  <2> SUFFICES ASSUME IInv, [Next]_vars PROVE Service'
    OBVIOUS
  <2>1. CASE Next
    BY <2>1, RunnerService, SystemdService, PrestartService, HostService, RequestService
       DEF Next
  <2>2. CASE UNCHANGED vars
    BY <2>2 DEF vars, files, systemd, runner, handlers, history, IInv, Service,
                NobodyAsks, Asking, RetiringProgress, DrainProgress, RetiredIsOff,
                Retired, IsOff, NoRunner, SettledIsDisabled, DeletedIsGone, DeletedIsQuiet
  <2>3. QED BY <2>1, <2>2
<1>4. QED BY <1>1, <1>2, <1>3, ShapeInvariant, PTL DEF Spec, IInv

\* A slot that was stopped or deleted by commands that worked, with no request
\* for service since, stays down, disabled and without a runner of its own
\* through every interleaving, timeout, failing podman rm, crash and reboot.
THEOREM RetiredStaysOff == Spec => []RetiredIsOff
<1>1. IInv => RetiredIsOff
  BY DEF IInv, Service
<1>2. QED BY <1>1, SlotInvariant, PTL

\* Nothing is left of a slot whose deletion nobody interfered with.
THEOREM DeletedStaysGone == Spec => []DeletedIsGone
<1>1. IInv => DeletedIsGone
  BY DEF IInv, Service
<1>2. QED BY <1>1, SlotInvariant, PTL

\* A drain, a stop or a delete whose commands worked leaves the slot disabled.
THEOREM SettledStaysDisabled == Spec => []SettledIsDisabled
<1>1. IInv => SettledIsDisabled
  BY DEF IInv, Service
<1>2. QED BY <1>1, SlotInvariant, PTL

\* So the next boot leaves the unit of a drained slot down, which systemd
\* restarts after the drain, if the drain's disable and sed worked.
THEOREM NextBootEndsDrains == Spec => BootsLeaveItOff
<1>1. ASSUME IInv, [Next]_vars
      PROVE  settled # "no" /\ ~hostUp /\ hostUp' => unit' = "inactive" /\ settled' # "no"
  <2> SUFFICES ASSUME settled # "no", ~hostUp, hostUp'
               PROVE  unit' = "inactive" /\ settled' # "no"
    OBVIOUS
  <2> USE DEF IInv, Shape, UnitShape
  <2>1. unit = "inactive" /\ ~enabled /\ \A r \in Request : op[r] = "none" /\ pc[r] = "idle"
    BY <1>1 DEF Service, SettledIsDisabled, HandlerShape
  <2>2. CASE Boot
    BY <2>1, <2>2 DEF Boot, history
  <2>3. CASE ~Boot
    <3>1. CASE RunnerStep
      BY <3>1, <1>1 DEF RunnerStep, Register, ConfigFails, TakeJob, FinishJob, ContainerDies
    <3>2. CASE SystemdStep
      BY <3>2 DEF SystemdStep, RestartTimer, MainExits, ClientDies, ExecStop, ExecStopPost,
                  UnitStops
    <3>3. CASE PrestartStep
      BY <3>3 DEF PrestartStep, PreCheck, PreRm, PreDisable, PreSed, PreExit, MintFails,
                  MintSucceeds
    <3>4. CASE AgentRestarts \/ Crash
      BY <3>4 DEF AgentRestarts, Crash
    <3>5. ASSUME NEW r \in Request, NewRequest(r) \/ HandlerStep(r) \/ Timeout(r) PROVE FALSE
      BY <3>5, <2>1 DEF NewRequest, BeginStart, BeginStop, BeginRestart, Drain, BeginUpsert,
           BeginDelete, HandlerStep, Write, Unlink, Reload, Enable, Disable, Submit,
           JobReturns, DisableFails, Remove, UnlinkEnv, UnlinkMarker, Timeout, Begin, Runs
    <3>6. CASE UNCHANGED vars
      BY <3>6 DEF vars
    <3>7. QED BY <1>1, <2>3, <3>1, <3>2, <3>3, <3>4, <3>5, <3>6 DEF Next, HostStep
  <2>4. QED BY <2>2, <2>3
<1>2. QED BY <1>1, SlotInvariant, PTL DEF Spec, BootsLeaveItOff

-----------------------------------------------------------------------------
(* A runner without a file.                                                *)

\* Only the unlink of a delete leaves a runner without a file: of a delete that a
\* request for service has overlapped, or whose disable or podman rm has failed.
THEOREM DeletesMakeStrays == Spec => StraysComeFromDeletes
<1>1. ASSUME IInv, [Next]_vars, ~Stray, Stray'
      PROVE  \E r \in Request : UnlinkEnv(r) /\ r \notin calm
  <2> USE <1>1 DEF Stray, IInv, Shape, UnitShape, TypeOK, EnvValue, files, systemd, runner,
                   handlers, Gone, MaybeGone
  <2>1. CASE RunnerStep
    BY <2>1 DEF RunnerStep, Register, ConfigFails, TakeJob, FinishJob, ContainerDies
  <2>2. CASE SystemdStep
    BY <2>2 DEF SystemdStep, RestartTimer, MainExits, ClientDies, ExecStop, ExecStopPost,
                UnitStops, BeginPrestart
  <2>3. CASE PrestartStep
    BY <2>3 DEF PrestartStep, PreCheck, PreRm, PreDisable, PreSed, PreExit, MintFails,
                MintSucceeds, PreEnds
  <2>4. CASE HostStep
    BY <2>4 DEF HostStep, AgentRestarts, Crash, Boot, BeginPrestart
  <2>5. ASSUME NEW r \in Request, UnlinkEnv(r) PROVE r \notin calm
    <3>1. pc[r] = "unenv" /\ (container # "none" \/ pre = "mint")
      BY <2>5 DEF UnlinkEnv
    <3>2. r \in calm => unit = "inactive" /\ container = "none"
      BY <3>1 DEF Service, RetiringProgress
    <3>3. QED BY <3>1, <3>2
  <2>6. ASSUME NEW r \in Request, NewRequest(r) PROVE FALSE
    BY <2>6 DEF NewRequest, BeginStart, BeginStop, BeginRestart, Drain, BeginUpsert,
                BeginDelete
  <2>7. ASSUME NEW r \in Request, HandlerStep(r), ~UnlinkEnv(r) PROVE FALSE
    <3>1. CASE Submit(r)
      BY <3>1 DEF Submit, StartJob, StopJob, RestartJob, BeginPrestart
    <3>2. CASE Write(r)
      BY <3>2 DEF Write
    <3>3. CASE ~Submit(r) /\ ~Write(r)
      BY <2>7, <3>3 DEF HandlerStep, Unlink, Reload, Enable, Disable, JobReturns,
                        DisableFails, Remove, UnlinkMarker
    <3>4. QED BY <3>1, <3>2, <3>3
  <2>8. ASSUME NEW r \in Request, Timeout(r) PROVE FALSE
    BY <2>8 DEF Timeout
  <2>9. CASE UNCHANGED vars
    BY <2>9 DEF vars
  <2>10. QED BY <2>1, <2>2, <2>3, <2>4, <2>5, <2>6, <2>7, <2>8, <2>9 DEF Next
<1>2. QED BY <1>1, SlotInvariant, PTL DEF Spec, StraysComeFromDeletes

\* What holds as long as one request at a time is handled and no command of a
\* delete fails: it is never overlapped, and the file is there when the unit is
\* about to be enabled.
Alone ==
    /\ \A r \in Request :
          /\ op[r] = "delete" => r \in calm
          /\ pc[r] \in {"unlink", "enable"} => env # "none"
          /\ pc[r] = "reload" /\ op[r] = "editOn" => env # "none"
    /\ enabled => env # "none"

\* Every step keeps it so.
LEMMA AloneStep ==
  ASSUME \A r, s \in Request : r = s, IInv, Alone, [Next]_vars, [DeleteCommandsWork]_vars
  PROVE  Alone'
<1> USE PrestartAssumption
        DEF Alone, IInv, Shape, HandlerShape, TypeOK, EnvValue, Op, Step,
            files, systemd, runner, handlers, history, Gone, MaybeGone, Slip
<1>1. CASE RunnerStep
  BY <1>1 DEF RunnerStep, Register, ConfigFails, TakeJob, FinishJob, ContainerDies
<1>2. CASE SystemdStep
  BY <1>2 DEF SystemdStep, RestartTimer, MainExits, ClientDies, ExecStop, ExecStopPost,
              UnitStops
<1>3. CASE PrestartStep
  <2>1. env # "none" => env' # "none"
    BY <1>3 DEF PrestartStep, PreCheck, PreRm, PreDisable, PreSed, PreExit, MintFails,
                MintSucceeds
  <2>2. enabled' => enabled
    BY <1>3, Zenon DEF PrestartStep, PreCheck, PreRm, PreDisable, PreSed, PreExit, MintFails,
                       MintSucceeds
  <2>3. ASSUME NEW r \in Request PROVE r \in calm => r \in calm'
    BY <1>3 DEF PrestartStep, PreCheck, PreRm, PreDisable, PreSed, PreExit, MintFails,
                MintSucceeds
  <2>4. UNCHANGED <<op, pc>>
    BY <1>3 DEF PrestartStep, PreCheck, PreRm, PreDisable, PreSed, PreExit, MintFails,
                MintSucceeds
  <2>5. QED BY <2>1, <2>2, <2>3, <2>4
<1>4. CASE HostStep
  BY <1>4 DEF HostStep, AgentRestarts, Crash, Boot, ForgetRequests
<1>5. ASSUME NEW r \in Request, NewRequest(r) PROVE Alone'
  <2>1. CASE Drain(r)
    BY <2>1 DEF Drain
  <2>2. CASE BeginStop(r) \/ BeginDelete(r)
    <3>1. op[r] = "none" /\ op' = [op EXCEPT ![r] = op'[r]] /\ UNCHANGED <<env, enabled>>
      BY <2>2 DEF BeginStop, BeginDelete, Begin
    <3>2. pc'[r] \in {"write", "disable"} /\ calm' = calm \union {r}
      BY <2>2, <3>1 DEF BeginStop, BeginDelete, Begin, Retire, Asking
    <3>3. QED BY <3>1, <3>2
  <2>3. CASE BeginStart(r) \/ BeginRestart(r) \/ BeginUpsert(r)
    <3>1. op'[r] \in {"start", "restart", "editOn", "editOff"} /\ pc'[r] \in {"write", "submit"}
          /\ UNCHANGED <<env, enabled>>
      BY <2>3 DEF BeginStart, BeginRestart, BeginUpsert, Begin
    <3>2. QED BY <3>1
  <2>4. QED BY <1>5, <2>1, <2>2, <2>3 DEF NewRequest
<1>6. ASSUME NEW r \in Request, HandlerStep(r) PROVE Alone'
  <2>1. CASE UnlinkEnv(r)
    <3>1. ~enabled
      BY <2>1 DEF UnlinkEnv, Service, RetiringProgress
    <3>2. QED BY <2>1, <3>1 DEF UnlinkEnv, Goto
  <2>2. CASE Write(r) \/ Unlink(r) \/ Reload(r) \/ Enable(r) \/ Disable(r)
    BY <2>2 DEF Write, Unlink, Reload, Enable, Disable, Goto, Finish
  <2>3. CASE Submit(r) \/ JobReturns(r) \/ Remove(r) \/ UnlinkMarker(r)
    BY <2>3 DEF Submit, JobReturns, Remove, UnlinkMarker, Goto, Finish, DeleteCommandsWork, vars
  <2>4. CASE DisableFails(r)
    BY <2>4 DEF DisableFails, Goto, Finish, DeleteCommandsWork, vars
  <2>5. QED BY <1>6, <2>1, <2>2, <2>3, <2>4 DEF HandlerStep
<1>7. ASSUME NEW r \in Request, Timeout(r) PROVE Alone'
  BY <1>7 DEF Timeout, Finish
<1>8. CASE UNCHANGED vars
  BY <1>8 DEF vars
<1>9. QED BY <1>1, <1>2, <1>3, <1>4, <1>5, <1>6, <1>7, <1>8 DEF Next

\* If each request is answered, be it with a 504, before the next is made, and no
\* disable or podman rm of a delete fails unchecked, then neither a runner nor an
\* enabled unit is left without a file, whatever times out, dies or loses power.
THEOREM OneRequestLeavesNoStray ==
  ASSUME \A r, s \in Request : r = s
  PROVE  Spec /\ [][DeleteCommandsWork]_vars => []NothingWithoutFile
<1>1. Init => Alone /\ ~Stray
  BY DEF Init, Alone, Stray
<1>2. IInv /\ Alone /\ ~Stray /\ [Next]_vars /\ [~Stray /\ Stray' =>
          \E r \in Request : UnlinkEnv(r) /\ r \notin calm]_vars => ~Stray'
  BY DEF Alone, IInv, Shape, HandlerShape, UnlinkEnv, Stray, vars, files, systemd, runner
<1>3. Alone /\ ~Stray => NothingWithoutFile
  BY DEF Alone, NothingWithoutFile
<1>4. QED
  BY <1>1, <1>2, <1>3, AloneStep, SlotInvariant, DeletesMakeStrays, PTL
     DEF Spec, StraysComeFromDeletes

-----------------------------------------------------------------------------
(* Refinement of AbstractSlot.                                              *)

\* Every step of the slot is a step of the promise, or changes nothing of it.
LEMMA PromiseStep ==
  ASSUME IInv, IInv', [Next]_vars
  PROVE  [Promise!ANext]_(Promise!aVars)
<1> USE DEF IInv, Shape, Service, UnitShape, JobShape, HandlerShape, NobodyAsks, Asking,
            RetiringProgress, RetiredIsOff, Retired, IsOff, NoRunner, TypeOK, UnitState,
            Job, PreStep, Container, Phase, Promise!ANext, Promise!aVars,
            Promise!AskFor, Promise!TurnOn, Promise!Listen, Promise!Work, Promise!Leave,
            Promise!TurnOff, Promise!Park, Promise!GiveUp, Promise!AtLast,
            Promise!PowerLoss, Promise!PowerUp, files, systemd, runner, handlers,
            history, Gone, MaybeGone, Slip, BeginPrestart, PreEnds, ForgetRequests,
            Begin, Goto, Finish, Ask, Runs
<1>1. CASE RunnerStep
  <2>1. CASE Register BY <2>1 DEF Register
  <2>2. CASE ConfigFails BY <2>2 DEF ConfigFails
  <2>3. CASE TakeJob BY <2>3 DEF TakeJob
  <2>4. CASE FinishJob BY <2>4 DEF FinishJob
  <2>5. CASE ContainerDies BY <2>5 DEF ContainerDies
  <2>6. QED
    BY <1>1, <2>1, <2>2, <2>3, <2>4, <2>5 DEF RunnerStep
<1>2. CASE SystemdStep
  <2>1. CASE RestartTimer BY <2>1 DEF RestartTimer
  <2>2. CASE MainExits BY <2>2 DEF MainExits
  <2>3. CASE ClientDies BY <2>3 DEF ClientDies
  <2>4. CASE ExecStop BY <2>4 DEF ExecStop
  <2>5. CASE ExecStopPost BY <2>5 DEF ExecStopPost
  <2>6. CASE UnitStops BY <2>6 DEF UnitStops, AfterPost, PostIsOver
  <2>7. QED
    BY <1>2, <2>1, <2>2, <2>3, <2>4, <2>5, <2>6 DEF SystemdStep
<1>3. CASE PrestartStep
  <2>1. CASE PreCheck BY <2>1 DEF PreCheck
  <2>2. CASE PreRm BY <2>2 DEF PreRm
  <2>3. CASE PreDisable BY <2>3 DEF PreDisable
  <2>4. CASE PreSed BY <2>4 DEF PreSed
  <2>5. CASE PreExit BY <2>5 DEF PreExit
  <2>6. CASE MintFails BY <2>6 DEF MintFails
  <2>7. CASE MintSucceeds BY <2>7 DEF MintSucceeds
  <2>8. QED
    BY <1>3, <2>1, <2>2, <2>3, <2>4, <2>5, <2>6, <2>7 DEF PrestartStep
<1>4. CASE HostStep
  <2>1. CASE AgentRestarts BY <2>1 DEF AgentRestarts
  <2>2. CASE Crash BY <2>2 DEF Crash
  <2>3. CASE Boot BY <2>3 DEF Boot
  <2>4. QED
    BY <1>4, <2>1, <2>2, <2>3 DEF HostStep
<1>5. ASSUME NEW r \in Request, NewRequest(r) \/ HandlerStep(r) \/ Timeout(r)
     PROVE  [Promise!ANext]_(Promise!aVars)
  <2>1. CASE BeginStart(r) BY <2>1 DEF BeginStart
  <2>2. CASE BeginStop(r) BY <2>2 DEF BeginStop
  <2>3. CASE BeginRestart(r) BY <2>3 DEF BeginRestart
  <2>4. CASE Drain(r) BY <2>4 DEF Drain
  <2>5. CASE BeginUpsert(r) BY <2>5 DEF BeginUpsert
  <2>6. CASE BeginDelete(r) BY <2>6 DEF BeginDelete
  <2>7. CASE Write(r) BY <2>7 DEF Write
  <2>8. CASE Unlink(r) BY <2>8 DEF Unlink
  <2>9. CASE Reload(r) BY <2>9 DEF Reload
  <2>10. CASE Enable(r) BY <2>10 DEF Enable
  <2>11. CASE Disable(r) BY <2>11 DEF Disable
  <2>12. CASE Submit(r) BY <2>12 DEF Submit, StartJob, StopJob, RestartJob
  <2>13. CASE JobReturns(r) BY <2>13 DEF JobReturns
  <2>14. CASE Remove(r) BY <2>14 DEF Remove
  <2>15. CASE UnlinkEnv(r) BY <2>15 DEF UnlinkEnv
  <2>16. CASE UnlinkMarker(r) BY <2>16 DEF UnlinkMarker
  <2>17. CASE Timeout(r) BY <2>17 DEF Timeout
  <2>18. CASE DisableFails(r) BY <2>18 DEF DisableFails
  <2>19. QED
    BY <1>5, <2>1, <2>2, <2>3, <2>4, <2>5, <2>6, <2>7, <2>8, <2>9, <2>10,
     <2>11, <2>12, <2>13, <2>14, <2>15, <2>16, <2>17, <2>18 DEF NewRequest, HandlerStep
<1>6. CASE UNCHANGED vars BY <1>6 DEF vars
<1>7. QED BY <1>1, <1>2, <1>3, <1>4, <1>5, <1>6 DEF Next

\* The slot of files, scripts, units and requests implements AbstractSlot.
THEOREM SlotKeepsPromise == Spec => KeepsPromise
<1>1. Init => Promise!AInit
  BY DEF Init, Promise!AInit, Phase, Retired
<1>2. QED
  BY <1>1, PromiseStep, SlotInvariant, PTL DEF Spec, KeepsPromise, Promise!ASpec

-----------------------------------------------------------------------------
(* Refinement of SlotWorld, the slot that SlotEvents watches.              *)

\* To an observer every step of the container is a job's start or end, or nothing.
LEMMA SeenRunnerStep == Shape /\ RunnerStep => [Seen!WorldNext]_(Seen!world)
<1> SUFFICES ASSUME Shape, RunnerStep PROVE [Seen!WorldNext]_(Seen!world)
  OBVIOUS
<1> USE DEF Shape, UnitShape, TypeOK, UnitState, Container, runner, Gone, MaybeGone,
            Slip, ActiveState, files, systemd, Seen!WorldNext, Seen!world,
            Seen!JobStarts, Seen!JobEnds
<1>1. CASE Register BY <1>1 DEF Register
<1>2. CASE ConfigFails BY <1>2 DEF ConfigFails
<1>3. CASE TakeJob BY <1>3 DEF TakeJob
<1>4. CASE FinishJob BY <1>4 DEF FinishJob
<1>5. CASE ContainerDies BY <1>5 DEF ContainerDies
<1>6. QED BY <1>1, <1>2, <1>3, <1>4, <1>5 DEF RunnerStep

\* systemd takes the unit down with the job or before it, and up without one.
LEMMA SeenSystemdStep == Shape /\ SystemdStep => [Seen!WorldNext]_(Seen!world)
<1> SUFFICES ASSUME Shape, SystemdStep PROVE [Seen!WorldNext]_(Seen!world)
  OBVIOUS
<1> USE DEF Shape, UnitShape, TypeOK, UnitState, Container, runner, Gone, MaybeGone,
            Slip, ActiveState, files, BeginPrestart, Seen!WorldNext, Seen!world,
            Seen!UnitStarts, Seen!UnitGoesDown, Seen!JobEnds
<1>1. CASE RestartTimer BY <1>1 DEF RestartTimer
<1>2. CASE MainExits BY <1>2 DEF MainExits
<1>3. CASE ClientDies BY <1>3 DEF ClientDies
<1>4. CASE ExecStop BY <1>4 DEF ExecStop
<1>5. CASE ExecStopPost BY <1>5 DEF ExecStopPost, systemd
<1>6. CASE UnitStops BY <1>6 DEF UnitStops, AfterPost, PostIsOver
<1>7. QED BY <1>1, <1>2, <1>3, <1>4, <1>5, <1>6 DEF SystemdStep

\* The script changes the file or the link, or ends with the unit up or down.
LEMMA SeenPrestartStep == Shape /\ PrestartStep => [Seen!WorldNext]_(Seen!world)
<1> SUFFICES ASSUME Shape, PrestartStep PROVE [Seen!WorldNext]_(Seen!world)
  OBVIOUS
<1> USE DEF Shape, UnitShape, TypeOK, UnitState, Container, runner, Gone, MaybeGone,
            Slip, EnvValue, ActiveState, files, PreEnds, Seen!WorldNext, Seen!world,
            Seen!Configure, Seen!UnitIsUp, Seen!UnitGoesDown
<1>1. CASE PreCheck BY <1>1 DEF PreCheck
<1>2. CASE PreRm BY <1>2 DEF PreRm
<1>3. CASE PreDisable BY <1>3 DEF PreDisable
<1>4. CASE PreSed BY <1>4 DEF PreSed
<1>5. CASE PreExit BY <1>5 DEF PreExit
<1>6. CASE MintFails BY <1>6 DEF MintFails
<1>7. CASE MintSucceeds BY <1>7 DEF MintSucceeds
<1>8. QED BY <1>1, <1>2, <1>3, <1>4, <1>5, <1>6, <1>7 DEF PrestartStep

\* A crash takes unit and job down at once; a boot starts the unit or nothing.
LEMMA SeenHostStep == Shape /\ HostStep => [Seen!WorldNext]_(Seen!world)
<1> SUFFICES ASSUME Shape, HostStep PROVE [Seen!WorldNext]_(Seen!world)
  OBVIOUS
<1> USE DEF Shape, UnitShape, TypeOK, UnitState, Container, runner, Gone, MaybeGone,
            Slip, ActiveState, files, systemd, BeginPrestart, Seen!WorldNext,
            Seen!world, Seen!UnitStarts, Seen!UnitGoesDown, Seen!JobEnds
<1>1. CASE AgentRestarts BY <1>1 DEF AgentRestarts
<1>2. CASE Crash BY <1>2 DEF Crash
<1>3. CASE Boot BY <1>3 DEF Boot
<1>4. QED BY <1>1, <1>2, <1>3 DEF HostStep

\* A step of a request changes one of file, link, unit and job, or nothing.
LEMMA SeenRequestStep ==
  ASSUME NEW r \in Request, Shape, NewRequest(r) \/ HandlerStep(r) \/ Timeout(r)
  PROVE  [Seen!WorldNext]_(Seen!world)
<1> USE DEF Shape, UnitShape, TypeOK, UnitState, Container, runner, Gone, MaybeGone,
            Slip, EnvValue, ActiveState, files, systemd, Begin, Goto, Finish,
            Seen!WorldNext, Seen!world, Seen!Configure, Seen!UnitStarts,
            Seen!UnitGoesDown, Seen!JobEnds
<1>1. CASE BeginStart(r) BY <1>1 DEF BeginStart
<1>2. CASE BeginStop(r) BY <1>2 DEF BeginStop
<1>3. CASE BeginRestart(r) BY <1>3 DEF BeginRestart
<1>4. CASE Drain(r) BY <1>4 DEF Drain
<1>5. CASE BeginUpsert(r) BY <1>5 DEF BeginUpsert
<1>6. CASE BeginDelete(r) BY <1>6 DEF BeginDelete
<1>7. CASE Write(r) BY <1>7 DEF Write
<1>8. CASE Unlink(r) BY <1>8 DEF Unlink
<1>9. CASE Reload(r) BY <1>9 DEF Reload
<1>10. CASE Enable(r) BY <1>10 DEF Enable
<1>11. CASE Disable(r) BY <1>11 DEF Disable
<1>12. CASE Submit(r) BY <1>12 DEF Submit, StartJob, StopJob, RestartJob, BeginPrestart
<1>13. CASE JobReturns(r) BY <1>13 DEF JobReturns
<1>14. CASE Remove(r) BY <1>14 DEF Remove
<1>15. CASE UnlinkEnv(r) BY <1>15 DEF UnlinkEnv
<1>16. CASE UnlinkMarker(r) BY <1>16 DEF UnlinkMarker
<1>17. CASE Timeout(r) BY <1>17 DEF Timeout
<1>18. CASE DisableFails(r) BY <1>18 DEF DisableFails
<1>19. QED
  BY <1>1, <1>2, <1>3, <1>4, <1>5, <1>6, <1>7, <1>8, <1>9, <1>10, <1>11, <1>12,
     <1>13, <1>14, <1>15, <1>16, <1>17, <1>18 DEF NewRequest, HandlerStep

\* The slot is one that SlotEvents may watch, so what is proved there of the
\* events holds of this slot, whatever requests, failures and exit 69 do to it.
THEOREM SlotIsWatchable == Spec => IsWhatEventsWatch
<1>1. Init => Seen!WorldInit
  BY DEF Init, ActiveState, Seen!WorldInit
<1>2. Shape /\ [Next]_vars => [Seen!WorldNext]_(Seen!world)
  <2> SUFFICES ASSUME Shape, [Next]_vars PROVE [Seen!WorldNext]_(Seen!world)
    OBVIOUS
  <2>1. CASE Next
    BY <2>1, SeenRunnerStep, SeenSystemdStep, SeenPrestartStep, SeenHostStep,
       SeenRequestStep DEF Next
  <2>2. CASE UNCHANGED vars
    BY <2>2 DEF vars, files, systemd, runner, ActiveState, Seen!world
  <2>3. QED BY <2>1, <2>2
<1>3. QED
  BY <1>1, <1>2, ShapeInvariant, PTL DEF Spec, IsWhatEventsWatch, Seen!World
=============================================================================
