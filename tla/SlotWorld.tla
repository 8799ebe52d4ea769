------------------------------ MODULE SlotWorld ------------------------------
(***************************************************************************)
(* What the agent's slot_view can see of one slot, and how that may change *)
(* between two of its reads: the slot's file, the link that enables its    *)
(* unit, ActiveState of the unit, the job in its container.  SlotEvents    *)
(* watches this slot; RunnerSlot, the slot in detail, implements it.       *)
(***************************************************************************)
CONSTANTS Job,          \* the jobs a slot may run
          None          \* no job

VARIABLES
    env,                \* ENABLED in the file, or no file
    link,               \* the unit is enabled
    unit,               \* systemd's state of the unit
    job                 \* the job that runs in the container

world == <<env, link, unit, job>>

WorldInit == env = "none" /\ link = FALSE /\ unit = "down" /\ job = None

\* A request or a drain writes the file or deletes it, or changes the link.
Configure ==
    /\ \/ env' \in {"true", "false", "none"} /\ UNCHANGED link
       \/ link' = ~link /\ UNCHANGED env
    /\ UNCHANGED <<unit, job>>

\* Somebody starts the unit, or Restart=always does.  The last job is over,
\* unless its container could not be removed.
UnitStarts ==
    /\ unit = "down"
    /\ unit' = "activating"
    /\ UNCHANGED <<env, link, job>>

\* Prestart is done, and a container that was left is removed.
UnitIsUp ==
    /\ unit = "activating"
    /\ unit' = "active" /\ job' = None
    /\ UNCHANGED <<env, link>>

\* It goes down, is down or has failed.  A job may go on until the container is
\* killed, or end with the unit.
UnitGoesDown ==
    /\ unit # "down"
    /\ unit' = "down" /\ job' \in {job, None}
    /\ UNCHANGED <<env, link>>

JobStarts ==
    /\ job = None
    /\ job' \in Job
    /\ UNCHANGED <<env, link, unit>>

JobEnds ==
    /\ job # None /\ job' = None
    /\ UNCHANGED <<env, link, unit>>

WorldNext ==
    Configure \/ UnitStarts \/ UnitIsUp \/ UnitGoesDown \/ JobStarts \/ JobEnds

World == WorldInit /\ [][WorldNext]_world
=============================================================================
