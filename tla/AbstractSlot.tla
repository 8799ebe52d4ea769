---------------------------- MODULE AbstractSlot ----------------------------
(***************************************************************************)
(* What a runner slot promises, whatever files, units and scripts it is    *)
(* made of.  A slot is off, or it goes round: between jobs, listening,     *)
(* busy, between jobs.  It goes off, or on to the next job, only from      *)
(* between jobs or by giving up a runner that cannot be removed, and once  *)
(* parked (stopped or deleted) it stays off until somebody asks for it.    *)
(***************************************************************************)
VARIABLES phase,   \* what the slot is doing; "dark" while the host has no power
          parked,  \* the slot has been taken out of service for good
          astray   \* a runner that could not be removed lives on, outside the slot

aVars == <<phase, parked, astray>>

Phase == {"dark", "off", "between", "idle", "job"}

AInit == phase = "off" /\ parked = TRUE /\ astray = FALSE

\* A start, a restart, or an edit that starts the slot.
AskFor == parked' = FALSE /\ UNCHANGED <<phase, astray>>

TurnOn == phase = "off" /\ ~parked /\ phase' = "between" /\ UNCHANGED <<parked, astray>>

\* A slot listens only when the runner it gave up is gone.
Listen == phase = "between" /\ ~astray /\ phase' = "idle" /\ UNCHANGED <<parked, astray>>

Work == phase = "idle" /\ phase' = "job" /\ UNCHANGED <<parked, astray>>

\* The job is over, or the runner is gone.
Leave == phase \in {"idle", "job"} /\ phase' = "between" /\ UNCHANGED <<parked, astray>>

TurnOff == phase = "between" /\ phase' = "off" /\ UNCHANGED <<parked, astray>>

\* The slot goes on without a runner that it has failed to remove.
GiveUp ==
    /\ phase \in {"between", "idle", "job"}
    /\ phase' \in {"between", "off"} /\ astray' = TRUE /\ UNCHANGED parked

\* That runner ends, or is removed after all.
AtLast == astray /\ astray' = FALSE /\ UNCHANGED <<phase, parked>>

\* The request that took the slot out of service is complete.
Park == phase = "off" /\ parked' = TRUE /\ UNCHANGED <<phase, astray>>

PowerLoss == phase # "dark" /\ phase' = "dark" /\ astray' = FALSE /\ UNCHANGED parked

\* A parked slot stays off when the host comes back.
PowerUp ==
    /\ phase = "dark" /\ UNCHANGED <<parked, astray>>
    /\ phase' \in IF parked THEN {"off"} ELSE {"off", "between"}

ANext ==
    \/ AskFor \/ TurnOn \/ Listen \/ Work \/ Leave \/ TurnOff \/ GiveUp \/ AtLast
    \/ Park \/ PowerLoss \/ PowerUp

ASpec == AInit /\ [][ANext]_aVars
=============================================================================
