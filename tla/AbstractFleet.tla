---------------------------- MODULE AbstractFleet ---------------------------
(***************************************************************************)
(* What the manager's picture of the fleet promises, however many calls,   *)
(* lists and broken passes it takes to draw it: a host is unknown, up,     *)
(* degraded or lost.  It is lost only after it was shown degraded, from    *)
(* lost it comes back only by an answer, and only a new process forgets.   *)
(***************************************************************************)
CONSTANT Host

VARIABLE status

Status == {"unknown", "up", "degraded", "lost"}

FInit == status = [h \in Host |-> "unknown"]

Turns(h, from, to) == status[h] \in from /\ status' = [status EXCEPT ![h] = to]

Answers(h) == Turns(h, Status, "up")
Fails(h)   == Turns(h, {"unknown", "up"}, "degraded")
IsLost(h)  == Turns(h, {"degraded"}, "lost")

Forgets == status' = [h \in Host |-> "unknown"]

FNext == Forgets \/ \E h \in Host : Answers(h) \/ Fails(h) \/ IsLost(h)

FSpec == FInit /\ [][FNext]_status
=============================================================================
