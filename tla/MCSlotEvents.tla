---------------------------- MODULE MCSlotEvents -----------------------------
EXTENDS SlotEvents

\* Bound: a process of the manager that has seen the slot restart sees no job of
\* it and has told neither offline nor online, and one that has sees no restart.
\* The comparison of the restarts shares nothing with the other two but the pass,
\* which ends early for it also when something else raises.
RestartsApart ==
    \/ seen' = 0 /\ cl' = 0 /\ (state' = None \/ state'.restarts = 0)
    \/ /\ prevJob' = None /\ heardJob' = None /\ (state' = None \/ state'.job = None)
       /\ heard' \in {"nothing", "lost"}
=============================================================================
