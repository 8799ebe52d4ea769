----------------------------- MODULE MCReconcile -----------------------------
EXTENDS Reconcile

\* Bound: the disabled host keeps its slot's file once it has one, its slot and
\* its registration move only between two passes, and its runner keeps the
\* connection to GitHub and gets a new id at every registration.  The manager
\* never asks it, so none of this is seen by it other than as the registrations
\* that remain; the enabled host does all of it at any time.  The operator loads
\* the page when it shows no orphan of the disabled host.
DisabledHostsStay ==
    /\ \A h \in Host \ Enabled :
          /\ slot[h] # slot'[h] => slot'[h] \notin {"stray", "absent"}
          /\ <<slot[h], reg[h]>> # <<slot'[h], reg'[h]>> => pc = "idle"
          /\ reg'[h] # "blip" /\ shown'[h] = "no"
    /\ adopted' \subseteq Enabled
=============================================================================
