----------------------------- MODULE Reconcile ------------------------------
(***************************************************************************)
(* The manager's fleet reconciliation (manager/fleet.py): one pass lists   *)
(* the runners GitHub knows, asks the agent of every host for its state,   *)
(* one after the other, then declares hosts that have been unreachable     *)
(* for longer than the grace period lost, deletes their registrations and  *)
(* publishes the orphans an operator may delete by hand.                   *)
(*                                                                         *)
(* The pass awaits at every call.  Hosts, runners and GitHub move between  *)
(* any two of its steps, and so does the operator.  A host has one slot:   *)
(* what the pass does, it does for each registration of a host alike.      *)
(***************************************************************************)
EXTENDS Integers

CONSTANTS Host,      \* the hosts of manager.toml
          Enabled,   \* those with enabled = true
          Grace,     \* reap_grace_minutes
          Pause      \* what may pass from one pass to the next

ASSUME EnabledAssumption == Enabled \subseteq Host
ASSUME GraceAssumption == Grace \in Nat
ASSUME PauseAssumption == Pause \subseteq Nat \ {0}

VARIABLES
    up,          \* the agent answers the manager
    slot,        \* the host's slot: its file and its live runner
    reg,         \* the slot's registration at GitHub
    reachable, since, reaped, state, ever,    \* FLEET[h], since as an age
    pc, todo,    \* the pass: its phase and the hosts still to be visited
    listed,      \* gh_runners: the status of the host's runner in the list
    ghError,     \* the list of this pass could not be had
    same,        \* registrations that are still the ones this pass listed
    orphan,      \* FLEET["_meta"]["orphans"], without the ids gone since
    shown,       \* the orphans on the page that the operator has before him
    contact,     \* history: age of the last answer, as of the pass's now
    told,        \* history: the last event about the host's reachability
    strayed,     \* history: hosts whose runner has lost its slot's file
    adopted      \* history: hosts whose runner has registered under an id that
                 \* the pass or the page already held

world   == <<up, slot, reg>>
entry   == <<reachable, since, reaped, state, ever>>
pass    == <<pc, todo, listed, ghError, same>>
page    == <<orphan, shown>>
history == <<contact, told, strayed, adopted>>
vars    == <<world, entry, pass, page, history>>

Slot   == {"absent", "down", "serving", "stray"}   \* stray: a runner without a file
Reg    == {"none", "online", "blip", "ghost"}
Known  == {"unknown", "absent", "present"}
Status == {"none", "online", "offline"}
Orphan == {"no", "unsure", "sure"}   \* sure: the host answered in that pass
Event  == {"none", "degraded", "recovered", "twice"}

Never  == -1             \* unreachable_since is None
Age    == 0..(Grace + 1) \* Grace + 1 stands for every age beyond the grace period

\* A runner process is behind the registration; GitHub sees it, or has lost it.
Alive(h) == reg[h] \in {"online", "blip"}

Init ==
    /\ up = [h \in Host |-> FALSE]
    /\ slot = [h \in Host |-> "absent"] /\ reg = [h \in Host |-> "none"]
    /\ reachable = [h \in Host |-> FALSE] /\ since = [h \in Host |-> Never]
    /\ reaped = [h \in Host |-> FALSE] /\ state = [h \in Host |-> "unknown"]
    /\ ever = [h \in Host |-> FALSE]
    /\ pc = "idle" /\ todo = {} /\ listed = [h \in Host |-> "none"]
    /\ ghError = FALSE /\ same = {}
    /\ orphan = [h \in Host |-> "no"] /\ shown = [h \in Host |-> "no"]
    /\ contact = [h \in Host |-> Grace + 1] /\ told = [h \in Host |-> "none"] /\ strayed = {}
    /\ adopted = {}

-----------------------------------------------------------------------------
(* The hosts, their runners and GitHub.                                    *)

Mutant_DeletesByName(h) == same' = same \ {h} /\ UNCHANGED page

\* The id of h's registration is no longer there: deleting it does nothing.
Replaced(h) ==
    /\ same' = same \ {h}
    /\ orphan' = [orphan EXCEPT ![h] = "no"] /\ shown' = [shown EXCEPT ![h] = "no"]

\* A slot in this state has a live runner, with its file or without.
Serving(s) == s \in {"serving", "stray"}

\* The slot has a file, and known_slots lists it.
HasFile(s) == s \in {"down", "serving"}

\* The slot becomes s; a runner that lacks its file now has strayed.
Becomes(h, s) ==
    /\ slot' = [slot EXCEPT ![h] = s]
    /\ strayed' = IF s = "stray" THEN strayed \union {h}
                  ELSE IF Serving(s) /\ Serving(slot[h]) THEN strayed ELSE strayed \ {h}

\* The pass, the snapshot or the page holds the id of h's registration.
Held(h) == h \in same \/ orphan[h] # "no" \/ shown[h] # "no"

\* config.sh --replace registers the slot's next runner, even when a delete has
\* taken the file since the script read it.  Whether GitHub gives it a new id or
\* lets it keep the one that is registered under the name is GitHub's affair.
Serve(h) ==
    /\ ~Serving(slot[h])
    /\ Becomes(h, IF slot[h] = "down" THEN "serving" ELSE "stray")
    /\ reg' = [reg EXCEPT ![h] = "online"]
    /\ \/ Replaced(h) /\ UNCHANGED adopted
       \/ Held(h) /\ adopted' = adopted \union {h} /\ UNCHANGED <<same, page>>
    /\ UNCHANGED <<up, entry, pc, todo, listed, ghError, contact, told>>

\* The runner ends, with its file or without; its registration may be left.
Leave(h) ==
    /\ Serving(slot[h])
    /\ Becomes(h, IF slot[h] = "serving" THEN "down" ELSE "absent")
    /\ \/ /\ reg' = [reg EXCEPT ![h] = "none"] /\ Replaced(h)
       \/ /\ Alive(h)
          /\ reg' = [reg EXCEPT ![h] = "ghost"] /\ UNCHANGED <<same, page>>
    /\ adopted' = adopted \ {h}
    /\ UNCHANGED <<up, entry, pc, todo, listed, ghError, contact, told>>

\* A slot is created on the host, or its file is deleted: while no runner is
\* up, or under one that a restart has brought up meanwhile.
Configure(h) ==
    /\ Becomes(h, CASE slot[h] = "absent"  -> "down"
                    [] slot[h] = "down"    -> "absent"
                    [] slot[h] = "serving" -> "stray"
                    [] slot[h] = "stray"   -> "serving")
    /\ UNCHANGED <<up, reg, entry, pass, page, contact, told, adopted>>

\* A live runner loses its connection to GitHub, or has it again.
Blip(h) ==
    /\ Alive(h)
    /\ reg' = [reg EXCEPT ![h] = IF reg[h] = "online" THEN "blip" ELSE "online"]
    /\ UNCHANGED <<up, slot, entry, pass, page, history>>

\* GitHub drops the registration of an ephemeral runner that is gone.
Expire(h) ==
    /\ reg[h] = "ghost"
    /\ reg' = [reg EXCEPT ![h] = "none"] /\ Replaced(h)
    /\ UNCHANGED <<up, slot, entry, pc, todo, listed, ghError, history>>

\* The agent, or the network before it, goes or comes back.  Nobody asks the
\* agent of a disabled host.
AgentTurns(h) ==
    /\ h \in Enabled
    /\ up' = [up EXCEPT ![h] = ~up[h]]
    /\ UNCHANGED <<slot, reg, entry, pass, page, history>>

-----------------------------------------------------------------------------
(* A pass.                                                                 *)

Older(age, d) ==
    IF age = Never THEN Never ELSE IF age + d > Grace THEN Grace + 1 ELSE age + d

Seen(h) ==
    IF reg[h] \in {"none", "online"} THEN reg[h] ELSE "offline"

\* now = time.time(), and the list of GitHub's runners.  ok: it can be had.
Begin(d, ok) ==
    /\ pc = "idle"
    /\ pc' = "poll" /\ todo' = Host
    /\ ghError' = ~ok
    /\ listed' = [h \in Host |-> IF ok THEN Seen(h) ELSE "none"]
    /\ same' = IF ok THEN {h \in Host : reg[h] # "none"} ELSE {}
    /\ since' = [h \in Host |-> Older(since[h], d)]
    /\ contact' = [h \in Host |-> Older(contact[h], d)]
    /\ UNCHANGED <<world, reachable, reaped, state, ever, page, told, strayed, adopted>>

Visit(h, phase) ==
    /\ pc = phase /\ h \in todo
    /\ todo' = todo \ {h}

\* An event is emitted; one that repeats the event before it tells nothing.
Emit(h, event) == told' = [told EXCEPT ![h] = IF told[h] = event THEN "twice" ELSE event]

\* A host that is disabled in manager.toml.
Skip(h) ==
    /\ Visit(h, "poll") /\ h \notin Enabled
    /\ reachable' = [reachable EXCEPT ![h] = FALSE]
    /\ state' = [state EXCEPT ![h] = "unknown"]
    /\ UNCHANGED <<world, since, reaped, ever, pc, listed, ghError, same, page, history>>

Mutant_ForgetsRecovery(h) ==
    /\ Visit(h, "poll") /\ h \in Enabled /\ up[h]
    /\ reachable' = [reachable EXCEPT ![h] = TRUE]
    /\ since' = [since EXCEPT ![h] = Never]
    /\ reaped' = [reaped EXCEPT ![h] = FALSE]
    /\ state' = [state EXCEPT ![h] = IF HasFile(slot[h]) THEN "present" ELSE "absent"]
    /\ ever' = [ever EXCEPT ![h] = TRUE]
    /\ contact' = [contact EXCEPT ![h] = 0]
    /\ UNCHANGED <<world, pc, listed, ghError, same, page, told, strayed, adopted>>

Mutant_StaysReaped(h) ==
    /\ Visit(h, "poll") /\ h \in Enabled /\ up[h]
    /\ reachable' = [reachable EXCEPT ![h] = TRUE]
    /\ since' = [since EXCEPT ![h] = Never]
    /\ state' = [state EXCEPT ![h] = IF HasFile(slot[h]) THEN "present" ELSE "absent"]
    /\ IF ~reachable[h] /\ ever[h] THEN Emit(h, "recovered") ELSE UNCHANGED told
    /\ ever' = [ever EXCEPT ![h] = TRUE]
    /\ contact' = [contact EXCEPT ![h] = 0]
    /\ UNCHANGED <<world, reaped, pc, listed, ghError, same, page, strayed, adopted>>

Answer(h) ==
    /\ Visit(h, "poll") /\ h \in Enabled /\ up[h]
    /\ reachable' = [reachable EXCEPT ![h] = TRUE]
    /\ since' = [since EXCEPT ![h] = Never]
    /\ reaped' = [reaped EXCEPT ![h] = FALSE]
    /\ state' = [state EXCEPT ![h] = IF HasFile(slot[h]) THEN "present" ELSE "absent"]
    /\ IF ~reachable[h] /\ ever[h] THEN Emit(h, "recovered") ELSE UNCHANGED told
    /\ ever' = [ever EXCEPT ![h] = TRUE]
    /\ contact' = [contact EXCEPT ![h] = 0]
    /\ UNCHANGED <<world, pc, listed, ghError, same, page, strayed, adopted>>

Mutant_SinceLastFailure(h) == [since EXCEPT ![h] = 0]

\* unreachable_since is the first failure's now.
FirstFailure(h) == [since EXCEPT ![h] = IF since[h] = Never THEN 0 ELSE since[h]]

Mutant_ErrorBecomesState(h) ==
    /\ Visit(h, "poll") /\ h \in Enabled
    /\ since' = FirstFailure(h)
    /\ reachable' = [reachable EXCEPT ![h] = FALSE]
    /\ state' = [state EXCEPT ![h] = "error"]
    /\ IF reachable[h] THEN Emit(h, "degraded") ELSE UNCHANGED told
    /\ UNCHANGED <<world, reaped, ever, pc, listed, ghError, same, page>>
    /\ UNCHANGED <<contact, strayed, adopted>>

\* AgentError: unreachable, too slow, or an error status.  The state stays.
NoAnswer(h) ==
    /\ Visit(h, "poll") /\ h \in Enabled
    /\ since' = FirstFailure(h)
    /\ reachable' = [reachable EXCEPT ![h] = FALSE]
    /\ IF reachable[h] THEN Emit(h, "degraded") ELSE UNCHANGED told
    /\ UNCHANGED <<world, reaped, state, ever, pc, listed, ghError, same, page>>
    /\ UNCHANGED <<contact, strayed, adopted>>

PollsDone ==
    /\ pc = "poll" /\ todo = {}
    /\ pc' = "reap" /\ todo' = Host
    /\ UNCHANGED <<world, entry, listed, ghError, same, page, history>>

Mutant_AgeNotTested(h) == since[h] # Never /\ ~reaped[h] /\ ~ghError

\* The host has been unreachable for longer than the grace period.
Due(h) == since[h] # Never /\ ~reaped[h] /\ since[h] > Grace /\ ~ghError

Spare(h) ==
    /\ Visit(h, "reap") /\ ~Due(h)
    /\ UNCHANGED <<world, entry, pc, listed, ghError, same, page, history>>

\* Delete the listed registration by its id: gone, gone already, or an error
\* that is only written to the audit log.
DeleteListed(h) ==
    \/ /\ listed[h] # "none" /\ h \in same
       /\ reg' = [reg EXCEPT ![h] = "none"] /\ Replaced(h)
    \/ UNCHANGED <<reg, same, page>>

Reap(h) ==
    /\ Visit(h, "reap") /\ Due(h)
    /\ DeleteListed(h)
    /\ reaped' = [reaped EXCEPT ![h] = TRUE]
    /\ UNCHANGED <<up, slot, reachable, since, state, ever, pc, listed, ghError, history>>

PassEnds(as) ==
    /\ pc' = as /\ todo' = {} /\ same' = {} /\ ghError' = FALSE
    /\ listed' = [h \in Host |-> "none"]

NoPass == PassEnds("idle")

\* _every writes the exception to the audit log and goes on.  When that raises
\* too, the loop is at its end, and only a new process has one again.
BrokenPass == NoPass \/ PassEnds("dead")

Mutant_OfflineIsOrphan == {h \in Host : listed[h] = "offline"}

\* _find_orphans: offline at GitHub, and no slot of the name in any state.
FindOrphans == {h \in Host : listed[h] = "offline" /\ state[h] # "present"}

EndPass ==
    /\ pc = "reap" /\ todo = {}
    /\ orphan' = [h \in Host |->
                     IF h \notin FindOrphans \intersect same THEN "no"
                     ELSE IF reachable[h] THEN "sure" ELSE "unsure"]
    /\ NoPass
    /\ UNCHANGED <<world, entry, shown, history>>

\* Any other exception, or one that an event handler's audit raises, ends the
\* pass at the host where it is.
PassBreaks ==
    /\ pc \in {"poll", "reap"} /\ todo # {}
    /\ BrokenPass
    /\ UNCHANGED <<world, entry, page, history>>

\* The audit of a reap fails: whatever is deleted, the host is not reaped yet.
ReapBreaks(h) ==
    /\ pc = "reap" /\ h \in todo /\ Due(h)
    /\ listed[h] # "none" /\ h \in same
    /\ reg' = [reg EXCEPT ![h] = "none"]
    /\ orphan' = [orphan EXCEPT ![h] = "no"] /\ shown' = [shown EXCEPT ![h] = "no"]
    /\ BrokenPass
    /\ UNCHANGED <<up, slot, entry, history>>

-----------------------------------------------------------------------------
(* The operator and the manager's process.                                 *)

\* The Health page is loaded.
LoadPage ==
    /\ shown' = orphan
    /\ UNCHANGED <<world, entry, pass, orphan, history>>

\* Its button, at any time later: delete the orphan's registration by its id.
ReapOrphan(h) ==
    /\ shown[h] # "no"
    /\ reg' = [reg EXCEPT ![h] = "none"] /\ Replaced(h)
    /\ UNCHANGED <<up, slot, entry, pc, todo, listed, ghError, history>>

\* FLEET is memory: a new process knows nothing.
ManagerRestarts ==
    /\ reachable' = [h \in Host |-> FALSE] /\ since' = [h \in Host |-> Never]
    /\ reaped' = [h \in Host |-> FALSE] /\ state' = [h \in Host |-> "unknown"]
    /\ ever' = [h \in Host |-> FALSE]
    /\ NoPass
    /\ orphan' = [h \in Host |-> "no"]
    /\ told' = [h \in Host |-> "none"]
    /\ UNCHANGED <<world, shown, contact, strayed, adopted>>

WorldStep(h) ==
    Serve(h) \/ Leave(h) \/ Configure(h) \/ Blip(h) \/ Expire(h) \/ AgentTurns(h)

PassStep ==
    \/ PollsDone \/ EndPass
    \/ \E h \in Host : Skip(h) \/ Answer(h) \/ NoAnswer(h) \/ Spare(h) \/ Reap(h)

Breaks == PassBreaks \/ \E h \in Host : ReapBreaks(h)

Next ==
    \/ \E d \in Pause, ok \in BOOLEAN : Begin(d, ok)
    \/ PassStep \/ Breaks \/ ManagerRestarts \/ LoadPage
    \/ \E h \in Host : WorldStep(h) \/ ReapOrphan(h)

Spec == Init /\ [][Next]_vars

(* The loop of background.py goes on; GitHub's list can be had again and   *)
(* again.  Agents, runners and operators owe nothing.                      *)
Fairness == WF_vars(PassStep) /\ SF_vars(\E d \in Pause : Begin(d, TRUE))

FairSpec == Spec /\ Fairness

-----------------------------------------------------------------------------
\* Every variable keeps to the values the code gives it.
TypeOK ==
    /\ up \in [Host -> BOOLEAN] /\ slot \in [Host -> Slot] /\ reg \in [Host -> Reg]
    /\ reachable \in [Host -> BOOLEAN] /\ since \in [Host -> Age \union {Never}]
    /\ reaped \in [Host -> BOOLEAN] /\ state \in [Host -> Known] /\ ever \in [Host -> BOOLEAN]
    /\ pc \in {"idle", "poll", "reap", "dead"} /\ todo \subseteq Host
    /\ listed \in [Host -> Status] /\ ghError \in BOOLEAN /\ same \subseteq Host
    /\ orphan \in [Host -> Orphan] /\ shown \in [Host -> Orphan]
    /\ contact \in [Host -> Age] /\ told \in [Host -> Event] /\ strayed \subseteq Host
    /\ adopted \subseteq Host

\* A host is reaped only when it is enabled and no pass within the grace
\* period has had an answer from it: slow lists, aborted passes and manager
\* restarts never shorten the grace (reconcile, "degraded -> reap").
ReapsOnlyLostHosts == \A h \in Host : reaped[h] => h \in Enabled /\ contact[h] > Grace

\* fleet.snapshot: what the pages, /summary and the metrics call degraded.
Degraded(h) == ~reachable[h] /\ since[h] # Never

\* The events about a host alternate, and the last one agrees with what the
\* manager believes and shows: a host that has ever answered was last reported
\* degraded exactly when it is unreachable, a snapshot then calls it degraded
\* too, between any two steps and after any broken pass, and nothing is
\* reported twice (reconcile, snapshot).
HostEventsMatch ==
    \A h \in Host :
        /\ ~ever[h] => told[h] = "none" /\ ~reachable[h]
        /\ ever[h] /\ reachable[h] => told[h] \in {"none", "recovered"}
        /\ ever[h] /\ ~reachable[h] => told[h] = "degraded" /\ Degraded(h)

\* An orphan on the Health page of a host that answered in that pass has no
\* runner behind it, but for one that has lost its slot's file, and gets none
\* however long the operator hesitates, unless GitHub lets a new runner of the
\* slot keep the id that the page holds (_find_orphans, reap_orphan).
OrphanHasNoRunner ==
    \A h \in Host : shown[h] = "sure" /\ Alive(h) => h \in strayed \union adopted

\* The manager takes a registration away from a live runner only when its host
\* is lost, or as an orphan: one of a host that did not answer, one without a
\* slot file, or one whose id the runner was given after the page was made;
\* never, as long as its host answers, that of a runner that has a file and has
\* not registered since (reconcile, reap_orphan).
SparesLiveRunners ==
    [][\A h \in Host :
          Alive(h) /\ reg'[h] = "none" /\ Serving(slot'[h]) =>
              \/ contact[h] > Grace \/ shown[h] = "unsure"
              \/ shown[h] = "sure" /\ h \in strayed \union adopted]_vars

\* From some time on no pass breaks and the manager is not restarted, and the
\* loop has not died of it.
Settles == <>[][~(Breaks \/ ManagerRestarts)]_vars /\ <>[](pc # "dead")

\* A host that is gone for good is declared lost, and stays so, although lists
\* fail and every poll rewrites its entry (reconcile).  That its registrations
\* are then deleted is not said: see ReapedMeansDeleted.
LostHostsAreReaped ==
    \A h \in Enabled : Settles /\ <>[](~up[h]) => <>[](reaped[h])

-----------------------------------------------------------------------------
(* A snapshot shows a host as AbstractFleet has it.                        *)

HostStatus(h) ==
    IF reachable[h] THEN "up"
    ELSE IF reaped[h] THEN "lost"
    ELSE IF Degraded(h) THEN "degraded" ELSE "unknown"

Fleet == INSTANCE AbstractFleet WITH status <- [h \in Host |-> HostStatus(h)]

\* Reconciliation implements the abstract fleet: a host is lost only after it
\* was shown degraded, comes back from lost only by an answer, and is forgotten
\* only by a restart, whatever breaks in between (reconcile).
KeepsFleetPromise == Fleet!FSpec

-----------------------------------------------------------------------------
(* What the documentation says and the code does not do.                   *)

\* host.reaped: "host down past the grace period, its GitHub runners deleted"
\* (docs/PLUGINS.md).  A delete that fails is neither reported nor repeated.
ReapedMeansDeleted ==
    [][\A h \in Host : ~reaped[h] /\ reaped'[h] => ~(h \in same' /\ reg'[h] # "none")]_vars
=============================================================================
