------------------------------- MODULE CacheGC -------------------------------
(***************************************************************************)
(* The tool caches of the slots of one host, one volume each: runners use  *)
(* and create them, a delete of the slot removes its volume, the operator  *)
(* clears one, and the daily sp-runner-gc removes those of no slot and     *)
(* clears those that were not written for long.  The script lists slots    *)
(* and volumes once and then works on the lists, whatever became of the    *)
(* commands that made them; podman refuses to remove a volume that a       *)
(* container has.                                                          *)
(***************************************************************************)
CONSTANT Slot

VARIABLES
    env,          \* the slots that have a file
    found,        \* the slots whose prestart has found it and mints a token
    up,           \* the slots that have a container
    vol,          \* the slot's volume: none, written lately, not for long
    del,          \* the agent's deletes of the slot: what they do next
    pc,           \* the script: what it does next
    live, todo,   \* its list of slots, the volumes it has still to look at
    idle,         \* the volume it has found idle and clears next
    steady,       \* history: slots that had a file ever since it listed them
    missed        \* history: those with a file that its find did not show

host    == <<env, found, up, vol, del>>
script  == <<pc, live, todo, idle>>
history == <<steady, missed>>
vars    == <<host, script, history>>

Volume == {"none", "fresh", "stale"}

Init ==
    /\ env = {} /\ found = {} /\ up = {}
    /\ vol = [s \in Slot |-> "none"] /\ del = [s \in Slot |-> {}]
    /\ pc = "boot" /\ live = {} /\ todo = {} /\ idle = {}
    /\ steady = {} /\ missed = {}

-----------------------------------------------------------------------------
(* The slots.                                                              *)

Create(s) ==
    /\ env' = env \union {s}
    /\ UNCHANGED <<found, up, vol, del, script, history>>

\* prestart finds the file and reads it, over a container that nothing could
\* remove as well.
Finds(s) ==
    /\ s \in env
    /\ found' = found \union {s}
    /\ UNCHANGED <<env, up, vol, del, script, history>>

\* podman run makes the volume if there is none; the file may be gone by now.
Starts(s) ==
    /\ s \in found /\ s \notin up
    /\ found' = found \ {s} /\ up' = up \union {s}
    /\ vol' = [vol EXCEPT ![s] = IF vol[s] = "none" THEN "fresh" ELSE vol[s]]
    /\ UNCHANGED <<env, del, script, history>>

\* The container ends, or prestart does without a token or podman run without a
\* container.
Ends(s) ==
    /\ \/ s \in up /\ up' = up \ {s} /\ UNCHANGED found
       \/ s \in found /\ found' = found \ {s} /\ UNCHANGED up
    /\ UNCHANGED <<env, vol, del, script, history>>

\* A job writes to the cache, or no job has for FARM_TOOLCACHE_IDLE_DAYS: one
\* that only reads does not count.
Writes(s) ==
    /\ s \in up /\ vol' = [vol EXCEPT ![s] = "fresh"]
    /\ UNCHANGED <<env, found, up, del, script, history>>

Ages(s) ==
    /\ vol[s] = "fresh" /\ vol' = [vol EXCEPT ![s] = "stale"]
    /\ UNCHANGED <<env, found, up, del, script, history>>

\* What is cleared has just been written to.
Cleared(s) == vol' = [vol EXCEPT ![s] = IF vol[s] = "none" THEN "none" ELSE "fresh"]

ClearCache(s) ==
    /\ Cleared(s)
    /\ UNCHANGED <<env, found, up, del, script, history>>

-----------------------------------------------------------------------------
(* The agent's deletes of a slot, of which several may be under way.       *)

\* A delete of s goes from one step to the next; others may be where it was.
Goes(s, from, to) ==
    /\ from \subseteq del[s]
    /\ \E rest \in {del[s], del[s] \ from} : del' = [del EXCEPT ![s] = rest \union to]

\* disable --now and podman rm -f, which may fail: nobody looks.  A restart that
\* overlaps has prestart at work again.
DeleteStops(s) ==
    /\ Goes(s, {}, {"volume"})
    /\ up' \in {up, up \ {s}} /\ found' \in {found, found \ {s}}
    /\ UNCHANGED <<env, vol, script, history>>

\* podman volume rm, which refuses or fails: nobody looks here either.
RemoveVolume(s) ==
    \/ s \notin up /\ vol' = [vol EXCEPT ![s] = "none"]
    \/ UNCHANGED vol

DeleteRemoves(s) ==
    /\ Goes(s, {"volume"}, {"unlink"})
    /\ RemoveVolume(s)
    /\ UNCHANGED <<env, found, up, script, history>>

DeleteUnlinks(s) ==
    /\ Goes(s, {"unlink"}, {})
    /\ env' = env \ {s} /\ steady' = steady \ {s}
    /\ UNCHANGED <<found, up, vol, script, missed>>

\* A command outlasts its timeout, and the rest of the delete is not done.
DeleteFails(s) ==
    /\ \E step \in del[s] : Goes(s, {step}, {})
    /\ UNCHANGED <<env, found, up, vol, script, history>>

-----------------------------------------------------------------------------
(* sp-runner-gc.                                                           *)

\* sp-runner-gc.timer, once the host is up.
TimerStarts ==
    /\ pc = "boot"
    /\ pc' = "off"
    /\ UNCHANGED <<host, live, todo, idle, history>>

Mutant_ListsRunningSlots == env \intersect up

\* find -name 'slot-*.env'
ConfiguredSlots == env

\* A find that fails shows some of the files, or none: its exit status is lost.
ListSlots ==
    /\ pc = "off"
    /\ pc' = "list"
    /\ missed' \in SUBSET env
    /\ live' = ConfiguredSlots \ missed' /\ steady' = env
    /\ UNCHANGED <<host, todo, idle>>

Volumes == {s \in Slot : vol[s] # "none"}

\* podman volume ls, whose exit status is lost as well.
ListVolumes ==
    /\ pc = "list"
    /\ pc' = "loop"
    /\ todo' \in SUBSET Volumes
    /\ UNCHANGED <<host, live, idle, history>>

Mutant_RefusalEndsScript(s) ==
    /\ pc = "loop" /\ s \in todo /\ s \notin live
    /\ RemoveVolume(s)
    /\ IF s \in up THEN pc' = "off" /\ todo' = {} ELSE pc' = pc /\ todo' = todo \ {s}
    /\ UNCHANGED <<env, found, up, del, live, idle, history>>

\* The volume has no slot in the list.  A refusal is passed over.
RemoveOrphan(s) ==
    /\ pc = "loop" /\ s \in todo /\ s \notin live
    /\ RemoveVolume(s)
    /\ todo' = todo \ {s}
    /\ UNCHANGED <<env, found, up, del, pc, live, idle, history>>

Mutant_ForgetsToClear(s) ==
    /\ pc = "loop" /\ s \in todo /\ s \in live
    /\ todo' = todo \ {s}
    /\ IF vol[s] = "stale" THEN pc' = "clear" ELSE pc' = pc
    /\ idle' = todo
    /\ UNCHANGED <<host, live, history>>

\* find -mtime -14 has nothing to show, or fails; a volume that podman does not
\* find is passed over.
Examine(s) ==
    /\ pc = "loop" /\ s \in todo /\ s \in live
    /\ todo' = todo \ {s}
    /\ \/ vol[s] # "none" /\ pc' = "clear" /\ idle' = {s}
       \/ UNCHANGED <<pc, idle>>
    /\ UNCHANGED <<host, live, history>>

\* find -exec rm -rf
ClearIdle(s) ==
    /\ pc = "clear" /\ s \in idle
    /\ pc' = "loop" /\ idle' = {}
    /\ Cleared(s) \/ UNCHANGED vol
    /\ UNCHANGED <<env, found, up, del, live, todo, history>>

Done ==
    /\ pc = "loop" /\ todo = {}
    /\ pc' = "off" /\ live' = {} /\ steady' = {} /\ missed' = {}
    /\ UNCHANGED <<host, todo, idle>>

\* The host loses power: containers, the script and the agent's delete end.
Crash ==
    /\ up' = {} /\ found' = {} /\ del' = [s \in Slot |-> {}]
    /\ pc' = "boot" /\ live' = {} /\ todo' = {} /\ idle' = {}
    /\ steady' = {} /\ missed' = {}
    /\ UNCHANGED <<env, vol>>

ScriptStep ==
    \/ TimerStarts \/ ListSlots \/ ListVolumes \/ Done
    \/ \E s \in Slot : RemoveOrphan(s) \/ Examine(s) \/ ClearIdle(s)

SlotStep(s) ==
    \/ Create(s) \/ Finds(s) \/ Starts(s) \/ Ends(s) \/ Writes(s) \/ Ages(s) \/ ClearCache(s)
    \/ DeleteStops(s) \/ DeleteRemoves(s) \/ DeleteUnlinks(s) \/ DeleteFails(s)

Next == ScriptStep \/ Crash \/ \E s \in Slot : SlotStep(s)

Spec == Init /\ [][Next]_vars

(* The timer starts the script day after day, and it comes to its end.     *)
FairSpec == Spec /\ WF_vars(ScriptStep)

-----------------------------------------------------------------------------
\* Every variable keeps to its values; the script clears one volume at a time, of
\* a slot on its list; and each slot that had a file ever since the listing is on
\* the list, or was missed by a find that failed.
TypeOK ==
    /\ env \subseteq Slot /\ found \subseteq Slot /\ up \subseteq Slot
    /\ vol \in [Slot -> Volume] /\ del \in [Slot -> SUBSET {"volume", "unlink"}]
    /\ pc \in {"boot", "off", "list", "loop", "clear"}
    /\ live \subseteq Slot /\ todo \subseteq Slot /\ missed \subseteq Slot
    /\ steady \subseteq live \union missed
    /\ idle \subseteq live /\ (pc = "clear" <=> idle # {}) /\ idle \intersect todo = {}

\* A volume goes in a delete of its slot, or when the slot has had no file at
\* some time since the script listed them; otherwise only when the listing
\* itself failed and missed the slot's file, which the script takes for a slot
\* that is gone.  It never goes from under a container, however slots come and
\* go behind the script's lists (sp-runner-gc, slot_delete).
SlotsKeepTheirVolumes ==
    [][\A s \in Slot : vol[s] # "none" /\ vol'[s] = "none" =>
          s \notin up' /\ ("volume" \in del[s] \/ s \notin steady \/ s \in missed)]_vars

\* podman fails the script: a list without some volume, a removal that should
\* have been.
ShortList == ListVolumes /\ todo' # Volumes
RemovalFails(s) == RemoveOrphan(s) /\ s \notin up /\ vol'[s] # "none"

\* A volume whose slot is gone for good, and whose last container has ended, is
\* collected, whatever became of the delete, when from some time on the host
\* stays up and podman does what the script asks of it (sp-runner-gc).
OrphansAreCollected ==
    \A s \in Slot :
        /\ <>[](pc # "boot")
        /\ <>[][~(ShortList \/ RemovalFails(s))]_vars
        /\ <>[](s \notin env /\ s \notin up)
        => <>[](vol[s] = "none")
=============================================================================
