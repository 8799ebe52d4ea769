----------------------------- MODULE DiskGuard ------------------------------
(***************************************************************************)
(* The disk watermark guard of the manager (manager/disk.py) for one       *)
(* enabled host, in the loop that runs it (manager/background.py): a pass  *)
(* asks the agent how full the runners' filesystem is, notes the level,    *)
(* tells a change and, when the level rises to prune or freeze, has the    *)
(* agent prune.  Hosts meet only where a pass ends before its time, which  *)
(* it may do here at every step.                                           *)
(***************************************************************************)
EXTENDS Integers

CONSTANTS Usage,                \* how full the filesystems can be
          Grain,                \* the agent reports multiples of it: 0.1 percent
          Warn, Prune, Freeze   \* the watermarks of manager.toml

ASSUME UsageAssumption == Usage \subseteq Int
ASSUME GrainAssumption == Grain \in Nat \ {0}
ASSUME WatermarksAssumption == Warn \in Int /\ Prune \in Int /\ Freeze \in Int

VARIABLES
    usage,     \* the runners' filesystem, first of the agent's disk_mounts
    level,     \* DISK[host]["level"], none before the first sample
    pc,        \* the pass: what it waits for; dead when the loop has ended
    answer,    \* used_pct of mounts[0] in the agent's answer, once measured
    mount,     \* which filesystem that is
    rise,      \* this pass found prune or freeze, and the one before did not
    serving,   \* startup is over: the manager answers requests
    heard,     \* history: the level one knows who follows the disk events
    tried      \* history: was a prune asked for since the level rose?

loop == <<pc, answer, mount, rise, serving>>
vars == <<usage, level, loop, heard, tried>>

Level == {"ok", "warn", "prune", "freeze"}
High  == {"prune", "freeze"}

Mutant_StrictWatermark(used) ==
    IF used > Freeze THEN "freeze" ELSE IF used >= Prune THEN "prune"
    ELSE IF used >= Warn THEN "warn" ELSE "ok"

LevelFor(used) ==
    IF used >= Freeze THEN "freeze" ELSE IF used >= Prune THEN "prune"
    ELSE IF used >= Warn THEN "warn" ELSE "ok"

IsFrozen == level = "freeze"

Init ==
    /\ usage \in Usage /\ answer \in Usage /\ mount = "runners"
    /\ level = "none" /\ heard = "none" /\ tried = "no"
    /\ pc = "idle" /\ rise = FALSE /\ serving = FALSE

-----------------------------------------------------------------------------
\* Jobs fill the filesystem; prunes, collections and operators empty it.
UsageChanges ==
    /\ usage' \in Usage \ {usage}
    /\ UNCHANGED <<level, loop, heard, tried>>

\* The next pass begins: GET /disk.
Ask ==
    /\ pc = "idle" /\ pc' = "asked"
    /\ UNCHANGED <<usage, level, answer, mount, rise, serving, heard, tried>>

\* What the agent makes of a usage: the multiple of Grain next to it.
Rounded(used) == {r \in (used - Grain)..(used + Grain) :
                      r % Grain = 0 /\ 2 * (r - used) \in -Grain..Grain}

\* The agent's statvfs of every mount, before its minutes of podman calls.  One
\* that fails is left out: mounts[0] is then some other filesystem.
Measure ==
    /\ pc = "asked" /\ pc' = "measured"
    /\ mount' \in {"runners", "other"}
    /\ \E used \in IF mount' = "runners" THEN {usage} ELSE Usage : answer' \in Rounded(used)
    /\ UNCHANGED <<usage, level, rise, serving, heard, tried>>

\* The first pass is part of the manager's startup.
PassEnds == pc' = "idle" /\ rise' = FALSE /\ serving' = TRUE

Mutant_ErrorBecomesLevel ==
    /\ pc \in {"asked", "measured"}
    /\ PassEnds
    /\ level' = "error"
    /\ UNCHANGED <<usage, answer, mount, heard, tried>>

\* AgentError, the limit of 25 s among them, or an answer without mounts.
NoAnswer ==
    /\ pc \in {"asked", "measured"}
    /\ PassEnds
    /\ UNCHANGED <<usage, level, answer, mount, heard, tried>>

Changes(new) == level # "none" /\ new # level

Mutant_RisesFromKnownLevel(new) == new \in High /\ level \notin High \union {"none"}

Mutant_EveryHighChange(new) == new \in High /\ new # level

Rises(new) == new \in High /\ level \notin High

Mutant_EventsOfHighLevels(new) ==
    heard' = IF new \in High \/ level = "none" THEN new ELSE heard

\* The change is audited and stored, or the hub swallows that it is not, and is
\* on its way to the plugins.  The first level is no change.
Tell(new) ==
    IF Changes(new) THEN heard' \in {new, "lost"}
    ELSE heard' = IF level = "none" THEN new ELSE heard

\* DISK[host] is replaced; what has to be done about it follows.
Note ==
    LET new == LevelFor(answer) IN
    /\ pc = "measured"
    /\ level' = new
    /\ Tell(new)
    /\ tried' = IF level \in High /\ new \in High THEN tried ELSE "no"
    /\ \/ Changes(new) /\ pc' = "telling" /\ rise' = Rises(new) /\ UNCHANGED serving
       \/ ~Changes(new) /\ Rises(new) /\ pc' = "prune" /\ rise' = TRUE /\ UNCHANGED serving
       \/ ~Changes(new) /\ ~Rises(new) /\ PassEnds
    /\ UNCHANGED <<usage, answer, mount>>

\* The plugins' handlers have returned.
Told ==
    /\ pc = "telling"
    /\ IF rise THEN pc' = "prune" /\ UNCHANGED <<rise, serving>> ELSE PassEnds
    /\ UNCHANGED <<usage, level, answer, mount, heard, tried>>

\* POST /prune goes out.
AskPrune ==
    /\ pc = "prune" /\ pc' = "pruning"
    /\ tried' = "yes"
    /\ UNCHANGED <<usage, level, answer, mount, rise, serving, heard>>

\* It comes back, or fails, or is given up after 25 s; either is only audited.
PruneReturns ==
    /\ pc = "pruning"
    /\ PassEnds
    /\ UNCHANGED <<usage, level, answer, mount, heard, tried>>

-----------------------------------------------------------------------------
(* Failures of the manager.                                                *)

\* An exception leaves sample_and_enforce.  Startup swallows it.  The loop
\* audits it, and ends for good if that raises too.
Raise ==
    /\ pc' \in IF serving THEN {"idle", "dead"} ELSE {"idle"}
    /\ rise' = FALSE /\ serving' = TRUE

\* The audit of a change fails, with the level noted already.
NoteBreaks ==
    LET new == LevelFor(answer) IN
    /\ pc = "measured" /\ Changes(new)
    /\ level' = new
    /\ heard' = "lost"
    /\ tried' = IF new \notin High THEN "no" ELSE IF level \in High THEN tried ELSE "lost"
    /\ Raise
    /\ UNCHANGED <<usage, answer, mount>>

\* A disk sample that cannot be stored, an answer that is no JSON, an audit
\* that fails after a prune or its error, or after a handler: the handlers that
\* are left do not hear of the change.
PassBreaks ==
    /\ pc \in {"asked", "measured", "telling", "pruning"}
    /\ tried' = IF pc = "telling" /\ rise THEN "lost" ELSE tried
    /\ heard' = IF pc = "telling" THEN "lost" ELSE heard
    /\ Raise
    /\ UNCHANGED <<usage, level, answer, mount>>

\* DISK is memory.
ManagerRestarts ==
    /\ level' = "none" /\ heard' = "none" /\ tried' = "no"
    /\ pc' = "idle" /\ rise' = FALSE /\ serving' = FALSE
    /\ UNCHANGED <<usage, answer, mount>>

PassStep ==
    \/ Ask \/ Measure \/ NoAnswer \/ Note \/ Told \/ AskPrune \/ PruneReturns

Next == UsageChanges \/ PassStep \/ NoteBreaks \/ PassBreaks \/ ManagerRestarts

Spec == Init /\ [][Next]_vars

-----------------------------------------------------------------------------
\* Every variable keeps to the values the code gives it.
TypeOK ==
    /\ usage \in Usage /\ answer \in Int /\ mount \in {"runners", "other"}
    /\ level \in Level \union {"none"}
    /\ pc \in {"idle", "asked", "measured", "telling", "prune", "pruning", "dead"}
    /\ rise \in BOOLEAN /\ serving \in BOOLEAN
    /\ heard \in Level \union {"none", "lost"}
    /\ tried \in {"no", "yes", "lost"}

\* Whoever knows the first level and follows the disk events knows the level
\* the guard acts on, after any sequence of samples, failed samples and broken
\* passes, unless the last change was lost on the way: its audit failed, its row
\* was not stored, or a handler and the audit of that failed (sample_and_enforce,
\* Hub.emit).
EventsTellTheLevel == heard \in {level, "lost"}

\* Whenever the guard takes the disk for high and is between two passes, it
\* has asked for a prune since the level rose, the first sample after a start
\* included, unless the pass that noted the rise broke (sample_and_enforce).
HighDiskWasPruned == level \in High /\ pc = "idle" => tried # "no"

\* One rise, one prune: while the level stays high the guard does not ask
\* again, whatever became of the first prune, and a rise from prune to freeze
\* is no rise (sample_and_enforce).
PrunesOncePerRise == [][AskPrune => tried = "no"]_vars

\* From some time on the manager is not restarted, and answers are noted
\* again and again, about the runners' filesystem: the loop lives, the agent
\* answers, and its statvfs of the first mount does not fail.
Samples == <>[][~ManagerRestarts]_vars /\ []<><<Note>>_vars /\ <>[](mount = "runners")

\* The gate follows the disk, whatever the rounding: one that stays where every
\* rounding is at the freeze watermark or above it closes the gate, one that
\* stays where every rounding is below opens it (level_for, is_frozen).
GateFollowsDisk ==
    Samples =>
        /\ <>[](\A r \in Rounded(usage) : r >= Freeze) => <>[]IsFrozen
        /\ <>[](\A r \in Rounded(usage) : r < Freeze) => <>[](~IsFrozen)
=============================================================================
