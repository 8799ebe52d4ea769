# A verified model of the runner farm

TLA+ modules that model the farm, the TLC runs that check them on small
instances, and theorems that the TLAPS proof system checks for every instance.
Everything is translated from the source; where a document and the code say
different things, the model follows the code and a run shows the difference.

    tlc -workers 2 -config slot.cfg RunnerSlot
    tlc -workers 2 -config reconcile.cfg MCReconcile
    tlc -workers 2 -config slot_events.cfg MCSlotEvents
    tlc -workers 2 -config token.cfg MCInstallationToken
    tlapm Reconcile_proofs.tla

## 1. The system and its inventory

A *host* runs N *slots*. A slot is a systemd user unit `sp-runner@<n>` that
starts one ephemeral GitHub runner in a container, lets it do one job, and
starts the next. Two files keep the slot's desired state: `slot-<n>.env`
(`ENABLED` and the runner's parameters) and `slot-<n>.drain` (a marker). An
*agent* on every host edits those files and drives systemd over an HTTP API. A
*manager* polls the agents, lists the runners at GitHub, mints registration
tokens, watches the disks, emits events, and offers a web UI and a JSON API.

| component | state | operations | talks to | hard behaviour | what makes it correct |
|---|---|---|---|---|---|
| slot life cycle (`host/systemd/sp-runner@.service`, `host/bin/sp-runner-{prestart,run,stop}`) | unit, enabled link, queued job, container | prestart (drain or mint), run, stop, stop-post, restart, boot | agent (token), podman, systemd | runs concurrently with every request; killed at any statement; commands that fail and are not looked at; power loss | a drain lands between jobs; what was taken out of service stays out; everything else comes back |
| agent slot requests (`agent/app.py`) | the two files | start, stop, restart, drain, create/edit, delete, clear-cache, view, token | systemd, podman, manager | requests interleave at every await; exit codes that nobody reads; time limits after which systemd goes on alone; a view is put together from three reads | completed requests hold, deleted slots leave nothing, the view settles on the truth |
| container entrypoint (`containerfile/entrypoint.sh`) | GitHub registration | register, listen, one job, exit on a signal | GitHub | failed registration; ghost registrations | one job per container |
| fleet reconciliation (`manager/fleet.py`) | FLEET: reachability, start of the outage, reaped, last state, slot history, orphans | a pass every `reconcile_seconds`; manual reaping of an orphan | agents, GitHub, event hub, UI | list and polls are of different moments; passes abort; restarts forget | only lost hosts lose registrations; events agree with beliefs; lost hosts are reaped |
| event hub and feed (`manager/events.py`, `db.py`, `api.py`, `plugins/webhook.py`) | handlers, table of events | emit, store, call handlers, prune, poll | plugins, database | two loops emit at once; a failing handler, a failing audit; deletions | a watcher misses nothing and gets nothing twice; an emission that returns has called every handler |
| disk guard (`manager/disk.py`, gate in `manager/app.py`) | DISK: level and since | sample, audit, emit, prune | agents, UI | sampled level is old, rounded, or of another filesystem; gate is tested before awaits; prune on a rising edge only | no slot is started on a frozen host; space is reclaimed |
| slot requests (`manager/app.py`, `manager/api.py`) | locals of requests under way | start, create, edit, stop, delete, behind the gate or past it | agent, disk guard | concurrent creates; failure at the k-th; gate tested once | N slots are created, no other is touched; a frozen host gets none |
| installation token (`manager/github.py`) | cached token and expiry | mint, reuse, renew, list of several pages | GitHub | clock and time zone arithmetic; overlapping renewals; a client that gives up before the call it waits for | an expired token is never used; a slot that asks is served in the end |
| background loops (`manager/background.py`) | tasks | reconcile, disk sample, daily cleaning | the above, database | the error path can raise | a loop never dies |
| cache collection (`host/bin/sp-runner-gc`) | cache volumes | list, remove, clear | podman, slot files | slots created, used and deleted meanwhile; lists grow old; failures thrown away | a configured slot keeps its volume; volumes of nobody go |
| authentication, configuration, user administration, demo, deployment, migration, pages and metrics | tables, cookies, files | sequential reads and writes | | none beyond single statements | not modelled: section 7 |

How they interact: prestart calls the agent, which calls the manager, which
calls GitHub (`InstallationToken`). The manager's requests and polls call the
agent (`SlotAdmin`, `Reconcile`, `DiskGuard`, `SlotEvents`), whose half of a
request runs against systemd and the scripts (`RunnerSlot`, `CacheGC`). The
reconciliation and the disk loop share the hub and the database (`EventFeed`)
and each is ended for a while, or for ever, by an exception from there.

`PROJECT.json` lists every component with its status, and under `hazards` every
behaviour of this code that a test would hardly reach, at its line, with the
properties that watch it, or the reason why none does.

## 2. Modules

| module | models | proofs |
|---|---|---|
| `RunnerSlot` | one slot: files, unit, prestart, container, agent requests, crashes | `RunnerSlot_proofs` |
| `AbstractSlot` | what a slot promises: off, between jobs, idle, job; parked means off. `RunnerSlot` implements it | |
| `SlotWorld` | what an observer can see of a slot. `SlotEvents` watches it, `RunnerSlot` implements it | |
| `Reconcile` | the reconciliation pass, the reaping of lost hosts and of orphans | `Reconcile_proofs` |
| `AbstractFleet` | what the fleet's snapshots promise: unknown, up, degraded, lost. `Reconcile` implements it | |
| `MCReconcile`, `MCSlotEvents`, `MCInstallationToken` | a bound on the disabled host, a bound on what is combined with restarts, and the zones, for TLC | |
| `DiskGuard` | the disk watermark guard and the loop that runs it | `DiskGuard_proofs` |
| `SlotAdmin` | the manager's requests about slots: gate, creates, what passes by | `SlotAdmin_proofs` |
| `SlotEvents` | a slot's view, and the slot, crash-loop and job events made of it | `SlotEvents_proofs` |
| `InstallationToken` | the cached token, its handlers, and a prestart that waits for one | `InstallationToken_proofs` |
| `EventFeed` | the hub, the table of events, and a watcher that polls it | `EventFeed_proofs` |
| `CacheGC` | the tool caches and the daily script that collects them | `CacheGC_proofs` |

Operators named `Mutant_...` are plausible bugs, one or more per property. No
specification uses them; putting one in the place of the definition below it
shows that the property would notice.

### RunnerSlot

State. `env` is `ENABLED` in the slot's file (`none` without a file), `marker`
the drain marker, `enabled` the unit's link in `default.target.wants`. `unit` is
the phase systemd is in (`prestart`, `running`, `stop`, `post`, `autorestart`,
`inactive`), `job` the queued systemd job a client waits for, `pre` the next
statement of prestart, `drainExit` whether it exited 69. `container` is the
container's life. `op` and `pc` say which request is where. `calm`, `settled` and
`left` are history: the actors that take the slot out of service of which so far
no command has failed and which no request for service has overlapped, how
the slot was last taken out of service by such an actor, and whether the unit
has gone on without a container that `podman rm -f` could not remove.

Actions. Each file operation, each systemctl call and each statement of
prestart that changes state is one step. A request runs without interruption by
another request between two awaits (`Mid`, `Runs`): writing the file and
unlinking the marker in `start` are two steps with nothing of the agent between
them, but systemd, prestart and a crash may come between. `enable --now` is two
steps, the link and the job. `Submit` queues the job, `JobReturns` is systemctl
returning, `Timeout` is `run()` giving up (504), after which the queued job goes
on. systemd's queue is modelled from how the code uses it: a stop replaces a
queued start, a restart is a stop with a start behind it, a start of a
restarting unit waits for the timer.

Failing commands. Where the code reads the exit status, a failure ends the
request with an error (start and restart). Where it does not, the next statement
runs all the same, and the model does the same: prestart's `disable` and `sed`
(`|| true`), the agent's `disable --now` of a stop and of a delete, its `podman rm
-f`, and the `podman rm -f` of ExecStop and ExecStopPost (`MaybeGone`, `Slip`,
`DisableFails`). An actor whose own command failed has not taken the slot out
of service (`Slip` takes it off `calm`), which is how the properties about
completed requests are to be read; that the client is told ok is in section 4.

Abstractions. Only `ENABLED` of the file is kept; `sed -i` is one step. The stop
script's SIGINT, its 30 s of patience and its `rm -f` are one step, `ExecStop`,
that takes as long as it likes. GitHub is what the code needs of it: a
registration succeeds or fails, a job comes or does not. A request for a slot of
another number is independent and not modelled.

Exit status 69 of ExecStartPre does not end the unit: systemd's own description
of `RestartPreventExitStatus=` speaks of the main process. The model follows it,
so a drained slot is restarted. `Retired` is therefore a slot that was stopped or
deleted; of a drained one the properties say that it is disabled
(`SettledIsDisabled`), and `SettledIsOff`, what the comments of the script and
the unit file say, is refuted by the run `slot_exit69`.

`ActiveState` and `Seen` map the slot to `SlotWorld`, which is all that
`SlotEvents` assumes of it. `Stray` is a runner whose slot has lost its file.

### Reconcile

State. `up`, `slot` and `reg` are the world: whether the agent answers, whether
the host has the slot's file and a live runner, in every combination (`stray` is
a runner without a file, which `RunnerSlot` reaches when a restart overlaps a
delete), and GitHub's registration (`blip` is a live runner that GitHub takes
for offline, `ghost` a registration without a runner). `reachable`, `since`,
`reaped`, `state`, `ever` are FLEET's entry.
Times are ages as of the pass's `now`, saturated just above the grace period:
the code only compares `now - unreachable_since` with it. `pc` and `todo` are
the pass, `listed` and `same` the list it fetched and which of its ids still
exist, `orphan` and `shown` the published orphans and those on a loaded page.
`contact`, `told`, `strayed` and `adopted` are history: the age of the last
answer, the last event, the hosts whose present runner has been without a file,
and those whose runner registered under an id that the pass, the published
orphans or a loaded page already held. The last may happen because nothing in
the repository says whether GitHub gives a runner that registers with
`--replace` a new id or that of the registration it replaces: `Serve` allows both.

Actions. `Begin` takes the time and the list, `Skip`/`Answer`/`NoAnswer` are one
host's poll, `Spare`/`Reap` one host's turn in the second loop, `EndPass`
publishes the orphans. `PassBreaks` and `ReapBreaks` are exceptions that leave
`reconcile` (an agent's reply that is no JSON, an audit that fails) and are
caught by the loop; when writing them to the audit log raises too, the loop is
`dead` until the process restarts. `ReapOrphan` is the operator's click on a
page of any age. `ManagerRestarts` forgets FLEET. Hosts are visited in any
order, which includes the configured one; a host has one slot, because a pass
treats each registration of a host alike; GitHub's list is taken at one instant.

`HostStatus` maps a FLEET entry to `AbstractFleet` as `snapshot` and the pages
show it; broken passes and polls that change nothing map to stutters.

### DiskGuard

State. `usage` is the runners' filesystem, `level` the host's entry in `DISK`,
`pc`, `answer`, `mount` and `rise` the pass: what it awaits, the percentage it was
told, of which filesystem, and whether this pass found the rise to prune or
freeze. `serving` is FALSE until the startup's own pass is over. `heard` and
`tried` are history: what somebody believes who knows the first level and
follows the events, and whether a prune was asked for since the level rose;
`lost` in either says that something failed between the new level and what was
to be done about it.

Actions. `Ask`, `Measure` (the agent's `statvfs`, at the start of an answer that
may take the whole 25 s; a mount whose `statvfs` fails is skipped, so that the
first of the answer may be another filesystem, and the percentage is rounded,
by up to `Grain`), `NoAnswer`, `Note`, `Told` (the plugins' handlers return),
`AskPrune`, `PruneReturns`. `Tell` is the event of a change: its row may not be
stored, which nobody notices. `NoteBreaks` is the audit of a change that fails
after `DISK` was written; `PassBreaks` every other exception, a handler's whose
audit fails among them. Both end the pass, and in the loop, not in startup,
possibly the loop (`dead`): the handler of `_every` writes to the same database.
One host is modelled, for hosts share nothing but passes that break. The
watermarks may stand in any order, as in `manager.toml`, and `level_for` is
translated as it is.

### SlotAdmin

State. `frozen` is the guard's verdict, `slots` and `on` the slots that have a
file and those with `ENABLED=true`; `at`, `used`, `made`, `left` are the locals
of each request that goes through the gate. `held` (the slots that were there
when the request was admitted and have not been deleted since) and `overtaken`
(the host froze meanwhile) are history.

Actions. `Create` and `Start` are admitted (`Admit`) and then await the agent:
`List`, then `MakeNext`/`MakeLast` for one slot each, `MakeFails` for an error
in the middle with or without the slot's file, `StartTakes`, `GiveUp`. The JSON
API's start and an edit test nothing. `Sample` is the guard's next sample. The
agent's half of each call is one step here and many in `RunnerSlot`.

### SlotEvents

State. `env`, `link`, `unit`, `job` are the slot as `SlotWorld` has it, coarser
than in `RunnerSlot`; its steps are all that `WorldStep` does. `pc`, `envRead`,
`unitRead` are `slot_view` between its awaits, `state` the view in FLEET, `prev`,
`cl`, `prevJob` the entries `n`, `cl<n>` and `job<n>` of `_slot_states`. `heard`,
`heardJob` and `seen` are history: what the events of this manager process have
said last (`lost` once an emission about the slot has raised), and the restarts
of the view that was compared last.

Actions. `ReadEnv`, `ReadUnit`, `ReadContainer` are the agent's three reads, with
the slot free to move between them. The agent ignores the exit codes of
`systemctl show`, `podman inspect` and `podman logs`: a unit may be read as offline
whatever it is, and a container as absent or without its job, as an answer
(`Misreads`). `PollFails` keeps the old view, which is compared again. `TellState`,
`TellLoop`, `TellJob` are the comparison, with the emission's await in each. An
emission raises when a handler fails and the audit of that fails too (`Slips`),
which ends the pass with what was told and what was noted by then, and the loop
(`dead`) when the loop's own audit of the error fails as well. `PassBreaks` is an
exception on behalf of another slot or host. The two views `drained` and `stopped`
are one (`parked`): the events treat them alike. A count of restarts may come to
any value between two polls, because a start of the unit resets systemd's
counter.

### InstallationToken

State. Lives and expiries are what is left of them in ticks of true time;
`ahead` is the manager's clock and `west` its zone, so `Fresh` compares what the
code compares. `pc`, `held`, `wait`, `age` are the handlers: what each awaits,
the life its token has left, how long it has awaited the present answer and had
its token. `client`, `spent`, `asked` are a prestart script on its way through
the agent and the manager.

Actions. `InstallationToken` is the cached token or a renewal; two handlers may
renew at once and the later overwrites the earlier. `GivesUp` is curl's
`--max-time`, the one timeout of the chain that is for a whole call, after which
the manager's handler works on for nobody. httpx's `timeout=20` and `timeout=30`
are for single connects, reads and writes, so nothing in the model ends a call
to GitHub, and a list of many pages is one long call. `Tick` is blocked only by
curl's timeout and by systemd's RestartSec. `ClockSteps` sets the clock.

### EventFeed

State. `rows`, `id`, `seq` are the table and SQLite's sequence, `pc` and `event`
say which handler a loop awaits with which event, `cursor` is the watcher's
`since_id`. `heard`, `ended`, `got`, `cut` are history.

Actions. `Emit` stores and calls the first handler, `Returns` and `Raises` go on
to the next; nothing makes a handler end, for the hub sets it no time. A handler
that raises while the database is down takes the emission with it. `Prune` deletes
the rows up to some id and may end its own loop (`pruner`): nothing catches its
exceptions. `Poll` is one GET `/api/v1/events`: the newest rows first, cut at the
limit, a negative limit passing by the cap.

### CacheGC

State. `env` and `up` are the slots with a file and those with a container,
`found` those whose prestart has read the file and mints its token, `vol` the
volume of each (absent, fresh, or not written for long), `del` the next steps
of the agent's deletes under way, `pc`, `live`, `todo`, `idle` the script and its
lists. `steady` and `missed` are history: the slots that had a file ever since it
listed them, and those whose file its `find` failed to show.

Actions. Everything a slot does to its volume, the agent's delete in its three
steps with a failure after each, any number of them at a time, and every
command of the script. A container starts on the file that prestart found, which
may be gone by then. The script throws away the exit status of every command it
reads from, and so does the model: a list of slots or of volumes may be short, a
cache may be taken for idle because `find` fails, a volume may stay although
nobody has it. The agent's delete does not look at `podman` either. podman
refuses to remove a volume that a container has, and both callers go on.

## 3. What is checked

| run | instance | states | question |
|---|---|---|---|
| `slot` | 2 requests | 613,823 | slots that were stopped or deleted by commands that worked are off, drained ones disabled, deleted ones gone; drains land between jobs; the slot implements `AbstractSlot`; a busy slot asked to drain is drained; whatever ends the container, the slot serves again |
| `slot_exit69` | 1 request | 2,239 | violated: a drained slot restarts and serves |
| `reconcile` | an enabled and a disabled host, grace 1, a pass takes 1 | 585,590 | only lost hosts are reaped, and they are; events agree with beliefs and snapshots; orphans of hosts that answered are dead, and live runners spared, but for runners without a file or under an id that GitHub let them take over; the snapshots implement `AbstractFleet` |
| `reconcile_reap_failed` | 1 host, grace 2, a pass takes 1 or 2 | 4,270 | violated: a failed delete is neither reported nor repeated |
| `disk_guard` | 6 usages, some on a watermark and some within a rounding of one | 3,036 | events agree with the level, each rise is pruned, and once, the gate follows the disk |
| `admin_safety` | 2 requests, creates of up to 2 slots, 3 numbers | 182,574 | only overtaken requests get through a closed gate, creates spare old slots and fill gaps |
| `admin_freeze` | the same | 135 | violated: nothing comes into service on a frozen host |
| `slot_events` | 2 jobs, period 2, counts to 4 | 1,220,184 | no false comfort from events, each crossing of a multiple is told until the count goes down, the last job event is right in the end, the view settles on what the slot is |
| `token` | 2 handlers, life 12, margin 2, patience 3, three zones from UTC eastwards, clock up to 2 ahead | 93,861 | no call younger than the margin uses an expired token; a slot that asks is served, if the zone lets tokens stay cached |
| `token_west` | 2 handlers, life 8, half a life west of UTC | 4,508 | violated: no such call uses an expired token |
| `event_feed` | 2 loops, 2 handlers, 3 events of 2 kinds, limits -1, 0, 1, 3, cap 2 | 764,508 | nothing slips by a watcher or comes twice; an emission that returns has called every handler |
| `cache_gc` | 2 slots | 678,400 | a configured slot keeps its volume, unless the listing failed to show it; the volume of a slot that is gone is collected |

Each passing run also checks its module's `TypeOK`. The counts of the violated
runs are those at which TLC stops; they vary a little with the workers.

### Bounds, and why they are enough

- `RunnerSlot`: a request is hurt by one other request, or by prestart, systemd
  and failures, which are always present; two requests give every overlap the
  code distinguishes. Jobs, restarts, crashes, timeouts and failing commands are
  not bounded.
- `Reconcile`: in `reconcile` a pass takes as long as the grace period, in
  `reconcile_reap_failed` half of it or the whole, so that it is reached exactly
  and jumped over; ages are cut one above it, and the proofs are for every
  length. Hosts influence each other only through a pass that aborts, which
  `PassBreaks` does at every point of it at which a host is left to visit.
  `DisabledHostsStay` (in `reconcile.cfg`) keeps the disabled host from losing a
  file it has, from blips, from taking over an id, and from moving within a pass,
  and the operator from loading a page that shows an orphan of it: the manager
  never polls it and sees of it only the registrations that remain, which still
  come, go and expire. The enabled host does all of it at any time.
- `DiskGuard`: only the comparisons with the three watermarks matter. The usages
  lie below, on and above each of them, near enough for a rounding to cross it
  and far enough for none to.
- `SlotAdmin`: two requests for every race, a create of two slots for every
  intermediate state, a third number for a gap; `MaxSlot` keeps `List` from
  going on when the numbers might not suffice.
- `SlotEvents`: the comparison asks only whether a job, a state or a multiple is
  the one before. Two jobs and none give each outcome of it, a change from job
  to job included, and 0..4 with period 2 two multiples, at and past the first.
  `RestartsApart` leaves out what combines a count above zero with jobs or with a
  slot that was told of: the two comparisons share nothing but the pass. The
  proofs have no such bound.
- `InstallationToken`: lengths keep the order of the real ones: the margin is
  shorter than a life, prestart's patience (3) longer than one call in time (2)
  and shorter than two, as 30 s against calls of some 20 s each. A call may last
  for ever. The zones are UTC, one in which a token stays cached for a
  shorter time, and one in which it never does.
- `EventFeed`: two events for every order of two loops, a third so that one is
  deleted and one cut off; limits below, at and above the cap, and a negative.
- `CacheGC`: the script handles its volumes one after the other and slots share
  nothing but its lists; one slot is worked on while the other moves.

### Fairness, and why

- `RunnerSlot`: systemd, the scripts and a running job go on (weak fairness:
  processes of the host, and the unit sets no limit on restarts,
  `StartLimitIntervalSec=0`); a mint and a registration tried again and again
  succeed some day (strong fairness); power comes back. GitHub owes no job, an
  operator no request, a command need not succeed, and an agent may hang or die
  at any step. `ServesAgain` has the premise that the operators do not restart or
  drain the slot for ever.
- `Reconcile`: the loop goes on, and the list can be had infinitely often. The
  property's premise is that from some time on no pass breaks, the manager is
  not restarted, and the loop has not died.
- `DiskGuard`: none. `GateFollowsDisk` has the premises that answers about the
  runners' filesystem are noted again and again and that the manager is not
  restarted, and then the code alone brings the gate where it belongs.
- `SlotEvents`: the pass goes on. `ShownStateSettles` and `JobEventsSettle` have
  the premises that the slot rests and that from some time on no poll, no command
  of a poll and no emission fails, and the loop has not died before.
- `InstallationToken`: time passes, curl's timeout fires, and systemd starts the
  unit again. Nothing is assumed of GitHub by fairness: `PrestartIsServed` has
  the premises that from some time on calls are answered, in time and without an
  error, and that zone and clock let a token stay cached (`StaysCached`). Without
  the last, TLC refutes it for the zone in the far east (section 4).
- `EventFeed`: none, and no liveness: nothing in the code makes a handler end.
- `CacheGC`: the timer starts the script day after day, and it goes on.
  `OrphansAreCollected` has the premises that from some time on the host stays
  up and podman does what the script asks of it.
- `SlotAdmin`: none, and no liveness: a request may be given up at any await.

A premise of the form "from some time on no such failure" is stated over states
or steps that no ordinary step shares, so that it excludes the failure only.

## 4. Findings

1. **Exit 69 does not stop the unit** (`slot_exit69`). `sp-runner-prestart`
   exits 69 as `ExecStartPre=`; `RestartPreventExitStatus=` is about the main
   process. The unit restarts, and a drained slot takes jobs again until it is
   stopped or the host boots (`NextBootEndsDrains`), with `ENABLED=false` and its
   unit disabled (`SettledStaysDisabled`).
2. **A failed reap is final** (`reconcile_reap_failed`), `manager/fleet.py:111`:
   the host counts as reaped, `host.reaped` is told, and the registration stays
   for the rest of the outage.
3. **A frozen host gets new slots** (`admin_freeze`): from the JSON API, from an
   edit of a slot that is gone, from a create that was admitted before.
4. **West of UTC an expired token is used for hours** (`token_west`),
   `manager/github.py:61`: `time.mktime` reads the UTC expiry as local time.

Three more documents say otherwise than the code; no run is about them.

- `docs/PLUGINS.md:58` has `slot.crashloop` when the restart count "crossed a
  multiple of 20". The marker of the last multiple is not reset when systemd's
  counter is (any start or restart of the unit does that), so the second loop to
  20 is not told, and a count that falls from 45 to 25 is, although it crossed
  nothing upwards (`fleet.py:92-93`). `CrossingsAreTold` says what is left: the
  event and the crossing agree until the count goes down. `api.py:83` counts
  loops above 20, `fleet.py:92` from 20.
- `docs/PLUGINS.md:57` has `slot.online` when a slot's state changed from offline.
  A slot that comes back as offline, restarting, idle is never told as online
  (`fleet.py:90`).
- `README.md:147` has the prune level "clear idle-slot tool caches". The agent's
  prune runs `podman system prune` and touches no tool cache.

Further observations. The models have these behaviours; the properties exempt
or do not concern them.

- Failures that nobody looks at. A stop or a delete whose `disable --now` fails is
  answered ok (`agent/app.py:296,351`), a delete goes on to unlink the file, and a
  live runner or an enabled unit is left without one (`DeletesMakeStrays`). A
  drain whose `disable` or `sed` fails (`sp-runner-prestart:30,33`) exits 69 with
  the marker gone and the slot as before. A `podman rm -f` that fails lets a
  container and its job live on beside the restarting unit. A `systemctl show` or
  `podman inspect` that fails is a slot that is shown offline or without its job.
- Slots. A start that is handled while prestart honours a drain is answered ok and
  may be undone by it. A slot that listens when it is asked to drain takes one
  more job, or without a job never drains. An edit cancels a pending drain
  (`agent/app.py:343`). A drain whose marker prestart has just removed is lost by
  a power failure before `sed`. A delete that overlaps a start can leave an
  enabled unit without a file, and one that overlaps a restart a live runner
  without a file; one that times out is left half done. A restart of a stopped
  slot serves until the next boot. A drained slot is shown as `stopped`, never as
  `drained` (`agent/app.py:194`): prestart removes the marker first.
- Fleet. A runner without a file that GitHub takes for offline for a moment is
  shown as an orphan although it lives, and the operator's click takes its
  registration (`_find_orphans`, `manager/fleet.py:132-149`, goes by files): the
  properties except hosts that have `strayed`. If GitHub keeps the id when a
  runner registers with `--replace`, a click on a page that is older than the
  registration takes that of a live runner; the properties except hosts that have
  `adopted` one. A ghost of a configured slot is no orphan
  (`manager/fleet.py:140`); together with finding 2, a registration that was
  neither deleted nor listed stays until GitHub drops it.
- Requests. Creates at the same time choose the same numbers
  (`manager/app.py:259`); a create that fails halfway leaves what it made.
- Disk. A level changes without an event or a prune when the audit between them
  fails, without a row in the table when `add_event` fails (`events.py:68-71`),
  and past the handlers that are left when one fails and its audit too; a failed
  prune is not repeated while the level stays. When the `statvfs` of the runners'
  filesystem fails, the guard acts on the next one of the list
  (`agent/app.py:240-243`, `disk.py:54`), and 91.95 counts as 92.0.
- Loops. The loop that "must never die" does when the audit of its error fails
  (`background.py:20-21`); the daily deletion has no `try` at all (`:28`).
- Handlers. The hub awaits each handler without a time limit, and the webhook's
  `timeout=10` is for single reads and for each target: a target that answers
  slowly enough holds up the loop that emits (`events.py:75-77`, `webhook.py:64`).
- Token. East of UTC by the life of a token less the margin (an hour less five
  minutes) the cache is never hit. Each registration token then takes a renewal
  and a call; when both together take longer than prestart's 30 s, time and again,
  the slot is not served.
- Feed. A negative limit passes by the cap of 1000; what a limit cuts off is
  older than `latest_id` and never asked for again (`api.py:65`).
- Caches. The script clears the cache of a live slot that only reads it
  (`sp-runner-gc:40`), although line 10 says that such caches are never touched.
  A `find` that fails there clears one as well, and one that fails in lines 22-25
  has the unused volumes of configured slots removed.

## 5. What is proved

For every set of requests, hosts, handlers, loops, slots and jobs, every grace
period and pause, all watermarks, usages, lives, timeouts and limits:

| module | theorem | states |
|---|---|---|
| each of the eight | `TypeCorrect` | `Spec => []TypeOK` |
| `RunnerSlot_proofs` | `DrainsLandBetweenJobs` | no container is alive while prestart runs, but one that `podman rm -f` failed to remove |
| | `RetiredStaysOff`, `DeletedStaysGone` | what was stopped or deleted by commands that worked is off, or gone |
| | `SlotKeepsPromise` | `RunnerSlot` implements `AbstractSlot` |
| | `SettledStaysDisabled`, `NextBootEndsDrains` | a slot that was drained by commands that worked is disabled, and the next boot leaves it down |
| | `DeletesMakeStrays`, `OneRequestLeavesNoStray` | only a delete that a request overlaps, or whose commands failed, leaves a runner without a file; one request at a time, with a delete's commands working, leaves neither a runner nor an enabled unit without one |
| | `SlotIsWatchable` | `RunnerSlot` implements `SlotWorld` |
| `Reconcile_proofs` | `OnlyLostHostsAreReaped`, `EventsMatchBeliefs`, `SureOrphansAreDead`, `LiveRunnersAreSpared` | the safety properties of `reconcile` |
| | `FleetPromiseKept` | `Reconcile` implements `AbstractFleet` |
| `DiskGuard_proofs` | `EventsAreComplete`, `RisesArePruned`, `RisesArePrunedOnce` | the safety properties of `disk_guard` |
| `SlotAdmin_proofs` | `TheGateHolds`, `OldSlotsAreSpared`, `CreatesFillGaps` | the properties of `admin_safety` |
| `SlotEvents_proofs` | `NoFalseComfortHolds`, `CrossingsTold` | the safety properties of `slot_events` |
| `InstallationToken_proofs` | `TrustHasABound` | in every zone, the manager takes a token to live longer than it does by `Excess` at most |
| | `DriftTakesFromTheMargin` | zone and clock that are late by at most `d` together take `d` from the margin, for every `d` |
| | `NoExpiredToken` | `RenewedInTime`, assuming a zone that is not west of UTC and a clock that is never behind |
| `EventFeed_proofs` | `NoEventSlipsBy`, `NoEventTwice`, `EveryHandlerHears` | the safety properties of `event_feed` |
| `CacheGC_proofs` | `VolumesAreKept` | `SlotsKeepTheirVolumes` |

So every safety property of a passing run is proved.

`RunnerSlot`. The invariant has two layers. `Shape` says how the variables fit
together: prestart runs exactly while the unit is in `prestart`, a container
that the unit has not given up (`left`) belongs to a unit that runs or goes down,
a stop job is never behind a timer, each request's step fits its operation. It
gives `DrainsBetweenJobs`. `Service` says how far each actor that takes the slot
out of service, and is still `calm`, has come: past its first step the unit is
disabled, past the write the file says so, past the job the unit is down, and
nobody asks for the slot meanwhile. The promise (`RetiredIsOff`) is not inductive
by itself: the step that completes a drain, a stop or a delete sets `settled`, and
that it may do so follows only from this progress; an actor whose command failed
is not `calm` and sets nothing. `DeletesMakeStrays` is the same progress read at
`UnlinkEnv`: a delete that is still calm there finds the unit down and the
container gone. `Alone` adds what holds with one request at a time whose
unchecked commands work (`DeleteCommandsWork`). The refinement maps a crashed host
to `dark`, a container that listens or works, and was not given up, to `idle` or
`job`, a unit that is down to `off`, and everything else to `between`; a container
that could not be removed is the abstract slot's `astray`.

`SlotWorld`. `SlotIsWatchable` discharges the assumption that `SlotEvents` makes
of a slot: whatever requests, systemd, scripts and failures do, the file, the
link, `ActiveState` and the job move as `WorldNext` allows. It needs `Shape`
only. So what the run and the proofs say about events holds of the slot in
detail, and not only of a slot that does as it pleases.

`Reconcile`. `Losses`: an age of an outage is never larger than the age of the
last answer, which is what makes the grace period honest across aborted passes and
restarts. `Events` and `Outages`: an unreachable host that has ever answered has a
start of its outage and was told degraded, and hosts that are not in use were
never heard. `Orphans`: a listed registration that still exists has no runner, or
one that has lost its file, once the host has answered, after the list, that it
has no such slot; a new runner either has a new id or is `adopted`, so this stays
true while the page grows old. That `RunnerSlot` leaves a runner without a file
only by an overlapped or failing delete is the theorem `DeletesMakeStrays`.

`DiskGuard`. `PruneInv`: a prune is pending from the sample that found the rise
to the call, exactly then the level is high without a prune, and meanwhile none
has been asked for; both properties about prunes follow.

`SlotAdmin`. `Overtaken`: a request under way on a frozen host has been
overtaken, which is what the single test at the gate amounts to. `Lists`: the
numbers a create takes for taken contain every slot that was there when it was
admitted and still is, and it has made none before it has listed them.

`SlotEvents`. The comparison is three steps long, and the properties hold only
before and after it. `NotOffline` says what is true between: once the state has
been told, it is the view, and before that the remembered state, that is not
offline if online was told last. `ToldOfKnown` closes the case of a slot that is
not remembered. `Marked`: as long as the counts have not gone down, the marker
is the multiple that the view compared last had reached, also when its emission
raised; that a count reaches a new multiple exactly when its quotient grows
(`MultiplesGrow`) then gives `CrossingsAreTold`.

`InstallationToken`. `TrustIsBounded`: the manager takes its token to live
longer than it does by no more than what its zone is west of UTC (`Excess`);
this holds in every zone and is what the defect of finding 4 costs. `Ample(d)`:
with zone and clock late by at most `d` together, a token in use had more than
the margin less `d` left when it was taken, so its age, what is left and `d` add
up to more than the margin. `RenewedInTime` is the case `d = 0`. The bound is
tight: with a clock that may be one tick late, TLC refutes `RenewedWithin(0)`
and not `RenewedWithin(1)`.

`EventFeed`. `Ids`: stored ids are no larger than the sequence, and what the
watcher has is no newer than its cursor, so a new row is beyond every cursor.
That the newest event of an answer exists (`Largest`), and that whatever is
missing from it was cut by the limit (`NotGivenIsCut`), are facts about finite
sets. `Calls`: a loop that awaits a handler has called that one and all before.

`CacheGC`. The slots that had a file since the script listed them are on its
list or were missed by its `find` (part of `TypeOK`), so a volume that the script
removes has had no file or was missed; that no volume goes from under a container
rests on podman's refusal alone.

Assumptions, all named in the modules: `Prestart` is no request; `None` is no
job, state or handler; watermarks and usages are integers; `MaxSlot`,
`Grace`, handlers and limits are natural numbers, `MaxCount`, pauses and `Every`
positive; the enabled hosts are hosts of the farm; the clock is behind by no more
than the margin; no answer brings an installation token that GitHub issued longer
than `Lag` ago, and margin and `Lag` together are shorter than a token's life. The
last is about the network: no timeout of the code bounds it, since httpx's are for
single reads (`github.py:49,68`), but an answer would have to be on its way for 55
minutes to break it.

Commands that the models let succeed always: the operations on small files
(`write_slot_env`, `unlink`, prestart's and the agent's `rm -f` of the marker,
`install` and `cat` of the runner's environment) and `podman volume inspect` of a
clear-cache. Every other systemctl and podman command, `sed`, `find`, every call
to an agent or to GitHub and every statement of the database may fail.

Some properties are proved and in no run's configuration, because the run that
could check them already checks a stronger or a neighbouring one:
`BootsLeaveItOff`, `StraysComeFromDeletes`, `IsWhatEventsWatch` and, as long as
`DeleteCommandsWork`, `NothingWithoutFile` of `RunnerSlot`, and `TrustIsBounded`
and `RenewedWithin` of `InstallationToken`. TLC agrees with each of the slot's with
one request, and with the token's in UTC with a clock up to one tick late.

Only model-checked: liveness (`BusyDrainLands`, `ServesAgain`,
`LostHostsAreReaped`, `GateFollowsDisk`, `ShownStateSettles`,
`JobEventsSettle`, `PrestartIsServed`, `OrphansAreCollected`), which is beyond this
prover together with fairness and ENABLED, and the runs that end in a violation.

## 6. Plan

Done, in this order: `RunnerSlot` with `AbstractSlot`; `Reconcile`; `DiskGuard`
and `SlotAdmin`; `SlotEvents`; `AbstractFleet` and the refinement;
`InstallationToken`; `EventFeed`; `CacheGC`; and the proofs of all of them.

What could follow:

1. An abstract observer of a slot's events who knows the slot's last view,
   implemented by the stream of `SlotEvents`.
2. More than one slot per host in `Reconcile`, with names that share a prefix.
3. The freeze gate composed with `DiskGuard` in place of `Sample`.
4. Runs that refute the three documents of section 4 that no run is about.

## 7. Not modelled

- Authentication and sessions (`auth.py`): password hashes, signed cookies and a
  counter of logins; library calls in sequential code.
- Configuration and user administration (`config.py`, `manage.py`): read once at
  start; a command line over single statements.
- Audit log, samples, users and key-value table (`db.py`): single statements of
  SQLite; that they may fail is part of `Reconcile`, `DiskGuard`, `EventFeed`.
- Pages, templates, the metrics page, the webhook's formatting and filters, the
  read-only endpoints for disks, logs and journals: output without state of its
  own, correct or not by its text.
- Demo data, deployment, installation, images, migration: scripts that an
  operator runs by hand; sequential I/O.
- The content of a slot's file besides `ENABLED`: `sed -i` in prestart reads and
  renames the file while a request may rewrite it, and an edit of other keys in
  between is lost. The model makes `sed` one step.
- Contents of labels, groups, limits, messages and audit lines, throughout.
- The comparison of the agent certificate's fingerprint: one more way to an
  AgentError.
