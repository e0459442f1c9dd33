# A TLA+ model of the Comexio integration for Home Assistant

The integration (`src/custom_components/comexio/`) connects Home Assistant to a
Comexio home-automation server: it polls and receives values, keeps Comexio's
*Web-IOs* in step with Home Assistant's entities ("sync"), and backs up,
restores, edits and watches Comexio's *function plans*. Everything runs in one
process on one event loop; a coroutine is interrupted only at an `await`. What
makes the code hard is what happens between those awaits: a sync takes minutes,
a restore half a minute, and a reload of the config entry can tear the
coordinator and its HTTP session down under either.

This directory holds TLA+ modules of the parts where that matters, TLC
configurations that check them on small instances, and proofs (TLAPS) of the
results that hold for every instance.

## Inventory

Paths are relative to `src/custom_components/comexio/`.

| Component | State it keeps | Operations | Hard because | Correct when |
|---|---|---|---|---|
| Plan coordination (`coordinator.py`, `button.py`, `services/_context.py`, `services/backup.py`, `repairs.py`, `__init__.py`) | `_sync_lock`, `_restore_lock`, `in_sync`, `unloading`, `_restores_held_for_reload`, `_plan_edits_running` of each coordinator; which coordinator is loaded; whether its session is open | sync press, restore, plan edit, cascade, backup change, uninstall cleanup, range check, KNX repair, reload by the integration, reload by Home Assistant, unload, set-up | calls that wait for a lock outlive the coordinator; `asyncio.Lock` wakes its waiter without handing the lock over; unloads time out or fail | no restore, sync or edit is cut off; they exclude each other; nothing deadlocks; a skipped reload is made up for |
| Backup store (`function_plan_backup.py`) | per plan identity (ID and name) two lists of snapshots, `auto` and `change`, newest first; the plans whose backups are kept; a file on disk for each of the three | auto backup, change backup, delete, purge, keep, move after a rename, promote after a restore | several coroutines edit the same lists across awaits; a save fails or is cancelled after the memory changed; a restart loads what was saved | a live plan's backups are only pushed out by newer ones; a kept plan is never purged; a restored snapshot is not lost |
| Automatic backup cycle, rename follow-up (`coordinator.py`) | pause generation, pending renames | cycle over all plans on a poll, pause around a restore, follow a rename | the plan list it read is stale when it stores; a restore runs in the middle | a half-restored plan is never stored; a rename loses no backup |
| Restore engine (`services/backup.py`, `function_plan_module_restore.py`, `function_plan_block_settings.py`, `api.py`) | the restored plan in Comexio, what was matched, saved and failed so far, `block_settings` | decide whose the ID is; in place: align, stop, move, run, stop, recreate comments, verify; as a new plan or copy: create, place, wire, start; block settings, module configurations; backups and references follow | each request may be refused, fail or lose its answer; element ids change; Comexio starts what it refuses | OK means that the plan carries the backup; the result tells whether it runs; no other plan is overwritten unasked; backups and references follow a new plan |
| Plan watchdog (`plan_watchdog.py`, `coordinator.py`) | stopped and vanished plans, alarms, auto-start attempts | check, auto-start, acknowledge, stop watching | run states are read before and judged after awaits; deleted plans read as stopped | one alarm per stop, none for a stop by the integration itself, every stop alarmed or started |
| Value path (`coordinator.py`, `__init__.py`, `entity.py`, `switch.py`, `number.py`) | the shown values, what was pushed since the poll began, what each IO ID stood for | webhook push, poll, write | a poll started before a push finishes after it (R1); an ID passes to another IO between two requests | a poll replaces no value by an older one; no IO inherits another's reading; every value settles |
| Options writes (`coordinator.py`, `__init__.py`) | the options snapshot whose reload is to be skipped | internal write, user's save, `update_listener` | writes of two origins race for one listener call (R2) | an outside write always leads to a reload |
| Bus-load watchdog (`coordinator.py`) | sample window, cooldown, give-up state | sample, cascade, emergency reboot | triggers overlap the cascade they start | one cascade at a time, none in the cooldown |
| Preview arming (`coordinator.py`, `plan_preview.py`, `image.py`) | the plan to show, armed snapshot, render generation | pick a plan, pick a snapshot, render, load from a repair | a render finishes after another pick | the shown image is that of the last pick |
| Certificate pinning (`certificate.py`, `__init__.py`) | pinned fingerprint, pending change | connect, notice a change, accept, decline | pin replaced while a request runs | no unpinned certificate is used once one is pinned |
| Reference monitor, cleanup scope (`reference_monitor.py`, `cleanup_scope.py`) | references of Home Assistant entities to Comexio objects | collect, compare | sequential | what is still referenced is not removed |
| HA address (`ha_address.py`) | none | choose the URL Comexio pushes to | sequential | an address Comexio can reach, or a repair |
| Sync engine (`button.py`, `coordinator.py`, `api.py`, `function_plan_catalog.py`, `function_plan_block_*.py`, `function_plan_module_configs.py`) | Web-IO classes, devices, commands, bridge markers and managed plans in Comexio; what was read of them | delta, create, rename, remove, wire plans; KNX bridges, loopbacks, trigger pairs; clean-up of them | partial failure, cancel, users in Studio at the same time, late lists | nothing in use is deleted or renamed; a sync that reports nothing leaves nothing to do; plans run as before |
| Plan layout (`services/_grid.py`, `services/flow_diagram.py`) | none | place and cluster elements | sequential | no two elements overlap |
| Comexio client (`api.py`), services, entities, flows, repairs, card | see the code | requests, forms, projections | I/O | - |

The components meet in the coordinator: services, buttons, repairs and timers
all take the coordinator that `hass.data` holds, look at its flags, take its
locks and use its API session; a reload replaces the coordinator but not the
calls that already hold a reference to it.

## Modules

| Module | Models | Uses |
|---|---|---|
| `AsyncLock` | `asyncio.Lock`: owner and FIFO of waiters; a release wakes the first waiter and leaves the lock unlocked until it runs | - |
| `PlanCoordination` | plan coordination, whole | `AsyncLock` |
| `MCPlanCoordination` | instances of it for TLC | `PlanCoordination` |
| `BackupHistory` | what happens to one list of snapshots: rotation, merge, promotion | - |
| `BackupStore` | the backup store: `FunctionPlanBackupManager` | `BackupHistory`, `AsyncLock` |
| `MCBackupStore` | instances of it for TLC | `BackupStore` |
| `BackupCycle` | the automatic backup cycle, the rename follow-up and a restore in place | `BackupHistory` |
| `MCBackupCycle` | an instance of it for TLC | `BackupCycle` |
| `PlanWatchdog` | the watchdog's verdict on one plan, and its auto-start | - |
| `MCPlanWatchdog` | an instance of it for TLC | `PlanWatchdog` |
| `VanishedPlans` | watched plans that were deleted or renamed: the check, the pushes and their buttons, the restore as a new plan, the repair, a reload | - |
| `MCVanishedPlans` | an instance of it for TLC | `VanishedPlans` |
| `KnxBridges` | the KNX and trigger stages of a sync, and the clean-up that takes their work back | - |
| `MCKnxBridges` | an instance of it for TLC | `KnxBridges` |
| `WebIoSync` | the sync engine for one Web-IO class: audit, delta, recreation, plan wiring and clean-up | - |
| `MCWebIoSync` | an instance of it for TLC | `WebIoSync` |
| `ValuePath` | the values: webhook pushes, polls, writes of Home Assistant | - |
| `MCValuePath` | an instance of it for TLC | `ValuePath` |
| `PlanCoordinationProofs` | what an unload waits for; the line for the sync lock, and what it keeps apart while unloads succeed | `PlanCoordination`, `TLAPS` |
| `BackupHistoryProofs` | what one history, and the histories of several plans, keep under every change | `BackupHistory`, `TLAPS` |
| `BackupStoreProofs` | why writes of the backup store do not overlap, no snapshot is there twice, its files follow the memory, and what a purge spares | `BackupStore`, `BackupHistoryProofs` |
| `BackupCycleProofs` | why no half restored plan is stored, a restore can be undone, and what it promoted is not stored again | `BackupCycle`, `BackupHistoryProofs` |
| `RestoreEngine` | one restore, request by request: in place, onto another plan, as a new plan or as a copy | - |
| `MCRestoreEngine` | the backups and live plans TLC restores from and to | `RestoreEngine` |
| `RestoreEngineProofs` | what a restore overwrites, tells and takes along | `RestoreEngine`, `TLAPS` |
| `ValuePathProofs` | guard R1 and the readings of new IOs; which KNX object gets which marker and command, and what a clean-up takes back | `ValuePath`, `KnxBridges`, `TLAPS` |
| `PlanWatchdogProofs` | the bound of the auto-start, what the watchdog reports, and the pushes and restores of vanished plans | `PlanWatchdog`, `VanishedPlans`, `TLAPS` |
| `WebIoSyncProofs` | which commands a sync deletes, what it takes out of the plan, how it leaves it running, and that it leaves nothing to do | `WebIoSync`, `TLAPS` |

### PlanCoordination

One action is one stretch of code between two awaits. A *call* is one invocation
(one press of the sync button, one service call, one timer tick, one reload
request); its place is `pc[t]`, its coordinator `on[t]`. Coordinators are
numbered as they are built; `current` is the one in `hass.data`, or 0.

* `SyncPress`, `SyncWoken`, `SyncEnd`, `SyncSettled`: `async_handle_press`. The
  check, the lock, the identity check after waiting, the body (one place,
  `sync`, from the first to the last request), `restores_held_off`, the half
  second in which Comexio finishes, the closing reload under both locks.
* `Restore`, `RestoreEnd`: `_handle_function_plan_restore`. It ends by releasing
  its lock whether it succeeds, fails or is cancelled; its own reload is a
  separate `ReloadRequest`, as in the code (it is scheduled, not awaited).
* `EditCheck`, `EditLoggedIn`, `EditLoginFails`, `EditEnd`: every service that
  edits a plan. `Cascade`: the bus-load cascade and the rename follow-up, which
  check and enter `plan_edit` without an await. `BackupEdit`: deletions of
  stored backups, with their shorter check.
* `Cleanup`, `RangeCheck`, `KnxRepair`, `LockWoken`, `LockedWorkEnd`,
  `CleanupDone`, `CleanupReload`: the work that only asks for the sync lock.
* `ReloadRequest` ... `ReloadRecheck`: `async_reload_entry`, which may be called
  on a coordinator that is no longer loaded.
* `HAReload`, `EnterSetupLock`, `UnloadBegin` ... `SetupFails`: Home Assistant's
  `async_reload` (external, under its `setup_lock`) around `async_unload_entry`
  with `async_wait_before_unload`, and `async_setup_entry`. An unload may fail
  when `UnloadMayFail`; the next coordinator may fail to set up.

Left out: `_watchdog_lock` (bus-load watchdog, planned), the holder watch that
checks only `unloading`, the cancellation of a call while it waits for a lock,
and what a sync or restore does inside its body. Two of the places are finer
than the code: `reload` (between the caller's last check and Home Assistant's
lock) and `held` (between the hold-off and the look at the edits); the code
passes them without an await, so the model allows a few interleavings more, and
no property depends on their absence. Home Assistant's `FAILED_UNLOAD` state
(which needs a restart) is over-approximated by an entry that stays loaded.

### BackupStore

The manager's memory (`history`, `kept`, `loaded`), its two locks and the three
files (`disk`). A write is a request that takes the write lock (`Call`,
`WriteWoken`), loads the files when nothing is loaded yet (`EnsureLoaded` ...
`LoadFails`; readers load too), changes the memory (one action per method,
`AutoBackup` ... `Unkeep`) and then works off its *tasks* in order: each saves
one store, or drops a history and saves, or forgets a keep decision and saves
(`Saves`, `SkipTask`). A save may fail (`SaveFails`) or its call be cancelled
(`SaveCancelled`); what happens to the memory then is the method's `undo`:
nothing (`LeaveAhead`), back to before (`RollBack`), or back to before with the
stores written meanwhile written again (`PutBack`), which a cancel does not
interrupt. `Restart` begins anew from the files.

A snapshot is its capture time, the content of its plan (wiring, block settings,
module configurations and paper format in one) and the `restored_at` mark. The
three variables `unsynced`, `told` and `before` are history: stores a failed
save left behind on purpose, and what users were told since Home Assistant started.
Two identities, two auto slots and one change slot (3 and 10 in the code) and two
snapshots are enough for a full list, a merge that overflows the change slot, and a
promotion of the older of two. `Mixes` bounds which writes and restarts meet in one
behaviour.

Assumed: the write of a cancelled save lands before the next save of its store
or not at all (the executor job of Home Assistant's `Store` may still run).
Left out: the back-fills of snapshot metadata, the migration of an old file
layout, a call cancelled while it waits for a lock, selectors and labels.

### BackupCycle

Three processes meet over one plan ID: a user in Comexio Studio (`UserStep`),
the backup cycle a poll starts, and a restore in place. The plan is its name and
its content; `listed` is the name the integration read last (`api.fub_data`).
The lists of snapshots are those of `BackupStore`, kept per kind and name.

* The cycle (`_async_function_plan_backup_cycle`): `CycleBegins` notes the pause
  generation and the name, `Loads` or `LoadFails` is the bulk load, `Judge` asks
  whether a restore ran meanwhile, `FollowRenames` ... `RenamesDone` are
  `_async_follow_plan_renames` with one `Moves` or `MoveFails` per former name,
  `StoreAuto` and `SaveEnds` are `async_auto_backup`. `CycleTimeout` cancels it
  anywhere.
* The restore (`_restore_plan_in_place`): `RestoreBegins` (the pause begins),
  `FetchPlan`, `Secure` (the `pre_restore` backup), `Align`, `RunFup`,
  `Complete`, `Verify`, `Promote`. `Ends` takes the pause back, from any of them
  after an error or a cancel (`RestoreAborts`). Between `RunFup` and `Complete`
  the plan may be *half* restored: comments the wiring request cannot carry are
  placed afterwards.

Content is what `plan_hash` tells apart. Other plans exist in Comexio, so its
plan list is never empty. A poll and a write of the backup store are one step
each, except the save of an automatic backup and the move of a renamed plan's
backups: those hold the store's write lock while the others go on. `promoted`,
`leftHalf` and the notes in `chosen` are history variables. Left out: a restore
as a new plan or a copy, block settings and module configurations, plans Home
Assistant manages and plans the watchdog watches (both change which renames are
followed), the back-fills and the audit at the end of a cycle. That no move of
backups runs during a restore, and no restore starts during a move, is what
`PlanCoordination` says of `plan_edit`.

### PlanWatchdog

One plan ID that may carry two names in turn: a plan deleted in Studio frees its
ID for another. What Comexio says of the plan arrives in two ways, each a
request and an answer with other steps in between: the run-state fetch
(`FetchBegins`, `FetchAnswers`, `FetchFails`) and the poll (`PollBegins`,
`PollReads`, `PollUnread`, `PollFails`). The check (`CheckBegins` ...
`CheckEnds`) tracks what it sees (`NextStopped`, `Healthy`, `Reassigned`,
`Cleared`), decides on a start (`Due`, `GivesUp`) and sends it (`StartSent`,
`StartBody`, and one of `StartConfirmed`, `StartRefused`, `StartUnanswered`).
A user may start the plan through Home Assistant (`UserStarts` ...
`UserStartFails`), flip the auto-start switch (`FlipSwitch`), edit it (`EditStops`,
`EditEnds`), or change it in Studio; Comexio may stop a plan by itself, refuse
it, or be down for a while (`GoesDown`, `ComesUp`).

The stretches of the check without an await run whole: `Running` names the
check that is in one, and no other step interleaves. Clock readings are flags
that lapse by a step of their own: the grace after a start of Home Assistant
or Comexio, the window in which a started plan counts as stopped again, the gap
between start attempts, the age of the last existence check. `scenario` picks
which disturbances may meet in one behaviour and which IDs are in use, so that
each of the six combinations is explored in full at a size TLC can handle, and
so is the case of two plans whose starts a poll comes between. Left out: syncs and
restores other than as blocked polls, staleness thresholds, unreadable list
entries, vanished plans (`VanishedPlans`), reloads, and everything that is told
to the user of a stopped plan (alarms, repairs, pushes).

### WebIoSync

One class of Web-IO commands (the markers'), the managed plan that wires a
marker to its command, and a plan of the user's own that may use a command.
Comexio's side is `source` (markers), `command` (by webIoId, the command ID
being the same here), `device`, `class`, `plan`, `runs`, `own`; an element is a
place in a sequence, so IDs are never reused. Home Assistant's is what it read
and when: `data` (the last poll), `audit` (`last_audit_results`, compared from
`data` and the plans of the last bulk load), `snap` (`function_plan_plans`),
`listed` (the `Active` flag and the plan list of the last config read).

A sync is one process; `pc` is the request it sends next and `ctx` its
`_SyncContext` with what the helpers hold between requests. Requests that write
one thing each are one step; the two or three writes of one pair, and the
requests of a sort that save positions, are one step whose failure leaves any
prefix of them. Users go on between any two requests: they rename, retype,
delete or create markers, copy and delete commands, use a command in their own
plan, wire, unwire and delete elements, use an element in logic of their own,
start and stop the plan, ignore markers, and cancel the sync.

* The start: `Press`, `LooksUpDevice`, `DecidesAction` (`Eta`, `FastTrack`).
* Recreation: `DeletesDevice` (Comexio refuses while a plan uses a command of
  it), `ConfirmsDeviceGone`, `LooksUpClass`, `DeletesClass`, `Uploads`,
  `CreatesDevice`.
* Debris: `Unwires` (orphans, `Unwiring`) and `CleansLeftOvers` (`LeftOvers`)
  each choose elements and go through `StopsPlan`, `ErasesElements`,
  `RestartsPlan`; `SortsPlan`, `RunsSorted`, `RunsAgain` follow once.
* Delta: `ListsPlans` and `ChecksOrphans` say which orphans stay, `RunsTask`
  does the renames, deletions, creations and type changes.
* Wiring: `FindsPlan`, `StopsToWire`, `ReadsConfig`, `ReadsPlan`, `PlacesPair`
  (`Pairing`, `Joined`), `PairsDone`, and the sort again.
* Clean-up of ignored markers: `FindsIgnored` ... `DeletesCleaned`.
* `Finishes`: the closing reload and its first poll.

A request that fails was either not carried out, or carried out with its answer
lost. `quiet`, `before` and `excused` are history: whether anything changed
since the data were read, how the plan ran at the press, and which deleted
commands a plan may still hold because a user deleted them or placed them behind
the check.

What a sync that reports success leaves to the next one is part of `SyncSettles`: the
wire of a marker whose command it renamed, which the audit compares by name; left-over
source elements where the class was made anew, which clears none (`MadeAnew`); and a
source element two deleted commands were wired to, which each unwiring spares for the
other (`Shared`).

Left out: the IO, KNX and Quickbus classes, the KNX and trigger stages
(`KnxBridges`), ignore-list entries of markers deleted since, the server address and its loopback check, a base ID that cannot be
found or a class that cannot be deleted, entity registry clean-up, managed plans
renamed or deleted in Studio, unreadable IDs and entries, change backups, and
progress reports.

### VanishedPlans

A watched user plan is its ID and name (a named pick). `comexio` is what its ID
holds: the plan, nothing, the plan renamed, or another plan; `seen` is the plan
list the integration read last. The options hold the pick (`picked`), the backup
store whether the identity has a backup (`backedUp`). The watchdog's state
(`vanished`, `vanished_holders`, `_restored_pushes`, `_vanished_clearing`,
`_vanished_push_unsent`) keeps its names, shortened, and starts anew with a
`Reload`, which is one step here; what a reload waits for is `PlanCoordination`.

* Pushes: `Queued` joins the line of the tag's lock (`_PUSH_LOCKS` outlives a
  reload), `Begins` judges the push again (`StillDue`, which is `_no_longer_due` with
  the `_VanishedGuard`) and `Sends` is one notify service after another; each
  may take the push, fail, or take it and be counted as failed (its timeout).
  `Sent` is the bookkeeping that follows without an await.
* The check: `CheckStarts`, `CheckFollows` (the rename follow-up), `CheckSyncs`
  with `CheckAlarms` and `CheckClears` (`async_sync_vanished`), `VanishedCheckEnds`.
* Buttons: `TapRestore`, `TapStopWatching`; the dialog of the repair (`Repairs`);
  a restore from the plan card (`CardRestores`).
* A restore: `TakesTurn` (its lock and the wait for a running restore),
  `Compares` (is the holder of the ID the plan renamed?), `Acts`, `Decides`,
  `Builds` or `BuildFails`, `Releases`, `Reports`.

`episode`, `missed`, `replaceable` and `excused` are history and carry the
exceptions of the properties. The code has these, and the properties leave them
out by name: a clear that failed is not repeated; the answer to a tap before the
first check, if that check does not list the plan, offers buttons until it is
tapped; a push that is shown or under way when a reload begins stays, if the
first check after it does not list the plan (it has no earlier list to clear);
a plan restored and deleted again between two checks is known to
no check, and the clear of its first alarm, which has no guard, may take off the
second; when the backups could not be moved to the rebuilt plan, a restore from
the plan card finds them and builds it again. `AlarmArrives` is about a deleted
plan, and needs the watchdog to be configured with companion-app targets.

Assumed: every notify target is a companion app, picks name their plan (bare IDs
are left out), and the plan's backups are one chain. Left out: the texts, Home
Assistant's notifications, the lapse of a restore's wait for anything but another
restore, and the parts of a rebuilt plan that are missing (a partial restore
reports like a whole one).

### ValuePath

A *source* is an ID of a marker, a KNX object or an IO. Comexio's side is
`value`, the thing behind each ID and the number of its last change; a *reading*
is a copy of that. `shown` stands for `marker_states`, `knx_states` and
`io_states`, `dirty` for the three `_webhook_updated_*` sets, `real` and
`polledReal` for `_io_real_value_ids` and `_polled_io_real_ids`, `identity` for
`_io_identities` and `index` for `_io_index`.

* Pushes: `Changes` sends one, `PushArrives` stores it in whatever order it comes
  (`Store`; for an IO, `FindsIo` looks its name up and compares identities).
  `PushUnreadable` carries no number, `PushLost` never arrives.
* Writes: `WriteSent`, then `WriteApplied` in Comexio, then `WriteConfirmed`,
  which shows the value unless a push for the IO came between; or `WriteFails`.
* A poll: `PollBegins` clears the marks, `ConfigRead` reads the page (or none),
  `LiveRead` the markers and KNX objects, `IosRead` the IOs, with
  `_forget_reassigned_io_values` as `Forget`; `Merge` is the stretch from
  `_merge_polled_states` to `_index_ios`. `PollFails` ends it anywhere.

Each request's answer shows Comexio at one moment between asking and answering;
for the IOs, whose request follows `LiveRead` at once, it is the state at either
end. Polls are the interval's and one asked for by a repair or an uninstall: they
may overlap, since `async_refresh` takes no lock. `alone`, `met`, `pageAt` and
`namedAt` are history. Left out: Quickbus pushes (addressed by ID, stored the
same way), polls skipped while a sync runs, import options, offline extensions,
the start from a saved config, and the default (off or 0) that `parse_config` gives
a marker the page names but the live answer leaves out (coordinator.py:1733): the
answers here hold every marker.

### KnxBridges

What a sync does for KNX objects ("K") after its Web-IO classes, and the clean-up
that takes it back. A K is written through a marker of its own that is wired to
it (the *bridge*), and tells its value to Home Assistant's Web-IO (the *read
path*) and to a command of a second Web-IO that writes it back to the marker (the
*loopback*). K's whose title ends in `[TRIG]` have their bridge marker in the
trigger plan too, next to the user's own trigger markers.

Comexio's side: `knx` (titles), `marker` (title, delivered or made, whether a
default or store is set), `plan` (per K its cluster plan: markers placed, those
wired to K, Web-IOs K feeds), `trig`, `own` (markers in the user's plans),
`command`, `listed` (those the pages show yet), `device`, `class`. Home
Assistant's: the plan map `mapped`, `planCache` (`function_plan_plans`), `loading`
(no bulk load yet), `web`, `creds`. `stage` is what comes next, `ctx` what the sync or
clean-up holds. `quiet`, `late` and `unsure` are history: nobody changed anything
since the plans were loaded, which markers a user took behind the look at titles
and placements, and whether an upload's answer was lost.

* Audit and plans: `Press` (`ReadMissing`), `Audits` (`Refetched`, `Loaded`,
  `BridgeMap`, `LoopbackMissing`, `Finds`), `ResolvesClusters`.
* Markers, for all K's before the first plan and again in a plan whose K got
  none: `FillsGap` (`BlockStart`), `FindsFree` (`FreeMarkers`: `Reusable` ids that are
  placed nowhere and reserved for no K), `Obtains`, `HasBatch`.
* Loopback class: `Prestages` (`Made`, `There`, `NotEnsured`).
* Per plan: `TakesPlan`, `WiresReadPath`, `WiresBridge`, `EnsuresLoopback`,
  `SavesCommand` (`KnownCommand`), `FansOut`.
* Trigger pairs: `AuditsTriggers` (`Pairing`), `ResolvesTrigger`, `AddsPair`,
  `DropsPairs`.
* Clean-up: `CleanUp`, `DecidesTriggers`, `RemovesPairs`, `DeletesPlans`,
  `DeletesWebIo`, `ReadsBridges`, `ResetsMarker`; either ends in `Finishes`, the
  reload.

Users retitle a K, use, name and make markers, unwire bridges and trigger pairs,
delete plans and cancel. A failed request was not carried out, or carried out
with its answer lost; where a failure may end the sync (a connection error) or be
reported and gone past (a refusal), both happen. Comexio lists commands that were
uploaded at once or not before something asks for them again.

Left out: stopping, sorting and starting a plan (`WebIoSync`), read-only and
ignored K's, sources of other kinds in the trigger plan's K's (IOs), markers
deleted by users, elements placed twice after a failed load, plans renamed in
Studio, the backup cycle's bulk load during a clean-up.

### RestoreEngine

One call of `_run_function_plan_restore` (or of the copy) with nobody else at the
plans: what keeps others away is `PlanCoordination`, its meeting with the backup
cycle is `BackupCycle`, several restores of a vanished plan are `VanishedPlans`.
`plans` is what two IDs hold in Comexio, the backup's and the next free one;
elements have the ids Comexio gives them, a block, a place, settings, a module
configuration and rules. `cached` is `api.fub_data` of the ID, `table` is
`api.block_settings`, `store` and `refs` say where the backups are filed and what
the cluster map and the watchdog pick point at, `mine` is what the call found so
far, `notice` the result it tells.

* The decision: `Refuse`, `DecideInPlace`, `DecideNew`, `DecideCopy` (`Listed`,
  `Conflict`).
* In place: `Align`, `StopFirst`, `Positions`, `CheckComments`, `RunFup`
  (Comexio may apply and start what it refuses, and number new elements as it
  likes), `StopAfter`, `Recreate`, `Verify`, then `MatchSettings` (`Matched`),
  `SaveSettings`, `SettingsSaved`, `ReadModules`, `WriteModule`,
  `ModulesWritten`, and `Promote` with `InPlaceStatus` and `RunLabel`.
* As a new plan or copy: `Create`, `PlaceNext`, `Configure`, `Remove`,
  `ElementsPlaced`, `WireNext`, `Wired`, the block settings as above,
  `CheckRules`, `Start`, `MoveBackups`, `Repoint`, `Report`.
* `Aborted` is an error or a cancel anywhere; a `Poll` may come between.

A request that fails was not carried out, and one whose answer is lost was,
where what follows depends on it. The type of a live Quantum module is not kept:
whether it is the one backed up is a free choice in `WriteModule`. Left out: names
and fixed settings of scene and Quantum modules, the dialogs, the firmware warning,
users in Studio during the restore.

## Runs

| Run | Instance | Shows |
|---|---|---|
| `plan_safe` | every 4 calls of 1 sync, 2 restores, 1 plan edit, 1 backup change, 1 uninstall cleanup, 1 range check, 1 KNX repair, 2 reloads of its own and 1 of Home Assistant; 3 coordinators, unloads succeed | `RestoreNotCutOff`, `RestoreAlone`, `SyncNotCutOff`, `RestoreAndSyncExclude`, `EditsOutlastOwnReloads` |
| `plan_live` | 1 each of sync, restore, cascade, both reloads; unloads may fail; fairness | `EveryCallEnds`, `SkippedReloadIsCovered` |
| `backup_store` | 2 identities, 2 auto slots and 1 change slot, 2 captures, 1 reader; 1 caller with backups, moves, lineage purges and restore marks, or with change backups, keep, un-keep, deletions, purge and audit; or 2 callers with a backup and a purge, and 1 restart; 1 failed load or save and 1 cancelled save; fairness | `OneWriter`, `DiskFollowsMemory`, `NoSnapshotTwice`, `PurgeSpares`, `EveryWriteEnds` |
| `backup_cycle` | 2 names, 2 contents, 2 slots per list, 3 changes in Studio, 1 restore, 1 failure or timeout; fairness | `NoHalfPlanStored`, `NoDuplicateAfterRestore`, `UndoIsThere`, `RenamesSettle`, `EveryChangeBackedUp` |
| `plan_watchdog` | 2 names; 1 ID in 6 scenarios of what may meet, and 2 IDs with auto-start alone; fairness | `AutoStartGivesUp`, `DeletedNotReported`, `VerdictSettles` |
| `vanished_plans` | 1 plan, 1 phone, 2 restores at a time; in one behaviour 1 change in Comexio, 1 fault, 2 taps and 1 reload, or 2 changes, 1 fault and 1 tap, or 2 changes and 2 taps; fairness | `NoStaleButtons`, `RestoredOnce`, `ConfirmationStays`, `AlarmArrives` |
| `value_path` | 1 marker, 1 KNX object and 1 IO, one of which changes; 2 changes; 1 poll at a time and 1 failure, or 2 polls that may overlap; fairness | `NoInheritedReading`, `PollKeepsPushes`, `ShownSettles` |
| `restore_engine` | 7 backups (2 gates of one type told apart by place, a scene and a Quantum module with and without a configuration, a comment, every paper) onto 6 live plans or a free ID, in 4 modes, started or not; 2 faults | `OkMeansRestored`, `RunsAsTold`, `FollowsTogether`, `OverwritesOnlyMeant` |
| `webio_sync` | 2 markers, 2 titles, 2 kinds, every sync action, from a new or a wired server, 2 changes by users, 1 sync, 1 failed request | `UsedCommandsStay`, `SyncSettles`, `PlanRunsAsBefore`, `KeepsPlanLogic` |
| `knx_bridges` | 2 KNX objects with a cluster plan each, of which one may be a trigger, a bridge block of 2, 2 markers delivered; a Comexio as delivered, as a clean-up left it, or synced; 2 syncs or clean-ups, 1 change by users, 1 failed request | `OneBridgeEach`, `UsedMarkersKept`, `KnxSettles`, `NoDuplicateCommand`, `CleanUpSpares` |

One call of a kind is enough for a pairwise conflict; the second restore is
there because it meets the first one's lock. With 3 coordinators two reloads
complete; syncs, restores and cleanups reload as well, and a set-up beyond the
bound fails, which leaves the entry without a coordinator, as a failed set-up
does. The writes of the backup store run one at a time (`OneWriter`), so two of
the three `Mixes` of `backup_store`, which are about what a write does, need one
caller only; the third is about the lock and the loads. Two captures are what
merging and promoting take; that the four safety properties hold beyond these
bounds, with any mix, is proved. Three changes
in Studio create a plan, change or rename it and change it back, or delete it
and give its ID to another; one restore meets each of them, before, between or
after.

For a sync, two markers give two tasks of a kind and a plan with a pair that
must survive; two changes by users meet any two of its requests, or one of them
precedes the audit and one follows it. A second sync starts from what the first
left, which the setups and the changes by users reach as well; two syncs without
faults, two faults, and three changes were explored once with the same result.

The pushes of two deleted plans have tags, and so locks and queues, of their
own; the plans share the check, which sends one push after another, and the
restores, of which one runs at a time. In `vanished_plans` a check may rest before
and after any of its pushes as if it were busy with another plan, and a restore
may wait for one of the plan card, so one plan is enough for the properties, each
of which is about one. Phones share nothing but a push that goes to each in
turn. `Budgets` bounds what meets in one behaviour; two changes, one fault, one
tap and one reload, and two phones with smaller budgets, were explored once with
the same result.

Two KNX objects compete for the first markers of a block; a block of two is full
with them, so the next id begins behind the run that may be reused. Two syncs or
clean-ups in any order show what one leaves to the next. `Going` ends a behaviour
with its last sync or clean-up, as no property is about what comes later. Two
changes by users or two faults make the state space too large for one run.

Sources do not share state but the polls, so in `value_path` one of the three
kinds changes at a time. The second change may be the reassignment of an ID after
a push for it was sent, or the push a poll must not take back; two changes are
what it takes to have an older and a newer one under way. Two failures for
one poll at a time and one for two that overlap were explored once for the
safety properties, with the same result.

Two runs end in a counterexample: each checks a sentence of a docstring or of the
documentation that the code does not keep (`findings` in `PROJECT.json` quotes it).

* `plan_edit_cut_off`: `async_reload_entry` sets the hold-off mark, then waits
  for a plan edit; Home Assistant's own reload sees the mark and does not wait.
  An own reload meets the same mark when it is not of the coordinator whose locks
  its caller holds: a cleanup that queued behind a woken reload runs on a replaced
  coordinator (`LockWoken`), and its closing reload unloads the new one while the
  reload that marked that still waits for the edit. `EditsOutlastOwnReloads`
  therefore speaks of the coordinator whose locks the reload holds.
* `backups_removed`: BACKUPS.md:76-77 says of the backups of a deleted plan "They
  are what you need to bring the plan back, so the integration never deletes them
  on its own". A restore as a new plan removes all of them when another plan holds
  the old ID (services/backup.py:1107-1108), before it says how the rebuild went.
  The run shows one that ends PARTIAL, with no backup left to try again from
  (`BackupsStay`). `FollowsTogether` says what the code keeps: where the result
  tells that the backups are, with this removal as the one exception to the new ID
  having them.

Other properties the models do not have, for which no run is kept: the range
check ignores `unloading` and, after waiting for the lock, the coordinator's
identity; a cycle that times out during the save of its snapshots leaves them in
memory, where the next cycle compares against them; a keep decision whose save
failed stays in memory, so the second attempt reports success and a restart takes
it back; after a
failed unload a press that waited for the sync lock runs together with a
restore, and its closing reload cuts off a plan edit; a KNX classification
queues behind a woken reload and runs on the coordinator it tore down; a promoted
snapshot keeps its capture time and moves to slot 0, which the purge takes for the
newest backup the retention counts from, although BACKUPS.md:80-81 says the
retention counts from the newest backup; a sync's
closing reload does not wait for a backup deletion in `plan_edit`; a deletion
whose save failed is reported as done when it is repeated and undone by a
restart; a deletion by slot removes what has moved into the slot; a plan renamed
between a poll and the bulk load is stored under its old name if no poll reads
the list before the store; a move of backups sorts a promoted snapshot back, so
the restored content is stored again. In a sync, a plan load that fails while
pairs are wired reads as an empty plan, and elements are placed twice; a plan
started in Studio after the last poll counts as stopped and stays stopped after
its pairs were added; a connection a user draws between a pair's load and its
save is lost, since a save carries every sink of the load.
Left-over elements are chosen from the plans of the last backup cycle, not from a
fresh load as coordinator.py:10012-10013 says, so one that a user connected since
is deleted with its wire.
Onto another plan (`force_override`)
only the numbers of blocks and wires are compared, so a `run_fup` that did nothing
on a plan with as many is told as OK (551-557). A poll that fails during a restore
drops the settings the comparison with live-only settings needs, and the result
says OK (`OkMeansRestored` excuses both). A lost answer of the start of a new plan
is told as not active though the plan may run.
The first full sync of an installation with KNX objects only finds no plan in the
plan map, skips the audit of bridges, and wires just the read path: a second one
makes the bridges (`KnxSettles` speaks of syncs whose audit applied). A K that had
its bridge but fed nothing gets its loopback with the second sync. When an upload's
answer is lost or the device cannot be made after it, and the pages list the
commands late, a command is saved twice (`NoDuplicateCommand` excuses both). A
loopback is audited by the number of Web-IOs a K feeds, so one to the marker of an
earlier bridge counts. After a clean-up whose deletion of a plan failed, the
bridge marker in it has lost the title by which it would be reclaimed.
When two polls overlap, the second clears the marks of the first, whose older
snapshot then replaces a value that was pushed during its fetch (the comment at
coordinator.py:1572 promises that the push wins); the next poll puts it right. A
write of a marker or KNX object does not look for pushes that arrived while it
ran, as one of an IO does, so it may show an older value than a push until the
next poll.

Fairness: `FairSpec` gives each call weak fairness of `Proceed`, its next
stretch: the event loop runs what is ready, and the HTTP client's timeouts end
every request. Requests are not fair (nobody has to press anything), and
neither is `UnloadTimeout`: that every call ends is shown without relying on it.
In `BackupStore` a call's next step is fair in the same sense; failures, cancels
and restarts are not. In `BackupCycle` polls go on (the coordinator's interval),
and the next step of a running cycle or restore is taken; users and failures owe
nothing, so `RenamesSettle` and `EveryChangeBackedUp` say what holds once users
and failures have stopped, however they left things.
In `PlanWatchdog` requests end, lapsing flags lapse, an outage and an edit end,
and checks, fetches and polls recur, as the intervals that drive them do; a
Comexio that is asked again and again answers some time (strong fairness of the
answers). Users owe nothing, so `VerdictSettles` says what holds once they have
stopped.
In `VanishedPlans` polls and checks recur, the gap after a failed alarm ends while
a check runs some time (strong fairness of `CheckSyncs(TRUE)`), the reload a
restore asked for comes, and every restore and push takes its next step, which
for a send is an answer or its timeout. Users and faults owe nothing.
In `ValuePath` pushes under way arrive or are lost, writes and polls end, and the
interval polls again; nobody has to change a value, and no poll has to succeed
but the failures are bounded, as `ShownSettles` speaks of a Comexio that rests.
`WebIoSync`, `KnxBridges` and `RestoreEngine` have no liveness property: their loops run over
finite sets.

## Proofs

`BackupStoreProofs` proves `WritesNeverOverlap`, `Spec => []OneWriter`, for any
number of writers, readers, plans and slots. The invariant says that a call past
the write lock is its owner (`WriterOwns`). Every step of such a call either
leaves the lock alone (`Moves`) or ends the call and gives it back
(`GivesBack`), whatever it does to the histories; only `Call` and `WriteWoken`
take it, when nobody has it. The only assumption used about the calls is that
`NoCall` is none of them and that no writer is a reader.

It also proves `SnapshotsStaySingle`, `Spec => []NoSnapshotTwice`. The lemmas of
`BackupHistoryProofs` say of every operator on a history that it keeps a sequence
of snapshots of different times and adds none but the new one, and of the
histories of several plans (`Filed`) that no time is in two of them. A merge sorts
a set of snapshots: the element at place *i* is the one with *i* - 1 newer ones,
which exists and is unique because the times differ (`EveryRankIsTaken`), and they
differ because no two histories share a time. `SInv` says so of what is in memory,
on disk, kept for a rollback, and in a write that is late; a failed save puts
back, and a restart loads, nothing else. No hypothesis is needed.

It also proves, again for any number of calls, plans and slots:

* `FilesFollowMemory`: `Spec => []DiskFollowsMemory`;
* `PurgeSparesKept`: `Spec => PurgeSpares`.

As only one call writes, the tasks of the running write tell which files may be
behind. `FInv` says that each file holds what the memory holds, or the write has
yet to save it, or it is known (`unsynced`) that a failed or cancelled save left
them apart (`Follows`); that what a failing write rolls back or puts back is what
the files it has not saved hold (`Undoing`); that a late write is to such a file
or to one that is saved again (`LateKnown`); and that the stores are loaded by one
call at a time, before anybody writes (`Loading`). `KInv` adds for the second one
that no pending task takes a backup, or the keep decision, of a plan that users
were told is kept, and that a purge's tasks are of plans its list did not hold.
`DInv` says that every history is of all plans.

Both assume that no automatic backup and no restore mark is cancelled while it
saves (`NoCancelledRollBack`): the code rolls these two back on an exception, but a
cancel is none (`_async_save_auto_or_roll_back`, `async_mark_restored`), so a
cancelled one leaves its change in memory. Without the assumption the first
property is false of the code. The second counts what a user was told since Home
Assistant started: a keep decision whose save failed stays in memory, a second
attempt reports it as kept, and a restart forgets it.

`BackupCycleProofs` proves, for any names, contents, slots from one up and
numbers of restores, changes and failures:

* `HalfPlansStayOut`: `Spec => []NoHalfPlanStored`;
* `WhatIsOverwrittenIsThere`: `Spec => UndoIsThere`;
* `RestoredIsNotStoredAgain`: `Spec => NoDuplicateAfterRestore`.

The first needs to know which cycle can read a half restored plan. A restore sets
the pause generation when it starts, and a cycle starts only without one, so a
cycle that is under way during a restore began with another generation
(`PauseInv`); what it read then is held back when it asks before it stores. The
only other content that is stored is that of the backup before a restore, and
that restore has not written yet (`PlanInv`). The histories hold nothing else
(`StoreInv`, with `Filed`), nor does what a failed save would put back
(`SavingInv`), so a move, promotion or rollback brings in none. The second rests on
`UndoInv`: between its backup and its write the content a restore overwrites is
that of the newest change backup of all names, and a merge cuts off the oldest
(`MergedKeepsNewest`). The third rests on three facts. The snapshot of the time a
restore chose never has another content, wherever moves and a rollback put it
(`ChoiceInv`, `BeforeInv`); a plan that reads back as the snapshot has its name,
unless a user changed it since; and so after the promotion the plan's newest
automatic backup is the plan, while every cycle that may still store read it
under that name (`PromotedInv`). Assumed are at least one slot and that no plan,
the half restored one and the contents of users can be told apart
(`CycleNamesAssumption`).

`PlanCoordinationProofs` proves, for any sets of calls, any bound on the
coordinators and with unloads that may fail:

* `TypeCorrect`: `Spec => []TypeOK`;
* `RestoreNeverCutOff`: `Spec => []RestoreNotCutOff`;
* `RestoreIsAlone`: `Spec => []RestoreAlone`;
* `RestoreAtOnce`: `Spec => []RestoreTakesLockAtOnce`.

None of the three properties is inductive. The invariant `IInv` adds who owns
what: from its hold-off to the end of its reload a call owns the restore lock
(`RestoreOwned`), as a restore does; whoever waits for the restore lock owns the
sync lock (`SyncOwned`), so there is at most one (`RestoreQueue`); the mark
`held` belongs to such an owner (`HeldOwner`); at most one call is inside the
setup lock (`SetupOwned`) and the coordinator it unloads is the loaded one, with
`unloading` set (`UnloadInv`). So when an unload goes past its wait because the
lock is free or marked, no restore runs on that coordinator (`WaitedInv`), none
can start, and a restore found on a coordinator that is not loaded is one an
unload gave up on (`RestoreInv`). Most actions leave Home Assistant's side alone
and are instances of `CallStep`, whose preservation is proved once
(`CallStepPreserves`); the actions of the setup lock's owner are proved one by
one. The assumptions are those of the module: the bound is positive, no call is
`NoCall`, and Home Assistant's own reloads are no other kind of call.

It also proves, when no unload fails (`UnloadMayFail = FALSE`):

* `RestoreExcludesSync`: `Spec => []RestoreAndSyncExclude`;
* `SyncNeverCutOff`: `Spec => []SyncNotCutOff`;
* `EditsOutlast`: `Spec => []EditsOutlastOwnReloads`.

The three fail without that hypothesis, and for one reason: a sync, cleanup or
range check that waited for the sync lock asks about restores and plan edits
before the wait only. `XInv` says why nobody does any harm by that. Who stands in
the line for a lock waits for that lock and stands there once (`InLine`,
`LineOnce`). The head of a line is a reload, or the owner is one that keeps the
lock until its coordinator is gone, or the coordinator is gone and no restore is
left on it (`LineHead`): on an empty line only a reload queues behind an owner,
as all others ask `locked()` first. So a woken sync is dropped, and a woken
cleanup or range check runs where nothing else does (`HeadRetired`). What is left
are calls that got their lock without waiting, after their check; a plan edit
marked later finds their lock taken (`EditHold`), a reload goes on only with no
edit marked, and the mark outlives the edit (`EditMarked`). Steps that leave Home
Assistant's side alone are instances of `Turn`, proved once (`TurnKeeps`). A call
is of one kind as far as `KindsAssumption` says.

`ValuePathProofs` proves `TypeCorrect`, `Spec => []TypeOK`, and
`PollKeepsPushesHolds`, `Spec => PollKeepsPushes`, for any number of sources,
things, polls, changes and failures. The action property needs two invariants. No
reading anywhere, pushed, written, polled or shown, is newer than Comexio's own
value; so what a request reads is at least as new as what is shown by then. And
while a poll runs alone, whatever is shown of a source without a mark is unknown
or not newer than the poll's snapshot of it: a push or a write in between sets
the mark, and only the start of another poll, which ends `alone`, and the
reassignment of an ID take marks away. The assumptions are those of the module:
IDs of different kinds differ, `NoThing` is nothing and `Unknown` no reading.

It also proves `NothingInherited`, `Spec => []NoInheritedReading`. While no two
polls overlapped (`Lone`; the property says nothing of later, as overlapping polls
do merge each other's pages), an ID without an IO shows nothing, what is shown of
another is of its IO or newer than its naming, and what a poll has read of an ID is
of the IO its page named there or newer than the page; so the merge, which drops
the readings of every ID whose name changed, leaves none of another IO.

For `KnxBridges` this module proves, for any KNX objects, block, titles and delivered markers,
and any number of syncs, clean-ups, edits and failed requests:

* `OneBridgeEachHolds`: `BridgesSpec => []OneBridgeEach`;
* `NoDuplicateCommandHolds`: `BridgesSpec => []NoDuplicateCommand`;
* `UsedMarkersStay`: `BridgesSpec => UsedMarkersKept`;
* `CleanUpSparesHolds`: `BridgesSpec => CleanUpSpares`.

`BridgesInv` is one invariant for all four. A bridge is told by its
marker's title, so no marker bridges two K's (`TitlesTell`). A K an audit found
without a bridge has none until its leg is wired (`Unbridged`), since plans that were
loaded before the audit have at most lost bridges (`CacheCovers`); so it gets one only
(`OneEach`), and what it gets is the marker prepared for it, which has its title by
then (`Prepared`). While markers are given out, none that is free stands in a plan
or is prepared for a K, but what a user did since, and none of the titles that are
asked for is among the free ones (`Obtaining`). A command Comexio does not list
yet went up with the class, or its K is done (`CommandsInv`), so what a K needs
is looked up among the listed or the prepared ones. A clean-up that gets to
the markers has no KNX pair left in the trigger plan (`PairsInv`), as it does not
get there when told to wait, and the markers it resets are those it read, with the
titles and settings they had, but for what users did (`ResetsInv`). Who may
change a marker or a plan at all is said by `MarkerChanges` and `PlanChanges`. The
assumptions are those of the module: K's are finitely many numbers, at least one, and
no plan is called `None`.

`PlanWatchdogProofs` proves `StartsAreBounded`, `Spec => []AutoStartGivesUp`, for
any plans, names, picks and limit. The bound is not inductive: a confirmed start is
no failure yet but may turn into one. The invariant counts it through the
probation of its plan (`StartsCounted`), says that a plan on probation has a
failure left and one without any is given up on (`FailuresBounded`), and that no
start is under way for either (`StartInTurn`), which holds because a stop within
the window is counted before the next start is sent. The assumption used is that
at least one failure is allowed.

It also proves `DeletedStaysUnreported`, `Spec => DeletedNotReported`. From when a
plan is first read as stopped, Comexio's list, a poll under way and, once a poll has
verified it, the cached list hold under its ID only names it held since
(`NamesSince`). No poll is asked while a check begins, so what the check judges was
verified by a poll that was asked since (`JudgedSince`).

For `VanishedPlans` it proves, for any plans, phones, number of restores and bounds:

* `VanishedRestoredOnce`: `VanishedSpec => RestoredOnce`;
* `VanishedConfirmationStays`: `VanishedSpec => ConfirmationStays`;
* `VanishedNoStaleButtons`: `VanishedSpec => []NoStaleButtons`.

`RestoredOnce` rests on `OnceInv`: from its decision to its end a restore holds the
restore lock (`OneHolder`); a plan that was rebuilt and took its backups along is there
or has none (`MovedIsThere`); so what is about to be built was not built before
(`BuildsAnew`). The other two are
about the lines of pushes, one for each tag. `Lines` says what a push in line is and
for whom it is: one of a restore waits for that restore to go on, a restore and the
running check wait for one push at a time (`AwaitedOnce`), and an alarm of the check
is of a plan that is vanished now. `Phases` says how far a check is: what is marked as
restored is vanished or still to be cleared.

`StaysInv` says of a plan whose confirmation may not be replaced that no check will
find it vanished, as it is back and was seen to be or is no longer picked, and that it
is marked if the last check did (`Rests`). That is so because the restore whose
confirmation lasts saw to it before (`Lasting`), and no other restore of the plan
reports after it (`Apart`). An alarm is sent only to what may be replaced
(`AlarmsReplace`): it is judged by the mark when it begins.

`ButtonsInv` says what takes a button off before it is left behind. A phone that shows
one, or may be about to, of a plan that is not vanished (`Covered`) has a push in the
line of that plan that takes it off (`ErasedBy`), or the check has yet to clear the
plan. If a confirmation is marked (`Confirmed`), that push is a confirmation, since
the check then clears nothing. A push that is done takes the button off, notes that
it did not, or is followed in the same step by a clear (`SentErased`, `LastButtons`);
one that is dropped as no longer due is one of a plan that vanished again
(`DropsButtons`). Once all is settled no line holds a push, so no button is left.
The assumptions are those of the module: no restore is called as the other senders
of pushes are.

`RestoreEngineProofs` proves, for any backups, live plans and numbers of faults:

* `RunsAsToldHolds`: `Spec => []RunsAsTold`;
* `Follows`: `Spec => []FollowsTogether`;
* `OverwritesMeant`: `Spec => OverwritesOnlyMeant`.

The invariant says what each phase can rely on: a phase works on the old ID or on
the new one (`Places`), on the old one only if its plan has the backup's name or
the caller insists (`Meant`); from which phase on the plan runs, or rests, and what
the restore has noted of it by then (`Running`); and which ID the backups and
references are under, and what the restore has noted of that (`Moved`): with OK the
new one has them, unless another plan holds the old one, and a copy takes none. Steps that neither start, stop nor tell anything
are instances of one lemma (`Quiet`). The assumptions used are that a plan has the
fields a plan has and that none looks like no plan.

`WebIoSyncProofs` proves, for any markers, names, kinds and setups and any number
of syncs, edits by users and failed requests:

* `UsedCommandsAreKept`: `Spec => []UsedCommandsStay`;
* `PlanIsLeftRunning`: `Spec => PlanRunsAsBefore`;
* `PlanLogicIsKept`: `Spec => KeepsPlanLogic`;
* `SyncLeavesNothing`: `Spec => SyncSettles`.

`IInv` has four parts. `Types` says of what a sync carries between two requests
what it is, the plan and the configuration it read among them. `PlanThere` says that
a plan never goes, so nothing is cut out of none and no sync that saw one loses
it. `CommandsInv` is about the commands: plans hold ids that exist or did; once the
plans were read and found to hold none of it, what is still to be deleted is held
by no plan, or was placed there by a user behind the check, or a user deleted it
(`OrphansFree`, `CleanableFree`, and `OwnUnseen` between the two reads of the check,
where the list of plans may be older than the user's plan); and the commands a
wiring pass read are there when it places them (`ReadStill`), which holds because
no sync deletes a command between that read and the last pair. `RunsInv` says for
every request of a sync that has not failed so far what the code remembers of how
the plan ran: `listed.runs` as long as nobody stopped it, `ctx.ran` between a stop
and its start, `ctx.resort` from the first removal to the sort (`Untouched`,
`BetweenCuts`, `Stopped`, `Wiring`). A user who starts or stops the plan during a
sync ends what the property is about: `before` is `Gone` then. The assumptions are
those of the module: markers are finitely many numbers, the setups, actions, kinds
and times are those of the code, and `Gone` is no marker, command, element or plan.

For `PlanLogicIsKept` two more invariants hold while nobody changed what was read.
`ReadTrue`: the markers and, until the first write, the commands are those the poll
read; the audit is the comparison of what is there now; and up to the wiring pass
the managed plan is what is left of the snapshot (`Below`), since a sync only takes
elements out of it before. `Chosen`: what is to be deleted stands for no wanted
marker, for an audit calls no `BestMatch` an orphan, what a clean-up works on is
ignored, and what is about to be cut spares the user's logic and the wanted pairs
(`Spares`). That the three ways to choose what is cut spare them, also when the
choice was made from a snapshot the plan has lost elements of since, are the lemmas
`UnwiringsSpare`, `LeftOversSpare` and `CleanedUpSpares`. The audit of a Comexio
that an earlier sync wired is shown to be empty (`WiredAudit`), so that the initial
states satisfy `ReadTrue`.

`SyncLeavesNothing` adds `SettleInv`, which relates what is missing to what is left to
do at every request. As long as a full sync goes on that nothing failed in, nobody
cancelled and nobody interfered with (`Going`), there is, up to its last write, for
every wanted marker either a task or one command with the right name and kind, and
what is to be deleted is all there is besides (`CommandsWork`); a wanted marker's pair
is in the plan, or the marker is on the list to wire, or to be created, or renamed
(`WiresWork`). That each write is one task less and leaves this true are the lemmas
`SavingWorks`, `DeletingWorks` and `CreatingWorks`; that the audit starts it,
`AuditWorks`; that a class made anew from its template starts the wiring with it,
`TemplateSettles`. If the device went and the sync did not notice (`Bare`), the first
write fails. From then on the commands are as they ought to be and a pair is in the
plan or still to be wired (`SettledInv`); the wiring pass reads what is there
(`ReadInv`) and a placed pair takes no other off (`PairingKeeps`). The left-overs the
audit found are loose in the snapshot, so they are among what is cut, and gone before
the first write (`LeftInv`). Wires lead from a marker's element to a command's
(`WiresInv`), so a new wire never connects a left-over. One stage follows on another
by one lemma each (`LooksUpGoes` to `WiresGo`).

Only model-checked: everything under fairness and `EveryWriteEnds` (the provers
cannot do liveness); `OkMeansRestored` of the restore engine, whose proof needs an
induction over the elements of a plan; and `KnxSettles`, which needs of every step of a
sync what is left to do and is planned.

## Not modelled

What each module leaves out of its component is at the end of its section above.
Of whole components, no module has these:

* options writes (R2), the bus-load watchdog, preview arming and certificate
  pinning: planned. That a cascade excludes other calls is in `PlanCoordination`;
* the reference monitor, HA address resolution and plan layout: sequential
  computations over plain data, for which unit tests do well;
* the HTTP client, services, entities, flows, diagnostics, the dashboard card and
  the catalogs: request formatting, parsing, forms and display. What the services,
  repairs and buttons change is in the modules of the components they call.

## Plan

1. Core, done: `PlanCoordination` and its proofs.
2. Backup store, automatic backup cycle and restore engine, done.
3. Plan watchdog: the verdict, the auto-start and the vanished plans, done; the
   pushes and repairs of stopped plans.
4. Sync engine: one class, the KNX and trigger stages and their clean-up, done;
   the other classes share the delta and differ in their wiring.
5. Value path, done; options writes.
6. Bus-load watchdog; preview arming; certificate pinning.
7. Pure algorithms: HA address, layout clusters.

Theorems planned: `KnxSettles`.
