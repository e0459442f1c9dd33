------------------------- MODULE PlanCoordination -------------------------
(***************************************************************************)
(* How the calls that rewrite function plans, and the reloads that tear    *)
(* the coordinator down under them, are kept apart.                        *)
(*                                                                         *)
(* Home Assistant runs the integration on one event loop: a call is atomic *)
(* from one await to the next, and an action below is one such stretch.    *)
(* Each coordinator (one per load of the config entry, numbered in the     *)
(* order they are built) has a _sync_lock, a _restore_lock, the in_sync    *)
(* and unloading flags, the mark of a reload that holds the restores off,  *)
(* and the plan edits running on it.  A reload unloads the entry's current *)
(* coordinator and builds the next one; Home Assistant's own setup_lock    *)
(* serialises the reloads.                                                 *)
(*                                                                         *)
(* A call is one invocation: a sync press, a restore, a plan edit with a   *)
(* login in it (Edits), one without (Cascades: bus-load cascade, rename    *)
(* follow-up), a change of the stored backups (BackupEdits), an uninstall  *)
(* cleanup, a Web-IO range check, a KNX classification repair, a reload    *)
(* through async_reload_entry, or one by Home Assistant itself.            *)
(***************************************************************************)
EXTENDS Naturals, Sequences

CONSTANTS Syncs, Restores, Edits, Cascades, BackupEdits, Cleanups,
          RangeChecks, KnxRepairs, Reloads, HAReloads,
          NoCall,
          MaxCoordinators,  \* bound: coordinators built in a behaviour
          UnloadMayFail     \* whether Home Assistant may report a failed unload

Calls == Syncs \union Restores \union Edits \union Cascades \union BackupEdits
         \union Cleanups \union RangeChecks \union KnxRepairs
         \union Reloads \union HAReloads

ASSUME BoundAssumption == MaxCoordinators \in Nat \ {0}
ASSUME FailAssumption == UnloadMayFail \in BOOLEAN
ASSUME CallsAssumption == NoCall \notin Calls

\* A call is of one kind, where it matters: a reload by Home Assistant itself
\* holds no lock of the coordinator while it reloads, a reload that waits for
\* the plan edits is no sync or cleanup, which do not, and a change of the
\* stored backups is no plan edit.
ASSUME KindsAssumption ==
    /\ HAReloads \cap (Syncs \union Restores \union Edits \union Cascades
                      \union BackupEdits \union Cleanups \union RangeChecks
                      \union KnxRepairs \union Reloads) = {}
    /\ Reloads \cap (Syncs \union Cleanups) = {}
    /\ BackupEdits \cap (Edits \union Cascades) = {}

INSTANCE AsyncLock

Coordinators == 1 .. MaxCoordinators

VARIABLES
    \* @external: Home Assistant's side
    current,        \* hass.data[DOMAIN][entry_id]: the loaded coordinator, or 0
    born,           \* how many coordinators have been built
    setupLock,      \* ConfigEntry.setup_lock
    leaving,        \* the coordinator async_unload_entry works on, or 0
    \* per coordinator
    syncLock, restoreLock,
    inSync,         \* in_sync
    held,           \* _restores_held_for_reload
    unloading,
    planEdits,      \* the calls inside plan_edit(): what _plan_edits_running counts
    open,           \* the API session is attached
    gaveUp,         \* the bounded wait of an unload ran out (history)
    \* per call
    pc,             \* where the call is
    on,             \* the coordinator whose locks and session it uses, or 0
    uncovered       \* reload requests skipped for a sync, no unload begun since

coordinatorVars == <<syncLock, restoreLock, inSync, held, unloading,
                     planEdits, open, gaveUp>>
haVars == <<current, born, setupLock, leaving>>
vars == <<haVars, coordinatorVars, pc, on, uncovered>>

Places ==
    {"idle", "done",
     "syncQueued", "sync", "settle",            \* button.py, full and partial syncs
     "restoring",                               \* services/backup.py
     "login", "editing",                        \* plan edits
     "cleanupQueued", "cleanup", "cleaned",     \* repairs.py, uninstall cleanup
     "rangeQueued", "ranging",                  \* Web-IO range check
     "knxQueued", "knx",                        \* KNX classification
     "reloadQueued", "held", "waitEdits", "editsDone",  \* async_reload_entry
     "holdQueued",                              \* restores_held_off, waiting
     "reload", "setupQueued",                   \* config_entries.async_reload
     "unloadWait", "unloadEdits", "unloadWoken",        \* async_wait_before_unload
     "platforms", "closing", "setup"}

Init ==
    /\ current = 1 /\ born = 1 /\ leaving = 0
    /\ setupLock = UnusedLock
    /\ syncLock = [c \in Coordinators |-> UnusedLock]
    /\ restoreLock = [c \in Coordinators |-> UnusedLock]
    /\ inSync = [c \in Coordinators |-> FALSE]
    /\ held = [c \in Coordinators |-> FALSE]
    /\ unloading = [c \in Coordinators |-> FALSE]
    /\ planEdits = [c \in Coordinators |-> {}]
    /\ open = [c \in Coordinators |-> c = 1]
    /\ gaveUp = [c \in Coordinators |-> FALSE]
    /\ pc = [t \in Calls |-> "idle"]
    /\ on = [t \in Calls |-> 0]
    /\ uncovered = {}

-----------------------------------------------------------------------------
(* Helpers *)

Goto(t, place) == pc' = [pc EXCEPT ![t] = place]

\* A call takes the entry's loaded coordinator; without one it ends (or is
\* never offered), which changes nothing here.
Starts(t, c) == pc[t] = "idle" /\ c = current /\ c \in Coordinators

\* Mutants of PlansBusy: a check that forgets the running plan edits, and one
\* that forgets the sync.
BusyWithoutEdits(c) ==
    Locked(syncLock[c]) \/ inSync[c] \/ unloading[c] \/ Locked(restoreLock[c])

BusyWithoutSync(c) ==
    unloading[c] \/ Locked(restoreLock[c]) \/ planEdits[c] # {}

\* refuse_while_plans_busy, _backups_move_refused and the checks of a restore
\* and a bus-load cascade: the same five conditions.
PlansBusy(c) ==
    \/ Locked(syncLock[c]) \/ inSync[c] \/ unloading[c]
    \/ Locked(restoreLock[c])
    \/ planEdits[c] # {}

\* A call that is turned away tells the user and ends.
Refused(t) ==
    /\ Goto(t, "done")
    /\ UNCHANGED <<haVars, coordinatorVars, on, uncovered>>

\* `async with lock`: at once when free, otherwise behind the waiters.
AcquireSync(t, c, taken, queued) ==
    \/ /\ Free(syncLock[c])
       /\ syncLock' = [syncLock EXCEPT ![c] = Take(@, t)]
       /\ Goto(t, taken)
    \/ /\ ~Free(syncLock[c])
       /\ syncLock' = [syncLock EXCEPT ![c] = Enqueue(@, t)]
       /\ Goto(t, queued)

ReleaseSync(c) == syncLock' = [syncLock EXCEPT ![c] = Release(@)]

\* What follows in the same stretch once the restores are held off: a sync
\* clears in_sync and sleeps, a cleanup reloads, a reload looks at the edits.
HeldPlace(t) == CASE t \in Syncs -> "settle"
                  [] t \in Cleanups -> "reload"
                  [] OTHER -> "held"

HeldOff(t, c) ==
    /\ held' = [held EXCEPT ![c] = TRUE]
    /\ inSync' = [inSync EXCEPT ![c] = IF t \in Syncs THEN FALSE ELSE @]
    /\ Goto(t, HeldPlace(t))

\* restores_held_off; stillSyncing is in_sync while it waits.
HoldOff(t, c, stillSyncing) ==
    \/ /\ Free(restoreLock[c])
       /\ restoreLock' = [restoreLock EXCEPT ![c] = Take(@, t)]
       /\ HeldOff(t, c)
    \/ /\ ~Free(restoreLock[c])
       /\ restoreLock' = [restoreLock EXCEPT ![c] = Enqueue(@, t)]
       /\ inSync' = [inSync EXCEPT ![c] = stillSyncing]
       /\ Goto(t, "holdQueued")
       /\ UNCHANGED held

-----------------------------------------------------------------------------
(* Sync: ComexioSyncButton.async_handle_press *)

SyncPress(t) == \E c \in Coordinators :
    /\ t \in Syncs /\ Starts(t, c)
    /\ \/ /\ Locked(syncLock[c]) \/ Locked(restoreLock[c])
             \/ planEdits[c] # {} \/ unloading[c]
          /\ Refused(t)
       \/ /\ ~Locked(syncLock[c]) /\ ~Locked(restoreLock[c])
          /\ planEdits[c] = {} /\ ~unloading[c]
          /\ AcquireSync(t, c, "sync", "syncQueued")
          /\ inSync' = [inSync EXCEPT ![c] = Free(syncLock[c])]
          /\ on' = [on EXCEPT ![t] = c]
          /\ UNCHANGED <<haVars, restoreLock, held, unloading, planEdits, open,
                         gaveUp, uncovered>>

\* Mutant of SyncWoken: the press runs on whatever coordinator it waited for.
SyncWokenUnchecked(t) == LET c == on[t] IN
    /\ pc[t] = "syncQueued" /\ Woken(syncLock[c], t)
    /\ syncLock' = [syncLock EXCEPT ![c] = TakeWoken(@, t)]
    /\ inSync' = [inSync EXCEPT ![c] = TRUE]
    /\ Goto(t, "sync")
    /\ UNCHANGED <<haVars, restoreLock, held, unloading, planEdits, open,
                   gaveUp, on, uncovered>>

\* The press waited for the lock: only the coordinator's identity is checked
\* again, and the press is dropped when a reload replaced it.
SyncWoken(t) == LET c == on[t] IN
    /\ pc[t] = "syncQueued" /\ Woken(syncLock[c], t)
    /\ \/ /\ current = c
          /\ syncLock' = [syncLock EXCEPT ![c] = TakeWoken(@, t)]
          /\ inSync' = [inSync EXCEPT ![c] = TRUE]
          /\ Goto(t, "sync")
       \/ /\ current # c
          /\ syncLock' = [syncLock EXCEPT ![c] = Release(TakeWoken(@, t))]
          /\ Goto(t, "done")
          /\ UNCHANGED inSync
    /\ UNCHANGED <<haVars, restoreLock, held, unloading, planEdits, open,
                   gaveUp, on, uncovered>>

\* The body ended; a failed one has cleared in_sync on its way out.
SyncEnd(t) == LET c == on[t] IN
    /\ pc[t] = "sync"
    /\ \E failed \in BOOLEAN : HoldOff(t, c, ~failed)
    /\ UNCHANGED <<haVars, syncLock, unloading, planEdits, open, gaveUp, on,
                   uncovered>>

\* Mutant of SyncSettled: a sync that ends without its closing reload.
SyncEndsUnreloaded(t) == LET c == on[t] IN
    /\ pc[t] = "settle"
    /\ held' = [held EXCEPT ![c] = FALSE]
    /\ restoreLock' = [restoreLock EXCEPT ![c] = Release(@)]
    /\ syncLock' = [syncLock EXCEPT ![c] = Release(@)]
    /\ Goto(t, "done")
    /\ UNCHANGED <<haVars, inSync, unloading, planEdits, open, gaveUp, on,
                   uncovered>>

\* The pause in which Comexio finishes the writes is over.
SyncSettled(t) ==
    /\ pc[t] = "settle"
    /\ Goto(t, "reload")
    /\ UNCHANGED <<haVars, coordinatorVars, on, uncovered>>

-----------------------------------------------------------------------------
(* Restore: _handle_function_plan_restore *)

Restore(t) == \E c \in Coordinators :
    /\ t \in Restores /\ Starts(t, c)
    /\ \/ PlansBusy(c) /\ Refused(t)
       \/ /\ ~PlansBusy(c)
          /\ Free(restoreLock[c])
          /\ restoreLock' = [restoreLock EXCEPT ![c] = Take(@, t)]
          /\ Goto(t, "restoring")
          /\ on' = [on EXCEPT ![t] = c]
          /\ UNCHANGED <<haVars, syncLock, inSync, held, unloading, planEdits,
                         open, gaveUp, uncovered>>

\* Done, failed or cancelled: the lock is released all the same.
RestoreEnd(t) == LET c == on[t] IN
    /\ pc[t] = "restoring"
    /\ restoreLock' = [restoreLock EXCEPT ![c] = Release(@)]
    /\ Goto(t, "done")
    /\ UNCHANGED <<haVars, syncLock, inSync, held, unloading, planEdits, open,
                   gaveUp, on, uncovered>>

-----------------------------------------------------------------------------
(* Plan edits: sort, connect, stop, activate, marker delete, plan start *)

BeginEdit(t, c) ==
    /\ planEdits' = [planEdits EXCEPT ![c] = @ \union {t}]
    /\ Goto(t, "editing")

UnchangedByEdit == UNCHANGED <<haVars, syncLock, restoreLock, inSync, held,
                               unloading, open, gaveUp, uncovered>>

\* Checked, then logged in ...
EditCheck(t) == \E c \in Coordinators :
    /\ t \in Edits /\ Starts(t, c)
    /\ \/ PlansBusy(c) /\ Refused(t)
       \/ /\ ~PlansBusy(c)
          /\ Goto(t, "login")
          /\ on' = [on EXCEPT ![t] = c]
          /\ UNCHANGED <<haVars, coordinatorVars, uncovered>>

\* ... and checked again, on the coordinator resolved before the login.
EditLoggedIn(t) == LET c == on[t] IN
    /\ pc[t] = "login"
    /\ \/ PlansBusy(c) /\ Refused(t)
       \/ ~PlansBusy(c) /\ BeginEdit(t, c) /\ UnchangedByEdit /\ UNCHANGED on

EditLoginFails(t) == pc[t] = "login" /\ Refused(t)

Cascade(t) == \E c \in Coordinators :
    /\ t \in Cascades /\ Starts(t, c)
    /\ \/ PlansBusy(c) /\ Refused(t)
       \/ /\ ~PlansBusy(c)
          /\ BeginEdit(t, c)
          /\ on' = [on EXCEPT ![t] = c]
          /\ UnchangedByEdit

\* Deleting, keeping or purging stored backups asks for a restore and an
\* unload only; a sync or another edit may run.
BackupEdit(t) == \E c \in Coordinators :
    /\ t \in BackupEdits /\ Starts(t, c)
    /\ \/ (unloading[c] \/ Locked(restoreLock[c])) /\ Refused(t)
       \/ /\ ~unloading[c] /\ ~Locked(restoreLock[c])
          /\ BeginEdit(t, c)
          /\ on' = [on EXCEPT ![t] = c]
          /\ UnchangedByEdit

\* Leaving plan_edit: the last one sets the event, which wakes every waiter
\* at once, whatever happens before it runs.
EditEnd(t) == LET c == on[t] IN
    /\ pc[t] = "editing"
    /\ planEdits' = [planEdits EXCEPT ![c] = @ \ {t}]
    /\ pc' = [x \in Calls |->
                CASE x = t -> "done"
                  [] x # t /\ planEdits[c] = {t} /\ pc[x] = "waitEdits"
                       /\ on[x] = c -> "editsDone"
                  [] x # t /\ planEdits[c] = {t} /\ pc[x] = "unloadEdits"
                       /\ leaving = c -> "unloadWoken"
                  [] OTHER -> pc[x]]
    /\ UnchangedByEdit /\ UNCHANGED on

-----------------------------------------------------------------------------
(* Uninstall cleanup, Web-IO range check and KNX classification *)

Cleanup(t) == \E c \in Coordinators :
    /\ t \in Cleanups /\ Starts(t, c)
    /\ \/ /\ Locked(syncLock[c]) \/ Locked(restoreLock[c]) \/ planEdits[c] # {}
          /\ Refused(t)
       \/ /\ ~Locked(syncLock[c]) /\ ~Locked(restoreLock[c])
          /\ planEdits[c] = {}
          /\ AcquireSync(t, c, "cleanup", "cleanupQueued")
          /\ on' = [on EXCEPT ![t] = c]
          /\ UNCHANGED <<haVars, restoreLock, inSync, held, unloading,
                         planEdits, open, gaveUp, uncovered>>

RangeCheck(t) == \E c \in Coordinators :
    /\ t \in RangeChecks /\ Starts(t, c)
    /\ \/ (Locked(syncLock[c]) \/ Locked(restoreLock[c])) /\ Refused(t)
       \/ /\ ~Locked(syncLock[c]) /\ ~Locked(restoreLock[c])
          /\ AcquireSync(t, c, "ranging", "rangeQueued")
          /\ on' = [on EXCEPT ![t] = c]
          /\ UNCHANGED <<haVars, restoreLock, inSync, held, unloading,
                         planEdits, open, gaveUp, uncovered>>

KnxRepair(t) == \E c \in Coordinators :
    /\ t \in KnxRepairs /\ Starts(t, c)
    /\ \/ (inSync[c] \/ Locked(syncLock[c])) /\ Refused(t)
       \/ /\ ~inSync[c] /\ ~Locked(syncLock[c])
          /\ AcquireSync(t, c, "knx", "knxQueued")
          /\ on' = [on EXCEPT ![t] = c]
          /\ UNCHANGED <<haVars, restoreLock, inSync, held, unloading,
                         planEdits, open, gaveUp, uncovered>>

\* None of the three looks at the coordinator again after waiting.
LockWoken(t) == LET c == on[t] IN
    /\ pc[t] \in {"cleanupQueued", "rangeQueued", "knxQueued"}
    /\ Woken(syncLock[c], t)
    /\ \/ pc[t] = "cleanupQueued" /\ Goto(t, "cleanup")
       \/ pc[t] = "rangeQueued" /\ Goto(t, "ranging")
       \/ pc[t] = "knxQueued" /\ Goto(t, "knx")
    /\ syncLock' = [syncLock EXCEPT ![c] = TakeWoken(@, t)]
    /\ UNCHANGED <<haVars, restoreLock, inSync, held, unloading, planEdits,
                   open, gaveUp, on, uncovered>>

\* A range check or a KNX repair ended, or a cleanup failed: no reload.
LockedWorkEnd(t) == LET c == on[t] IN
    /\ pc[t] \in {"ranging", "knx", "cleanup"}
    /\ ReleaseSync(c)
    /\ Goto(t, "done")
    /\ UNCHANGED <<haVars, restoreLock, inSync, held, unloading, planEdits,
                   open, gaveUp, on, uncovered>>

CleanupDone(t) ==
    /\ pc[t] = "cleanup"
    /\ Goto(t, "cleaned")
    /\ UNCHANGED <<haVars, coordinatorVars, on, uncovered>>

CleanupReload(t) == LET c == on[t] IN
    /\ pc[t] = "cleaned"
    /\ HoldOff(t, c, inSync[c])
    /\ UNCHANGED <<haVars, syncLock, unloading, planEdits, open, gaveUp, on,
                   uncovered>>

-----------------------------------------------------------------------------
(* async_reload_entry *)

\* The caller may have outlived a reload: the loaded coordinator counts, its
\* own only when none is loaded.
ReloadRequest(t) == \E own \in 1 .. born :
    LET c == IF current # 0 THEN current ELSE own IN
    /\ t \in Reloads /\ pc[t] = "idle"
    /\ \/ /\ inSync[c]
          /\ Goto(t, "done")
          /\ uncovered' = uncovered \union {t}
          /\ UNCHANGED <<haVars, coordinatorVars, on>>
       \/ /\ ~inSync[c] /\ Free(syncLock[c])
          /\ syncLock' = [syncLock EXCEPT ![c] = Take(@, t)]
          /\ HoldOff(t, c, FALSE)
          /\ on' = [on EXCEPT ![t] = c]
          /\ UNCHANGED <<haVars, unloading, planEdits, open, gaveUp, uncovered>>
       \/ /\ ~inSync[c] /\ ~Free(syncLock[c])
          /\ syncLock' = [syncLock EXCEPT ![c] = Enqueue(@, t)]
          /\ Goto(t, "reloadQueued")
          /\ on' = [on EXCEPT ![t] = c]
          /\ UNCHANGED <<haVars, restoreLock, inSync, held, unloading,
                         planEdits, open, gaveUp, uncovered>>

ReloadWoken(t) == LET c == on[t] IN
    /\ pc[t] = "reloadQueued" /\ Woken(syncLock[c], t)
    /\ syncLock' = [syncLock EXCEPT ![c] = TakeWoken(@, t)]
    /\ HoldOff(t, c, inSync[c])
    /\ UNCHANGED <<haVars, unloading, planEdits, open, gaveUp, on, uncovered>>

\* The restore a reload, sync or cleanup waited for released the lock.
HoldWoken(t) == LET c == on[t] IN
    /\ pc[t] = "holdQueued" /\ Woken(restoreLock[c], t)
    /\ restoreLock' = [restoreLock EXCEPT ![c] = TakeWoken(@, t)]
    /\ HeldOff(t, c)
    /\ UNCHANGED <<haVars, syncLock, unloading, planEdits, open, gaveUp, on,
                   uncovered>>

\* Mutant of ReloadAwaitEdits: the reload goes ahead under a plan edit.
ReloadIgnoresEdits(t) ==
    /\ pc[t] = "held"
    /\ Goto(t, "editsDone")
    /\ UNCHANGED <<haVars, coordinatorVars, on, uncovered>>

\* async_wait_for_plan_edits
ReloadAwaitEdits(t) ==
    /\ pc[t] = "held"
    /\ Goto(t, IF planEdits[on[t]] = {} THEN "editsDone" ELSE "waitEdits")
    /\ UNCHANGED <<haVars, coordinatorVars, on, uncovered>>

\* Leaving restores_held_off and then _sync_lock.
ReleaseBoth(c) ==
    /\ held' = [held EXCEPT ![c] = FALSE]
    /\ restoreLock' = [restoreLock EXCEPT ![c] = Release(@)]
    /\ ReleaseSync(c)

\* Under the locks: is this still the loaded coordinator?  Another reload that
\* replaced it meanwhile covered this one.
ReloadRecheck(t) == LET c == on[t] IN
    /\ pc[t] = "editsDone"
    /\ \/ /\ current = c
          /\ Goto(t, "reload")
          /\ UNCHANGED coordinatorVars
       \/ /\ current # c
          /\ ReleaseBoth(c)
          /\ Goto(t, "done")
          /\ UNCHANGED <<inSync, unloading, planEdits, open, gaveUp>>
    /\ UNCHANGED <<haVars, on, uncovered>>

-----------------------------------------------------------------------------
(* Home Assistant's config_entries.async_reload, with async_unload_entry and *)
(* async_setup_entry inside it                                               *)

\* Its own reload ("Reload" in the UI, an options save) comes from outside.
HAReload(t) ==
    /\ t \in HAReloads /\ pc[t] = "idle"
    /\ Goto(t, "reload")
    /\ UNCHANGED <<haVars, coordinatorVars, on, uncovered>>

EnterSetupLock(t) ==
    /\ pc[t] = "reload" /\ ~Free(setupLock)
    /\ setupLock' = Enqueue(setupLock, t)
    /\ Goto(t, "setupQueued")
    /\ UNCHANGED <<current, born, leaving, coordinatorVars, on, uncovered>>

\* The unload begins: from now on no restore, sync or plan edit starts here.
\* A reload that holds the restores off has waited already.
UnloadBegin(t) ==
    /\ \/ /\ pc[t] = "reload" /\ Free(setupLock)
          /\ setupLock' = Take(setupLock, t)
       \/ /\ pc[t] = "setupQueued" /\ Woken(setupLock, t)
          /\ setupLock' = TakeWoken(setupLock, t)
    /\ \/ /\ current = 0
          /\ Goto(t, "setup")
          /\ UNCHANGED <<leaving, unloading>>
       \/ /\ current # 0
          /\ leaving' = current
          /\ unloading' = [unloading EXCEPT ![current] = TRUE]
          /\ Goto(t, IF held[current] THEN "platforms" ELSE "unloadWait")
    /\ uncovered' = {}
    /\ UNCHANGED <<current, born, syncLock, restoreLock, inSync, held,
                   planEdits, open, gaveUp, on>>

\* Mutants of UnloadMustWait: one that does not look at the restore lock, and
\* one that also waits for a reload that itself waits for the setup lock.
WaitForSyncOnly(c) == (inSync[c] \/ Locked(syncLock[c])) /\ ~held[c]

WaitForEveryLock(c) == inSync[c] \/ Locked(syncLock[c]) \/ Locked(restoreLock[c])

UnloadMustWait(c) ==
    /\ inSync[c] \/ Locked(syncLock[c]) \/ Locked(restoreLock[c])
    /\ ~held[c]

\* async_wait_before_unload polls the locks, then waits for the plan edits.
UnloadPoll(t) ==
    /\ pc[t] = "unloadWait" /\ ~UnloadMustWait(leaving)
    /\ Goto(t, IF planEdits[leaving] = {} THEN "platforms" ELSE "unloadEdits")
    /\ UNCHANGED <<haVars, coordinatorVars, on, uncovered>>

UnloadResumes(t) ==
    /\ pc[t] = "unloadWoken"
    /\ Goto(t, "platforms")
    /\ UNCHANGED <<haVars, coordinatorVars, on, uncovered>>

\* Whatever still runs after FUNCTION_PLAN_UNLOAD_WAIT_SEC, the unload goes on.
UnloadTimeout(t) ==
    /\ pc[t] \in {"unloadWait", "unloadEdits"}
    /\ gaveUp' = [gaveUp EXCEPT ![leaving] = TRUE]
    /\ Goto(t, "platforms")
    /\ UNCHANGED <<haVars, syncLock, restoreLock, inSync, held, unloading,
                   planEdits, open, on, uncovered>>

PlatformsUnloaded(t) ==
    /\ pc[t] = "platforms"
    /\ current' = 0
    /\ Goto(t, "closing")
    /\ UNCHANGED <<born, setupLock, leaving, coordinatorVars, on, uncovered>>

\* async_reload returns: Home Assistant's lock first, then the caller's.
ReturnToCaller(t) ==
    /\ setupLock' = Release(setupLock)
    /\ Goto(t, "done")
    /\ IF t \in HAReloads
       THEN UNCHANGED <<held, restoreLock, syncLock>>
       ELSE ReleaseBoth(on[t])

\* The entry stays loaded, and its coordinator serves calls again.
PlatformsStay(t) ==
    /\ UnloadMayFail /\ pc[t] = "platforms"
    /\ unloading' = [unloading EXCEPT ![leaving] = FALSE]
    /\ leaving' = 0
    /\ ReturnToCaller(t)
    /\ UNCHANGED <<current, born, inSync, planEdits, open, gaveUp, on,
                   uncovered>>

\* async_shutdown, then api.close().
CloseSession(t) ==
    /\ pc[t] = "closing"
    /\ open' = [open EXCEPT ![leaving] = FALSE]
    /\ leaving' = 0
    /\ Goto(t, "setup")
    /\ UNCHANGED <<current, born, setupLock, syncLock, restoreLock, inSync,
                   held, unloading, planEdits, gaveUp, on, uncovered>>

\* async_setup_entry builds a coordinator with locks of its own.
SetupEntry(t) ==
    /\ pc[t] = "setup" /\ born < MaxCoordinators
    /\ born' = born + 1
    /\ current' = born + 1
    /\ open' = [open EXCEPT ![born + 1] = TRUE]
    /\ ReturnToCaller(t)
    /\ UNCHANGED <<leaving, inSync, unloading, planEdits, gaveUp, on, uncovered>>

\* Comexio was not ready, or the entry was only unloaded.
SetupFails(t) ==
    /\ pc[t] = "setup"
    /\ ReturnToCaller(t)
    /\ UNCHANGED <<current, born, leaving, inSync, unloading, planEdits, open,
                   gaveUp, on, uncovered>>

-----------------------------------------------------------------------------

\* What comes from outside: the user, a timer, another part of the coordinator.
Request(t) ==
    \/ SyncPress(t) \/ Restore(t) \/ EditCheck(t) \/ Cascade(t) \/ BackupEdit(t)
    \/ Cleanup(t) \/ RangeCheck(t) \/ KnxRepair(t)
    \/ ReloadRequest(t) \/ HAReload(t)

\* What a running call does next.
Proceed(t) ==
    \/ SyncWoken(t) \/ SyncEnd(t) \/ SyncSettled(t) \/ RestoreEnd(t)
    \/ EditLoggedIn(t) \/ EditLoginFails(t) \/ EditEnd(t)
    \/ LockWoken(t) \/ LockedWorkEnd(t) \/ CleanupDone(t) \/ CleanupReload(t)
    \/ ReloadWoken(t) \/ HoldWoken(t) \/ ReloadAwaitEdits(t) \/ ReloadRecheck(t)
    \/ EnterSetupLock(t) \/ UnloadBegin(t) \/ UnloadPoll(t) \/ UnloadResumes(t)
    \/ PlatformsUnloaded(t) \/ PlatformsStay(t) \/ CloseSession(t)
    \/ SetupEntry(t) \/ SetupFails(t)

\* Every call that was made has ended.
Quiet == /\ \A t \in Calls : pc[t] \in {"idle", "done"}
         /\ UNCHANGED vars

Next == Quiet \/ \E t \in Calls : Request(t) \/ Proceed(t) \/ UnloadTimeout(t)

Spec == Init /\ [][Next]_vars

\* A running call gets its next turn and its Comexio requests are answered or
\* time out.  Nothing makes a request, and nothing waits for the unload's
\* timeout: the reloads must get through without it.
FairSpec == Spec /\ \A t \in Calls : WF_vars(Proceed(t))

-----------------------------------------------------------------------------
(* Properties *)

TypeOK ==
    /\ current \in 0 .. born /\ born \in Coordinators
    /\ leaving \in 0 .. born
    /\ setupLock \in Lock
    /\ syncLock \in [Coordinators -> Lock]
    /\ restoreLock \in [Coordinators -> Lock]
    /\ inSync \in [Coordinators -> BOOLEAN]
    /\ held \in [Coordinators -> BOOLEAN]
    /\ unloading \in [Coordinators -> BOOLEAN]
    /\ planEdits \in [Coordinators -> SUBSET Calls]
    /\ open \in [Coordinators -> BOOLEAN]
    /\ gaveUp \in [Coordinators -> BOOLEAN]
    /\ pc \in [Calls -> Places]
    /\ on \in [Calls -> 0 .. MaxCoordinators]
    /\ uncovered \subseteq Calls

\* The coordinator a call works on is loaded and its session open, unless an
\* unload gave up waiting for it.
KeepsItsSession(t) ==
    \/ current = on[t] /\ open[on[t]]
    \/ gaveUp[on[t]]

\* No reload, whoever asks for it and however it fails, cuts off a running
\* restore (a restore cut off leaves a half-built plan): only an unload whose
\* bounded wait ran out may.
RestoreNotCutOff ==
    \A t \in Restores : pc[t] = "restoring" => KeepsItsSession(t)

\* While a restore rewrites a plan, no other restore runs on that coordinator,
\* no plan edit is marked (the mark and the check keep each other out) and no
\* reload has got past the point where it holds the restores off.
RestoreAlone ==
    \A t \in Restores : pc[t] = "restoring" =>
        /\ planEdits[on[t]] = {}
        /\ ~held[on[t]]
        /\ \A r \in Restores \ {t} :
              ~(pc[r] = "restoring" /\ on[r] = on[t])

\* A restore whose check found nothing running takes its lock at once: every
\* waiter for the restore lock holds the sync lock, so no reload is in line.
RestoreTakesLockAtOnce ==
    \A c \in Coordinators : ~PlansBusy(c) => Free(restoreLock[c])

\* A sync is never cut off by a reload either, and never starts against a
\* coordinator a reload has replaced while the press waited for the lock.
SyncNotCutOff ==
    \A t \in Syncs : pc[t] = "sync" => KeepsItsSession(t)

\* A restore and a sync, cleanup or range check never run at the same time on
\* one coordinator.
RestoreAndSyncExclude ==
    \A t \in Restores, s \in Syncs \union Cleanups \union RangeChecks :
        ~(/\ pc[t] = "restoring" /\ pc[s] \in {"sync", "cleanup", "ranging"}
          /\ on[t] = on[s])

\* A reload the integration asks for (async_reload_entry, the end of a sync or
\* of a cleanup) never takes the coordinator whose locks it holds away from a
\* plan edit.  It may cut edits off elsewhere: one that found its coordinator
\* replaced unloads the new one, whose locks it does not hold.
EditsOutlastOwnReloads ==
    \A r \in Calls \ HAReloads, t \in Edits \union Cascades :
        /\ pc[r] \in {"platforms", "closing"} /\ on[r] = leaving
        /\ pc[t] = "editing"
        => on[t] # leaving

\* Every plan edit ends before the session it uses is closed.
EditsNotCutOff ==
    \A t \in Edits \union Cascades :
        pc[t] = "editing" => KeepsItsSession(t)

\* No call waits for ever: whatever locks, waits and reloads meet, every call
\* that was made ends, without the unload's timeout.
EveryCallEnds == \A t \in Calls : pc[t] # "idle" ~> pc[t] = "done"

\* A reload skipped because a sync runs is made up for: an unload begins
\* afterwards.
SkippedReloadIsCovered ==
    \A t \in Reloads : t \in uncovered ~> t \notin uncovered

=============================================================================
