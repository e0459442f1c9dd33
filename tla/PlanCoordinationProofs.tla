----------------------- MODULE PlanCoordinationProofs -----------------------
(***************************************************************************)
(* Why no reload cuts off a running restore, and what else keeps syncs,     *)
(* restores, plan edits and own reloads apart.                             *)
(*                                                                         *)
(* The argument: a restore holds the restore lock of its coordinator, and  *)
(* so does a reload, sync or cleanup from the moment it holds the restores *)
(* off.  An unload goes past its wait only when nobody holds that lock or  *)
(* when such a reload does; the unloading flag, set before the wait, keeps *)
(* new restores out until the coordinator is gone.  Only a wait that ran   *)
(* out leaves a restore behind, and then gaveUp says so.                   *)
(***************************************************************************)
EXTENDS PlanCoordination, TLAPS

\* From here on a call is inside config_entries.async_reload ...
ReloadPlaces ==
    {"reload", "setupQueued", "unloadWait", "unloadEdits", "unloadWoken",
     "platforms", "closing", "setup"}

\* ... and from here on it owns Home Assistant's setup lock.
SetupPlaces ==
    {"unloadWait", "unloadEdits", "unloadWoken", "platforms", "closing", "setup"}

HoldsOffPlaces == {"settle", "held", "waitEdits", "editsDone"} \union ReloadPlaces

OwnsSyncPlaces ==
    {"sync", "cleanup", "cleaned", "ranging", "knx", "holdQueued"}
    \union HoldsOffPlaces

QueuePlaces == {"syncQueued", "cleanupQueued", "rangeQueued", "knxQueued",
                "reloadQueued"}

HoldsOff(t) == t \notin HAReloads /\ pc[t] \in HoldsOffPlaces
OwnsSync(t) == t \notin HAReloads /\ pc[t] \in OwnsSyncPlaces

\* A reload by Home Assistant is nowhere else than inside async_reload.
HAPlaces == \A t \in HAReloads : pc[t] \in {"idle", "done"} \union ReloadPlaces

\* A call that works on a coordinator names one that was built.
OnBuilt ==
    \A t \in Calls :
        \/ OwnsSync(t)
        \/ pc[t] \in {"restoring", "login", "editing"} \union QueuePlaces
        => on[t] \in 1 .. born

SyncOwned == \A t \in Calls : OwnsSync(t) => syncLock[on[t]].owner = t

RestoreOwned ==
    \A t \in Calls :
        HoldsOff(t) \/ pc[t] = "restoring" => restoreLock[on[t]].owner = t

\* The mark of a reload that holds the restores off belongs to the lock's owner.
HeldOwner ==
    \A c \in Coordinators : held[c] =>
        \E t \in Calls : restoreLock[c].owner = t /\ HoldsOff(t) /\ on[t] = c

\* At most one call waits for a restore lock: it holds the sync lock.
RestoreQueue ==
    \A c \in Coordinators :
        \/ restoreLock[c].queue = <<>>
        \/ \E t \in Calls : /\ restoreLock[c].queue = <<t>>
                            /\ pc[t] = "holdQueued" /\ on[t] = c

SetupOwned == \A t \in Calls : pc[t] \in SetupPlaces => setupLock.owner = t

\* What the call that owns the setup lock knows of the coordinator it unloads.
UnloadInv ==
    \A t \in Calls :
        /\ pc[t] \in {"unloadWait", "unloadEdits", "unloadWoken", "platforms"}
              => leaving = current /\ current # 0 /\ unloading[current]
        /\ pc[t] = "closing" => leaving # 0 /\ current = 0
        /\ pc[t] = "setup" => current = 0

\* Past the wait no restore runs on that coordinator, unless the wait ran out.
WaitedInv ==
    \A t, r \in Calls :
        /\ pc[t] \in {"unloadEdits", "unloadWoken", "platforms"}
        /\ pc[r] = "restoring" /\ on[r] = leaving
        => gaveUp[leaving]

\* A restore on a coordinator that is not loaded was left behind.
RestoreInv ==
    \A r \in Calls : pc[r] = "restoring" =>
        /\ planEdits[on[r]] = {}
        /\ on[r] = current \/ gaveUp[on[r]]

LoadedOpen == current # 0 => open[current]

IInv ==
    /\ TypeOK /\ HAPlaces /\ OnBuilt /\ SyncOwned /\ RestoreOwned /\ HeldOwner
    /\ RestoreQueue /\ SetupOwned /\ UnloadInv /\ WaitedInv /\ RestoreInv
    /\ LoadedOpen

-----------------------------------------------------------------------------
(* The lock operators *)

\* What taking, queueing for and releasing a lock make of it.
LEMMA LockFacts ==
    ASSUME NEW lock \in Lock, NEW t \in Calls
    PROVE  /\ lock.owner \in Calls \union {NoCall}
           /\ Locked(lock) <=> lock.owner # NoCall
           /\ Free(lock) <=> lock.owner = NoCall /\ lock.queue = <<>>
           /\ /\ Take(lock, t) \in Lock
              /\ Take(lock, t).owner = t
              /\ Take(lock, t).queue = lock.queue
           /\ /\ Enqueue(lock, t) \in Lock
              /\ Enqueue(lock, t).owner = lock.owner
              /\ lock.queue = <<>> => Enqueue(lock, t).queue = <<t>>
           /\ /\ Release(lock) \in Lock
              /\ Release(lock).owner = NoCall
              /\ Release(lock).queue = lock.queue
           /\ TakeWoken(lock, t).owner = t
           /\ Woken(lock, t) =>
                 /\ lock.owner = NoCall /\ TakeWoken(lock, t) \in Lock
                 /\ lock.queue # <<>>
                 /\ \A x : lock.queue = <<x>> =>
                       x = t /\ TakeWoken(lock, t).queue = <<>>
<1>1. /\ Take(lock, t) \in Lock
      /\ Take(lock, t).owner = t
      /\ Take(lock, t).queue = lock.queue
  BY DEF Take, Lock
<1>2. Enqueue(lock, t) \in Lock
  BY DEF Enqueue, Lock
<1>3. /\ Enqueue(lock, t).owner = lock.owner
      /\ Enqueue(lock, t).queue = Append(lock.queue, t)
  BY DEF Enqueue, Lock
<1>4. lock.queue = <<>> => Append(lock.queue, t) = <<t>>
  OBVIOUS
<1>5. /\ Release(lock) \in Lock
      /\ Release(lock).owner = NoCall
      /\ Release(lock).queue = lock.queue
  BY DEF Release, Lock
<1>6. TakeWoken(lock, t).owner = t /\ TakeWoken(lock, t).queue = Tail(lock.queue)
  BY DEF TakeWoken
<1>7. Woken(lock, t) => lock.owner = NoCall /\ lock.queue # <<>>
  BY DEF Woken, Locked
<1>8. Woken(lock, t) => TakeWoken(lock, t) \in Lock
  BY <1>7 DEF TakeWoken, Lock
<1>9. ASSUME Woken(lock, t), NEW x, lock.queue = <<x>>
      PROVE  x = t /\ Tail(lock.queue) = <<>>
  BY <1>9 DEF Woken
<1>10. /\ lock.owner \in Calls \union {NoCall}
       /\ Locked(lock) <=> lock.owner # NoCall
       /\ Free(lock) <=> lock.owner = NoCall /\ lock.queue = <<>>
  BY DEF Lock, Locked, Free
<1>. QED
  BY <1>1, <1>2, <1>3, <1>4, <1>5, <1>6, <1>7, <1>8, <1>9, <1>10

\* Only Home Assistant's own reloads are reloads without a lock.
LEMMA KindFacts ==
    /\ HAReloads \subseteq Calls
    /\ \A t \in Syncs \union Restores \union Edits \union Cascades
              \union BackupEdits \union Cleanups \union RangeChecks
              \union KnxRepairs \union Reloads :
          t \in Calls /\ t \notin HAReloads
  BY KindsAssumption DEF Calls

\* What a step of call t that leaves Home Assistant's side alone may change:
\* it moves t to place p and coordinator c, and touches only c's locks, of
\* which it takes only a free one and releases only its own.
CallStep(t, p, c) ==
    /\ UNCHANGED <<current, born, leaving, unloading, open, gaveUp>>
    /\ setupLock'.owner = setupLock.owner
    /\ pc' = [pc EXCEPT ![t] = p] /\ on' = [on EXCEPT ![t] = c]
    /\ p \notin SetupPlaces
    /\ t \in HAReloads => p \in {"idle", "done"} \union ReloadPlaces
    /\ p \notin {"idle", "done"} /\ t \notin HAReloads => c \in 1 .. born
    /\ p = "restoring" =>
          planEdits'[c] = {} /\ c = current /\ ~unloading[c]
    /\ OwnsSync(t)' => syncLock'[c].owner = t
    /\ HoldsOff(t)' \/ p = "restoring" => restoreLock'[c].owner = t
    /\ \A d \in Coordinators :
          /\ \/ syncLock'[d].owner = syncLock[d].owner
             \/ syncLock[d].owner \in {NoCall, t}
          /\ \/ restoreLock'[d].owner = restoreLock[d].owner
             \/ restoreLock[d].owner \in {NoCall, t}
          /\ held'[d] =>
                \/ d = c /\ HoldsOff(t)'
                \/ held[d] /\ restoreLock[d].owner # t
          /\ \/ /\ restoreLock'[d].queue = restoreLock[d].queue
                /\ pc[t] # "holdQueued" \/ on[t] # d
             \/ restoreLock'[d].queue = <<>>
             \/ restoreLock'[d].queue = <<t>> /\ p = "holdQueued" /\ c = d
          /\ planEdits'[d] \subseteq planEdits[d] \/ restoreLock[d].owner = NoCall

\* Such a step keeps every part of the invariant: the other calls keep their
\* places, and the locks they own.
LEMMA CallStepPreserves ==
    ASSUME IInv, TypeOK', NEW t \in Calls, NEW p \in Places, NEW c,
           CallStep(t, p, c)
    PROVE  IInv'
<1>. USE CallsAssumption DEF IInv
<1>1. /\ UNCHANGED <<current, born, leaving, unloading, open, gaveUp>>
      /\ pc'[t] = p /\ on'[t] = c
      /\ \A x \in Calls \ {t} : pc'[x] = pc[x] /\ on'[x] = on[x]
      /\ on'[t] \in 0 .. MaxCoordinators
  BY DEF CallStep, TypeOK
<1>2. /\ \A x \in Calls \ {t} : OwnsSync(x)' = OwnsSync(x)
      /\ \A x \in Calls \ {t} : HoldsOff(x)' = HoldsOff(x)
      /\ \A x \in Calls : HoldsOff(x) => OwnsSync(x)
  BY <1>1 DEF OwnsSync, HoldsOff, OwnsSyncPlaces
<1>3. /\ \A x \in Calls : OwnsSync(x) => on[x] \in Coordinators
      /\ \A x \in Calls : pc[x] = "restoring" => on[x] \in Coordinators
  BY BoundAssumption DEF OnBuilt, TypeOK, Coordinators
<1>4. HAPlaces'
  BY <1>1 DEF HAPlaces, CallStep
<1>5. OnBuilt'
  BY <1>1, <1>2, KindFacts DEF OnBuilt, CallStep, OwnsSync, OwnsSyncPlaces,
     HoldsOffPlaces, ReloadPlaces, QueuePlaces, HAPlaces
<1>6. SyncOwned'
  <2>1. SUFFICES ASSUME NEW x \in Calls, OwnsSync(x)'
                 PROVE  syncLock'[on'[x]].owner = x
    BY DEF SyncOwned
  <2>2. CASE x = t
    BY <1>1, <2>1, <2>2 DEF CallStep
  <2>3. CASE x # t
    BY <1>1, <1>2, <1>3, <2>1, <2>3 DEF CallStep, SyncOwned
  <2>. QED BY <2>2, <2>3
<1>7. RestoreOwned'
  <2>1. SUFFICES ASSUME NEW x \in Calls, HoldsOff(x)' \/ pc'[x] = "restoring"
                 PROVE  restoreLock'[on'[x]].owner = x
    BY DEF RestoreOwned
  <2>2. CASE x = t
    BY <1>1, <2>1, <2>2 DEF CallStep
  <2>3. CASE x # t
    BY <1>1, <1>2, <1>3, <2>1, <2>3 DEF CallStep, RestoreOwned
  <2>. QED BY <2>2, <2>3
<1>8. HeldOwner'
  <2>1. SUFFICES ASSUME NEW d \in Coordinators, held'[d]
                 PROVE  \E x \in Calls : restoreLock'[d].owner = x /\ HoldsOff(x)' /\ on'[x] = d
    BY DEF HeldOwner
  <2>2. CASE d = c /\ HoldsOff(t)'
    BY <1>1, <2>2 DEF CallStep
  <2>3. CASE held[d] /\ restoreLock[d].owner # t
    <3>1. PICK x \in Calls : restoreLock[d].owner = x /\ HoldsOff(x) /\ on[x] = d
      BY <2>3 DEF HeldOwner
    <3>2. x # t /\ x # NoCall
      BY <2>3, <3>1
    <3>. QED BY <1>1, <1>2, <3>1, <3>2 DEF CallStep
  <2>. QED BY <2>1, <2>2, <2>3 DEF CallStep
<1>9. RestoreQueue'
  <2>1. SUFFICES ASSUME NEW d \in Coordinators
                 PROVE  \/ restoreLock'[d].queue = <<>>
                        \/ \E x \in Calls : /\ restoreLock'[d].queue = <<x>>
                                            /\ pc'[x] = "holdQueued" /\ on'[x] = d
    BY DEF RestoreQueue
  <2>2. CASE restoreLock'[d].queue = <<t>> /\ p = "holdQueued" /\ c = d
    BY <1>1, <2>2
  <2>3. CASE /\ restoreLock'[d].queue = restoreLock[d].queue
             /\ pc[t] # "holdQueued" \/ on[t] # d
    BY <1>1, <2>3 DEF RestoreQueue
  <2>. QED BY <2>2, <2>3 DEF CallStep
<1>10. SetupOwned'
  BY <1>1 DEF SetupOwned, CallStep
<1>11. UnloadInv'
  BY <1>1 DEF UnloadInv, CallStep, SetupPlaces
<1>12. RestoreInv'
  <2>1. SUFFICES ASSUME NEW r \in Calls, pc'[r] = "restoring"
                 PROVE  /\ planEdits'[on'[r]] = {}
                        /\ on'[r] = current \/ gaveUp[on'[r]]
    BY <1>1 DEF RestoreInv
  <2>2. CASE r = t
    BY <1>1, <2>1, <2>2 DEF CallStep
  <2>3. CASE r # t
    <3>1. restoreLock[on[r]].owner = r /\ planEdits[on[r]] = {} /\ pc[r] = "restoring"
      BY <1>1, <2>1, <2>3 DEF RestoreOwned, RestoreInv
    <3>2. planEdits'[on[r]] = {}
      BY <1>3, <3>1 DEF CallStep
    <3>. QED BY <1>1, <2>3, <3>1, <3>2 DEF RestoreInv
  <2>. QED BY <2>2, <2>3
<1>13. WaitedInv'
  BY <1>1 DEF WaitedInv, UnloadInv, CallStep, SetupPlaces
<1>14. LoadedOpen'
  BY <1>1 DEF LoadedOpen
<1>. QED
  BY <1>4, <1>5, <1>6, <1>7, <1>8, <1>9, <1>10, <1>11, <1>12, <1>13, <1>14

-----------------------------------------------------------------------------
(* The steps of a call that leave Home Assistant's side alone *)

\* The facts about the helper actions that every call uses.
LEMMA AcquireSyncFacts ==
    ASSUME TypeOK, NEW t \in Calls, NEW c \in Coordinators,
           NEW taken, NEW queued, AcquireSync(t, c, taken, queued)
    PROVE  /\ syncLock' \in [Coordinators -> Lock]
           /\ \A d \in Coordinators :
                 \/ syncLock'[d].owner = syncLock[d].owner
                 \/ syncLock[d].owner \in {NoCall, t}
           /\ \/ pc' = [pc EXCEPT ![t] = taken] /\ syncLock'[c].owner = t
              \/ pc' = [pc EXCEPT ![t] = queued]
<1>1. syncLock[c] \in Lock
  BY DEF TypeOK
<1>2. CASE /\ Free(syncLock[c])
           /\ syncLock' = [syncLock EXCEPT ![c] = Take(@, t)]
           /\ Goto(t, taken)
  <2>1. /\ Take(syncLock[c], t) \in Lock /\ Take(syncLock[c], t).owner = t
        /\ syncLock[c].owner = NoCall
    BY <1>1, <1>2, LockFacts
  <2>. QED BY <1>2, <2>1 DEF TypeOK, Goto
<1>3. CASE /\ syncLock' = [syncLock EXCEPT ![c] = Enqueue(@, t)]
           /\ Goto(t, queued)
  <2>1. /\ Enqueue(syncLock[c], t) \in Lock
        /\ Enqueue(syncLock[c], t).owner = syncLock[c].owner
    BY <1>1, LockFacts
  <2>. QED BY <1>3, <2>1 DEF TypeOK, Goto
<1>. QED BY <1>2, <1>3 DEF AcquireSync

\* What a step that holds the restores off of c for call t has done: t owns the
\* restore lock or is the only one in its queue.
HeldOffBy(t, c) ==
    /\ restoreLock' \in [Coordinators -> Lock]
    /\ held' \in [Coordinators -> BOOLEAN]
    /\ inSync' \in [Coordinators -> BOOLEAN]
    /\ \E p \in {"settle", "reload", "held", "holdQueued"} :
          /\ pc' = [pc EXCEPT ![t] = p]
          /\ p # "holdQueued" => restoreLock'[c].owner = t
          /\ \A d \in Coordinators :
             /\ \/ restoreLock'[d].owner = restoreLock[d].owner
                \/ restoreLock[d].owner = NoCall
             /\ held'[d] => \/ d = c /\ p # "holdQueued"
                            \/ held[d] /\ restoreLock[d].owner # t
             /\ \/ restoreLock'[d].queue = restoreLock[d].queue
                \/ /\ restoreLock'[d].queue = <<t>>
                   /\ p = "holdQueued" /\ d = c

\* Waiting for the restores or holding them off, with the sync lock in hand.
LEMMA HoldOffFacts ==
    ASSUME IInv, NEW t \in Calls, NEW c \in Coordinators, t \notin HAReloads,
           syncLock[c].owner \in {NoCall, t}, ~HoldsOff(t),
           pc[t] \notin {"holdQueued", "restoring"},
           NEW b \in BOOLEAN, HoldOff(t, c, b)
    PROVE  HeldOffBy(t, c)
<1>. USE DEF IInv, HeldOffBy
<1>1. restoreLock[c] \in Lock
  BY DEF TypeOK
<1>2. \A d \in Coordinators : held[d] => restoreLock[d].owner # t
  BY DEF HeldOwner
<1>3. restoreLock[c].queue = <<>>
  <2>1. SUFFICES ASSUME NEW x \in Calls, pc[x] = "holdQueued", on[x] = c
                 PROVE  FALSE
    BY DEF RestoreQueue
  <2>2. OwnsSync(x)
    BY <2>1, KindFacts DEF OwnsSync, OwnsSyncPlaces, HAPlaces, ReloadPlaces
  <2>. QED BY <2>1, <2>2, CallsAssumption DEF SyncOwned
<1>4. CASE /\ Free(restoreLock[c])
           /\ restoreLock' = [restoreLock EXCEPT ![c] = Take(@, t)]
           /\ HeldOff(t, c)
  <2>1. HeldPlace(t) \in {"settle", "reload", "held"}
    BY DEF HeldPlace
  <2>2. /\ restoreLock' \in [Coordinators -> Lock]
        /\ restoreLock'[c].owner = t /\ restoreLock[c].owner = NoCall
        /\ \A d \in Coordinators :
             restoreLock'[d].queue = restoreLock[d].queue
        /\ \A d \in Coordinators \ {c} : restoreLock'[d] = restoreLock[d]
    BY <1>1, <1>4, LockFacts DEF TypeOK
  <2>3. /\ held' \in [Coordinators -> BOOLEAN]
        /\ inSync' \in [Coordinators -> BOOLEAN]
        /\ \A d \in Coordinators \ {c} : held'[d] = held[d]
    BY <1>4 DEF HeldOff, TypeOK
  <2>. QED BY <1>2, <1>4, <2>1, <2>2, <2>3 DEF HeldOff, Goto
<1>5. CASE /\ restoreLock' = [restoreLock EXCEPT ![c] = Enqueue(@, t)]
           /\ inSync' = [inSync EXCEPT ![c] = b]
           /\ Goto(t, "holdQueued")
           /\ UNCHANGED held
  <2>1. /\ restoreLock' \in [Coordinators -> Lock]
        /\ restoreLock'[c].queue = <<t>>
        /\ \A d \in Coordinators :
             restoreLock'[d].owner = restoreLock[d].owner
        /\ \A d \in Coordinators \ {c} : restoreLock'[d] = restoreLock[d]
    BY <1>1, <1>3, <1>5, LockFacts DEF TypeOK
  <2>2. /\ held' \in [Coordinators -> BOOLEAN]
        /\ inSync' \in [Coordinators -> BOOLEAN]
    BY <1>5 DEF TypeOK
  <2>. QED BY <1>2, <1>5, <2>1, <2>2 DEF Goto
<1>. QED BY <1>4, <1>5 DEF HoldOff

\* A step that only moves its call, perhaps into or out of plan_edit.
LEMMA MoveFacts ==
    ASSUME IInv, NEW t \in Calls, NEW p \in Places, NEW c \in 0 .. MaxCoordinators,
           UNCHANGED <<current, born, leaving, setupLock, unloading, open, gaveUp,
                       syncLock, restoreLock, held, inSync>>,
           planEdits' \in [Coordinators -> SUBSET Calls],
           \A d \in Coordinators :
              planEdits'[d] \subseteq planEdits[d] \/ restoreLock[d].owner = NoCall,
           uncovered' \subseteq Calls,
           pc' = [pc EXCEPT ![t] = p], on' = [on EXCEPT ![t] = c],
           p \notin SetupPlaces \union {"restoring"},
           pc[t] # "holdQueued", p # "holdQueued",
           t \in HAReloads => p \in {"idle", "done"} \union ReloadPlaces,
           p \notin {"idle", "done"} /\ t \notin HAReloads => c \in 1 .. born,
           OwnsSync(t)' => OwnsSync(t) /\ c = on[t],
           HoldsOff(t)' => HoldsOff(t) /\ c = on[t],
           HoldsOff(t) => HoldsOff(t)' /\ c = on[t]
    PROVE  IInv'
<1>. USE DEF IInv
<1>1. TypeOK'
  BY DEF TypeOK
<1>2. \A d \in Coordinators : held[d] =>
         \/ d = c /\ HoldsOff(t)'
         \/ held[d] /\ restoreLock[d].owner # t
  BY DEF HeldOwner
<1>3. OwnsSync(t)' => syncLock'[c].owner = t
  BY DEF SyncOwned
<1>4. HoldsOff(t)' => restoreLock'[c].owner = t
  BY DEF RestoreOwned
<1>5. CallStep(t, p, c)
  BY <1>2, <1>3, <1>4 DEF CallStep
<1>. QED BY <1>1, <1>5, CallStepPreserves

\* A call that does not hold the restores off owns no held lock.
LEMMA NotHolder ==
    ASSUME HeldOwner, NEW t \in Calls, ~HoldsOff(t)
    PROVE  \A d \in Coordinators : held[d] => restoreLock[d].owner # t
  BY DEF HeldOwner

\* A call turned away changes nothing but its own place.
LEMMA RefusedStep ==
    ASSUME IInv, NEW t \in Calls, Refused(t),
           pc[t] \in {"idle", "login"}
    PROVE  IInv'
<1>1. on' = [on EXCEPT ![t] = on[t]] /\ on[t] \in 0 .. MaxCoordinators
  BY DEF Refused, IInv, TypeOK
<1>. QED
  BY <1>1, MoveFacts DEF Refused, IInv, TypeOK, Goto, haVars, coordinatorVars, Places,
     OwnsSync, OwnsSyncPlaces, HoldsOff, HoldsOffPlaces, ReloadPlaces, SetupPlaces

\* Releasing a lock the call owns.
LEMMA ReleaseSyncFacts ==
    ASSUME TypeOK, NEW t \in Calls, NEW c \in Coordinators,
           syncLock[c].owner = t, ReleaseSync(c)
    PROVE  /\ syncLock' \in [Coordinators -> Lock]
           /\ \A d \in Coordinators :
                 \/ syncLock'[d].owner = syncLock[d].owner
                 \/ syncLock[d].owner \in {NoCall, t}
<1>1. syncLock[c] \in Lock /\ Release(syncLock[c]) \in Lock
  BY LockFacts DEF TypeOK
<1>. QED BY <1>1 DEF TypeOK, ReleaseSync

\* A waiter of the sync lock, woken, takes it.
LEMMA SyncWokenFacts ==
    ASSUME TypeOK, NEW t \in Calls, NEW c \in Coordinators,
           Woken(syncLock[c], t)
    PROVE  /\ syncLock[c].owner = NoCall
           /\ TakeWoken(syncLock[c], t) \in Lock
           /\ TakeWoken(syncLock[c], t).owner = t
           /\ Release(TakeWoken(syncLock[c], t)) \in Lock
<1>1. syncLock[c] \in Lock
  BY DEF TypeOK
<1>2. TakeWoken(syncLock[c], t) \in Lock
  BY <1>1, LockFacts
<1>. QED BY <1>1, <1>2, LockFacts

\* A call that is idle takes the loaded coordinator.
LEMMA StartsFacts ==
    ASSUME IInv, NEW t \in Calls, NEW c \in Coordinators, Starts(t, c)
    PROVE  /\ c \in 1 .. born /\ c \in 0 .. MaxCoordinators
           /\ pc[t] = "idle" /\ ~OwnsSync(t) /\ ~HoldsOff(t)
  BY BoundAssumption DEF IInv, TypeOK, Starts, OwnsSync, OwnsSyncPlaces, HoldsOff,
     HoldsOffPlaces, ReloadPlaces, Coordinators

\* A lock that is asked for at the start of a sync, cleanup, range check or
\* KNX repair.
LEMMA AcquireStep ==
    ASSUME IInv, NEW t \in Calls, t \notin HAReloads, NEW c \in Coordinators,
           Starts(t, c), NEW taken \in {"sync", "cleanup", "ranging", "knx"},
           NEW queued \in QueuePlaces, AcquireSync(t, c, taken, queued),
           inSync' \in [Coordinators -> BOOLEAN], on' = [on EXCEPT ![t] = c],
           UNCHANGED <<haVars, restoreLock, held, unloading, planEdits, open,
                       gaveUp, uncovered>>
    PROVE  IInv'
<1>. USE DEF IInv
<1>1. PICK p \in {taken, queued} : /\ pc' = [pc EXCEPT ![t] = p]
                                   /\ p = queued \/ syncLock'[c].owner = t
  BY AcquireSyncFacts
<1>2. /\ syncLock' \in [Coordinators -> Lock]
      /\ \A d \in Coordinators :
            \/ syncLock'[d].owner = syncLock[d].owner
            \/ syncLock[d].owner \in {NoCall, t}
  BY AcquireSyncFacts
<1>3. p \in Places /\ p \notin HoldsOffPlaces \union SetupPlaces
      /\ p # "holdQueued" /\ p # "restoring" /\ (p = queued => p \notin OwnsSyncPlaces)
  BY <1>1 DEF Places, HoldsOffPlaces, ReloadPlaces, SetupPlaces, OwnsSyncPlaces, QueuePlaces
<1>4. TypeOK'
  BY <1>1, <1>2, <1>3, StartsFacts DEF TypeOK, haVars
<1>5. \A d \in Coordinators : held[d] => restoreLock[d].owner # t
  BY StartsFacts DEF HeldOwner
<1>6. ~HoldsOff(t)' /\ (OwnsSync(t)' => syncLock'[c].owner = t)
  BY <1>1, <1>3, <1>4 DEF HoldsOff, OwnsSync, TypeOK
<1>7. CallStep(t, p, c)
  BY <1>1, <1>2, <1>3, <1>5, <1>6, StartsFacts DEF CallStep, haVars
<1>. QED BY <1>3, <1>4, <1>7, CallStepPreserves

\* A press is turned away or asks for the sync lock.
LEMMA SyncPressStep ==
    ASSUME IInv, NEW t \in Calls, SyncPress(t) PROVE IInv'
<1>1. PICK c \in Coordinators : SyncPress(t)!(c)
  BY DEF SyncPress
<1>2. CASE Refused(t)
  BY <1>1, <1>2, RefusedStep DEF Starts
<1>3. CASE ~Refused(t)
  <2>1. Free(syncLock[c]) \in BOOLEAN
    BY DEF Free, Locked
  <2>2. inSync' \in [Coordinators -> BOOLEAN]
    BY <1>1, <1>3, <2>1 DEF IInv, TypeOK
  <2>. QED BY <1>1, <1>3, <2>2, KindFacts, AcquireStep DEF QueuePlaces
<1>. QED BY <1>2, <1>3

\* A woken press takes the lock, or lets it go when a reload replaced its
\* coordinator.
LEMMA SyncWokenStep ==
    ASSUME IInv, NEW t \in Calls, SyncWoken(t) PROVE IInv'
<1>. USE DEF IInv
<1>0. pc[t] = "syncQueued"
  BY DEF SyncWoken
<1>0a. on[t] \in 1 .. born
  BY <1>0 DEF OnBuilt, QueuePlaces
<1>0b. on[t] \in Coordinators
  BY <1>0a DEF TypeOK, Coordinators
<1>0c. t \notin HAReloads
  BY <1>0 DEF HAPlaces, ReloadPlaces
<1>1. /\ pc[t] = "syncQueued" /\ on[t] \in 1 .. born /\ on[t] \in Coordinators
      /\ t \notin HAReloads /\ ~HoldsOff(t)
  BY <1>0, <1>0a, <1>0b, <1>0c DEF HoldsOff, HoldsOffPlaces, ReloadPlaces
<1>2. \A d \in Coordinators : held[d] => restoreLock[d].owner # t
  BY <1>1 DEF HeldOwner
<1>3. PICK p \in {"sync", "done"} :
         /\ pc' = [pc EXCEPT ![t] = p]
         /\ syncLock' \in [Coordinators -> Lock]
         /\ p = "sync" => syncLock'[on[t]].owner = t
         /\ \A d \in Coordinators :
               \/ syncLock'[d].owner = syncLock[d].owner
               \/ syncLock[d].owner \in {NoCall, t}
         /\ inSync' \in [Coordinators -> BOOLEAN]
  <2>. DEFINE c == on[t]
  <2>1. /\ syncLock[c].owner = NoCall
        /\ TakeWoken(syncLock[c], t) \in Lock
        /\ TakeWoken(syncLock[c], t).owner = t
        /\ Release(TakeWoken(syncLock[c], t)) \in Lock
    BY <1>1, SyncWokenFacts DEF SyncWoken
  <2>2. CASE current = c
    <3>1. /\ pc' = [pc EXCEPT ![t] = "sync"]
          /\ syncLock' = [syncLock EXCEPT ![c] = TakeWoken(@, t)]
          /\ inSync' = [inSync EXCEPT ![c] = TRUE]
      BY <2>2 DEF SyncWoken, Goto
    <3>2. /\ syncLock' \in [Coordinators -> Lock]
          /\ syncLock'[c] = TakeWoken(syncLock[c], t)
          /\ \A d \in Coordinators \ {c} : syncLock'[d] = syncLock[d]
          /\ inSync' \in [Coordinators -> BOOLEAN]
      BY <1>1, <2>1, <3>1 DEF TypeOK
    <3>. QED BY <2>1, <3>1, <3>2
  <2>3. CASE current # c
    <3>1. /\ pc' = [pc EXCEPT ![t] = "done"]
          /\ syncLock' = [syncLock EXCEPT ![c] = Release(TakeWoken(@, t))]
          /\ inSync' = inSync
      BY <2>3 DEF SyncWoken, Goto
    <3>2. /\ syncLock' \in [Coordinators -> Lock]
          /\ syncLock'[c] = Release(TakeWoken(syncLock[c], t))
          /\ \A d \in Coordinators \ {c} : syncLock'[d] = syncLock[d]
          /\ inSync' \in [Coordinators -> BOOLEAN]
      BY <1>1, <2>1, <3>1 DEF TypeOK
    <3>. QED BY <2>1, <3>1, <3>2
  <2>. QED BY <2>2, <2>3
<1>4. on' = [on EXCEPT ![t] = on[t]]
  BY DEF SyncWoken, TypeOK
<1>5. TypeOK'
  BY <1>3 DEF SyncWoken, TypeOK, Places, haVars
<1>6. ~HoldsOff(t)' /\ (OwnsSync(t)' => p = "sync")
  BY <1>3, <1>5 DEF HoldsOff, OwnsSync, TypeOK, HoldsOffPlaces, ReloadPlaces, OwnsSyncPlaces
<1>7. CallStep(t, p, on[t])
  BY <1>1, <1>2, <1>3, <1>4, <1>6 DEF CallStep, SyncWoken, haVars, SetupPlaces
<1>. QED BY <1>3, <1>5, <1>7, CallStepPreserves DEF Places

\* A call that holds the sync lock, or takes it now, and holds the restores
\* off or waits for that.
LEMMA HoldOffStep ==
    ASSUME IInv, NEW t \in Calls, t \notin HAReloads,
           NEW c \in Coordinators, c \in 1 .. born,
           syncLock[c].owner \in {NoCall, t},
           syncLock' \in [Coordinators -> Lock], syncLock'[c].owner = t,
           \A d \in Coordinators \ {c} : syncLock'[d] = syncLock[d],
           pc[t] \notin {"holdQueued", "restoring"}, ~HoldsOff(t),
           NEW b \in BOOLEAN, HoldOff(t, c, b), on' = [on EXCEPT ![t] = c],
           UNCHANGED <<haVars, unloading, planEdits, open, gaveUp, uncovered>>
    PROVE  IInv'
<1>0. HeldOffBy(t, c)
  BY HoldOffFacts
<1>1. /\ restoreLock' \in [Coordinators -> Lock]
      /\ held' \in [Coordinators -> BOOLEAN]
      /\ inSync' \in [Coordinators -> BOOLEAN]
  BY <1>0 DEF HeldOffBy
<1>2. PICK p \in {"settle", "reload", "held", "holdQueued"} :
         /\ pc' = [pc EXCEPT ![t] = p]
         /\ p # "holdQueued" => restoreLock'[c].owner = t
         /\ \A d \in Coordinators :
            /\ \/ restoreLock'[d].owner = restoreLock[d].owner
               \/ restoreLock[d].owner = NoCall
            /\ held'[d] => \/ d = c /\ p # "holdQueued"
                           \/ held[d] /\ restoreLock[d].owner # t
            /\ \/ restoreLock'[d].queue = restoreLock[d].queue
               \/ /\ restoreLock'[d].queue = <<t>>
                  /\ p = "holdQueued" /\ d = c
  BY <1>0 DEF HeldOffBy
<1>. USE DEF IInv
<1>3. TypeOK'
  BY <1>1, <1>2 DEF TypeOK, Places, haVars, Coordinators
<1>4. HoldsOff(t)' <=> p # "holdQueued"
  BY <1>2, <1>3 DEF HoldsOff, HoldsOffPlaces, ReloadPlaces, TypeOK
<1>5. CallStep(t, p, c)
  BY <1>2, <1>4 DEF CallStep, haVars, SetupPlaces
<1>. QED BY <1>2, <1>3, <1>5, CallStepPreserves DEF Places

\* What a call that owns the sync lock knows of its coordinator.
LEMMA OwnerFacts ==
    ASSUME IInv, NEW t \in Calls, t \notin HAReloads, pc[t] \in OwnsSyncPlaces
    PROVE  /\ on[t] \in Coordinators /\ on[t] \in 1 .. born
           /\ syncLock[on[t]].owner = t
           /\ on = [on EXCEPT ![t] = on[t]]
  BY BoundAssumption DEF IInv, OnBuilt, SyncOwned, OwnsSync, TypeOK, Coordinators

\* A sync that ends holds the restores off under the sync lock it owns.
LEMMA SyncEndStep ==
    ASSUME IInv, NEW t \in Calls, SyncEnd(t) PROVE IInv'
<1>1. pc[t] = "sync" /\ t \notin HAReloads /\ ~HoldsOff(t)
  BY DEF SyncEnd, IInv, HAPlaces, ReloadPlaces, HoldsOff, HoldsOffPlaces
<1>2. PICK failed \in BOOLEAN : HoldOff(t, on[t], ~failed)
  BY DEF SyncEnd
<1>3. syncLock' \in [Coordinators -> Lock] /\ syncLock' = syncLock
  BY DEF SyncEnd, IInv, TypeOK
<1>. QED
  BY <1>1, <1>2, <1>3, OwnerFacts, HoldOffStep DEF SyncEnd, OwnsSyncPlaces

\* So does a cleanup before its reload.
LEMMA CleanupReloadStep ==
    ASSUME IInv, NEW t \in Calls, CleanupReload(t) PROVE IInv'
<1>1. pc[t] = "cleaned" /\ t \notin HAReloads /\ ~HoldsOff(t)
  BY DEF CleanupReload, IInv, HAPlaces, ReloadPlaces, HoldsOff, HoldsOffPlaces
<1>2. inSync[on[t]] \in BOOLEAN
  BY <1>1, OwnerFacts DEF IInv, TypeOK, OwnsSyncPlaces
<1>3. syncLock' \in [Coordinators -> Lock] /\ syncLock' = syncLock
  BY DEF CleanupReload, IInv, TypeOK
<1>. QED
  BY <1>1, <1>2, <1>3, OwnerFacts, HoldOffStep DEF CleanupReload, OwnsSyncPlaces

\* A woken reload takes the sync lock and holds the restores off.
LEMMA ReloadWokenStep ==
    ASSUME IInv, NEW t \in Calls, ReloadWoken(t) PROVE IInv'
<1>0. pc[t] = "reloadQueued"
  BY DEF ReloadWoken
<1>0a. on[t] \in 1 .. born
  BY <1>0 DEF IInv, OnBuilt, QueuePlaces
<1>0b. on[t] \in Coordinators /\ on = [on EXCEPT ![t] = on[t]]
  BY <1>0a DEF IInv, TypeOK, Coordinators
<1>0c. t \notin HAReloads
  BY <1>0 DEF IInv, HAPlaces, ReloadPlaces
<1>1. /\ pc[t] = "reloadQueued" /\ t \notin HAReloads /\ ~HoldsOff(t)
      /\ on[t] \in Coordinators /\ on[t] \in 1 .. born
      /\ on = [on EXCEPT ![t] = on[t]]
  BY <1>0, <1>0a, <1>0b, <1>0c DEF HoldsOff, HoldsOffPlaces, ReloadPlaces
<1>2. inSync[on[t]] \in BOOLEAN
  BY <1>1 DEF IInv, TypeOK
<1>3. /\ syncLock[on[t]].owner = NoCall
      /\ syncLock' \in [Coordinators -> Lock] /\ syncLock'[on[t]].owner = t
      /\ \A d \in Coordinators \ {on[t]} : syncLock'[d] = syncLock[d]
  BY <1>1, SyncWokenFacts DEF ReloadWoken, IInv, TypeOK
<1>. QED
  BY <1>1, <1>2, <1>3, HoldOffStep DEF ReloadWoken

\* A reload request is skipped, takes both locks, or queues for the first.
LEMMA ReloadRequestStep ==
    ASSUME IInv, NEW t \in Calls, ReloadRequest(t) PROVE IInv'
<1>. DEFINE C(own) == IF current # 0 THEN current ELSE own
<1>. USE DEF IInv
<1>1. PICK own \in 1 .. born : ReloadRequest(t)!(own)
  BY DEF ReloadRequest
<1>2. /\ t \notin HAReloads /\ pc[t] = "idle" /\ ~HoldsOff(t) /\ ~OwnsSync(t)
      /\ C(own) \in 1 .. born /\ C(own) \in Coordinators
      /\ C(own) \in 0 .. MaxCoordinators
  BY <1>1, KindFacts, BoundAssumption DEF HoldsOff, HoldsOffPlaces, ReloadPlaces, OwnsSync,
     OwnsSyncPlaces, TypeOK, Coordinators
<1>3. CASE /\ Goto(t, "done")
           /\ uncovered' = uncovered \union {t}
           /\ UNCHANGED <<haVars, coordinatorVars, on>>
  <2>1. on' = [on EXCEPT ![t] = on[t]] /\ on[t] \in 0 .. MaxCoordinators
    BY <1>3 DEF TypeOK
  <2>2. ~HoldsOff(t)' /\ ~OwnsSync(t)'
    BY <1>3 DEF TypeOK, Goto, HoldsOff, HoldsOffPlaces, ReloadPlaces, OwnsSync,
       OwnsSyncPlaces
  <2>3. /\ planEdits' \in [Coordinators -> SUBSET Calls] /\ planEdits' = planEdits
        /\ uncovered' \subseteq Calls
    BY <1>3 DEF TypeOK, coordinatorVars
  <2>. QED
    BY <1>2, <1>3, <2>1, <2>2, <2>3, MoveFacts
       DEF Goto, haVars, coordinatorVars, Places, SetupPlaces
<1>4. CASE /\ Free(syncLock[C(own)])
           /\ syncLock' = [syncLock EXCEPT ![C(own)] = Take(@, t)]
           /\ HoldOff(t, C(own), FALSE)
           /\ on' = [on EXCEPT ![t] = C(own)]
           /\ UNCHANGED <<haVars, unloading, planEdits, open, gaveUp, uncovered>>
  <2>1. /\ syncLock[C(own)].owner = NoCall /\ Take(syncLock[C(own)], t) \in Lock
        /\ Take(syncLock[C(own)], t).owner = t
    BY <1>2, <1>4, LockFacts DEF TypeOK
  <2>2. /\ syncLock' \in [Coordinators -> Lock] /\ syncLock'[C(own)].owner = t
        /\ \A d \in Coordinators \ {C(own)} : syncLock'[d] = syncLock[d]
    BY <1>2, <1>4, <2>1 DEF TypeOK
  <2>. QED BY <1>2, <1>4, <2>1, <2>2, HoldOffStep
<1>5. CASE /\ syncLock' = [syncLock EXCEPT ![C(own)] = Enqueue(@, t)]
           /\ Goto(t, "reloadQueued")
           /\ on' = [on EXCEPT ![t] = C(own)]
           /\ UNCHANGED <<haVars, restoreLock, inSync, held, unloading,
                          planEdits, open, gaveUp, uncovered>>
  <2>1. /\ Enqueue(syncLock[C(own)], t) \in Lock
        /\ Enqueue(syncLock[C(own)], t).owner = syncLock[C(own)].owner
    BY <1>2, LockFacts DEF TypeOK
  <2>2. /\ syncLock' \in [Coordinators -> Lock]
        /\ \A d \in Coordinators : syncLock'[d].owner = syncLock[d].owner
    BY <1>2, <1>5, <2>1 DEF TypeOK
  <2>3. TypeOK'
    BY <1>2, <1>5, <2>2 DEF TypeOK, Places, Goto, haVars
  <2>4. \A d \in Coordinators : held[d] => restoreLock[d].owner # t
    BY <1>2 DEF HeldOwner
  <2>5. ~HoldsOff(t)' /\ ~OwnsSync(t)'
    BY <1>5, <2>3 DEF HoldsOff, HoldsOffPlaces, ReloadPlaces, OwnsSync, OwnsSyncPlaces,
       TypeOK, Goto
  <2>6. CallStep(t, "reloadQueued", C(own))
    BY <1>2, <1>5, <2>2, <2>4, <2>5 DEF CallStep, haVars, SetupPlaces, Goto
  <2>. QED BY <2>3, <2>6, CallStepPreserves DEF Places
<1>. QED BY <1>1, <1>3, <1>4, <1>5

\* A restore starts only on the loaded coordinator, with no unload begun, and
\* owns the restore lock from then on.
LEMMA RestoreStep ==
    ASSUME IInv, NEW t \in Calls, Restore(t) PROVE IInv'
<1>1. PICK c \in Coordinators : Restore(t)!(c)
  BY DEF Restore
<1>2. CASE Refused(t)
  BY <1>1, <1>2, RefusedStep DEF Starts
<1>3. CASE ~Refused(t)
  <2>1. /\ ~PlansBusy(c) /\ Free(restoreLock[c])
        /\ restoreLock' = [restoreLock EXCEPT ![c] = Take(@, t)]
        /\ Goto(t, "restoring") /\ on' = [on EXCEPT ![t] = c]
        /\ UNCHANGED <<haVars, syncLock, inSync, held, unloading, planEdits,
                       open, gaveUp, uncovered>>
    BY <1>1, <1>3
  <2>2. /\ c \in 1 .. born /\ c \in 0 .. MaxCoordinators /\ c = current
        /\ ~OwnsSync(t) /\ ~HoldsOff(t) /\ t \notin HAReloads
        /\ pc[t] = "idle"
    BY <1>1, StartsFacts, KindFacts DEF Starts
  <2>3. /\ restoreLock[c].owner = NoCall /\ Take(restoreLock[c], t) \in Lock
        /\ Take(restoreLock[c], t).owner = t
        /\ Take(restoreLock[c], t).queue = restoreLock[c].queue
    BY <2>1, LockFacts DEF IInv, TypeOK
  <2>4. /\ restoreLock' \in [Coordinators -> Lock] /\ restoreLock'[c].owner = t
        /\ \A d \in Coordinators : restoreLock'[d].queue = restoreLock[d].queue
        /\ \A d \in Coordinators \ {c} : restoreLock'[d] = restoreLock[d]
    BY <2>1, <2>3 DEF IInv, TypeOK
  <2>5. TypeOK'
    BY <2>1, <2>2, <2>4 DEF IInv, TypeOK, Places, Goto, haVars
  <2>6. \A d \in Coordinators : held[d] => restoreLock[d].owner # t
    BY <2>2, NotHolder DEF IInv
  <2>7. ~HoldsOff(t)' /\ ~OwnsSync(t)'
    BY <2>1, <2>5 DEF HoldsOff, HoldsOffPlaces, ReloadPlaces, OwnsSync, OwnsSyncPlaces,
       TypeOK, Goto
  <2>8. planEdits[c] = {} /\ ~unloading[c]
    BY <2>1 DEF PlansBusy
  <2>9. CallStep(t, "restoring", c)
    BY <2>1, <2>2, <2>3, <2>4, <2>6, <2>7, <2>8 DEF CallStep, haVars, SetupPlaces, Goto
  <2>. QED BY <2>5, <2>9, CallStepPreserves DEF Places
<1>. QED BY <1>2, <1>3

\* A restore that ends releases its own lock only.
LEMMA RestoreEndStep ==
    ASSUME IInv, NEW t \in Calls, RestoreEnd(t) PROVE IInv'
<1>1. /\ pc[t] = "restoring" /\ on[t] \in Coordinators /\ on[t] \in 1 .. born
      /\ on' = [on EXCEPT ![t] = on[t]]
      /\ restoreLock[on[t]].owner = t /\ restoreLock[on[t]] \in Lock
      /\ ~HoldsOff(t)
  BY DEF RestoreEnd, IInv, OnBuilt, RestoreOwned, TypeOK, Coordinators, HoldsOff, HoldsOffPlaces,
     ReloadPlaces
<1>2. /\ Release(restoreLock[on[t]]) \in Lock
      /\ Release(restoreLock[on[t]]).queue = restoreLock[on[t]].queue
  BY <1>1, LockFacts
<1>3. /\ restoreLock' \in [Coordinators -> Lock]
      /\ \A d \in Coordinators : restoreLock'[d].queue = restoreLock[d].queue
      /\ \A d \in Coordinators \ {on[t]} : restoreLock'[d] = restoreLock[d]
  BY <1>1, <1>2 DEF RestoreEnd, IInv, TypeOK
<1>4. TypeOK'
  BY <1>3 DEF RestoreEnd, IInv, TypeOK, Places, Goto, haVars
<1>5. \A d \in Coordinators : held[d] => restoreLock[d].owner # t
  BY <1>1, NotHolder DEF IInv
<1>6. ~HoldsOff(t)' /\ ~OwnsSync(t)'
  BY <1>4 DEF RestoreEnd, HoldsOff, HoldsOffPlaces, ReloadPlaces, OwnsSync, OwnsSyncPlaces,
     IInv, TypeOK, Goto
<1>7. CallStep(t, "done", on[t])
  BY <1>1, <1>3, <1>5, <1>6 DEF CallStep, RestoreEnd, haVars, SetupPlaces, Goto
<1>. QED BY <1>4, <1>7, CallStepPreserves DEF Places

\* A call enters plan_edit: no restore holds the lock of that coordinator.
LEMMA BeginEditStep ==
    ASSUME IInv, NEW t \in Calls, t \notin HAReloads,
           NEW c \in Coordinators, c \in 1 .. born,
           ~Locked(restoreLock[c]), pc[t] \in {"idle", "login"},
           BeginEdit(t, c), UnchangedByEdit, on' = [on EXCEPT ![t] = c]
    PROVE  IInv'
<1>1. restoreLock[c].owner = NoCall
  BY DEF Locked
<1>2. /\ planEdits' \in [Coordinators -> SUBSET Calls]
      /\ \A d \in Coordinators \ {c} : planEdits'[d] = planEdits[d]
  BY DEF BeginEdit, IInv, TypeOK
<1>3. /\ pc' = [pc EXCEPT ![t] = "editing"]
      /\ c \in 0 .. MaxCoordinators
  BY BoundAssumption DEF BeginEdit, Goto, Coordinators
<1>4. ~HoldsOff(t)' /\ ~OwnsSync(t)' /\ ~HoldsOff(t)
  BY <1>3 DEF HoldsOff, HoldsOffPlaces, ReloadPlaces, OwnsSync, OwnsSyncPlaces, IInv, TypeOK
<1>5. uncovered' \subseteq Calls
  BY DEF UnchangedByEdit, IInv, TypeOK
<1>. QED
  BY <1>1, <1>2, <1>3, <1>4, <1>5, MoveFacts DEF UnchangedByEdit, haVars, Places, SetupPlaces

\* A plan edit is turned away or goes on to log in: no lock changes.
LEMMA EditCheckStep ==
    ASSUME IInv, NEW t \in Calls, EditCheck(t) PROVE IInv'
<1>1. PICK c \in Coordinators : EditCheck(t)!(c)
  BY DEF EditCheck
<1>2. CASE Refused(t)
  BY <1>1, <1>2, RefusedStep DEF Starts
<1>3. CASE ~Refused(t)
  <2>1. /\ Goto(t, "login") /\ on' = [on EXCEPT ![t] = c]
        /\ UNCHANGED <<haVars, coordinatorVars, uncovered>>
    BY <1>1, <1>3
  <2>2. /\ c \in 1 .. born /\ c \in 0 .. MaxCoordinators /\ pc[t] = "idle"
        /\ ~OwnsSync(t) /\ ~HoldsOff(t) /\ t \notin HAReloads
    BY <1>1, StartsFacts, KindFacts
  <2>3. ~HoldsOff(t)' /\ ~OwnsSync(t)'
    BY <2>1 DEF HoldsOff, HoldsOffPlaces, ReloadPlaces, OwnsSync, OwnsSyncPlaces, IInv, TypeOK,
       Goto
  <2>4. /\ planEdits' \in [Coordinators -> SUBSET Calls] /\ planEdits' = planEdits
        /\ uncovered' \subseteq Calls
    BY <2>1 DEF IInv, TypeOK, coordinatorVars
  <2>. QED
    BY <2>1, <2>2, <2>3, <2>4, MoveFacts
       DEF haVars, coordinatorVars, Places, SetupPlaces, Goto
<1>. QED BY <1>2, <1>3

\* After the login the edit is turned away or enters plan_edit.
LEMMA EditLoggedInStep ==
    ASSUME IInv, NEW t \in Calls, EditLoggedIn(t) PROVE IInv'
<1>1. CASE Refused(t)
  BY <1>1, RefusedStep DEF EditLoggedIn
<1>2. CASE ~Refused(t)
  <2>1. /\ pc[t] = "login" /\ ~PlansBusy(on[t])
        /\ BeginEdit(t, on[t]) /\ UnchangedByEdit /\ on' = on
    BY <1>2 DEF EditLoggedIn
  <2>2. /\ on[t] \in Coordinators /\ on[t] \in 1 .. born /\ t \notin HAReloads
        /\ on' = [on EXCEPT ![t] = on[t]]
    BY <2>1 DEF IInv, OnBuilt, TypeOK, Coordinators, HAPlaces, ReloadPlaces
  <2>. QED BY <2>1, <2>2, BeginEditStep DEF PlansBusy
<1>. QED BY <1>1, <1>2

\* A cascade enters plan_edit at once, with the same check.
LEMMA CascadeStep ==
    ASSUME IInv, NEW t \in Calls, Cascade(t) PROVE IInv'
<1>1. PICK c \in Coordinators : Cascade(t)!(c)
  BY DEF Cascade
<1>2. CASE Refused(t)
  BY <1>1, <1>2, RefusedStep DEF Starts
<1>3. CASE ~Refused(t)
  BY <1>1, <1>3, StartsFacts, KindFacts, BeginEditStep DEF PlansBusy
<1>. QED BY <1>2, <1>3

\* A change of the backups enters plan_edit having looked at the restore lock.
LEMMA BackupEditStep ==
    ASSUME IInv, NEW t \in Calls, BackupEdit(t) PROVE IInv'
<1>1. PICK c \in Coordinators : BackupEdit(t)!(c)
  BY DEF BackupEdit
<1>2. CASE Refused(t)
  BY <1>1, <1>2, RefusedStep DEF Starts
<1>3. CASE ~Refused(t)
  BY <1>1, <1>3, StartsFacts, KindFacts, BeginEditStep
<1>. QED BY <1>2, <1>3

\* Leaving plan_edit also wakes the reloads and the unload that wait for it.
LEMMA EditEndStep ==
    ASSUME IInv, NEW t \in Calls, EditEnd(t) PROVE IInv'
<1>. USE DEF IInv
<1>1. /\ pc[t] = "editing"
      /\ UNCHANGED <<haVars, syncLock, restoreLock, inSync, held, unloading, open, gaveUp,
                     uncovered, on>>
      /\ planEdits' = [planEdits EXCEPT ![on[t]] = @ \ {t}]
  BY DEF EditEnd, UnchangedByEdit
<1>2. \A x \in Calls :
         \/ x = t /\ pc'[x] = "done"
         \/ x # t /\ pc'[x] = pc[x]
         \/ x # t /\ pc[x] = "waitEdits" /\ pc'[x] = "editsDone"
         \/ x # t /\ pc[x] = "unloadEdits" /\ pc'[x] = "unloadWoken"
  BY DEF EditEnd
<1>3. pc' \in [Calls -> Places]
  BY <1>2 DEF EditEnd, TypeOK, Places
<1>4. /\ \A x \in Calls : OwnsSync(x)' = OwnsSync(x) /\ HoldsOff(x)' = HoldsOff(x)
      /\ \A x \in Calls : pc'[x] = "restoring" => pc[x] = "restoring"
      /\ \A x \in Calls : pc[x] = "holdQueued" => pc'[x] = "holdQueued"
      /\ \A x \in Calls : pc'[x] \in SetupPlaces => pc[x] \in SetupPlaces
  BY <1>1, <1>2 DEF OwnsSync, HoldsOff, OwnsSyncPlaces, HoldsOffPlaces, ReloadPlaces,
     SetupPlaces
<1>5. /\ planEdits' \in [Coordinators -> SUBSET Calls]
      /\ \A d \in Coordinators : planEdits'[d] \subseteq planEdits[d]
  BY <1>1 DEF TypeOK
<1>6. \A x \in Calls : pc[x] = "restoring" => on[x] \in Coordinators
  BY BoundAssumption DEF OnBuilt, TypeOK, Coordinators
<1>7. TypeOK'
  BY <1>1, <1>3, <1>5 DEF TypeOK, haVars
<1>8. HAPlaces'
  BY <1>1, <1>2, KindFacts DEF HAPlaces, ReloadPlaces
<1>9. OnBuilt'
  BY <1>1, <1>2, <1>4 DEF OnBuilt, haVars, QueuePlaces
<1>10. SyncOwned' /\ RestoreOwned' /\ SetupOwned'
  BY <1>1, <1>4 DEF SyncOwned, RestoreOwned, SetupOwned, haVars
<1>11. HeldOwner' /\ RestoreQueue'
  BY <1>1, <1>4 DEF HeldOwner, RestoreQueue
<1>12. UnloadInv'
  BY <1>1, <1>2 DEF UnloadInv, haVars
<1>13. WaitedInv'
  BY <1>1, <1>2 DEF WaitedInv, haVars
<1>14. RestoreInv'
  BY <1>1, <1>4, <1>5, <1>6 DEF RestoreInv, haVars
<1>15. LoadedOpen'
  BY <1>1 DEF LoadedOpen, haVars
<1>. QED
  BY <1>7, <1>8, <1>9, <1>10, <1>11, <1>12, <1>13, <1>14, <1>15

\* A woken call takes the sync lock without looking around, or one that
\* does not reload lets it go.
LEMMA LockWokenStep ==
    ASSUME IInv, NEW t \in Calls, LockWoken(t) PROVE IInv'
<1>1. /\ pc[t] \in {"cleanupQueued", "rangeQueued", "knxQueued"}
      /\ on[t] \in Coordinators /\ on[t] \in 1 .. born /\ t \notin HAReloads
      /\ ~HoldsOff(t) /\ on' = [on EXCEPT ![t] = on[t]]
  <2>1. pc[t] \in {"cleanupQueued", "rangeQueued", "knxQueued"} /\ on' = on
    BY DEF LockWoken
  <2>2. on[t] \in 1 .. born
    BY <2>1 DEF IInv, OnBuilt, QueuePlaces
  <2>3. on[t] \in Coordinators
    BY <2>2, BoundAssumption DEF IInv, TypeOK, Coordinators
  <2>4. t \notin HAReloads /\ ~HoldsOff(t)
    BY <2>1 DEF IInv, HAPlaces, ReloadPlaces, HoldsOff, HoldsOffPlaces
  <2>5. on' = [on EXCEPT ![t] = on[t]]
    BY <2>1 DEF IInv, TypeOK
  <2>. QED BY <2>1, <2>2, <2>3, <2>4, <2>5
<1>2. PICK p \in {"cleanup", "ranging", "knx"} : pc' = [pc EXCEPT ![t] = p]
  BY DEF LockWoken, Goto
<1>3. /\ syncLock[on[t]].owner = NoCall
      /\ syncLock' \in [Coordinators -> Lock] /\ syncLock'[on[t]].owner = t
      /\ \A d \in Coordinators \ {on[t]} : syncLock'[d] = syncLock[d]
  BY <1>1, SyncWokenFacts DEF LockWoken, IInv, TypeOK
<1>4. TypeOK'
  BY <1>2, <1>3 DEF LockWoken, IInv, TypeOK, Places, haVars
<1>5. \A d \in Coordinators : held[d] => restoreLock[d].owner # t
  BY <1>1, NotHolder DEF IInv
<1>6. ~HoldsOff(t)'
  BY <1>2 DEF IInv, HoldsOff, HoldsOffPlaces, ReloadPlaces, TypeOK
<1>7. CallStep(t, p, on[t])
  BY <1>1, <1>2, <1>3, <1>5, <1>6 DEF CallStep, LockWoken, haVars, SetupPlaces
<1>. QED BY <1>2, <1>4, <1>7, CallStepPreserves DEF Places

\* Such work ends by releasing the sync lock it owns.
LEMMA LockedWorkEndStep ==
    ASSUME IInv, NEW t \in Calls, LockedWorkEnd(t) PROVE IInv'
<1>1. /\ pc[t] \in {"ranging", "knx", "cleanup"} /\ t \notin HAReloads
      /\ ~HoldsOff(t)
  BY DEF LockedWorkEnd, IInv, HAPlaces, HoldsOff, HoldsOffPlaces, ReloadPlaces
<1>2. /\ on[t] \in Coordinators /\ on[t] \in 1 .. born
      /\ syncLock[on[t]].owner = t /\ on' = [on EXCEPT ![t] = on[t]]
  BY <1>1, OwnerFacts DEF OwnsSyncPlaces, LockedWorkEnd
<1>3. /\ syncLock' \in [Coordinators -> Lock]
      /\ \A d \in Coordinators :
            \/ syncLock'[d].owner = syncLock[d].owner
            \/ syncLock[d].owner \in {NoCall, t}
  BY <1>2, ReleaseSyncFacts DEF LockedWorkEnd, IInv
<1>4. TypeOK'
  BY <1>3 DEF LockedWorkEnd, IInv, TypeOK, Places, Goto, haVars
<1>5. \A d \in Coordinators : held[d] => restoreLock[d].owner # t
  BY <1>1, NotHolder DEF IInv
<1>6. ~HoldsOff(t)' /\ ~OwnsSync(t)'
  BY DEF LockedWorkEnd, IInv, HoldsOff, HoldsOffPlaces, ReloadPlaces, OwnsSync, OwnsSyncPlaces,
     TypeOK, Goto
<1>7. CallStep(t, "done", on[t])
  BY <1>1, <1>2, <1>3, <1>5, <1>6 DEF CallStep, LockedWorkEnd, haVars, SetupPlaces, Goto
<1>. QED BY <1>4, <1>7, CallStepPreserves DEF Places

\* The steps of a call between two waits that change nothing but its place.
LEMMA PlaceStep ==
    ASSUME IInv, NEW t \in Calls, NEW p \in Places, Goto(t, p),
           UNCHANGED <<haVars, coordinatorVars, on, uncovered>>,
           \/ pc[t] = "settle" /\ p = "reload"
           \/ pc[t] = "cleanup" /\ p = "cleaned"
           \/ pc[t] = "held" /\ p \in {"editsDone", "waitEdits"}
           \/ pc[t] = "editsDone" /\ p = "reload"
           \/ pc[t] = "idle" /\ p = "reload" /\ t \in HAReloads
           \/ pc[t] = "login" /\ p = "done"
    PROVE  IInv'
<1>1. on' = [on EXCEPT ![t] = on[t]] /\ on[t] \in 0 .. MaxCoordinators
  BY DEF IInv, TypeOK
<1>2. /\ pc[t] \in {"settle", "cleanup", "held", "editsDone"} => t \notin HAReloads
      /\ p \notin {"idle", "done"} /\ t \notin HAReloads => on[t] \in 1 .. born
  BY DEF IInv, HAPlaces, ReloadPlaces, OnBuilt, OwnsSync, OwnsSyncPlaces, HoldsOffPlaces
<1>3. /\ OwnsSync(t)' = OwnsSync(t) /\ HoldsOff(t)' = HoldsOff(t)
  BY <1>2 DEF IInv, TypeOK, Goto, OwnsSync, HoldsOff, OwnsSyncPlaces, HoldsOffPlaces,
     ReloadPlaces
<1>4. /\ planEdits' \in [Coordinators -> SUBSET Calls] /\ planEdits' = planEdits
      /\ uncovered' \subseteq Calls
  BY DEF IInv, TypeOK, coordinatorVars
<1>. QED
  BY <1>1, <1>2, <1>3, <1>4, MoveFacts
     DEF Goto, haVars, coordinatorVars, SetupPlaces, ReloadPlaces

\* The only waiter of the restore lock takes it and holds the restores off.
LEMMA HoldWokenStep ==
    ASSUME IInv, NEW t \in Calls, HoldWoken(t) PROVE IInv'
<1>. USE DEF IInv
<1>1. /\ pc[t] = "holdQueued" /\ Woken(restoreLock[on[t]], t) /\ t \notin HAReloads
      /\ ~HoldsOff(t)
  BY DEF HoldWoken, HAPlaces, ReloadPlaces, HoldsOff, HoldsOffPlaces
<1>2. /\ on[t] \in Coordinators /\ on[t] \in 1 .. born /\ syncLock[on[t]].owner = t
      /\ on' = [on EXCEPT ![t] = on[t]]
  BY <1>1, OwnerFacts DEF OwnsSyncPlaces, HoldWoken
<1>. DEFINE c == on[t]
<1>3. /\ restoreLock[c].owner = NoCall /\ TakeWoken(restoreLock[c], t) \in Lock
      /\ TakeWoken(restoreLock[c], t).owner = t
      /\ TakeWoken(restoreLock[c], t).queue = <<>>
  <2>1. restoreLock[c] \in Lock
    BY <1>2 DEF TypeOK
  <2>2. PICK x : restoreLock[c].queue = <<x>>
    BY <1>1, <1>2, <2>1, LockFacts DEF RestoreQueue
  <2>. QED BY <1>1, <2>1, <2>2, LockFacts
<1>4. /\ restoreLock' \in [Coordinators -> Lock] /\ restoreLock'[c].owner = t
      /\ restoreLock'[c].queue = <<>>
      /\ \A d \in Coordinators \ {c} : restoreLock'[d] = restoreLock[d]
  BY <1>2, <1>3 DEF HoldWoken, TypeOK
<1>5. PICK p \in {"settle", "reload", "held"} : pc' = [pc EXCEPT ![t] = p]
  <2>1. HeldPlace(t) \in {"settle", "reload", "held"}
    BY DEF HeldPlace
  <2>2. pc' = [pc EXCEPT ![t] = HeldPlace(t)]
    BY DEF HoldWoken, HeldOff, Goto
  <2>. QED BY <2>1, <2>2
<1>6. /\ held' \in [Coordinators -> BOOLEAN] /\ inSync' \in [Coordinators -> BOOLEAN]
      /\ \A d \in Coordinators \ {c} : held'[d] = held[d]
  BY <1>2 DEF HoldWoken, HeldOff, TypeOK
<1>7. TypeOK'
  BY <1>4, <1>5, <1>6 DEF HoldWoken, TypeOK, Places, haVars
<1>8. \A d \in Coordinators : held[d] => restoreLock[d].owner # t
  BY <1>1, NotHolder
<1>9. HoldsOff(t)'
  BY <1>1, <1>5 DEF HoldsOff, HoldsOffPlaces, ReloadPlaces, TypeOK
<1>10. CallStep(t, p, c)
  BY <1>1, <1>2, <1>3, <1>4, <1>5, <1>6, <1>8, <1>9
     DEF CallStep, HoldWoken, haVars, SetupPlaces
<1>. QED BY <1>5, <1>7, <1>10, CallStepPreserves DEF Places

\* Leaving restores_held_off and the sync lock.
LEMMA ReleaseBothFacts ==
    ASSUME IInv, NEW t \in Calls, HoldsOff(t), ReleaseBoth(on[t])
    PROVE  /\ on[t] \in Coordinators /\ on[t] \in 1 .. born
           /\ syncLock[on[t]].owner = t /\ restoreLock[on[t]].owner = t
           /\ syncLock' \in [Coordinators -> Lock]
           /\ restoreLock' \in [Coordinators -> Lock]
           /\ held' \in [Coordinators -> BOOLEAN] /\ ~held'[on[t]]
           /\ \A d \in Coordinators :
                 restoreLock'[d].queue = restoreLock[d].queue
           /\ \A d \in Coordinators \ {on[t]} :
                 /\ syncLock'[d] = syncLock[d] /\ restoreLock'[d] = restoreLock[d]
                 /\ held'[d] = held[d]
           /\ \A d \in Coordinators \ {on[t]} :
                 held[d] => restoreLock[d].owner # t
<1>1. /\ on[t] \in Coordinators /\ on[t] \in 1 .. born
      /\ syncLock[on[t]].owner = t /\ restoreLock[on[t]].owner = t
  BY OwnerFacts DEF HoldsOff, OwnsSyncPlaces, IInv, RestoreOwned
<1>2. /\ Release(syncLock[on[t]]) \in Lock /\ Release(restoreLock[on[t]]) \in Lock
      /\ Release(restoreLock[on[t]]).queue = restoreLock[on[t]].queue
  BY <1>1, LockFacts DEF IInv, TypeOK
<1>3. \A d \in Coordinators \ {on[t]} : held[d] => restoreLock[d].owner # t
  BY DEF IInv, HeldOwner
<1>. QED BY <1>1, <1>2, <1>3 DEF ReleaseBoth, ReleaseSync, IInv, TypeOK

\* A reload whose coordinator is gone releases both locks; otherwise it goes on.
LEMMA ReloadRecheckStep ==
    ASSUME IInv, NEW t \in Calls, ReloadRecheck(t) PROVE IInv'
<1>1. pc[t] = "editsDone" /\ t \notin HAReloads /\ HoldsOff(t)
  BY DEF ReloadRecheck, IInv, HAPlaces, ReloadPlaces, HoldsOff, HoldsOffPlaces
<1>2. CASE Goto(t, "reload") /\ UNCHANGED coordinatorVars
  BY <1>1, <1>2, PlaceStep DEF ReloadRecheck, Places
<1>3. CASE /\ ReleaseBoth(on[t]) /\ Goto(t, "done")
           /\ UNCHANGED <<inSync, unloading, planEdits, open, gaveUp>>
  <2>1. TypeOK'
    BY <1>1, <1>3, ReleaseBothFacts DEF ReloadRecheck, IInv, TypeOK, Places, Goto, haVars
  <2>2. ~HoldsOff(t)' /\ ~OwnsSync(t)'
    BY <1>3 DEF IInv, HoldsOff, HoldsOffPlaces, ReloadPlaces, OwnsSync, OwnsSyncPlaces,
       TypeOK, Goto
  <2>3. on' = [on EXCEPT ![t] = on[t]]
    BY DEF ReloadRecheck, IInv, TypeOK
  <2>4. /\ on[t] \in Coordinators
        /\ syncLock[on[t]].owner = t /\ restoreLock[on[t]].owner = t
        /\ ~held'[on[t]]
        /\ \A d \in Coordinators :
              restoreLock'[d].queue = restoreLock[d].queue
        /\ \A d \in Coordinators \ {on[t]} :
              /\ syncLock'[d] = syncLock[d] /\ restoreLock'[d] = restoreLock[d]
              /\ held'[d] = held[d] /\ (held[d] => restoreLock[d].owner # t)
    BY <1>1, <1>3, ReleaseBothFacts
  <2>5. /\ UNCHANGED <<current, born, leaving, setupLock, unloading, open, gaveUp,
                       planEdits>>
        /\ pc' = [pc EXCEPT ![t] = "done"] /\ pc[t] # "holdQueued"
    BY <1>1, <1>3 DEF ReloadRecheck, haVars, Goto
  <2>6. CallStep(t, "done", on[t])
    BY <2>2, <2>3, <2>4, <2>5 DEF CallStep, SetupPlaces
  <2>. QED BY <2>1, <2>6, CallStepPreserves DEF Places
<1>. QED BY <1>2, <1>3 DEF ReloadRecheck

\* Queueing for the setup lock changes no owner.
LEMMA EnterSetupLockStep ==
    ASSUME IInv, NEW t \in Calls, EnterSetupLock(t) PROVE IInv'
<1>1. /\ pc[t] = "reload" /\ on' = [on EXCEPT ![t] = on[t]]
      /\ pc' = [pc EXCEPT ![t] = "setupQueued"]
      /\ UNCHANGED <<current, born, leaving, coordinatorVars, uncovered>>
  BY DEF EnterSetupLock, IInv, TypeOK, Goto
<1>2. setupLock' \in Lock /\ setupLock'.owner = setupLock.owner
  BY LockFacts DEF EnterSetupLock, IInv, TypeOK
<1>3. TypeOK'
  BY <1>1, <1>2 DEF EnterSetupLock, IInv, TypeOK, Places, coordinatorVars
<1>4. OwnsSync(t)' = OwnsSync(t) /\ HoldsOff(t)' = HoldsOff(t)
  BY <1>1 DEF IInv, TypeOK, OwnsSync, HoldsOff, OwnsSyncPlaces, HoldsOffPlaces, ReloadPlaces
<1>5. t \notin HAReloads => on[t] \in 1 .. born /\ syncLock[on[t]].owner = t
                            /\ restoreLock[on[t]].owner = t
  BY <1>1, OwnerFacts DEF IInv, OwnsSyncPlaces, HoldsOff, HoldsOffPlaces, ReloadPlaces,
     RestoreOwned
<1>6. t \in HAReloads => ~HoldsOff(t) /\ ~OwnsSync(t)
  BY DEF HoldsOff, OwnsSync
<1>7. \A d \in Coordinators : held[d] =>
         \/ d = on[t] /\ HoldsOff(t)
         \/ held[d] /\ restoreLock[d].owner # t
  BY DEF IInv, HeldOwner
<1>8. CallStep(t, "setupQueued", on[t])
  BY <1>1, <1>2, <1>4, <1>5, <1>6, <1>7
     DEF CallStep, coordinatorVars, SetupPlaces, ReloadPlaces
<1>. QED BY <1>3, <1>8, CallStepPreserves DEF Places

\* The requests that only ask for the sync lock.
LEMMA LockedWorkStep ==
    ASSUME IInv, NEW t \in Calls, Cleanup(t) \/ RangeCheck(t) \/ KnxRepair(t)
    PROVE  IInv'
<1>1. CASE Cleanup(t)
  <2>1. PICK c \in Coordinators : Cleanup(t)!(c)
    BY <1>1 DEF Cleanup
  <2>2. CASE Refused(t)
    BY <2>1, <2>2, RefusedStep DEF Starts
  <2>3. CASE ~Refused(t)
    <3>1. inSync' \in [Coordinators -> BOOLEAN]
      BY <2>1, <2>3 DEF IInv, TypeOK
    <3>. QED BY <2>1, <2>3, <3>1, KindFacts, AcquireStep DEF QueuePlaces
  <2>. QED BY <2>2, <2>3
<1>2. CASE RangeCheck(t)
  <2>1. PICK c \in Coordinators : RangeCheck(t)!(c)
    BY <1>2 DEF RangeCheck
  <2>2. CASE Refused(t)
    BY <2>1, <2>2, RefusedStep DEF Starts
  <2>3. CASE ~Refused(t)
    <3>1. inSync' \in [Coordinators -> BOOLEAN]
      BY <2>1, <2>3 DEF IInv, TypeOK
    <3>. QED BY <2>1, <2>3, <3>1, KindFacts, AcquireStep DEF QueuePlaces
  <2>. QED BY <2>2, <2>3
<1>3. CASE KnxRepair(t)
  <2>1. PICK c \in Coordinators : KnxRepair(t)!(c)
    BY <1>3 DEF KnxRepair
  <2>2. CASE Refused(t)
    BY <2>1, <2>2, RefusedStep DEF Starts
  <2>3. CASE ~Refused(t)
    <3>1. inSync' \in [Coordinators -> BOOLEAN]
      BY <2>1, <2>3 DEF IInv, TypeOK
    <3>. QED BY <2>1, <2>3, <3>1, KindFacts, AcquireStep DEF QueuePlaces
  <2>. QED BY <2>2, <2>3
<1>. QED BY <1>1, <1>2, <1>3

\* The steps that only move their call from one place to the next.
LEMMA PlaceSteps ==
    ASSUME IInv, NEW t \in Calls,
           \/ SyncSettled(t) \/ CleanupDone(t) \/ ReloadAwaitEdits(t)
           \/ HAReload(t) \/ EditLoginFails(t)
    PROVE  IInv'
<1>1. CASE SyncSettled(t)
  BY <1>1, PlaceStep DEF SyncSettled, Places
<1>2. CASE CleanupDone(t)
  BY <1>2, PlaceStep DEF CleanupDone, Places
<1>3. CASE ReloadAwaitEdits(t)
  <2>1. PICK p \in {"editsDone", "waitEdits"} : Goto(t, p)
    BY <1>3 DEF ReloadAwaitEdits
  <2>. QED BY <1>3, <2>1, PlaceStep DEF ReloadAwaitEdits, Places
<1>4. CASE HAReload(t)
  BY <1>4, PlaceStep DEF HAReload, Places
<1>5. CASE EditLoginFails(t)
  BY <1>5, RefusedStep DEF EditLoginFails
<1>. QED BY <1>1, <1>2, <1>3, <1>4, <1>5

-----------------------------------------------------------------------------
(* The steps of the call that owns Home Assistant's setup lock *)

\* Nobody else is inside the setup lock, and the owner keeps its other locks
\* while it moves on inside it.
LEMMA OwnerMoves ==
    ASSUME IInv, NEW t \in Calls, pc[t] \in ReloadPlaces,
           NEW p \in ReloadPlaces, pc' = [pc EXCEPT ![t] = p], on' = on
    PROVE  /\ \A x \in Calls : OwnsSync(x)' = OwnsSync(x) /\ HoldsOff(x)' = HoldsOff(x)
           /\ pc' \in [Calls -> Places]
           /\ pc'[t] = p /\ \A x \in Calls \ {t} : pc'[x] = pc[x]
           /\ HAPlaces'
  BY DEF IInv, TypeOK, Places, OwnsSync, HoldsOff, OwnsSyncPlaces, HoldsOffPlaces,
     ReloadPlaces, HAPlaces

\* What holds of the locks and calls when no lock of a coordinator changes.
LEMMA LocksKept ==
    ASSUME IInv, NEW t \in Calls, pc[t] \in ReloadPlaces,
           NEW p \in ReloadPlaces, pc' = [pc EXCEPT ![t] = p],
           UNCHANGED <<on, born, syncLock, restoreLock, held>>
    PROVE  OnBuilt' /\ SyncOwned' /\ RestoreOwned' /\ HeldOwner' /\ RestoreQueue'
<1>1. /\ \A x \in Calls : OwnsSync(x)' = OwnsSync(x) /\ HoldsOff(x)' = HoldsOff(x)
      /\ pc'[t] = p /\ \A x \in Calls \ {t} : pc'[x] = pc[x]
  BY OwnerMoves
<1>. USE DEF IInv
<1>2. /\ p \notin {"restoring", "login", "editing", "holdQueued"} \union QueuePlaces
      /\ pc[t] # "holdQueued"
  BY DEF ReloadPlaces, QueuePlaces
<1>3. OnBuilt'
  BY <1>1, <1>2 DEF OnBuilt
<1>4. SyncOwned' /\ RestoreOwned'
  BY <1>1, <1>2 DEF SyncOwned, RestoreOwned
<1>5. HeldOwner' /\ RestoreQueue'
  BY <1>1, <1>2 DEF HeldOwner, RestoreQueue
<1>. QED BY <1>3, <1>4, <1>5

\* An unload skips its wait only for a reload that holds the restores off; then
\* the restore lock is that reload's, so no restore runs.
LEMMA UnloadBeginStep ==
    ASSUME IInv, NEW t \in Calls, UnloadBegin(t) PROVE IInv'
<1>1. /\ pc[t] \in {"reload", "setupQueued"} /\ pc[t] \in ReloadPlaces
      /\ UNCHANGED <<current, born, syncLock, restoreLock, inSync, held,
                     planEdits, open, gaveUp, on>>
      /\ uncovered' = {}
  BY DEF UnloadBegin, ReloadPlaces
<1>2. setupLock.owner = NoCall /\ setupLock' \in Lock /\ setupLock'.owner = t
  <2>1. setupLock \in Lock
    BY DEF IInv, TypeOK
  <2>2. CASE Free(setupLock) /\ setupLock' = Take(setupLock, t)
    BY <2>1, <2>2, LockFacts
  <2>3. CASE Woken(setupLock, t) /\ setupLock' = TakeWoken(setupLock, t)
    BY <2>1, <2>3, LockFacts
  <2>. QED BY <2>2, <2>3 DEF UnloadBegin
<1>3. PICK p \in {"setup", "platforms", "unloadWait"} :
         /\ pc' = [pc EXCEPT ![t] = p]
         /\ \/ current = 0 /\ p = "setup" /\ UNCHANGED <<leaving, unloading>>
            \/ /\ current # 0 /\ p \in {"platforms", "unloadWait"}
               /\ p = "platforms" => held[current]
               /\ leaving' = current
               /\ unloading' = [unloading EXCEPT ![current] = TRUE]
  BY DEF UnloadBegin, Goto
<1>4. p \in ReloadPlaces
  BY <1>3 DEF ReloadPlaces
<1>5. /\ HAPlaces' /\ pc' \in [Calls -> Places]
      /\ pc'[t] = p /\ \A x \in Calls \ {t} : pc'[x] = pc[x]
  BY <1>1, <1>3, <1>4, OwnerMoves
<1>6. OnBuilt' /\ SyncOwned' /\ RestoreOwned' /\ HeldOwner' /\ RestoreQueue'
  BY <1>1, <1>3, <1>4, LocksKept
<1>7. current \in 0 .. born /\ born \in Coordinators
      /\ (current # 0 => current \in Coordinators)
  BY BoundAssumption DEF IInv, TypeOK, Coordinators
<1>. USE DEF IInv
<1>8. TypeOK'
  BY <1>1, <1>2, <1>3, <1>5, <1>7 DEF TypeOK
<1>9. \A x \in Calls \ {t} : pc'[x] \notin SetupPlaces
  BY <1>2, <1>5, CallsAssumption DEF SetupOwned
<1>10. SetupOwned'
  BY <1>2, <1>9 DEF SetupOwned
<1>11. UnloadInv'
  BY <1>1, <1>3, <1>5, <1>7, <1>9 DEF UnloadInv, SetupPlaces, TypeOK
<1>12. WaitedInv'
  <2>1. SUFFICES ASSUME NEW x \in Calls, NEW r \in Calls,
                        pc'[x] \in {"unloadEdits", "unloadWoken", "platforms"},
                        pc'[r] = "restoring", on'[r] = leaving'
                 PROVE  FALSE
    BY DEF WaitedInv
  <2>2. x = t /\ p = "platforms"
    BY <1>3, <1>5, <1>9, <2>1 DEF SetupPlaces
  <2>3. pc[r] = "restoring" /\ on[r] = current /\ held[current] /\ current \in Coordinators
    BY <1>1, <1>3, <1>5, <1>7, <2>1, <2>2
  <2>4. restoreLock[current].owner = r
    BY <2>3 DEF RestoreOwned
  <2>5. PICK h \in Calls : restoreLock[current].owner = h /\ HoldsOff(h)
    BY <2>3 DEF HeldOwner
  <2>. QED BY <2>3, <2>4, <2>5 DEF HoldsOff, HoldsOffPlaces, ReloadPlaces
<1>13. RestoreInv'
  BY <1>1, <1>3, <1>5 DEF RestoreInv
<1>14. LoadedOpen'
  BY <1>1 DEF LoadedOpen
<1>. QED BY <1>5, <1>6, <1>8, <1>10, <1>11, <1>12, <1>13, <1>14

\* What the call that owns the setup lock does inside it, when it changes no
\* lock: it moves on, and what it knows of the coordinator moves with it.
LEMMA InsideStep ==
    ASSUME IInv, NEW t \in Calls, pc[t] \in SetupPlaces,
           NEW p \in SetupPlaces, pc' = [pc EXCEPT ![t] = p],
           UNCHANGED <<on, born, setupLock, syncLock, restoreLock, held>>
    PROVE  /\ OnBuilt' /\ SyncOwned' /\ RestoreOwned' /\ HeldOwner' /\ RestoreQueue'
           /\ HAPlaces' /\ SetupOwned'
           /\ pc' \in [Calls -> Places]
           /\ pc'[t] = p /\ \A x \in Calls \ {t} : pc'[x] = pc[x]
           /\ \A x \in Calls \ {t} : pc[x] \notin SetupPlaces
<1>1. pc[t] \in ReloadPlaces /\ p \in ReloadPlaces
  BY DEF SetupPlaces, ReloadPlaces
<1>2. OnBuilt' /\ SyncOwned' /\ RestoreOwned' /\ HeldOwner' /\ RestoreQueue'
  BY <1>1, LocksKept
<1>3. /\ HAPlaces' /\ pc' \in [Calls -> Places]
      /\ pc'[t] = p /\ \A x \in Calls \ {t} : pc'[x] = pc[x]
  BY <1>1, OwnerMoves
<1>4. \A x \in Calls \ {t} : pc[x] \notin SetupPlaces
  BY DEF IInv, SetupOwned
<1>5. SetupOwned'
  BY <1>3, <1>4 DEF SetupOwned, IInv
<1>. QED BY <1>2, <1>3, <1>4, <1>5

\* The poll passes only when the restore lock is free, or is held by a reload.
LEMMA UnloadPollStep ==
    ASSUME IInv, NEW t \in Calls, UnloadPoll(t) PROVE IInv'
<1>1. /\ pc[t] = "unloadWait" /\ pc[t] \in SetupPlaces /\ ~UnloadMustWait(leaving)
      /\ UNCHANGED <<haVars, coordinatorVars, on, uncovered>>
  BY DEF UnloadPoll, SetupPlaces
<1>2. PICK p \in {"platforms", "unloadEdits"} : pc' = [pc EXCEPT ![t] = p]
  BY DEF UnloadPoll, Goto
<1>3. p \in SetupPlaces
  BY <1>2 DEF SetupPlaces
<1>4. /\ OnBuilt' /\ SyncOwned' /\ RestoreOwned' /\ HeldOwner' /\ RestoreQueue'
      /\ HAPlaces' /\ SetupOwned'
      /\ pc' \in [Calls -> Places]
      /\ pc'[t] = p /\ \A x \in Calls \ {t} : pc'[x] = pc[x]
      /\ \A x \in Calls \ {t} : pc[x] \notin SetupPlaces
  BY <1>1, <1>2, <1>3, InsideStep DEF haVars, coordinatorVars
<1>. USE DEF IInv
<1>5. TypeOK'
  BY <1>1, <1>4 DEF TypeOK, haVars, coordinatorVars
<1>6. UnloadInv'
  BY <1>1, <1>2, <1>4 DEF UnloadInv, haVars, coordinatorVars
<1>7. \A r \in Calls : ~(pc[r] = "restoring" /\ on[r] = leaving)
  <2>1. SUFFICES ASSUME NEW r \in Calls, pc[r] = "restoring", on[r] = leaving
                 PROVE  FALSE
    OBVIOUS
  <2>2. leaving \in Coordinators /\ leaving = current
    BY <1>1, BoundAssumption DEF UnloadInv, TypeOK, Coordinators
  <2>3. restoreLock[leaving].owner = r
    BY <2>1 DEF RestoreOwned
  <2>4. Locked(restoreLock[leaving])
    BY <2>3, CallsAssumption DEF Locked
  <2>5. held[leaving]
    BY <1>1, <2>4 DEF UnloadMustWait
  <2>6. PICK h \in Calls : restoreLock[leaving].owner = h /\ HoldsOff(h)
    BY <2>2, <2>5 DEF HeldOwner
  <2>. QED BY <2>1, <2>3, <2>6 DEF HoldsOff, HoldsOffPlaces, ReloadPlaces
<1>8. WaitedInv'
  BY <1>1, <1>2, <1>4, <1>7 DEF WaitedInv, haVars, coordinatorVars
<1>9. RestoreInv' /\ LoadedOpen'
  BY <1>1, <1>2, <1>4 DEF RestoreInv, LoadedOpen, haVars, coordinatorVars
<1>. QED BY <1>4, <1>5, <1>6, <1>8, <1>9

\* The edits are over: the unload goes on.
LEMMA UnloadResumesStep ==
    ASSUME IInv, NEW t \in Calls, UnloadResumes(t) PROVE IInv'
<1>1. /\ pc[t] = "unloadWoken" /\ pc[t] \in SetupPlaces /\ "platforms" \in SetupPlaces
      /\ pc' = [pc EXCEPT ![t] = "platforms"]
      /\ UNCHANGED <<haVars, coordinatorVars, on, uncovered>>
  BY DEF UnloadResumes, SetupPlaces, Goto
<1>2. /\ OnBuilt' /\ SyncOwned' /\ RestoreOwned' /\ HeldOwner' /\ RestoreQueue'
      /\ HAPlaces' /\ SetupOwned'
      /\ pc' \in [Calls -> Places]
      /\ pc'[t] = "platforms" /\ \A x \in Calls \ {t} : pc'[x] = pc[x]
  BY <1>1, InsideStep DEF haVars, coordinatorVars
<1>. USE DEF IInv
<1>3. TypeOK'
  BY <1>1, <1>2 DEF TypeOK, haVars, coordinatorVars
<1>4. UnloadInv'
  BY <1>1, <1>2 DEF UnloadInv, haVars, coordinatorVars
<1>5. WaitedInv'
  BY <1>1, <1>2 DEF WaitedInv, haVars, coordinatorVars
<1>6. RestoreInv' /\ LoadedOpen'
  BY <1>1, <1>2 DEF RestoreInv, LoadedOpen, haVars, coordinatorVars
<1>. QED BY <1>2, <1>3, <1>4, <1>5, <1>6

\* The wait ran out: whatever restore still runs there is known by gaveUp.
LEMMA UnloadTimeoutStep ==
    ASSUME IInv, NEW t \in Calls, UnloadTimeout(t) PROVE IInv'
<1>1. /\ pc[t] \in {"unloadWait", "unloadEdits"} /\ pc[t] \in SetupPlaces
      /\ "platforms" \in SetupPlaces
      /\ pc' = [pc EXCEPT ![t] = "platforms"]
      /\ gaveUp' = [gaveUp EXCEPT ![leaving] = TRUE]
      /\ UNCHANGED <<haVars, syncLock, restoreLock, inSync, held, unloading,
                     planEdits, open, on, uncovered>>
  BY DEF UnloadTimeout, SetupPlaces, Goto
<1>2. /\ OnBuilt' /\ SyncOwned' /\ RestoreOwned' /\ HeldOwner' /\ RestoreQueue'
      /\ HAPlaces' /\ SetupOwned'
      /\ pc' \in [Calls -> Places]
      /\ pc'[t] = "platforms" /\ \A x \in Calls \ {t} : pc'[x] = pc[x]
  BY <1>1, InsideStep DEF haVars
<1>. USE DEF IInv
<1>3. leaving \in Coordinators
  BY <1>1, BoundAssumption DEF UnloadInv, TypeOK, Coordinators
<1>4. /\ gaveUp' \in [Coordinators -> BOOLEAN] /\ gaveUp'[leaving]
      /\ \A d \in Coordinators : gaveUp[d] => gaveUp'[d]
  BY <1>1, <1>3 DEF TypeOK
<1>5. TypeOK'
  BY <1>1, <1>2, <1>4 DEF TypeOK, haVars
<1>6. UnloadInv'
  BY <1>1, <1>2 DEF UnloadInv, haVars
<1>7. WaitedInv'
  BY <1>1, <1>4 DEF WaitedInv, haVars
<1>8. \A r \in Calls : pc[r] = "restoring" => on[r] \in Coordinators
  BY BoundAssumption DEF OnBuilt, TypeOK, Coordinators
<1>9. RestoreInv' /\ LoadedOpen'
  BY <1>1, <1>2, <1>4, <1>8 DEF RestoreInv, LoadedOpen, haVars
<1>. QED BY <1>2, <1>5, <1>6, <1>7, <1>9

\* The entry is unloaded: a restore that is still there was left behind.
LEMMA PlatformsUnloadedStep ==
    ASSUME IInv, NEW t \in Calls, PlatformsUnloaded(t) PROVE IInv'
<1>1. /\ pc[t] = "platforms" /\ pc[t] \in SetupPlaces /\ "closing" \in SetupPlaces
      /\ pc' = [pc EXCEPT ![t] = "closing"] /\ current' = 0
      /\ UNCHANGED <<born, setupLock, leaving, coordinatorVars, on, uncovered>>
  BY DEF PlatformsUnloaded, SetupPlaces, Goto
<1>2. /\ OnBuilt' /\ SyncOwned' /\ RestoreOwned' /\ HeldOwner' /\ RestoreQueue'
      /\ HAPlaces' /\ SetupOwned'
      /\ pc' \in [Calls -> Places]
      /\ pc'[t] = "closing" /\ \A x \in Calls \ {t} : pc'[x] = pc[x]
      /\ \A x \in Calls \ {t} : pc[x] \notin SetupPlaces
  BY <1>1, InsideStep DEF coordinatorVars
<1>. USE DEF IInv
<1>3. leaving = current /\ current # 0
  BY <1>1 DEF UnloadInv
<1>4. TypeOK'
  BY <1>1, <1>2, BoundAssumption DEF TypeOK, coordinatorVars, Coordinators
<1>5. UnloadInv'
  BY <1>1, <1>2, <1>3 DEF UnloadInv, SetupPlaces
<1>6. WaitedInv'
  BY <1>1, <1>2 DEF WaitedInv, SetupPlaces
<1>7. \A r \in Calls : pc[r] = "restoring" => gaveUp[on[r]]
  BY <1>1, <1>3 DEF RestoreInv, WaitedInv
<1>8. RestoreInv' /\ LoadedOpen'
  BY <1>1, <1>2, <1>7 DEF RestoreInv, LoadedOpen, coordinatorVars
<1>. QED BY <1>2, <1>4, <1>5, <1>6, <1>8

\* Closing the session of an unloaded coordinator concerns no loaded one.
LEMMA CloseSessionStep ==
    ASSUME IInv, NEW t \in Calls, CloseSession(t) PROVE IInv'
<1>1. /\ pc[t] = "closing" /\ pc[t] \in SetupPlaces /\ "setup" \in SetupPlaces
      /\ pc' = [pc EXCEPT ![t] = "setup"] /\ leaving' = 0
      /\ open' = [open EXCEPT ![leaving] = FALSE]
      /\ UNCHANGED <<current, born, setupLock, syncLock, restoreLock, inSync,
                     held, unloading, planEdits, gaveUp, on, uncovered>>
  BY DEF CloseSession, SetupPlaces, Goto
<1>2. /\ OnBuilt' /\ SyncOwned' /\ RestoreOwned' /\ HeldOwner' /\ RestoreQueue'
      /\ HAPlaces' /\ SetupOwned'
      /\ pc' \in [Calls -> Places]
      /\ pc'[t] = "setup" /\ \A x \in Calls \ {t} : pc'[x] = pc[x]
      /\ \A x \in Calls \ {t} : pc[x] \notin SetupPlaces
  BY <1>1, InsideStep
<1>. USE DEF IInv
<1>3. current = 0
  BY <1>1 DEF UnloadInv
<1>4. TypeOK'
  <2>1. open' \in [Coordinators -> BOOLEAN]
    BY <1>1 DEF TypeOK
  <2>2. leaving' \in 0 .. born
    BY <1>1, BoundAssumption DEF TypeOK, Coordinators
  <2>. QED BY <1>1, <1>2, <2>1, <2>2 DEF TypeOK
<1>5. UnloadInv'
  BY <1>1, <1>2, <1>3 DEF UnloadInv, SetupPlaces
<1>6. WaitedInv'
  BY <1>1, <1>2 DEF WaitedInv, SetupPlaces
<1>7. RestoreInv' /\ LoadedOpen'
  BY <1>1, <1>2, <1>3 DEF RestoreInv, LoadedOpen
<1>. QED BY <1>2, <1>4, <1>5, <1>6, <1>7

\* The reload is over: the setup lock and the caller's own locks are free.
LEMMA ReturnFacts ==
    ASSUME IInv, NEW t \in Calls, pc[t] \in SetupPlaces, ReturnToCaller(t),
           on' = on, born' \in Coordinators, born' \in {born, born + 1}
    PROVE  /\ OnBuilt' /\ SyncOwned' /\ RestoreOwned' /\ HeldOwner' /\ RestoreQueue'
           /\ HAPlaces' /\ SetupOwned'
           /\ pc' \in [Calls -> Places] /\ setupLock' \in Lock
           /\ syncLock' \in [Coordinators -> Lock]
           /\ restoreLock' \in [Coordinators -> Lock]
           /\ held' \in [Coordinators -> BOOLEAN]
           /\ \A x \in Calls : pc'[x] \notin SetupPlaces
           /\ \A x \in Calls : pc'[x] = "restoring" => pc[x] = "restoring"
<1>1. /\ pc' \in [Calls -> Places] /\ pc'[t] = "done"
      /\ \A x \in Calls \ {t} : pc'[x] = pc[x]
  BY DEF ReturnToCaller, Goto, IInv, TypeOK, Places
<1>2. \A x \in Calls \ {t} : pc[x] \notin SetupPlaces
  BY DEF IInv, SetupOwned
<1>3. setupLock' \in Lock
  BY LockFacts DEF ReturnToCaller, IInv, TypeOK
<1>4. /\ \A x \in Calls \ {t} : OwnsSync(x)' = OwnsSync(x) /\ HoldsOff(x)' = HoldsOff(x)
      /\ ~OwnsSync(t)' /\ ~HoldsOff(t)'
      /\ t \notin HAReloads => HoldsOff(t)
  BY <1>1 DEF OwnsSync, HoldsOff, OwnsSyncPlaces, HoldsOffPlaces, ReloadPlaces, SetupPlaces
<1>5. /\ syncLock' \in [Coordinators -> Lock]
      /\ restoreLock' \in [Coordinators -> Lock]
      /\ held' \in [Coordinators -> BOOLEAN]
      /\ \A d \in Coordinators :
            /\ restoreLock'[d].queue = restoreLock[d].queue
            /\ syncLock'[d].owner = syncLock[d].owner \/ syncLock[d].owner = t
            /\ restoreLock'[d].owner = restoreLock[d].owner \/ restoreLock[d].owner = t
            /\ held'[d] => held[d] /\ restoreLock[d].owner # t
  <2>1. CASE t \in HAReloads
    <3>1. UNCHANGED <<held, restoreLock, syncLock>> /\ ~HoldsOff(t)
      BY <2>1 DEF ReturnToCaller, HoldsOff
    <3>2. \A d \in Coordinators : held[d] => restoreLock[d].owner # t
      BY <3>1, NotHolder DEF IInv
    <3>. QED BY <3>1, <3>2 DEF IInv, TypeOK
  <2>2. CASE t \notin HAReloads
    <3>1. ReleaseBoth(on[t]) /\ HoldsOff(t)
      BY <1>4, <2>2 DEF ReturnToCaller
    <3>2. /\ on[t] \in Coordinators
          /\ syncLock[on[t]].owner = t /\ restoreLock[on[t]].owner = t
          /\ syncLock' \in [Coordinators -> Lock]
          /\ restoreLock' \in [Coordinators -> Lock]
          /\ held' \in [Coordinators -> BOOLEAN] /\ ~held'[on[t]]
          /\ \A d \in Coordinators :
                restoreLock'[d].queue = restoreLock[d].queue
          /\ \A d \in Coordinators \ {on[t]} :
                /\ syncLock'[d] = syncLock[d] /\ restoreLock'[d] = restoreLock[d]
                /\ held'[d] = held[d] /\ (held[d] => restoreLock[d].owner # t)
      BY <3>1, ReleaseBothFacts
    <3>. QED BY <3>2
  <2>. QED BY <2>1, <2>2
<1>6. /\ \A x \in Calls : x # NoCall
      /\ \A x \in Calls : OwnsSync(x) \/ pc[x] = "restoring" => on[x] \in Coordinators
      /\ \A x \in Calls : HoldsOff(x) => OwnsSync(x)
  BY BoundAssumption, CallsAssumption
     DEF IInv, OnBuilt, TypeOK, Coordinators, HoldsOff, OwnsSync, OwnsSyncPlaces
<1>. USE DEF IInv
<1>7. OnBuilt'
  <2>1. 1 .. born \subseteq 1 .. born'
    BY BoundAssumption DEF TypeOK, Coordinators
  <2>. QED BY <1>1, <1>4, <2>1 DEF OnBuilt, QueuePlaces
<1>8. SyncOwned' /\ RestoreOwned'
  BY <1>1, <1>4, <1>5, <1>6 DEF SyncOwned, RestoreOwned
<1>9. HeldOwner'
  <2>1. SUFFICES ASSUME NEW d \in Coordinators, held'[d]
                 PROVE  \E x \in Calls : restoreLock'[d].owner = x /\ HoldsOff(x)' /\ on'[x] = d
    BY DEF HeldOwner
  <2>2. held[d] /\ restoreLock[d].owner # t
    BY <1>5, <2>1
  <2>3. PICK x \in Calls : restoreLock[d].owner = x /\ HoldsOff(x) /\ on[x] = d
    BY <2>2 DEF HeldOwner
  <2>. QED BY <1>4, <1>5, <2>2, <2>3
<1>10. RestoreQueue'
  <2>1. SUFFICES ASSUME NEW d \in Coordinators, restoreLock'[d].queue # <<>>
                 PROVE  \E x \in Calls : /\ restoreLock'[d].queue = <<x>>
                                         /\ pc'[x] = "holdQueued" /\ on'[x] = d
    BY DEF RestoreQueue
  <2>2. restoreLock'[d].queue = restoreLock[d].queue
    BY <1>5
  <2>3. PICK x \in Calls : /\ restoreLock[d].queue = <<x>>
                           /\ pc[x] = "holdQueued" /\ on[x] = d
    BY <2>1, <2>2 DEF RestoreQueue
  <2>4. x # t
    BY <2>3 DEF SetupPlaces
  <2>. QED BY <1>1, <2>2, <2>3, <2>4
<1>11. HAPlaces'
  BY <1>1, KindFacts DEF HAPlaces
<1>12. \A x \in Calls : pc'[x] \notin SetupPlaces
  BY <1>1, <1>2 DEF SetupPlaces
<1>13. SetupOwned'
  BY <1>12 DEF SetupOwned
<1>14. \A x \in Calls : pc'[x] = "restoring" => pc[x] = "restoring"
  BY <1>1
<1>. QED BY <1>1, <1>3, <1>5, <1>7, <1>8, <1>9, <1>10, <1>11, <1>12, <1>13, <1>14

\* What the invariant says of the unload is about calls inside the setup lock.
LEMMA NobodyUnloads ==
    ASSUME \A x \in Calls : pc'[x] \notin SetupPlaces
    PROVE  UnloadInv' /\ WaitedInv'
  BY DEF UnloadInv, WaitedInv, SetupPlaces

\* A failed unload leaves the entry loaded and returns to its caller.
LEMMA PlatformsStayStep ==
    ASSUME IInv, NEW t \in Calls, PlatformsStay(t) PROVE IInv'
<1>1. /\ pc[t] = "platforms" /\ pc[t] \in SetupPlaces /\ ReturnToCaller(t)
      /\ unloading' = [unloading EXCEPT ![leaving] = FALSE] /\ leaving' = 0
      /\ UNCHANGED <<current, born, inSync, planEdits, open, gaveUp, on, uncovered>>
  BY DEF PlatformsStay, SetupPlaces
<1>. USE DEF IInv
<1>2. born' \in Coordinators /\ born' \in {born, born + 1} /\ leaving' \in 0 .. born
  BY <1>1, BoundAssumption DEF TypeOK, Coordinators
<1>3. /\ OnBuilt' /\ SyncOwned' /\ RestoreOwned' /\ HeldOwner' /\ RestoreQueue'
      /\ HAPlaces' /\ SetupOwned'
      /\ pc' \in [Calls -> Places] /\ setupLock' \in Lock
      /\ syncLock' \in [Coordinators -> Lock]
      /\ restoreLock' \in [Coordinators -> Lock]
      /\ held' \in [Coordinators -> BOOLEAN]
      /\ \A x \in Calls : pc'[x] \notin SetupPlaces
      /\ \A x \in Calls : pc'[x] = "restoring" => pc[x] = "restoring"
  BY <1>1, <1>2, ReturnFacts
<1>4. unloading' \in [Coordinators -> BOOLEAN]
  BY <1>1 DEF TypeOK
<1>5. TypeOK'
  BY <1>1, <1>2, <1>3, <1>4 DEF TypeOK
<1>6. RestoreInv' /\ LoadedOpen'
  BY <1>1, <1>3 DEF RestoreInv, LoadedOpen
<1>. QED BY <1>3, <1>5, <1>6, NobodyUnloads

\* A new coordinator is loaded and open; every restore still running belongs to
\* an older one, which an unload gave up on.
LEMMA SetupEntryStep ==
    ASSUME IInv, NEW t \in Calls, SetupEntry(t) PROVE IInv'
<1>1. /\ pc[t] = "setup" /\ pc[t] \in SetupPlaces /\ ReturnToCaller(t)
      /\ born < MaxCoordinators /\ born' = born + 1 /\ current' = born + 1
      /\ open' = [open EXCEPT ![born + 1] = TRUE]
      /\ UNCHANGED <<leaving, inSync, unloading, planEdits, gaveUp, on, uncovered>>
  BY DEF SetupEntry, SetupPlaces
<1>. USE DEF IInv
<1>2. /\ born' \in Coordinators /\ born' \in {born, born + 1}
      /\ current' \in 0 .. born' /\ leaving' \in 0 .. born'
  BY <1>1, BoundAssumption DEF TypeOK, Coordinators
<1>3. /\ OnBuilt' /\ SyncOwned' /\ RestoreOwned' /\ HeldOwner' /\ RestoreQueue'
      /\ HAPlaces' /\ SetupOwned'
      /\ pc' \in [Calls -> Places] /\ setupLock' \in Lock
      /\ syncLock' \in [Coordinators -> Lock]
      /\ restoreLock' \in [Coordinators -> Lock]
      /\ held' \in [Coordinators -> BOOLEAN]
      /\ \A x \in Calls : pc'[x] \notin SetupPlaces
      /\ \A x \in Calls : pc'[x] = "restoring" => pc[x] = "restoring"
  BY <1>1, <1>2, ReturnFacts
<1>4. open' \in [Coordinators -> BOOLEAN] /\ open'[current']
  BY <1>1, <1>2 DEF TypeOK
<1>5. TypeOK'
  BY <1>1, <1>2, <1>3, <1>4 DEF TypeOK
<1>6. \A r \in Calls : pc[r] = "restoring" => gaveUp[on[r]]
  <2>1. current = 0
    BY <1>1 DEF UnloadInv
  <2>2. \A r \in Calls : pc[r] = "restoring" => on[r] # 0
    BY BoundAssumption DEF OnBuilt, TypeOK, Coordinators
  <2>. QED BY <2>1, <2>2 DEF RestoreInv
<1>7. RestoreInv' /\ LoadedOpen'
  BY <1>1, <1>3, <1>4, <1>6 DEF RestoreInv, LoadedOpen
<1>. QED BY <1>3, <1>5, <1>7, NobodyUnloads

\* A failed set-up leaves no coordinator loaded.
LEMMA SetupFailsStep ==
    ASSUME IInv, NEW t \in Calls, SetupFails(t) PROVE IInv'
<1>1. /\ pc[t] = "setup" /\ pc[t] \in SetupPlaces /\ ReturnToCaller(t)
      /\ UNCHANGED <<current, born, leaving, inSync, unloading, planEdits, open,
                     gaveUp, on, uncovered>>
  BY DEF SetupFails, SetupPlaces
<1>. USE DEF IInv
<1>2. born' \in Coordinators /\ born' \in {born, born + 1}
  BY <1>1 DEF TypeOK
<1>3. /\ OnBuilt' /\ SyncOwned' /\ RestoreOwned' /\ HeldOwner' /\ RestoreQueue'
      /\ HAPlaces' /\ SetupOwned'
      /\ pc' \in [Calls -> Places] /\ setupLock' \in Lock
      /\ syncLock' \in [Coordinators -> Lock]
      /\ restoreLock' \in [Coordinators -> Lock]
      /\ held' \in [Coordinators -> BOOLEAN]
      /\ \A x \in Calls : pc'[x] \notin SetupPlaces
      /\ \A x \in Calls : pc'[x] = "restoring" => pc[x] = "restoring"
  BY <1>1, <1>2, ReturnFacts
<1>4. TypeOK'
  BY <1>1, <1>3 DEF TypeOK
<1>5. RestoreInv' /\ LoadedOpen'
  BY <1>1, <1>3 DEF RestoreInv, LoadedOpen
<1>. QED BY <1>3, <1>4, <1>5, NobodyUnloads

-----------------------------------------------------------------------------
(* The theorems *)

\* At the start nothing runs and every lock is free.
LEMMA InitInv == Init => IInv
<1>. SUFFICES ASSUME Init PROVE IInv
  OBVIOUS
<1>1. UnusedLock \in Lock /\ UnusedLock.owner = NoCall /\ UnusedLock.queue = <<>>
  BY DEF UnusedLock, Lock
<1>2. \A t \in Calls : ~OwnsSync(t) /\ ~HoldsOff(t) /\ pc[t] = "idle"
  BY DEF Init, OwnsSync, OwnsSyncPlaces, HoldsOff, HoldsOffPlaces, ReloadPlaces
<1>3. TypeOK
  <2>1. /\ syncLock \in [Coordinators -> Lock]
        /\ restoreLock \in [Coordinators -> Lock]
        /\ setupLock \in Lock
    BY <1>1 DEF Init
  <2>2. /\ current \in 0 .. born /\ born \in Coordinators /\ leaving \in 0 .. born
    BY BoundAssumption DEF Init, Coordinators
  <2>3. /\ pc \in [Calls -> Places] /\ on \in [Calls -> 0 .. MaxCoordinators]
    BY BoundAssumption DEF Init, Places
  <2>4. /\ inSync \in [Coordinators -> BOOLEAN] /\ held \in [Coordinators -> BOOLEAN]
        /\ unloading \in [Coordinators -> BOOLEAN]
        /\ planEdits \in [Coordinators -> SUBSET Calls]
        /\ open \in [Coordinators -> BOOLEAN] /\ gaveUp \in [Coordinators -> BOOLEAN]
        /\ uncovered \subseteq Calls
    BY DEF Init
  <2>. QED BY <2>1, <2>2, <2>3, <2>4 DEF TypeOK
<1>4. HAPlaces /\ OnBuilt /\ SyncOwned /\ RestoreOwned /\ SetupOwned
  BY <1>2, KindFacts DEF HAPlaces, OnBuilt, SyncOwned, RestoreOwned, SetupOwned, QueuePlaces,
     SetupPlaces
<1>5. HeldOwner /\ RestoreQueue /\ LoadedOpen
  <2>1. \A c \in Coordinators : ~held[c] /\ restoreLock[c].queue = <<>>
    BY <1>1 DEF Init
  <2>2. 1 \in Coordinators /\ current = 1
    BY BoundAssumption DEF Init, Coordinators
  <2>3. open[current]
    BY <2>2 DEF Init
  <2>. QED BY <2>1, <2>3 DEF HeldOwner, RestoreQueue, LoadedOpen
<1>6. UnloadInv /\ WaitedInv /\ RestoreInv
  BY <1>2 DEF UnloadInv, WaitedInv, RestoreInv
<1>. QED BY <1>3, <1>4, <1>5, <1>6 DEF IInv

\* One step of anything: the invariant is inductive.
LEMMA Inductive == IInv /\ [Next]_vars => IInv'
<1>. SUFFICES ASSUME IInv, [Next]_vars PROVE IInv'
  OBVIOUS
<1>1. CASE UNCHANGED vars
  BY <1>1 DEF vars, haVars, coordinatorVars, IInv, TypeOK, HAPlaces, OnBuilt, SyncOwned,
     RestoreOwned, HeldOwner, RestoreQueue, SetupOwned, UnloadInv, WaitedInv, RestoreInv,
     LoadedOpen, OwnsSync, HoldsOff
<1>2. CASE Quiet
  BY <1>1, <1>2 DEF Quiet
<1>3. ASSUME NEW t \in Calls, Request(t) PROVE IInv'
  BY <1>3, SyncPressStep, RestoreStep, EditCheckStep, CascadeStep, BackupEditStep,
     LockedWorkStep, ReloadRequestStep, PlaceSteps DEF Request
<1>4. ASSUME NEW t \in Calls, Proceed(t) PROVE IInv'
  BY <1>4, SyncWokenStep, SyncEndStep, PlaceSteps, RestoreEndStep, EditLoggedInStep,
     EditEndStep, LockWokenStep, LockedWorkEndStep, CleanupReloadStep, ReloadWokenStep,
     HoldWokenStep, ReloadRecheckStep, EnterSetupLockStep, UnloadBeginStep,
     UnloadPollStep, UnloadResumesStep, PlatformsUnloadedStep, PlatformsStayStep,
     CloseSessionStep, SetupEntryStep, SetupFailsStep DEF Proceed
<1>5. ASSUME NEW t \in Calls, UnloadTimeout(t) PROVE IInv'
  BY <1>5, UnloadTimeoutStep
<1>. QED BY <1>1, <1>2, <1>3, <1>4, <1>5 DEF Next

\* The invariant holds throughout, whatever calls are made and however many.
THEOREM Invariant == Spec => []IInv
<1>1. Init => IInv
  BY InitInv
<1>2. IInv /\ [Next]_vars => IInv'
  BY Inductive
<1>. QED BY <1>1, <1>2, PTL DEF Spec

\* Every variable keeps its type, for any sets of calls and any number of
\* reloads: locks are owned and awaited by calls, and the coordinators that
\* calls and the unload name exist.
THEOREM TypeCorrect == Spec => []TypeOK
<1>1. IInv => TypeOK
  BY DEF IInv
<1>. QED BY <1>1, Invariant, PTL

\* No reload, Home Assistant's own included, cuts off a running restore before
\* the bounded wait of the unload has run out (async_wait_before_unload).
THEOREM RestoreNeverCutOff == Spec => []RestoreNotCutOff
<1>1. IInv => RestoreNotCutOff
  <2>1. SUFFICES ASSUME IInv, NEW t \in Restores, pc[t] = "restoring"
                 PROVE  KeepsItsSession(t)
    BY DEF RestoreNotCutOff
  <2>2. t \in Calls /\ on[t] \in 1 .. born
    BY <2>1, KindFacts DEF IInv, OnBuilt
  <2>3. on[t] # 0
    BY <2>2, BoundAssumption DEF IInv, TypeOK, Coordinators
  <2>. QED BY <2>1, <2>2, <2>3 DEF IInv, RestoreInv, LoadedOpen, KeepsItsSession
<1>. QED BY <1>1, Invariant, PTL

\* While a restore rewrites a plan it is alone: no plan edit is marked on its
\* coordinator, no reload holds the restores off, no other restore runs.
THEOREM RestoreIsAlone == Spec => []RestoreAlone
<1>1. IInv => RestoreAlone
  <2>1. SUFFICES ASSUME IInv, NEW t \in Restores, pc[t] = "restoring"
                 PROVE  /\ planEdits[on[t]] = {}
                        /\ ~held[on[t]]
                        /\ \A r \in Restores \ {t} :
                              ~(pc[r] = "restoring" /\ on[r] = on[t])
    BY DEF RestoreAlone
  <2>2. t \in Calls /\ on[t] \in Coordinators /\ restoreLock[on[t]].owner = t
    BY <2>1, KindFacts, BoundAssumption
       DEF IInv, OnBuilt, TypeOK, Coordinators, RestoreOwned
  <2>3. planEdits[on[t]] = {}
    BY <2>1, <2>2 DEF IInv, RestoreInv
  <2>4. ~held[on[t]]
    <3>1. ~HoldsOff(t)
      BY <2>1 DEF HoldsOff, HoldsOffPlaces, ReloadPlaces
    <3>. QED BY <2>1, <2>2, <3>1, NotHolder DEF IInv
  <2>5. ASSUME NEW r \in Restores \ {t}, pc[r] = "restoring", on[r] = on[t]
        PROVE  FALSE
    <3>1. restoreLock[on[r]].owner = r
      BY <2>1, <2>5, KindFacts DEF IInv, RestoreOwned
    <3>. QED BY <2>2, <2>5, <3>1
  <2>. QED BY <2>3, <2>4, <2>5
<1>. QED BY <1>1, Invariant, PTL

\* A restore that found nothing running gets the lock without waiting: whoever
\* waits for the restore lock holds the sync lock, which the restore looked at.
THEOREM RestoreAtOnce == Spec => []RestoreTakesLockAtOnce
<1>1. IInv => RestoreTakesLockAtOnce
  <2>1. SUFFICES ASSUME IInv, NEW c \in Coordinators, ~PlansBusy(c)
                 PROVE  Free(restoreLock[c])
    BY DEF RestoreTakesLockAtOnce
  <2>2. ~Locked(syncLock[c]) /\ ~Locked(restoreLock[c])
    BY <2>1 DEF PlansBusy
  <2>3. ASSUME NEW t \in Calls, pc[t] = "holdQueued", on[t] = c PROVE FALSE
    <3>1. t \notin HAReloads
      BY <2>1, <2>3 DEF IInv, HAPlaces, ReloadPlaces
    <3>2. syncLock[c].owner = t
      BY <2>1, <2>3, <3>1, OwnerFacts DEF OwnsSyncPlaces
    <3>. QED BY <2>2, <3>2, CallsAssumption DEF Locked
  <2>4. restoreLock[c].queue = <<>>
    BY <2>1, <2>3 DEF IInv, RestoreQueue
  <2>. QED BY <2>2, <2>4 DEF Free
<1>. QED BY <1>1, Invariant, PTL

-----------------------------------------------------------------------------
(* What keeps syncs, restores, plan edits and own reloads apart while every    *)
(* unload succeeds.                                                            *)
(*                                                                             *)
(* The argument is about the line for a sync lock.  Only a reload queues       *)
(* behind an owner; every other call asks locked() first, so it queues only    *)
(* behind a woken waiter.  A sync, cleanup or range check therefore reaches    *)
(* the head of a free lock's line only on a coordinator that a reload has      *)
(* already replaced, and then no restore runs there.                           *)

\* An owner that is not gone before its coordinator is, unless it queued.
StayPlaces == {"sync", "holdQueued"} \union HoldsOffPlaces

Line(c) == syncLock[c].queue

\* A coordinator that a reload replaced, with no restore left behind on it.
Retired(c) ==
    /\ c # current /\ c <= born
    /\ \A r \in Calls : ~(pc[r] = "restoring" /\ on[r] = c)

\* Who stands in line waits for this lock, and only once.
InLine ==
    \A c \in Coordinators : \A i \in 1 .. Len(Line(c)) :
        pc[Line(c)[i]] \in QueuePlaces /\ on[Line(c)[i]] = c

LineOnce ==
    \A c \in Coordinators : \A i, j \in 1 .. Len(Line(c)) :
        Line(c)[i] = Line(c)[j] => i = j

\* The head of a line is a reload, or the lock's owner ends with the
\* coordinator, or that is gone already.
LineHead ==
    \A c \in Coordinators : Line(c) # <<>> =>
        \/ Retired(c)
        \/ pc[Line(c)[1]] = "reloadQueued"
        \/ \E x \in Calls : /\ syncLock[c].owner = x /\ on[x] = c
                            /\ x \notin HAReloads /\ pc[x] \in StayPlaces

Exclusive ==
    \A r, s \in Calls :
        /\ pc[r] = "restoring" /\ pc[s] \in {"sync", "cleanup", "ranging"}
        => on[r] # on[s]

\* A sync on a coordinator that is not loaded was left behind ...
SyncLoaded ==
    \A s \in Calls : pc[s] = "sync" => on[s] = current \/ gaveUp[on[s]]

\* ... by an unload whose wait ran out.
WaitedForSync ==
    \A u, s \in Calls :
        /\ pc[u] \in {"unloadEdits", "unloadWoken", "platforms"}
        /\ pc[s] = "sync" /\ on[s] = leaving
        => gaveUp[leaving]

ReloadKind == \A t \in Calls : pc[t] = "reloadQueued" => t \in Reloads

EditMarked == \A t \in Calls : pc[t] = "editing" => t \in planEdits[on[t]]

\* The calls on their way to a reload that no plan edit may run beside: a sync
\* or cleanup from its check on, a reload once it has waited for the edits.
ReloadsSoon(r) ==
    /\ r \notin HAReloads
    /\ \/ pc[r] \in {"sync", "settle", "cleanup", "cleaned", "editsDone"}
                    \union ReloadPlaces
       \/ pc[r] = "holdQueued" /\ r \in Syncs \union Cleanups

EditHold ==
    \A r \in Calls, t \in Edits \union Cascades :
        ReloadsSoon(r) /\ pc[t] = "editing" /\ on[t] = on[r] => on[r] # current

ClosingHold ==
    \A r \in Calls, t \in Edits \union Cascades :
        /\ r \notin HAReloads /\ pc[r] = "closing" /\ on[r] = leaving
        /\ pc[t] = "editing"
        => on[t] # leaving

LeavingUnloads == leaving # 0 => unloading[leaving]

XInv ==
    /\ InLine /\ LineOnce /\ LineHead /\ Exclusive /\ SyncLoaded
    /\ WaitedForSync /\ ReloadKind /\ EditMarked /\ EditHold /\ ClosingHold
    /\ LeavingUnloads

-----------------------------------------------------------------------------
(* The line for a lock *)

LEMMA LineFacts ==
    ASSUME NEW q \in Seq(Calls), NEW t \in Calls
    PROVE  /\ q = <<>> <=> Len(q) = 0
           /\ Len(q) \in Nat
           /\ \A i \in 1 .. Len(q) : q[i] \in Calls
           /\ Append(q, t) \in Seq(Calls)
           /\ Len(Append(q, t)) = Len(q) + 1
           /\ \A i \in 1 .. Len(q) : Append(q, t)[i] = q[i]
           /\ Append(q, t)[Len(q) + 1] = t
           /\ q # <<>> =>
                 /\ Head(q) = q[1] /\ Tail(q) \in Seq(Calls)
                 /\ Len(Tail(q)) = Len(q) - 1
                 /\ \A i \in 1 .. Len(Tail(q)) : Tail(q)[i] = q[i + 1]
  OBVIOUS

\* What call t's move to place p does to the line for c's sync lock.
LineStays(t, p) ==
    /\ pc[t] \notin QueuePlaces /\ p \notin QueuePlaces
    /\ \A d \in Coordinators : syncLock'[d].queue = syncLock[d].queue

LineGrows(t, p, c) ==
    /\ pc[t] = "idle" /\ p \in QueuePlaces
    /\ c \in Coordinators
    /\ syncLock'[c].queue = Append(syncLock[c].queue, t)
    /\ syncLock[c].queue = <<>> => p = "reloadQueued"
    /\ \A d \in Coordinators \ {c} : syncLock'[d].queue = syncLock[d].queue

LineShrinks(t, p, c) ==
    /\ pc[t] \in QueuePlaces /\ p \notin QueuePlaces
    /\ c \in Coordinators /\ Woken(syncLock[c], t)
    /\ syncLock'[c].queue = Tail(syncLock[c].queue)
    /\ \A d \in Coordinators \ {c} : syncLock'[d].queue = syncLock[d].queue

LineMoves(t, p, c) == LineStays(t, p) \/ LineGrows(t, p, c) \/ LineShrinks(t, p, c)

\* A call joins a line once, and leaves it from its head.
LEMMA LineKept ==
    ASSUME TypeOK, TypeOK', InLine, LineOnce,
           NEW t \in Calls, NEW p \in Places, NEW c \in 0 .. MaxCoordinators,
           pc' = [pc EXCEPT ![t] = p], on' = [on EXCEPT ![t] = c],
           pc[t] # "idle" => c = on[t],
           LineMoves(t, p, c)
    PROVE  InLine' /\ LineOnce'
<1>1. /\ pc'[t] = p /\ on'[t] = c
      /\ \A x \in Calls \ {t} : pc'[x] = pc[x] /\ on'[x] = on[x]
      /\ \A d \in Coordinators : Line(d) \in Seq(Calls) /\ Line(d)' \in Seq(Calls)
  BY DEF TypeOK, Lock, Line
<1>2. ASSUME NEW d \in Coordinators, pc[t] \notin QueuePlaces, Line(d)' = Line(d)
      PROVE  /\ \A i \in 1 .. Len(Line(d)') :
                    pc'[Line(d)'[i]] \in QueuePlaces /\ on'[Line(d)'[i]] = d
             /\ \A i, j \in 1 .. Len(Line(d)') : Line(d)'[i] = Line(d)'[j] => i = j
  <2>1. \A i \in 1 .. Len(Line(d)) : Line(d)[i] \in Calls \ {t}
    BY <1>1, <1>2, LineFacts DEF InLine
  <2>. QED BY <1>1, <1>2, <2>1 DEF InLine, LineOnce
<1>3. CASE LineStays(t, p)
  <2>1. pc[t] \notin QueuePlaces /\ \A d \in Coordinators : Line(d)' = Line(d)
    BY <1>3 DEF LineStays, Line
  <2>2. InLine'
    BY <1>2, <2>1 DEF InLine
  <2>3. LineOnce'
    BY <1>2, <2>1 DEF LineOnce
  <2>. QED BY <2>2, <2>3
<1>4. CASE LineGrows(t, p, c)
  <2>1. /\ pc[t] \notin QueuePlaces
        /\ \A d \in Coordinators \ {c} : Line(d)' = Line(d)
        /\ Line(c)' = Append(Line(c), t)
    BY <1>4 DEF LineGrows, QueuePlaces, Line
  <2>2. /\ \A i \in 1 .. Len(Line(c)) : Line(c)[i] \in Calls \ {t}
        /\ Len(Line(c)') = Len(Line(c)) + 1
        /\ \A i \in 1 .. Len(Line(c)) : Line(c)'[i] = Line(c)[i]
        /\ Line(c)'[Len(Line(c)) + 1] = t
        /\ Len(Line(c)) \in Nat
    BY <1>1, <1>4, <2>1, LineFacts DEF InLine, LineGrows
  <2>3. \A i \in 1 .. Len(Line(c)') :
            pc'[Line(c)'[i]] \in QueuePlaces /\ on'[Line(c)'[i]] = c
    BY <1>1, <1>4, <2>2 DEF InLine, LineGrows
  <2>4. \A i, j \in 1 .. Len(Line(c)') : Line(c)'[i] = Line(c)'[j] => i = j
    BY <1>4, <2>2 DEF LineOnce, LineGrows
  <2>5. InLine'
    BY <1>2, <2>1, <2>3 DEF InLine
  <2>6. LineOnce'
    BY <1>2, <2>1, <2>4 DEF LineOnce
  <2>. QED BY <2>5, <2>6
<1>5. CASE LineShrinks(t, p, c)
  <2>1. /\ \A d \in Coordinators \ {c} : Line(d)' = Line(d)
        /\ Line(c)' = Tail(Line(c))
        /\ Line(c) # <<>> /\ Head(Line(c)) = t
        /\ c \in Coordinators
    BY <1>5 DEF LineShrinks, Line, Woken
  <2>2. /\ Line(c)[1] = t /\ 1 \in 1 .. Len(Line(c))
        /\ Len(Line(c)') = Len(Line(c)) - 1 /\ Len(Line(c)) \in Nat
        /\ \A i \in 1 .. Len(Line(c)') :
              Line(c)'[i] = Line(c)[i + 1] /\ i + 1 \in 1 .. Len(Line(c))
    BY <1>1, <2>1, LineFacts
  <2>3. on[t] = c
    BY <2>1, <2>2 DEF InLine
  <2>4. \A i \in 1 .. Len(Line(c)') : Line(c)'[i] \in Calls \ {t}
    BY <1>1, <2>1, <2>2, LineFacts DEF LineOnce
  <2>5. /\ \A i \in 1 .. Len(Line(c)') :
               pc'[Line(c)'[i]] \in QueuePlaces /\ on'[Line(c)'[i]] = c
        /\ \A i, j \in 1 .. Len(Line(c)') : Line(c)'[i] = Line(c)'[j] => i = j
    BY <1>1, <2>1, <2>2, <2>4 DEF InLine, LineOnce
  <2>6. ASSUME NEW d \in Coordinators \ {c}
        PROVE  /\ \A i \in 1 .. Len(Line(d)') :
                      pc'[Line(d)'[i]] \in QueuePlaces /\ on'[Line(d)'[i]] = d
               /\ \A i, j \in 1 .. Len(Line(d)') : Line(d)'[i] = Line(d)'[j] => i = j
    <3>1. \A i \in 1 .. Len(Line(d)) : Line(d)[i] \in Calls \ {t}
      BY <1>1, <2>3, <2>6, LineFacts DEF InLine
    <3>. QED BY <1>1, <2>1, <2>6, <3>1 DEF InLine, LineOnce
  <2>. QED BY <2>5, <2>6 DEF InLine, LineOnce
<1>. QED BY <1>3, <1>4, <1>5 DEF LineMoves

-----------------------------------------------------------------------------
(* The steps of a call that leave Home Assistant's side alone *)

\* What such a step of call t, to place p and coordinator c, may change.
Turn(t, p, c) ==
    /\ UNCHANGED <<current, born, leaving, unloading, gaveUp>>
    /\ pc' = [pc EXCEPT ![t] = p] /\ on' = [on EXCEPT ![t] = c]
    /\ pc[t] # "idle" => c = on[t]
    /\ p \notin SetupPlaces
    /\ LineMoves(t, p, c)
    \* a lock with a line changes hands only in its order
    /\ \A d \in Coordinators :
          \/ syncLock'[d].owner = syncLock[d].owner
          \/ syncLock'[d].queue = <<>>
          \/ d = c /\ LineShrinks(t, p, c)
          \/ syncLock[d].owner = t /\ pc[t] \in {"cleanup", "ranging", "knx"}
          \/ Retired(d)
    /\ LineShrinks(t, p, c) /\ pc[t] = "reloadQueued" =>
          syncLock'[c].owner = t /\ t \notin HAReloads /\ p \in StayPlaces
    /\ t \notin HAReloads /\ pc[t] \in StayPlaces =>
          p \in StayPlaces \/ Retired(c)
    /\ p = "restoring" =>
          syncLock[c].owner = NoCall /\ c = current /\ current \in Coordinators
    /\ p \in {"sync", "cleanup", "ranging"} /\ pc[t] # p =>
          c \in Coordinators /\ (Retired(c) \/ restoreLock[c].owner = NoCall)
    /\ p = "sync" => c = current /\ ~unloading[c]
    /\ p = "reloadQueued" => t \in Reloads
    /\ \A x \in Calls \ {t}, d \in Coordinators :
          x \in planEdits[d] => x \in planEdits'[d]
    /\ p = "editing" => t \in planEdits'[c]
    /\ p = "editing" /\ t \in Edits \union Cascades =>
          syncLock[c].owner = NoCall /\ ~unloading[c]
    /\ ReloadsSoon(t)' =>
          (ReloadsSoon(t) /\ c = on[t]) \/ planEdits[c] = {} \/ c # current

\* A free lock whose head of line is no reload belongs to a coordinator that a
\* reload has replaced.
LEMMA HeadRetired ==
    ASSUME IInv, XInv, NEW t \in Calls, NEW c \in Coordinators,
           Woken(syncLock[c], t), pc[t] # "reloadQueued"
    PROVE  Retired(c) /\ on[t] = c
<1>1. /\ Line(c) \in Seq(Calls) /\ Line(c) # <<>> /\ Head(Line(c)) = t
      /\ syncLock[c].owner = NoCall
  BY DEF IInv, TypeOK, Lock, Line, Woken, Locked
<1>2. Line(c)[1] = t /\ 1 \in 1 .. Len(Line(c))
  BY <1>1, LineFacts
<1>3. on[t] = c
  BY <1>2 DEF XInv, InLine
<1>. QED BY <1>1, <1>2, <1>3, CallsAssumption DEF XInv, LineHead

LEMMA TurnLineHead ==
    ASSUME IInv, IInv', XInv, NEW t \in Calls, NEW p \in Places,
           NEW c \in 0 .. MaxCoordinators, Turn(t, p, c)
    PROVE  LineHead'
<1>. USE CallsAssumption
<1>1. /\ pc'[t] = p /\ on'[t] = c
      /\ \A x \in Calls \ {t} : pc'[x] = pc[x] /\ on'[x] = on[x]
      /\ \A d \in Coordinators : Line(d) \in Seq(Calls) /\ Line(d)' \in Seq(Calls)
      /\ current' = current /\ born' = born
  <2>1. /\ pc'[t] = p /\ on'[t] = c
        /\ \A x \in Calls \ {t} : pc'[x] = pc[x] /\ on'[x] = on[x]
        /\ current' = current /\ born' = born
    BY DEF IInv, TypeOK, Turn
  <2>2. \A d \in Coordinators : Line(d) \in Seq(Calls) /\ Line(d)' \in Seq(Calls)
    BY DEF IInv, TypeOK, Lock, Line
  <2>. QED BY <2>1, <2>2
<1>2. ASSUME NEW d \in Coordinators, Retired(d)
      PROVE  Retired(d)'
  BY <1>1, <1>2 DEF Retired, Turn
<1>3. SUFFICES ASSUME NEW d \in Coordinators, Line(d)' # <<>>, ~Retired(d)'
               PROVE  \/ pc'[Line(d)'[1]] = "reloadQueued"
                      \/ \E x \in Calls :
                            /\ syncLock'[d].owner = x /\ on'[x] = d
                            /\ x \notin HAReloads /\ pc'[x] \in StayPlaces
  BY DEF LineHead
<1>4. ~Retired(d)
  BY <1>2, <1>3
<1>5. CASE d = c /\ LineShrinks(t, p, c)
  <2>1. Woken(syncLock[c], t) /\ c \in Coordinators
    BY <1>5 DEF LineShrinks
  <2>2. pc[t] = "reloadQueued"
    BY <1>4, <1>5, <2>1, HeadRetired
  <2>3. syncLock'[c].owner = t /\ t \notin HAReloads /\ p \in StayPlaces
    BY <1>5, <2>2 DEF Turn
  <2>. QED BY <1>1, <1>5, <2>3
<1>6. CASE Line(d) = <<>>
  <2>1. LineGrows(t, p, c) /\ d = c
    BY <1>3, <1>6 DEF Turn, LineMoves, LineStays, LineGrows, LineShrinks, Line, Woken
  <2>2. Line(d)' = Append(Line(d), t) /\ p = "reloadQueued"
    BY <1>6, <2>1 DEF LineGrows, Line
  <2>3. Line(d)'[1] = t
    BY <1>6, <2>2
  <2>. QED BY <1>1, <2>2, <2>3
<1>7. CASE Line(d) # <<>> /\ ~(d = c /\ LineShrinks(t, p, c))
  <2>1. /\ Line(d)' = Line(d) \/ (Line(d)' = Append(Line(d), t) /\ pc[t] = "idle")
    BY <1>7 DEF Turn, LineMoves, LineStays, LineGrows, LineShrinks, Line
  <2>2. /\ Line(d)'[1] = Line(d)[1] /\ Line(d)[1] \in Calls
        /\ 1 \in 1 .. Len(Line(d))
    BY <1>1, <1>7, <2>1, LineFacts
  <2>3. pc[Line(d)[1]] \in QueuePlaces /\ on[Line(d)[1]] = d
    BY <2>2 DEF XInv, InLine
  <2>4. CASE pc[Line(d)[1]] = "reloadQueued"
    <3>1. Line(d)[1] # t
      <4>1. SUFFICES ASSUME Line(d)[1] = t PROVE FALSE
        OBVIOUS
      <4>2. pc[t] = "reloadQueued" /\ c = d
        BY <2>3, <2>4, <4>1 DEF Turn
      <4>3. ~LineStays(t, p) /\ ~LineGrows(t, p, c)
        BY <4>2 DEF LineStays, LineGrows, QueuePlaces
      <4>. QED BY <1>7, <4>2, <4>3 DEF Turn, LineMoves
    <3>. QED BY <1>1, <2>2, <2>4, <3>1
  <2>5. ASSUME NEW x \in Calls, syncLock[d].owner = x, on[x] = d,
               x \notin HAReloads, pc[x] \in StayPlaces
        PROVE  /\ syncLock'[d].owner = x /\ on'[x] = d /\ pc'[x] \in StayPlaces
    <3>1. x = t => c = d
      BY <2>5 DEF Turn, StayPlaces, HoldsOffPlaces, ReloadPlaces
    <3>2. on'[x] = d
      BY <1>1, <2>5, <3>1
    <3>3. pc'[x] \in StayPlaces
      BY <1>1, <1>4, <2>5, <3>1 DEF Turn
    <3>4. syncLock'[d].queue # <<>>
      BY <1>3 DEF Line
    <3>5. x = t => pc[t] \notin {"cleanup", "ranging", "knx"}
      BY <2>5 DEF StayPlaces, HoldsOffPlaces, ReloadPlaces
    <3>6. syncLock'[d].owner = x
      BY <1>4, <1>7, <2>5, <3>4, <3>5 DEF Turn
    <3>. QED BY <3>2, <3>3, <3>6
  <2>. QED BY <1>4, <1>7, <2>4, <2>5 DEF XInv, LineHead
<1>. QED BY <1>5, <1>6, <1>7

\* Such a step keeps the restores and the syncs, cleanups and range checks of a
\* coordinator apart.
LEMMA TurnExclusive ==
    ASSUME IInv, IInv', XInv, NEW t \in Calls, NEW p \in Places,
           NEW c \in 0 .. MaxCoordinators, Turn(t, p, c)
    PROVE  Exclusive'
<1>. USE CallsAssumption
<1>1. /\ pc'[t] = p /\ on'[t] = c
      /\ \A x \in Calls \ {t} : pc'[x] = pc[x] /\ on'[x] = on[x]
  BY DEF IInv, TypeOK, Turn
<1>2. SUFFICES ASSUME NEW r \in Calls, NEW s \in Calls, pc'[r] = "restoring",
                      pc'[s] \in {"sync", "cleanup", "ranging"}, on'[r] = on'[s]
               PROVE  FALSE
  BY DEF Exclusive
<1>3. CASE r = t
  <2>1. syncLock[c].owner = NoCall /\ s # t /\ pc[s] = pc'[s] /\ on[s] = c
    BY <1>1, <1>2, <1>3 DEF Turn
  <2>2. OwnsSync(s)
    BY <1>2, <2>1 DEF OwnsSync, OwnsSyncPlaces, IInv, HAPlaces, ReloadPlaces
  <2>. QED BY <2>1, <2>2 DEF IInv, SyncOwned
<1>4. CASE r # t /\ s = t /\ pc[t] # p
  <2>1. /\ c \in Coordinators /\ pc[r] = "restoring" /\ on[r] = c
        /\ Retired(c) \/ restoreLock[c].owner = NoCall
    BY <1>1, <1>2, <1>4 DEF Turn
  <2>. QED BY <2>1 DEF IInv, RestoreOwned, Retired
<1>5. CASE r # t /\ (s # t \/ pc[t] = p)
  <2>1. /\ pc[r] = "restoring" /\ pc[s] \in {"sync", "cleanup", "ranging"}
        /\ on[r] = on[s]
    BY <1>1, <1>2, <1>5 DEF Turn
  <2>. QED BY <2>1 DEF XInv, Exclusive
<1>. QED BY <1>3, <1>4, <1>5

\* A step that takes a call into plan_edit meets no sync, cleanup or reload of
\* that coordinator, and one that takes such a call there meets no plan edit.
LEMMA TurnEditHold ==
    ASSUME IInv, IInv', XInv, NEW t \in Calls, NEW p \in Places,
           NEW c \in 0 .. MaxCoordinators, Turn(t, p, c)
    PROVE  EditHold'
<1>. USE CallsAssumption
<1>1. /\ pc'[t] = p /\ on'[t] = c /\ current' = current
      /\ \A x \in Calls \ {t} : pc'[x] = pc[x] /\ on'[x] = on[x]
  BY DEF IInv, TypeOK, Turn
<1>2. SUFFICES ASSUME NEW r \in Calls, NEW e \in Edits \union Cascades,
                      ReloadsSoon(r)', pc'[e] = "editing", on'[e] = on'[r],
                      on'[r] = current
               PROVE  FALSE
  BY <1>1 DEF EditHold
<1>3. \A x \in Calls \ {t} : ReloadsSoon(x)' = ReloadsSoon(x)
  BY <1>1 DEF ReloadsSoon
<1>4. \A x \in Calls : ReloadsSoon(x) => OwnsSync(x)
  BY DEF ReloadsSoon, OwnsSync, OwnsSyncPlaces, HoldsOffPlaces
<1>5. e \in Calls /\ ~ReloadsSoon(e)'
  BY <1>2, KindFacts DEF ReloadsSoon, ReloadPlaces
<1>6. CASE e = t
  <2>1. syncLock[c].owner = NoCall /\ r # t /\ ReloadsSoon(r) /\ on[r] = c
    BY <1>1, <1>2, <1>3, <1>5, <1>6 DEF Turn
  <2>. QED BY <1>4, <2>1 DEF IInv, SyncOwned
<1>7. CASE e # t /\ r = t
  <2>1. pc[e] = "editing" /\ on[e] = c /\ c = current
    BY <1>1, <1>2, <1>5, <1>7
  <2>2. planEdits[c] # {}
    BY <1>5, <2>1 DEF XInv, EditMarked
  <2>3. ReloadsSoon(t) /\ c = on[t]
    BY <1>2, <1>7, <2>1, <2>2 DEF Turn
  <2>. QED BY <2>1, <2>3 DEF XInv, EditHold
<1>8. CASE e # t /\ r # t
  BY <1>1, <1>2, <1>3, <1>5, <1>8 DEF XInv, EditHold
<1>. QED BY <1>6, <1>7, <1>8

\* Such a step keeps the whole invariant.
LEMMA TurnKeeps ==
    ASSUME IInv, IInv', XInv, NEW t \in Calls, NEW p \in Places,
           NEW c \in 0 .. MaxCoordinators, Turn(t, p, c)
    PROVE  XInv'
<1>. USE CallsAssumption
<1>1. /\ pc'[t] = p /\ on'[t] = c
      /\ \A x \in Calls \ {t} : pc'[x] = pc[x] /\ on'[x] = on[x]
      /\ current' = current /\ leaving' = leaving /\ gaveUp' = gaveUp
      /\ unloading' = unloading
  BY DEF IInv, TypeOK, Turn
<1>2. InLine' /\ LineOnce'
  BY LineKept DEF IInv, XInv, Turn
<1>3. LineHead' /\ Exclusive' /\ EditHold'
  BY TurnLineHead, TurnExclusive, TurnEditHold
<1>4. SyncLoaded'
  BY <1>1 DEF XInv, SyncLoaded, Turn
<1>5. WaitedForSync'
  <2>1. SUFFICES ASSUME NEW u \in Calls, NEW s \in Calls,
                        pc'[u] \in {"unloadEdits", "unloadWoken", "platforms"},
                        pc'[s] = "sync", on'[s] = leaving
                 PROVE  gaveUp[leaving]
    BY <1>1 DEF WaitedForSync
  <2>2. u # t /\ pc[u] = pc'[u]
    BY <1>1, <2>1 DEF Turn, SetupPlaces
  <2>3. leaving = current /\ unloading[current]
    BY <2>1, <2>2 DEF IInv, UnloadInv
  <2>4. s # t
    BY <1>1, <2>1, <2>3 DEF Turn
  <2>. QED BY <1>1, <2>1, <2>2, <2>4 DEF XInv, WaitedForSync
<1>6. ReloadKind'
  BY <1>1 DEF XInv, ReloadKind, Turn
<1>7. EditMarked'
  <2>1. SUFFICES ASSUME NEW e \in Calls, pc'[e] = "editing"
                 PROVE  e \in planEdits'[on'[e]]
    BY DEF EditMarked
  <2>2. CASE e = t
    BY <1>1, <2>1, <2>2 DEF Turn
  <2>3. CASE e # t
    <3>1. e \in planEdits[on[e]] /\ on[e] \in Coordinators
      BY <1>1, <2>1, <2>3, BoundAssumption
         DEF XInv, EditMarked, IInv, OnBuilt, TypeOK, Coordinators
    <3>. QED BY <1>1, <2>3, <3>1 DEF Turn
  <2>. QED BY <2>2, <2>3
<1>8. ClosingHold'
  <2>1. SUFFICES ASSUME NEW r \in Calls, NEW e \in Edits \union Cascades,
                        r \notin HAReloads, pc'[r] = "closing", on'[r] = leaving,
                        pc'[e] = "editing", on'[e] = leaving
                 PROVE  FALSE
    BY <1>1 DEF ClosingHold
  <2>2. r # t /\ pc[r] = "closing" /\ on[r] = leaving /\ e \in Calls
    BY <1>1, <2>1 DEF Turn, SetupPlaces, Calls
  <2>3. leaving # 0 /\ unloading[leaving]
    BY <2>2 DEF IInv, UnloadInv, XInv, LeavingUnloads
  <2>4. e # t
    BY <1>1, <2>1, <2>3 DEF Turn
  <2>. QED BY <1>1, <2>1, <2>2, <2>4 DEF XInv, ClosingHold
<1>9. LeavingUnloads'
  BY <1>1 DEF XInv, LeavingUnloads
<1>. QED BY <1>2, <1>3, <1>4, <1>5, <1>6, <1>7, <1>8, <1>9 DEF XInv

\* Most steps leave the sync locks alone.
LEMMA StayTurn ==
    ASSUME IInv, IInv', XInv, NEW t \in Calls, NEW p \in Places,
           NEW c \in 0 .. MaxCoordinators,
           UNCHANGED <<current, born, leaving, unloading, gaveUp, syncLock>>,
           pc' = [pc EXCEPT ![t] = p], on' = [on EXCEPT ![t] = c],
           pc[t] # "idle" => c = on[t],
           pc[t] \notin QueuePlaces,
           p \notin SetupPlaces \union QueuePlaces \union {"sync", "cleanup", "ranging"},
           t \notin HAReloads /\ pc[t] \in StayPlaces => p \in StayPlaces,
           p = "restoring" =>
              syncLock[c].owner = NoCall /\ c = current /\ current \in Coordinators,
           \A x \in Calls \ {t}, d \in Coordinators :
              x \in planEdits[d] => x \in planEdits'[d],
           p = "editing" => t \in planEdits'[c],
           p = "editing" /\ t \in Edits \union Cascades =>
              syncLock[c].owner = NoCall /\ ~unloading[c],
           ReloadsSoon(t)' => (ReloadsSoon(t) /\ c = on[t]) \/ planEdits[c] = {}
    PROVE  XInv'
<1>1. LineStays(t, p)
  BY DEF LineStays
<1>2. ~LineShrinks(t, p, c)
  BY DEF LineShrinks
<1>3. Turn(t, p, c)
  BY <1>1, <1>2 DEF Turn, LineMoves, QueuePlaces
<1>. QED BY <1>3, TurnKeeps

LEMMA RefusedKeeps ==
    ASSUME IInv, IInv', XInv, NEW t \in Calls, Refused(t), pc[t] \in {"idle", "login"}
    PROVE  XInv'
<1>1. /\ pc' = [pc EXCEPT ![t] = "done"] /\ on' = [on EXCEPT ![t] = on[t]]
      /\ on[t] \in 0 .. MaxCoordinators
      /\ UNCHANGED <<current, born, leaving, unloading, gaveUp, syncLock, planEdits>>
  BY DEF Refused, Goto, haVars, coordinatorVars, IInv, TypeOK
<1>2. ~ReloadsSoon(t)'
  BY <1>1 DEF ReloadsSoon, ReloadPlaces, IInv, TypeOK
<1>. QED
  BY <1>1, <1>2, StayTurn DEF QueuePlaces, SetupPlaces, StayPlaces, HoldsOffPlaces,
     ReloadPlaces, Places

LEMMA RestoreKeeps ==
    ASSUME IInv, IInv', XInv, NEW t \in Calls, Restore(t) PROVE XInv'
<1>1. PICK c \in Coordinators : Restore(t)!(c)
  BY DEF Restore
<1>2. CASE Refused(t)
  BY <1>1, <1>2, RefusedKeeps DEF Starts
<1>3. CASE ~Refused(t)
  <2>1. /\ pc[t] = "idle" /\ c = current /\ syncLock[c].owner = NoCall
        /\ pc' = [pc EXCEPT ![t] = "restoring"] /\ on' = [on EXCEPT ![t] = c]
        /\ UNCHANGED <<current, born, leaving, unloading, gaveUp, syncLock, planEdits>>
    BY <1>1, <1>3 DEF Starts, PlansBusy, Locked, Goto, haVars
  <2>2. ~ReloadsSoon(t)' /\ c \in 0 .. MaxCoordinators
    BY <2>1, BoundAssumption DEF ReloadsSoon, ReloadPlaces, IInv, TypeOK, Coordinators
  <2>. QED
    BY <2>1, <2>2, StayTurn DEF QueuePlaces, SetupPlaces, StayPlaces, HoldsOffPlaces,
       ReloadPlaces, Places
<1>. QED BY <1>2, <1>3

LEMMA RestoreEndKeeps ==
    ASSUME IInv, IInv', XInv, NEW t \in Calls, RestoreEnd(t) PROVE XInv'
<1>1. /\ pc[t] = "restoring"
      /\ pc' = [pc EXCEPT ![t] = "done"] /\ on' = [on EXCEPT ![t] = on[t]]
      /\ on[t] \in 0 .. MaxCoordinators
      /\ UNCHANGED <<current, born, leaving, unloading, gaveUp, syncLock, planEdits>>
  BY DEF RestoreEnd, Goto, haVars, IInv, TypeOK
<1>2. ~ReloadsSoon(t)'
  BY <1>1 DEF ReloadsSoon, ReloadPlaces, IInv, TypeOK
<1>. QED
  BY <1>1, <1>2, StayTurn DEF QueuePlaces, SetupPlaces, StayPlaces, HoldsOffPlaces,
     ReloadPlaces, Places

\* A call that begins a plan edit has found no sync lock taken and no unload, or
\* it changes the stored backups only.
LEMMA BeginEditKeeps ==
    ASSUME IInv, IInv', XInv, NEW t \in Calls, NEW c \in Coordinators,
           pc[t] \in {"idle", "login"}, pc[t] # "idle" => c = on[t],
           BeginEdit(t, c), UnchangedByEdit, on' = [on EXCEPT ![t] = c],
           ~PlansBusy(c) \/ t \in BackupEdits
    PROVE  XInv'
<1>1. /\ pc' = [pc EXCEPT ![t] = "editing"] /\ c \in 0 .. MaxCoordinators
      /\ UNCHANGED <<current, born, leaving, unloading, gaveUp, syncLock>>
      /\ planEdits' = [planEdits EXCEPT ![c] = @ \union {t}]
  BY BoundAssumption DEF BeginEdit, UnchangedByEdit, Goto, haVars, Coordinators
<1>2. ~ReloadsSoon(t)'
  BY <1>1 DEF ReloadsSoon, ReloadPlaces, IInv, TypeOK
<1>3. t \in Edits \union Cascades => syncLock[c].owner = NoCall /\ ~unloading[c]
  BY KindsAssumption DEF PlansBusy, Locked
<1>4. /\ t \in planEdits'[c]
      /\ \A x \in Calls \ {t}, d \in Coordinators :
            x \in planEdits[d] => x \in planEdits'[d]
  BY <1>1 DEF IInv, TypeOK
<1>. QED
  BY <1>1, <1>2, <1>3, <1>4, StayTurn DEF QueuePlaces, SetupPlaces, StayPlaces,
     HoldsOffPlaces, ReloadPlaces, Places

LEMMA EditKeeps ==
    ASSUME IInv, IInv', XInv, NEW t \in Calls,
           \/ EditCheck(t) \/ EditLoggedIn(t) \/ EditLoginFails(t)
           \/ Cascade(t) \/ BackupEdit(t)
    PROVE  XInv'
<1>1. CASE EditCheck(t)
  <2>1. PICK c \in Coordinators : EditCheck(t)!(c)
    BY <1>1 DEF EditCheck
  <2>2. CASE Refused(t)
    BY <2>1, <2>2, RefusedKeeps DEF Starts
  <2>3. CASE ~Refused(t)
    <3>1. /\ pc[t] = "idle" /\ c \in 0 .. MaxCoordinators
          /\ pc' = [pc EXCEPT ![t] = "login"] /\ on' = [on EXCEPT ![t] = c]
          /\ UNCHANGED <<current, born, leaving, unloading, gaveUp, syncLock, planEdits>>
      BY <2>1, <2>3, BoundAssumption DEF Starts, Goto, haVars, coordinatorVars, Coordinators
    <3>2. ~ReloadsSoon(t)'
      BY <3>1 DEF ReloadsSoon, ReloadPlaces, IInv, TypeOK
    <3>. QED
      BY <3>1, <3>2, StayTurn DEF QueuePlaces, SetupPlaces, StayPlaces, HoldsOffPlaces,
         ReloadPlaces, Places
  <2>. QED BY <2>2, <2>3
<1>2. CASE EditLoggedIn(t)
  <2>1. CASE Refused(t)
    BY <1>2, <2>1, RefusedKeeps DEF EditLoggedIn
  <2>2. CASE ~Refused(t)
    <3>1. /\ pc[t] = "login" /\ ~PlansBusy(on[t]) /\ BeginEdit(t, on[t])
          /\ UnchangedByEdit /\ on' = on
      BY <1>2, <2>2 DEF EditLoggedIn
    <3>2. on[t] \in Coordinators /\ on' = [on EXCEPT ![t] = on[t]]
      BY <3>1, BoundAssumption DEF IInv, OnBuilt, TypeOK, Coordinators
    <3>. QED BY <3>1, <3>2, BeginEditKeeps
  <2>. QED BY <2>1, <2>2
<1>3. CASE EditLoginFails(t)
  BY <1>3, RefusedKeeps DEF EditLoginFails
<1>4. CASE Cascade(t)
  <2>1. PICK c \in Coordinators : Cascade(t)!(c)
    BY <1>4 DEF Cascade
  <2>. QED BY <2>1, RefusedKeeps, BeginEditKeeps DEF Starts
<1>5. CASE BackupEdit(t)
  <2>1. PICK c \in Coordinators : BackupEdit(t)!(c)
    BY <1>5 DEF BackupEdit
  <2>. QED BY <2>1, RefusedKeeps, BeginEditKeeps DEF Starts
<1>. QED BY <1>1, <1>2, <1>3, <1>4, <1>5

\* The end of a plan edit wakes who waits for it: a reload then knows that no
\* plan edit is left on its coordinator.
LEMMA EditEndKeeps ==
    ASSUME IInv, IInv', XInv, NEW t \in Calls, EditEnd(t) PROVE XInv'
<1>1. /\ pc[t] = "editing" /\ on[t] \in Coordinators
      /\ UNCHANGED <<current, born, leaving, unloading, gaveUp, syncLock, on>>
      /\ planEdits' = [planEdits EXCEPT ![on[t]] = @ \ {t}]
  BY BoundAssumption
     DEF EditEnd, UnchangedByEdit, haVars, IInv, OnBuilt, TypeOK, Coordinators
<1>2. \A x \in Calls :
         \/ x = t /\ pc'[x] = "done"
         \/ x # t /\ pc'[x] = pc[x]
         \/ /\ x # t /\ pc[x] = "waitEdits" /\ pc'[x] = "editsDone"
            /\ on[x] = on[t] /\ planEdits[on[t]] = {t}
         \/ x # t /\ pc[x] = "unloadEdits" /\ pc'[x] = "unloadWoken"
  BY DEF EditEnd
<1>3. \A c \in Coordinators : Line(c)' = Line(c) /\ Line(c) \in Seq(Calls)
  BY <1>1 DEF Line, IInv, TypeOK, Lock
<1>4. \A x \in Calls : \A place \in QueuePlaces \union {"sync", "restoring",
                 "cleanup", "ranging", "closing", "reloadQueued"} :
         pc'[x] = place <=> pc[x] = place
  BY <1>1, <1>2 DEF QueuePlaces
<1>5. InLine' /\ LineOnce'
  <2>1. InLine'
    <3>1. SUFFICES ASSUME NEW c \in Coordinators, NEW i \in 1 .. Len(Line(c))
                   PROVE  pc'[Line(c)[i]] \in QueuePlaces /\ on[Line(c)[i]] = c
      BY <1>1, <1>3 DEF InLine
    <3>2. pc[Line(c)[i]] \in QueuePlaces /\ on[Line(c)[i]] = c /\ Line(c)[i] \in Calls
      BY <1>3, <3>1, LineFacts DEF XInv, InLine
    <3>. QED BY <1>4, <3>2
  <2>2. LineOnce'
    BY <1>3 DEF XInv, LineOnce
  <2>. QED BY <2>1, <2>2
<1>6. LineHead'
  <2>1. SUFFICES ASSUME NEW c \in Coordinators, Line(c) # <<>>, ~Retired(c)'
                 PROVE  \/ pc'[Line(c)[1]] = "reloadQueued"
                        \/ \E x \in Calls : /\ syncLock[c].owner = x /\ on[x] = c
                              /\ x \notin HAReloads /\ pc'[x] \in StayPlaces
    BY <1>1, <1>3 DEF LineHead
  <2>2. ~Retired(c)
    <3>1. \A x \in Calls : pc'[x] = "restoring" => pc[x] = "restoring"
      BY <1>2
    <3>. QED BY <1>1, <2>1, <3>1 DEF Retired
  <2>2a. Line(c)[1] \in Calls
    <3>1. 1 \in 1 .. Len(Line(c))
      BY <1>3, <2>1, LineFacts
    <3>. QED BY <1>3, <3>1, LineFacts
  <2>3. \A x \in Calls : pc[x] \in StayPlaces => pc'[x] \in StayPlaces
    BY <1>1, <1>2 DEF StayPlaces, HoldsOffPlaces, ReloadPlaces
  <2>. QED BY <1>4, <2>1, <2>2, <2>2a, <2>3 DEF XInv, LineHead
<1>7. Exclusive' /\ SyncLoaded' /\ ReloadKind' /\ LeavingUnloads'
  BY <1>1, <1>4 DEF XInv, Exclusive, SyncLoaded, ReloadKind, LeavingUnloads
<1>8. WaitedForSync'
  BY <1>1, <1>2, <1>4 DEF XInv, WaitedForSync
<1>9. /\ EditMarked'
      /\ \A e \in Calls : pc'[e] = "editing" => pc[e] = "editing" /\ e # t
  BY <1>1, <1>2 DEF XInv, EditMarked, IInv, TypeOK
<1>10. ClosingHold'
  BY <1>1, <1>4, <1>9, KindFacts DEF XInv, ClosingHold
<1>11. EditHold'
  <2>1. SUFFICES ASSUME NEW r \in Calls, NEW e \in Edits \union Cascades,
                        ReloadsSoon(r)', pc'[e] = "editing", on[e] = on[r],
                        on[r] = current
                 PROVE  FALSE
    BY <1>1 DEF EditHold
  <2>2. pc[e] = "editing" /\ e # t /\ e \in Calls
    BY <1>9, <2>1, KindFacts
  <2>3. \/ ReloadsSoon(r)
        \/ on[r] = on[t] /\ planEdits[on[t]] = {t}
    BY <1>2, <2>1 DEF ReloadsSoon, ReloadPlaces
  <2>4. CASE on[r] = on[t] /\ planEdits[on[t]] = {t}
    BY <2>1, <2>2, <2>4 DEF XInv, EditMarked
  <2>. QED BY <2>1, <2>2, <2>3, <2>4 DEF XInv, EditHold
<1>. QED BY <1>5, <1>6, <1>7, <1>8, <1>9, <1>10, <1>11 DEF XInv

\* Steps that only move a call on: a reload that has seen no plan edit running
\* may go on, a sync or cleanup has kept them out since its check.
LEMMA MoveKeeps ==
    ASSUME IInv, IInv', XInv, NEW t \in Calls,
           \/ SyncSettled(t) \/ CleanupDone(t) \/ ReloadAwaitEdits(t)
           \/ HAReload(t) \/ EnterSetupLock(t)
    PROVE  XInv'
<1>1. PICK p \in {"reload", "cleaned", "editsDone", "waitEdits", "setupQueued"} :
         /\ pc' = [pc EXCEPT ![t] = p]
         /\ \/ p = "reload" /\ pc[t] = "settle"
            \/ p = "cleaned" /\ pc[t] = "cleanup"
            \/ p = "editsDone" /\ pc[t] = "held" /\ planEdits[on[t]] = {}
            \/ p = "waitEdits" /\ pc[t] = "held"
            \/ p = "reload" /\ t \in HAReloads /\ pc[t] = "idle"
            \/ p = "setupQueued" /\ pc[t] = "reload"
  BY DEF SyncSettled, CleanupDone, ReloadAwaitEdits, HAReload, EnterSetupLock, Goto
<1>2. /\ UNCHANGED <<current, born, leaving, unloading, gaveUp, syncLock, planEdits>>
      /\ on' = [on EXCEPT ![t] = on[t]] /\ on[t] \in 0 .. MaxCoordinators
  BY DEF SyncSettled, CleanupDone, ReloadAwaitEdits, HAReload, EnterSetupLock, haVars,
     coordinatorVars, IInv, TypeOK
<1>3. ReloadsSoon(t)' => ReloadsSoon(t) \/ planEdits[on[t]] = {}
  BY <1>1 DEF ReloadsSoon, ReloadPlaces, IInv, TypeOK
<1>4. /\ pc[t] \notin QueuePlaces /\ p \in Places
      /\ p \notin SetupPlaces \union QueuePlaces
                  \union {"sync", "cleanup", "ranging", "restoring", "editing"}
      /\ t \notin HAReloads /\ pc[t] \in StayPlaces => p \in StayPlaces
  BY <1>1 DEF QueuePlaces, SetupPlaces, StayPlaces, HoldsOffPlaces, ReloadPlaces, Places
<1>. QED BY <1>1, <1>2, <1>3, <1>4, StayTurn

-----------------------------------------------------------------------------
(* Holding the restores off *)

\* A reload then looks at the plan edits; a sync or a cleanup does not.
LEMMA HeldOffPlace ==
    ASSUME IInv, NEW t \in Calls, NEW c, NEW b, HoldOff(t, c, b) \/ HeldOff(t, c)
    PROVE  \E p \in {"settle", "reload", "held", "holdQueued"} :
              /\ pc' = [pc EXCEPT ![t] = p]
              /\ t \notin Syncs \union Cleanups => p \in {"held", "holdQueued"}
<1>1. /\ HeldPlace(t) \in {"settle", "reload", "held"}
      /\ t \notin Syncs \union Cleanups => HeldPlace(t) = "held"
  BY DEF HeldPlace
<1>. QED BY <1>1 DEF HoldOff, HeldOff, Goto

\* The end of a sync, the reload of a cleanup, and the end of a restore that one
\* of the three waited for.
LEMMA HoldKeeps ==
    ASSUME IInv, IInv', XInv, NEW t \in Calls,
           SyncEnd(t) \/ CleanupReload(t) \/ HoldWoken(t)
    PROVE  XInv'
<1>1. /\ pc[t] \in {"sync", "cleaned", "holdQueued"}
      /\ UNCHANGED <<current, born, leaving, unloading, gaveUp, syncLock, planEdits>>
      /\ on' = [on EXCEPT ![t] = on[t]] /\ on[t] \in 0 .. MaxCoordinators
      /\ HeldOff(t, on[t]) \/ \E b : HoldOff(t, on[t], b)
  BY DEF SyncEnd, CleanupReload, HoldWoken, haVars, IInv, TypeOK
<1>2. PICK p \in {"settle", "reload", "held", "holdQueued"} :
              /\ pc' = [pc EXCEPT ![t] = p]
              /\ t \notin Syncs \union Cleanups => p \in {"held", "holdQueued"}
  BY <1>1, HeldOffPlace
<1>3. ReloadsSoon(t)' => ReloadsSoon(t)
  BY <1>1, <1>2 DEF ReloadsSoon, ReloadPlaces, IInv, TypeOK
<1>. QED
  BY <1>1, <1>2, <1>3, StayTurn DEF QueuePlaces, SetupPlaces, StayPlaces,
     HoldsOffPlaces, ReloadPlaces, Places

-----------------------------------------------------------------------------
(* Taking, queueing for and releasing the sync lock *)

\* What joining and leaving a line makes of a lock.
LEMMA JoinFacts ==
    ASSUME NEW lock \in Lock, NEW t \in Calls
    PROVE  /\ Enqueue(lock, t).owner = lock.owner
           /\ Enqueue(lock, t).queue = Append(lock.queue, t)
           /\ TakeWoken(lock, t).owner = t
           /\ TakeWoken(lock, t).queue = Tail(lock.queue)
           /\ Release(TakeWoken(lock, t)).owner = NoCall
           /\ Release(TakeWoken(lock, t)).queue = Tail(lock.queue)
<1>1. lock = [owner |-> lock.owner, queue |-> lock.queue]
  BY DEF Lock
<1>2. Enqueue(lock, t) = [owner |-> lock.owner, queue |-> Append(lock.queue, t)]
  BY <1>1 DEF Enqueue
<1>. QED BY <1>2 DEF TakeWoken, Release

\* A call that found the lock not taken gets it, or queues behind a woken
\* waiter.
LEMMA AcquireKeeps ==
    ASSUME IInv, IInv', XInv, NEW t \in Calls, t \notin HAReloads,
           NEW c \in Coordinators, Starts(t, c), ~Locked(syncLock[c]),
           NEW taken \in {"sync", "cleanup", "ranging", "knx"},
           NEW queued \in QueuePlaces \ {"reloadQueued"},
           AcquireSync(t, c, taken, queued), on' = [on EXCEPT ![t] = c],
           taken # "knx" => ~Locked(restoreLock[c]),
           taken = "sync" => ~unloading[c],
           taken \in {"sync", "cleanup"} => planEdits[c] = {},
           UNCHANGED <<haVars, unloading, planEdits, gaveUp>>
    PROVE  XInv'
<1>1. /\ pc[t] = "idle" /\ c = current /\ c \in 0 .. MaxCoordinators
      /\ syncLock[c] \in Lock /\ syncLock[c].owner = NoCall
      /\ taken # "knx" => restoreLock[c].owner = NoCall
      /\ UNCHANGED <<current, born, leaving, unloading, gaveUp, planEdits>>
      /\ pc[t] \notin QueuePlaces \union StayPlaces
  BY StartsFacts DEF Starts, Locked, IInv, TypeOK, haVars, QueuePlaces, StayPlaces,
     HoldsOffPlaces, ReloadPlaces
<1>2. ASSUME NEW p, pc' = [pc EXCEPT ![t] = p], ReloadsSoon(t)'
      PROVE  p \notin {"ranging", "knx"} \union QueuePlaces
  BY <1>2 DEF ReloadsSoon, ReloadPlaces, IInv, TypeOK, QueuePlaces
<1>3. CASE /\ Free(syncLock[c])
           /\ syncLock' = [syncLock EXCEPT ![c] = Take(@, t)]
           /\ Goto(t, taken)
  <2>1. /\ syncLock[c].queue = <<>> /\ syncLock'[c].queue = <<>>
        /\ \A d \in Coordinators \ {c} : syncLock'[d] = syncLock[d]
    BY <1>1, <1>3, LockFacts DEF IInv, TypeOK
  <2>2. /\ pc' = [pc EXCEPT ![t] = taken] /\ taken \in Places
        /\ taken \notin QueuePlaces \union SetupPlaces
    BY <1>3 DEF Goto, QueuePlaces, SetupPlaces, Places
  <2>3. LineStays(t, taken) /\ ~LineShrinks(t, taken, c)
    BY <1>1, <2>1, <2>2 DEF LineStays, LineShrinks
  <2>4. Turn(t, taken, c)
    BY <1>1, <1>2, <2>1, <2>2, <2>3 DEF Turn, LineMoves
  <2>. QED BY <1>1, <2>2, <2>4, TurnKeeps
<1>4. CASE /\ ~Free(syncLock[c])
           /\ syncLock' = [syncLock EXCEPT ![c] = Enqueue(@, t)]
           /\ Goto(t, queued)
  <2>1. /\ syncLock[c].queue # <<>>
        /\ syncLock'[c].queue = Append(syncLock[c].queue, t)
        /\ syncLock'[c].owner = syncLock[c].owner
        /\ \A d \in Coordinators \ {c} : syncLock'[d] = syncLock[d]
    <3>1. syncLock[c].queue # <<>>
      BY <1>1, <1>4, LockFacts
    <3>2. /\ syncLock'[c] = Enqueue(syncLock[c], t)
          /\ \A d \in Coordinators \ {c} : syncLock'[d] = syncLock[d]
      BY <1>4 DEF IInv, TypeOK
    <3>. QED BY <1>1, <3>1, <3>2, JoinFacts
  <2>2. /\ pc' = [pc EXCEPT ![t] = queued] /\ queued \in Places
        /\ queued \notin SetupPlaces \union {"sync", "cleanup", "ranging", "restoring",
                                             "editing"}
    BY <1>4 DEF Goto, QueuePlaces, SetupPlaces, Places
  <2>3. LineGrows(t, queued, c) /\ ~LineShrinks(t, queued, c)
    BY <1>1, <2>1, <2>2 DEF LineGrows, LineShrinks
  <2>4. Turn(t, queued, c)
    BY <1>1, <1>2, <2>1, <2>2, <2>3 DEF Turn, LineMoves
  <2>. QED BY <1>1, <2>2, <2>4, TurnKeeps
<1>. QED BY <1>3, <1>4 DEF AcquireSync

LEMMA AskKeeps ==
    ASSUME IInv, IInv', XInv, NEW t \in Calls,
           SyncPress(t) \/ Cleanup(t) \/ RangeCheck(t) \/ KnxRepair(t)
    PROVE  XInv'
<1>1. CASE SyncPress(t)
  <2>1. PICK c \in Coordinators : SyncPress(t)!(c)
    BY <1>1 DEF SyncPress
  <2>. QED
    BY <2>1, KindFacts, RefusedKeeps, AcquireKeeps DEF Starts, QueuePlaces
<1>2. CASE Cleanup(t)
  <2>1. PICK c \in Coordinators : Cleanup(t)!(c)
    BY <1>2 DEF Cleanup
  <2>. QED
    BY <2>1, KindFacts, RefusedKeeps, AcquireKeeps DEF Starts, QueuePlaces
<1>3. CASE RangeCheck(t)
  <2>1. PICK c \in Coordinators : RangeCheck(t)!(c)
    BY <1>3 DEF RangeCheck
  <2>. QED
    BY <2>1, KindFacts, RefusedKeeps, AcquireKeeps DEF Starts, QueuePlaces
<1>4. CASE KnxRepair(t)
  <2>1. PICK c \in Coordinators : KnxRepair(t)!(c)
    BY <1>4 DEF KnxRepair
  <2>. QED
    BY <2>1, KindFacts, RefusedKeeps, AcquireKeeps DEF Starts, QueuePlaces
<1>. QED BY <1>1, <1>2, <1>3, <1>4

\* What a woken waiter of a sync lock does to its line.
LEMMA WokenFacts ==
    ASSUME IInv, XInv, NEW t \in Calls, pc[t] \in QueuePlaces, Woken(syncLock[on[t]], t),
           NEW p, p \notin QueuePlaces,
           \/ syncLock' = [syncLock EXCEPT ![on[t]] = TakeWoken(@, t)]
           \/ syncLock' = [syncLock EXCEPT ![on[t]] = Release(TakeWoken(@, t))]
    PROVE  /\ on[t] \in Coordinators /\ on[t] \in 0 .. MaxCoordinators
           /\ on = [on EXCEPT ![t] = on[t]]
           /\ LineShrinks(t, p, on[t]) /\ LineMoves(t, p, on[t])
           /\ \A d \in Coordinators \ {on[t]} : syncLock'[d] = syncLock[d]
           /\ pc[t] # "reloadQueued" => Retired(on[t])
<1>1. on[t] \in Coordinators /\ on[t] \in 0 .. MaxCoordinators
  BY BoundAssumption DEF IInv, OnBuilt, TypeOK, Coordinators
<1>2. /\ syncLock'[on[t]].queue = Tail(syncLock[on[t]].queue)
      /\ \A d \in Coordinators \ {on[t]} : syncLock'[d] = syncLock[d]
  <2>1. /\ \A d \in Coordinators \ {on[t]} : syncLock'[d] = syncLock[d]
        /\ \/ syncLock'[on[t]] = TakeWoken(syncLock[on[t]], t)
           \/ syncLock'[on[t]] = Release(TakeWoken(syncLock[on[t]], t))
        /\ syncLock[on[t]] \in Lock
    BY <1>1 DEF IInv, TypeOK
  <2>. QED BY <2>1, JoinFacts
<1>3. LineShrinks(t, p, on[t])
  BY <1>1, <1>2 DEF LineShrinks
<1>4. on = [on EXCEPT ![t] = on[t]]
  BY DEF IInv, TypeOK
<1>. QED BY <1>1, <1>2, <1>3, <1>4, HeadRetired DEF LineMoves

\* A sync, cleanup or range check that waited wakes up on a coordinator that a
\* reload has replaced.
LEMMA WokenKeeps ==
    ASSUME IInv, IInv', XInv, NEW t \in Calls, SyncWoken(t) \/ LockWoken(t)
    PROVE  XInv'
<1>. DEFINE c == on[t]
<1>1. /\ pc[t] \in QueuePlaces \ {"reloadQueued"} /\ Woken(syncLock[c], t)
      /\ \/ syncLock' = [syncLock EXCEPT ![c] = TakeWoken(@, t)]
         \/ syncLock' = [syncLock EXCEPT ![c] = Release(TakeWoken(@, t))]
      /\ UNCHANGED <<current, born, leaving, unloading, gaveUp, planEdits, on>>
      /\ pc[t] \notin StayPlaces /\ pc[t] # "idle"
  BY DEF SyncWoken, LockWoken, QueuePlaces, haVars, StayPlaces, HoldsOffPlaces,
     ReloadPlaces
<1>2. PICK p \in {"sync", "done", "cleanup", "ranging", "knx"} :
         /\ pc' = [pc EXCEPT ![t] = p]
         /\ p = "sync" => current = c
  BY DEF SyncWoken, LockWoken, Goto
<1>3. p \notin QueuePlaces \union SetupPlaces /\ p \in Places
  BY DEF QueuePlaces, SetupPlaces, Places
<1>4. /\ c \in Coordinators /\ c \in 0 .. MaxCoordinators /\ on' = [on EXCEPT ![t] = c]
      /\ LineShrinks(t, p, c) /\ LineMoves(t, p, c)
      /\ \A d \in Coordinators \ {c} : syncLock'[d] = syncLock[d]
      /\ Retired(c)
  BY <1>1, <1>3, WokenFacts
<1>5. c # current
  BY <1>4 DEF Retired
<1>6. Turn(t, p, c)
  BY <1>1, <1>2, <1>3, <1>4, <1>5 DEF Turn
<1>. QED BY <1>3, <1>4, <1>6, TurnKeeps

\* The owner of the lock that ends without a reload lets the next one in.
LEMMA LockedWorkEndKeeps ==
    ASSUME IInv, IInv', XInv, NEW t \in Calls, LockedWorkEnd(t) PROVE XInv'
<1>1. /\ pc[t] \in {"ranging", "knx", "cleanup"}
      /\ pc' = [pc EXCEPT ![t] = "done"] /\ on' = on
      /\ syncLock' = [syncLock EXCEPT ![on[t]] = Release(@)]
      /\ UNCHANGED <<current, born, leaving, unloading, gaveUp, planEdits>>
  BY DEF LockedWorkEnd, ReleaseSync, Goto, haVars
<1>2. /\ t \notin HAReloads /\ pc[t] \in OwnsSyncPlaces
      /\ pc[t] \notin QueuePlaces \union StayPlaces
  BY <1>1 DEF IInv, HAPlaces, ReloadPlaces, OwnsSyncPlaces, QueuePlaces, StayPlaces,
     HoldsOffPlaces
<1>3. /\ on[t] \in Coordinators /\ on[t] \in 0 .. MaxCoordinators
      /\ syncLock[on[t]].owner = t /\ on' = [on EXCEPT ![t] = on[t]]
  BY <1>1, <1>2, OwnerFacts, BoundAssumption DEF Coordinators
<1>4. /\ \A d \in Coordinators : syncLock'[d].queue = syncLock[d].queue
      /\ \A d \in Coordinators \ {on[t]} : syncLock'[d] = syncLock[d]
  BY <1>1, <1>3, LockFacts DEF IInv, TypeOK
<1>5. LineStays(t, "done") /\ ~LineShrinks(t, "done", on[t])
  BY <1>2, <1>4 DEF LineStays, LineShrinks, QueuePlaces
<1>6. ~ReloadsSoon(t)'
  BY <1>1 DEF ReloadsSoon, ReloadPlaces, IInv, TypeOK
<1>7. Turn(t, "done", on[t])
  BY <1>1, <1>2, <1>3, <1>4, <1>5, <1>6 DEF Turn, LineMoves, SetupPlaces
<1>. QED BY <1>3, <1>7, TurnKeeps DEF Places

\* A reload request is skipped, takes both locks, or stands in line: on an
\* empty line only a reload queues behind the owner.
LEMMA ReloadRequestKeeps ==
    ASSUME IInv, IInv', XInv, NEW t \in Calls, ReloadRequest(t) PROVE XInv'
<1>. DEFINE C(own) == IF current # 0 THEN current ELSE own
<1>1. PICK own \in 1 .. born : ReloadRequest(t)!(own)
  BY DEF ReloadRequest
<1>2. /\ t \in Reloads /\ t \notin HAReloads /\ t \notin Syncs \union Cleanups
      /\ pc[t] = "idle" /\ pc[t] \notin QueuePlaces \union StayPlaces
  BY <1>1, KindFacts, KindsAssumption DEF QueuePlaces, StayPlaces, HoldsOffPlaces,
     ReloadPlaces
<1>3. /\ C(own) \in Coordinators /\ C(own) \in 0 .. MaxCoordinators
      /\ syncLock[C(own)] \in Lock
  BY BoundAssumption DEF IInv, TypeOK, Coordinators
<1>4. ASSUME NEW p \in {"done", "held", "holdQueued", "reloadQueued"},
             pc' = [pc EXCEPT ![t] = p]
      PROVE  /\ ~ReloadsSoon(t)' /\ p \in Places
             /\ p \notin SetupPlaces \union {"sync", "cleanup", "ranging", "restoring",
                                             "editing"}
             /\ p # "reloadQueued" => p \notin QueuePlaces
  BY <1>2, <1>4 DEF ReloadsSoon, ReloadPlaces, IInv, TypeOK, SetupPlaces, Places,
     QueuePlaces
<1>5. CASE /\ Goto(t, "done")
           /\ UNCHANGED <<haVars, coordinatorVars, on>>
  <2>1. /\ on' = [on EXCEPT ![t] = on[t]] /\ on[t] \in 0 .. MaxCoordinators
        /\ UNCHANGED <<current, born, leaving, unloading, gaveUp, syncLock, planEdits>>
    BY <1>5 DEF IInv, TypeOK, haVars, coordinatorVars
  <2>2. pc' = [pc EXCEPT ![t] = "done"]
    BY <1>5 DEF Goto
  <2>. QED BY <1>2, <1>4, <2>1, <2>2, StayTurn
<1>6. CASE /\ Free(syncLock[C(own)])
           /\ syncLock' = [syncLock EXCEPT ![C(own)] = Take(@, t)]
           /\ HoldOff(t, C(own), FALSE)
           /\ on' = [on EXCEPT ![t] = C(own)]
           /\ UNCHANGED <<haVars, unloading, planEdits, open, gaveUp, uncovered>>
  <2>1. PICK p \in {"held", "holdQueued"} : pc' = [pc EXCEPT ![t] = p]
    BY <1>2, <1>6, HeldOffPlace
  <2>2. /\ syncLock[C(own)].queue = <<>> /\ syncLock'[C(own)].queue = <<>>
        /\ \A d \in Coordinators \ {C(own)} : syncLock'[d] = syncLock[d]
    BY <1>3, <1>6, LockFacts DEF IInv, TypeOK
  <2>3. LineStays(t, p) /\ ~LineShrinks(t, p, C(own))
    BY <1>2, <1>4, <2>1, <2>2 DEF LineStays, LineShrinks
  <2>4. UNCHANGED <<current, born, leaving, unloading, gaveUp, planEdits>>
    BY <1>6 DEF haVars
  <2>5. Turn(t, p, C(own))
    BY <1>2, <1>3, <1>4, <1>6, <2>1, <2>2, <2>3, <2>4 DEF Turn, LineMoves
  <2>. QED BY <1>3, <1>4, <2>1, <2>5, TurnKeeps
<1>7. CASE /\ syncLock' = [syncLock EXCEPT ![C(own)] = Enqueue(@, t)]
           /\ Goto(t, "reloadQueued")
           /\ on' = [on EXCEPT ![t] = C(own)]
           /\ UNCHANGED <<haVars, restoreLock, inSync, held, unloading,
                          planEdits, open, gaveUp, uncovered>>
  <2>1. pc' = [pc EXCEPT ![t] = "reloadQueued"]
    BY <1>7 DEF Goto
  <2>2. /\ syncLock'[C(own)] = Enqueue(syncLock[C(own)], t)
        /\ \A d \in Coordinators \ {C(own)} : syncLock'[d] = syncLock[d]
    BY <1>3, <1>7 DEF IInv, TypeOK
  <2>3. /\ syncLock'[C(own)].queue = Append(syncLock[C(own)].queue, t)
        /\ syncLock'[C(own)].owner = syncLock[C(own)].owner
    BY <1>3, <2>2, JoinFacts
  <2>4. LineGrows(t, "reloadQueued", C(own)) /\ ~LineShrinks(t, "reloadQueued", C(own))
    BY <1>2, <1>3, <2>2, <2>3 DEF LineGrows, LineShrinks, QueuePlaces
  <2>5. UNCHANGED <<current, born, leaving, unloading, gaveUp, planEdits>>
    BY <1>7 DEF haVars
  <2>6. Turn(t, "reloadQueued", C(own))
    BY <1>2, <1>3, <1>4, <1>7, <2>1, <2>2, <2>3, <2>4, <2>5 DEF Turn, LineMoves
  <2>. QED BY <1>3, <1>4, <2>1, <2>6, TurnKeeps
<1>. QED BY <1>1, <1>5, <1>6, <1>7

\* A woken reload takes the sync lock and goes on to the restore lock.
LEMMA ReloadWokenKeeps ==
    ASSUME IInv, IInv', XInv, NEW t \in Calls, ReloadWoken(t) PROVE XInv'
<1>. DEFINE c == on[t]
<1>1. /\ pc[t] = "reloadQueued" /\ pc[t] \in QueuePlaces /\ Woken(syncLock[c], t)
      /\ syncLock' = [syncLock EXCEPT ![c] = TakeWoken(@, t)]
      /\ UNCHANGED <<current, born, leaving, unloading, gaveUp, planEdits, on>>
      /\ pc[t] \notin StayPlaces
  BY DEF ReloadWoken, QueuePlaces, haVars, StayPlaces, HoldsOffPlaces, ReloadPlaces
<1>2. t \notin Syncs \union Cleanups /\ t \notin HAReloads
  BY <1>1, KindsAssumption DEF XInv, ReloadKind
<1>3. PICK p \in {"held", "holdQueued"} : pc' = [pc EXCEPT ![t] = p]
  BY <1>2, HeldOffPlace DEF ReloadWoken
<1>4. /\ p \notin QueuePlaces \union SetupPlaces /\ p \in Places
      /\ p \in StayPlaces /\ ~ReloadsSoon(t)'
  BY <1>2, <1>3 DEF QueuePlaces, SetupPlaces, Places, StayPlaces, HoldsOffPlaces,
     ReloadsSoon, ReloadPlaces, IInv, TypeOK
<1>5. /\ c \in Coordinators /\ c \in 0 .. MaxCoordinators /\ on' = [on EXCEPT ![t] = c]
      /\ LineShrinks(t, p, c) /\ LineMoves(t, p, c)
      /\ \A d \in Coordinators \ {c} : syncLock'[d] = syncLock[d]
  BY <1>1, <1>4, WokenFacts
<1>6. syncLock'[c].owner = t
  BY <1>1, <1>5, JoinFacts DEF IInv, TypeOK
<1>7. Turn(t, p, c)
  BY <1>1, <1>2, <1>3, <1>4, <1>5, <1>6 DEF Turn
<1>. QED BY <1>4, <1>5, <1>7, TurnKeeps

\* A reload that lets the locks go leaves a coordinator that is not loaded, and
\* as the owner of its restore lock no restore on it.
LEMMA ReloadRecheckKeeps ==
    ASSUME IInv, IInv', XInv, NEW t \in Calls, ReloadRecheck(t) PROVE XInv'
<1>. DEFINE c == on[t]
<1>1. /\ pc[t] = "editsDone" /\ pc[t] \notin QueuePlaces /\ pc[t] \in StayPlaces
      /\ UNCHANGED <<current, born, leaving, unloading, gaveUp, planEdits, on>>
      /\ t \notin HAReloads /\ HoldsOff(t) /\ ReloadsSoon(t)
  BY DEF ReloadRecheck, QueuePlaces, haVars, coordinatorVars, StayPlaces, HoldsOffPlaces,
     IInv, HAPlaces, ReloadPlaces, HoldsOff, ReloadsSoon
<1>2. /\ c \in Coordinators /\ c \in 1 .. born /\ c \in 0 .. MaxCoordinators
      /\ on' = [on EXCEPT ![t] = c]
      /\ syncLock[c].owner = t /\ restoreLock[c].owner = t
  BY <1>1, OwnerFacts DEF HoldsOff, OwnsSyncPlaces, IInv, RestoreOwned, Coordinators
<1>3. CASE current = c
  <2>1. pc' = [pc EXCEPT ![t] = "reload"] /\ syncLock' = syncLock
    BY <1>3 DEF ReloadRecheck, Goto, coordinatorVars
  <2>. QED
    BY <1>1, <1>2, <2>1, StayTurn DEF QueuePlaces, SetupPlaces, StayPlaces,
       HoldsOffPlaces, ReloadPlaces, Places
<1>4. CASE current # c
  <2>1. /\ pc' = [pc EXCEPT ![t] = "done"]
        /\ syncLock' = [syncLock EXCEPT ![c] = Release(@)]
    BY <1>4 DEF ReloadRecheck, Goto, ReleaseBoth, ReleaseSync
  <2>2. Retired(c)
    BY <1>1, <1>2, <1>4 DEF Retired, IInv, RestoreOwned
  <2>3. /\ \A d \in Coordinators : syncLock'[d].queue = syncLock[d].queue
        /\ \A d \in Coordinators \ {c} : syncLock'[d] = syncLock[d]
    BY <1>2, <2>1, LockFacts DEF IInv, TypeOK
  <2>4. LineStays(t, "done") /\ ~LineShrinks(t, "done", c)
    BY <1>1, <2>3 DEF LineStays, LineShrinks, QueuePlaces
  <2>5. ~ReloadsSoon(t)'
    BY <2>1 DEF ReloadsSoon, ReloadPlaces, IInv, TypeOK
  <2>6. Turn(t, "done", c)
    BY <1>1, <1>2, <2>1, <2>2, <2>3, <2>4, <2>5 DEF Turn, LineMoves, SetupPlaces
  <2>. QED BY <1>2, <2>1, <2>6, TurnKeeps DEF Places
<1>. QED BY <1>3, <1>4

-----------------------------------------------------------------------------
(* The steps of the call that owns Home Assistant's setup lock *)

\* Inside async_reload no sync lock and no plan edit changes.
LEMMA InsideKeeps ==
    ASSUME IInv, XInv, NEW t \in Calls, pc[t] \in ReloadPlaces,
           NEW p \in ReloadPlaces, pc' = [pc EXCEPT ![t] = p],
           UNCHANGED <<on, born, syncLock, planEdits>>, current' \in {current, 0}
    PROVE  /\ InLine' /\ LineOnce' /\ LineHead' /\ Exclusive' /\ ReloadKind'
           /\ EditMarked' /\ EditHold'
           /\ pc'[t] = p /\ \A x \in Calls \ {t} : pc'[x] = pc[x]
           /\ \A x \in Calls : pc'[x] = "sync" <=> pc[x] = "sync"
           /\ \A x \in Calls : pc'[x] = "editing" <=> pc[x] = "editing"
<1>1. /\ pc'[t] = p /\ \A x \in Calls \ {t} : pc'[x] = pc[x]
      /\ pc[t] \notin QueuePlaces /\ p \notin QueuePlaces
      /\ pc[t] \in StayPlaces /\ p \in StayPlaces
  BY DEF IInv, TypeOK, QueuePlaces, StayPlaces, HoldsOffPlaces, ReloadPlaces
<1>2. \A x \in Calls : \A place \in {"sync", "restoring", "cleanup", "ranging",
                                    "editing", "reloadQueued"} :
         pc'[x] = place <=> pc[x] = place
  BY <1>1 DEF ReloadPlaces
<1>3. \A c \in Coordinators : Line(c)' = Line(c) /\ Line(c) \in Seq(Calls)
  BY DEF Line, IInv, TypeOK, Lock
<1>4. InLine'
  <2>1. SUFFICES ASSUME NEW c \in Coordinators, NEW i \in 1 .. Len(Line(c))
                 PROVE  pc'[Line(c)[i]] \in QueuePlaces /\ on[Line(c)[i]] = c
    BY <1>3 DEF InLine
  <2>2. pc[Line(c)[i]] \in QueuePlaces /\ on[Line(c)[i]] = c /\ Line(c)[i] \in Calls
    BY <1>3, <2>1, LineFacts DEF XInv, InLine
  <2>. QED BY <1>1, <2>2
<1>5. LineOnce'
  BY <1>3 DEF XInv, LineOnce
<1>6. LineHead'
  <2>1. SUFFICES ASSUME NEW c \in Coordinators, Line(c) # <<>>, ~Retired(c)'
                 PROVE  \/ pc'[Line(c)[1]] = "reloadQueued"
                        \/ \E x \in Calls : /\ syncLock[c].owner = x /\ on[x] = c
                              /\ x \notin HAReloads /\ pc'[x] \in StayPlaces
    BY <1>3 DEF LineHead
  <2>2. ~Retired(c)
    <3>1. \A x \in Calls : pc'[x] = "restoring" => pc[x] = "restoring"
      BY <1>2
    <3>2. c # 0
      BY DEF Coordinators
    <3>. QED BY <2>1, <3>1, <3>2 DEF Retired
  <2>3. Line(c)[1] \in Calls
    <3>1. 1 \in 1 .. Len(Line(c))
      BY <1>3, <2>1, LineFacts
    <3>. QED BY <1>3, <3>1, LineFacts
  <2>. QED BY <1>1, <1>2, <2>1, <2>2, <2>3 DEF XInv, LineHead
<1>7. Exclusive' /\ ReloadKind' /\ EditMarked'
  BY <1>2 DEF XInv, Exclusive, ReloadKind, EditMarked
<1>8. EditHold'
  <2>1. SUFFICES ASSUME NEW r \in Calls, NEW e \in Edits \union Cascades,
                        ReloadsSoon(r)', pc'[e] = "editing", on[e] = on[r],
                        on[r] = current'
                 PROVE  FALSE
    BY DEF EditHold
  <2>2. ReloadsSoon(r) /\ pc[e] = "editing" /\ e \in Calls
    BY <1>1, <1>2, <2>1, KindFacts DEF ReloadsSoon
  <2>3. on[r] # 0
    BY <2>2, OwnerFacts DEF ReloadsSoon, OwnsSyncPlaces, HoldsOffPlaces, Coordinators
  <2>. QED BY <2>1, <2>2, <2>3 DEF XInv, EditHold
<1>. QED BY <1>1, <1>2, <1>4, <1>5, <1>6, <1>7, <1>8

\* A sync and a reload that holds the restores off do not share a coordinator:
\* each owns the sync lock.
LEMMA HeldNoSync ==
    ASSUME IInv, NEW c \in Coordinators, held[c] \/ ~Locked(syncLock[c]),
           NEW s \in Calls, pc[s] = "sync", on[s] = c
    PROVE  FALSE
<1>1. s \notin HAReloads /\ syncLock[c].owner = s /\ s # NoCall
  BY OwnerFacts, CallsAssumption DEF IInv, HAPlaces, ReloadPlaces, OwnsSyncPlaces
<1>2. CASE held[c]
  <2>1. PICK h \in Calls : HoldsOff(h) /\ on[h] = c
    BY <1>2 DEF IInv, HeldOwner
  <2>2. syncLock[c].owner = h
    BY <2>1, OwnerFacts DEF HoldsOff, OwnsSyncPlaces
  <2>. QED BY <1>1, <2>1, <2>2 DEF HoldsOff, HoldsOffPlaces, ReloadPlaces
<1>3. CASE ~Locked(syncLock[c])
  BY <1>1, <1>3 DEF Locked
<1>. QED BY <1>2, <1>3

\* The unload begins: it skips its wait only for a reload that owns both locks.
LEMMA UnloadBeginKeeps ==
    ASSUME IInv, IInv', XInv, NEW t \in Calls, UnloadBegin(t) PROVE XInv'
<1>1. /\ pc[t] \in {"reload", "setupQueued"} /\ pc[t] \in ReloadPlaces
      /\ UNCHANGED <<current, born, syncLock, planEdits, gaveUp, on>>
  BY DEF UnloadBegin, ReloadPlaces
<1>2. PICK p \in {"setup", "platforms", "unloadWait"} :
         /\ pc' = [pc EXCEPT ![t] = p]
         /\ \/ current = 0 /\ p = "setup" /\ UNCHANGED <<leaving, unloading>>
            \/ /\ current # 0 /\ p \in {"platforms", "unloadWait"}
               /\ p = "platforms" => held[current]
               /\ leaving' = current
               /\ unloading' = [unloading EXCEPT ![current] = TRUE]
  BY DEF UnloadBegin, Goto
<1>3. p \in ReloadPlaces
  BY DEF ReloadPlaces
<1>4. /\ InLine' /\ LineOnce' /\ LineHead' /\ Exclusive' /\ ReloadKind'
      /\ EditMarked' /\ EditHold'
      /\ pc'[t] = p /\ \A x \in Calls \ {t} : pc'[x] = pc[x]
      /\ \A x \in Calls : pc'[x] = "sync" <=> pc[x] = "sync"
  BY <1>1, <1>2, <1>3, InsideKeeps
<1>5. /\ current # 0 => current \in Coordinators
      /\ setupLock'.owner = t
  <2>1. current # 0 => current \in Coordinators
    BY BoundAssumption DEF IInv, TypeOK, Coordinators
  <2>2. pc'[t] \in SetupPlaces
    BY <1>4 DEF SetupPlaces
  <2>. QED BY <2>1, <2>2 DEF IInv, SetupOwned
<1>6. \A x \in Calls \ {t} : pc'[x] \notin SetupPlaces
  BY <1>5 DEF IInv, SetupOwned
<1>7. SyncLoaded'
  BY <1>1, <1>4 DEF XInv, SyncLoaded
<1>8. WaitedForSync'
  <2>1. SUFFICES ASSUME NEW u \in Calls, NEW s \in Calls,
                        pc'[u] \in {"unloadEdits", "unloadWoken", "platforms"},
                        pc'[s] = "sync", on[s] = leaving'
                 PROVE  FALSE
    BY <1>1 DEF WaitedForSync
  <2>2. u = t /\ p = "platforms"
    BY <1>4, <1>6, <2>1 DEF SetupPlaces
  <2>. QED BY <1>2, <1>4, <1>5, <2>1, <2>2, HeldNoSync
<1>9. ClosingHold'
  BY <1>4, <1>6 DEF ClosingHold, SetupPlaces
<1>10. LeavingUnloads'
  BY <1>2, <1>5 DEF XInv, LeavingUnloads, IInv, TypeOK
<1>. QED BY <1>4, <1>7, <1>8, <1>9, <1>10 DEF XInv

\* The poll passes, the waits end or run out: no sync is left on the coordinator
\* then, or gaveUp says so.
LEMMA UnloadWaitKeeps ==
    ASSUME IInv, IInv', XInv, NEW t \in Calls,
           UnloadPoll(t) \/ UnloadResumes(t) \/ UnloadTimeout(t)
    PROVE  XInv'
<1>1. /\ pc[t] \in {"unloadWait", "unloadEdits", "unloadWoken"}
      /\ UNCHANGED <<current, born, leaving, unloading, syncLock, planEdits, on>>
      /\ \/ pc[t] = "unloadWait" /\ ~UnloadMustWait(leaving) /\ gaveUp' = gaveUp
         \/ pc[t] = "unloadWoken" /\ gaveUp' = gaveUp
         \/ gaveUp' = [gaveUp EXCEPT ![leaving] = TRUE]
  BY DEF UnloadPoll, UnloadResumes, UnloadTimeout, haVars, coordinatorVars
<1>2. PICK p \in {"platforms", "unloadEdits"} : pc' = [pc EXCEPT ![t] = p]
  BY DEF UnloadPoll, UnloadResumes, UnloadTimeout, Goto
<1>3. p \in ReloadPlaces /\ pc[t] \in ReloadPlaces
  BY <1>1 DEF ReloadPlaces
<1>4. /\ InLine' /\ LineOnce' /\ LineHead' /\ Exclusive' /\ ReloadKind'
      /\ EditMarked' /\ EditHold'
      /\ pc'[t] = p /\ \A x \in Calls \ {t} : pc'[x] = pc[x]
      /\ \A x \in Calls : pc'[x] = "sync" <=> pc[x] = "sync"
      /\ \A x \in Calls : pc'[x] = "editing" <=> pc[x] = "editing"
  BY <1>1, <1>2, <1>3, InsideKeeps
<1>5. /\ leaving = current /\ leaving \in Coordinators
      /\ gaveUp' \in [Coordinators -> BOOLEAN] /\ gaveUp \in [Coordinators -> BOOLEAN]
      /\ \A d \in Coordinators : gaveUp[d] => gaveUp'[d]
  BY <1>1, BoundAssumption DEF IInv, UnloadInv, TypeOK, Coordinators
<1>6. SyncLoaded'
  <2>1. SUFFICES ASSUME NEW s \in Calls, pc[s] = "sync", on[s] # current
                 PROVE  gaveUp'[on[s]]
    BY <1>1, <1>4 DEF SyncLoaded
  <2>2. on[s] \in Coordinators /\ gaveUp[on[s]]
    BY <2>1, OwnerFacts DEF XInv, SyncLoaded, IInv, HAPlaces, ReloadPlaces, OwnsSyncPlaces
  <2>. QED BY <1>5, <2>2
<1>7. WaitedForSync'
  <2>1. SUFFICES ASSUME NEW s \in Calls, pc[s] = "sync", on[s] = leaving
                 PROVE  gaveUp'[leaving]
    BY <1>1, <1>4 DEF WaitedForSync
  <2>2. CASE pc[t] = "unloadWait" /\ ~UnloadMustWait(leaving)
    BY <1>5, <2>1, <2>2, HeldNoSync DEF UnloadMustWait, IInv, TypeOK
  <2>3. CASE pc[t] = "unloadWoken" /\ gaveUp' = gaveUp
    BY <2>1, <2>3 DEF XInv, WaitedForSync
  <2>4. CASE gaveUp' = [gaveUp EXCEPT ![leaving] = TRUE]
    BY <1>5, <2>4
  <2>. QED BY <1>1, <2>2, <2>3, <2>4
<1>8. ClosingHold'
  BY <1>1, <1>4 DEF XInv, ClosingHold, Calls
<1>9. LeavingUnloads'
  BY <1>1 DEF XInv, LeavingUnloads
<1>. QED BY <1>4, <1>6, <1>7, <1>8, <1>9 DEF XInv

\* The coordinator is taken from the entry: a sync on it is one the wait gave
\* up, and a reload that owns its locks has let the plan edits end.
LEMMA PlatformsUnloadedKeeps ==
    ASSUME IInv, IInv', XInv, NEW t \in Calls, PlatformsUnloaded(t) PROVE XInv'
<1>1. /\ pc[t] = "platforms" /\ pc' = [pc EXCEPT ![t] = "closing"] /\ current' = 0
      /\ UNCHANGED <<born, leaving, unloading, gaveUp, syncLock, planEdits, on>>
  BY DEF PlatformsUnloaded, Goto, coordinatorVars
<1>2. /\ InLine' /\ LineOnce' /\ LineHead' /\ Exclusive' /\ ReloadKind'
      /\ EditMarked' /\ EditHold'
      /\ pc'[t] = "closing" /\ \A x \in Calls \ {t} : pc'[x] = pc[x]
      /\ \A x \in Calls : pc'[x] = "sync" <=> pc[x] = "sync"
      /\ \A x \in Calls : pc'[x] = "editing" <=> pc[x] = "editing"
  BY <1>1, InsideKeeps DEF ReloadPlaces
<1>3. leaving = current /\ \A x \in Calls \ {t} : pc[x] \notin SetupPlaces
  BY <1>1 DEF IInv, UnloadInv, SetupOwned, SetupPlaces
<1>4. SyncLoaded'
  BY <1>1, <1>2, <1>3 DEF XInv, SyncLoaded, WaitedForSync
<1>5. WaitedForSync'
  BY <1>2, <1>3 DEF WaitedForSync, SetupPlaces
<1>6. ClosingHold'
  <2>1. SUFFICES ASSUME NEW r \in Calls, NEW e \in Edits \union Cascades,
                        r \notin HAReloads, pc'[r] = "closing", on[r] = leaving,
                        pc'[e] = "editing", on[e] = leaving
                 PROVE  FALSE
    BY <1>1 DEF ClosingHold
  <2>2. r = t /\ e \in Calls /\ pc[e] = "editing"
    BY <1>2, <1>3, <2>1 DEF SetupPlaces, Calls
  <2>3. ReloadsSoon(r)
    BY <1>1, <2>1, <2>2 DEF ReloadsSoon, ReloadPlaces
  <2>. QED BY <1>3, <2>1, <2>2, <2>3 DEF XInv, EditHold
<1>7. LeavingUnloads'
  BY <1>1 DEF XInv, LeavingUnloads
<1>. QED BY <1>2, <1>4, <1>5, <1>6, <1>7 DEF XInv

LEMMA CloseSessionKeeps ==
    ASSUME IInv, IInv', XInv, NEW t \in Calls, CloseSession(t) PROVE XInv'
<1>1. /\ pc[t] = "closing" /\ pc' = [pc EXCEPT ![t] = "setup"] /\ leaving' = 0
      /\ UNCHANGED <<current, born, unloading, gaveUp, syncLock, planEdits, on>>
  BY DEF CloseSession, Goto
<1>2. /\ InLine' /\ LineOnce' /\ LineHead' /\ Exclusive' /\ ReloadKind'
      /\ EditMarked' /\ EditHold'
      /\ pc'[t] = "setup" /\ \A x \in Calls \ {t} : pc'[x] = pc[x]
      /\ \A x \in Calls : pc'[x] = "sync" <=> pc[x] = "sync"
  BY <1>1, InsideKeeps DEF ReloadPlaces
<1>3. \A x \in Calls \ {t} : pc[x] \notin SetupPlaces
  BY <1>1 DEF IInv, SetupOwned, SetupPlaces
<1>4. SyncLoaded' /\ WaitedForSync' /\ ClosingHold' /\ LeavingUnloads'
  BY <1>1, <1>2, <1>3 DEF XInv, SyncLoaded, WaitedForSync, ClosingHold, LeavingUnloads,
     SetupPlaces
<1>. QED BY <1>2, <1>4 DEF XInv

\* The reload returns and lets its locks go: they belong to a coordinator that is
\* not loaded any more.
LEMMA ReturnKeeps ==
    ASSUME IInv, IInv', XInv, NEW t \in Calls, SetupEntry(t) \/ SetupFails(t)
    PROVE  XInv'
<1>1. /\ pc[t] = "setup" /\ pc' = [pc EXCEPT ![t] = "done"]
      /\ UNCHANGED <<leaving, unloading, gaveUp, planEdits, on>>
      /\ \/ current' = current /\ born' = born
         \/ current' = born + 1 /\ born' = born + 1
      /\ current = 0 /\ born \in Nat
      /\ \/ t \in HAReloads /\ syncLock' = syncLock
         \/ t \notin HAReloads /\ ReleaseSync(on[t])
  BY DEF SetupEntry, SetupFails, ReturnToCaller, ReleaseBoth, Goto, IInv, UnloadInv,
     TypeOK, Coordinators
<1>2. /\ pc'[t] = "done" /\ \A x \in Calls \ {t} : pc'[x] = pc[x]
      /\ \A x \in Calls \ {t} : pc[x] \notin SetupPlaces
      /\ pc[t] \notin QueuePlaces
  BY <1>1 DEF IInv, TypeOK, SetupOwned, SetupPlaces, QueuePlaces
<1>3. /\ \A c \in Coordinators : Line(c)' = Line(c) /\ Line(c) \in Seq(Calls)
      /\ \A c \in Coordinators :
            \/ syncLock'[c].owner = syncLock[c].owner
            \/ c = on[t] /\ t \notin HAReloads
  <2>1. CASE syncLock' = syncLock
    BY <2>1 DEF Line, IInv, TypeOK, Lock
  <2>2. CASE t \notin HAReloads /\ ReleaseSync(on[t])
    <3>1. on[t] \in Coordinators
      BY <1>1, <2>2, OwnerFacts DEF OwnsSyncPlaces, HoldsOffPlaces, ReloadPlaces
    <3>2. /\ syncLock'[on[t]] = Release(syncLock[on[t]])
          /\ \A d \in Coordinators \ {on[t]} : syncLock'[d] = syncLock[d]
          /\ \A d \in Coordinators : syncLock[d] \in Lock
      BY <2>2, <3>1 DEF ReleaseSync, IInv, TypeOK
    <3>3. syncLock'[on[t]].queue = syncLock[on[t]].queue
      BY <3>1, <3>2, LockFacts
    <3>4. \A c \in Coordinators : syncLock[c].queue \in Seq(Calls)
      BY <3>2 DEF Lock
    <3>. QED BY <2>2, <3>2, <3>3, <3>4 DEF Line
  <2>. QED BY <1>1, <2>1, <2>2
<1>4. /\ \A x \in Calls : \A place \in {"sync", "restoring", "cleanup", "ranging",
                   "editing", "reloadQueued", "closing"} \union QueuePlaces :
            pc'[x] = place <=> pc[x] = place
      /\ \A x \in Calls : ReloadsSoon(x)' => ReloadsSoon(x)
  BY <1>1, <1>2 DEF QueuePlaces, ReloadsSoon, ReloadPlaces
<1>5. InLine'
  <2>1. SUFFICES ASSUME NEW c \in Coordinators, NEW i \in 1 .. Len(Line(c))
                 PROVE  pc'[Line(c)[i]] \in QueuePlaces /\ on[Line(c)[i]] = c
    BY <1>1, <1>3 DEF InLine
  <2>2. pc[Line(c)[i]] \in QueuePlaces /\ on[Line(c)[i]] = c /\ Line(c)[i] \in Calls
    BY <1>3, <2>1, LineFacts DEF XInv, InLine
  <2>. QED BY <1>2, <2>2
<1>6. LineOnce'
  BY <1>3 DEF XInv, LineOnce
<1>7. LineHead'
  <2>1. SUFFICES ASSUME NEW c \in Coordinators, Line(c) # <<>>, ~Retired(c)'
                 PROVE  \/ pc'[Line(c)[1]] = "reloadQueued"
                        \/ \E x \in Calls : /\ syncLock'[c].owner = x /\ on[x] = c
                              /\ x \notin HAReloads /\ pc'[x] \in StayPlaces
    BY <1>1, <1>3 DEF LineHead
  <2>2. \A x \in Calls : pc'[x] = "restoring" => pc[x] = "restoring"
    BY <1>2
  <2>3. ~Retired(c)
    BY <1>1, <2>1, <2>2 DEF Retired, Coordinators
  <2>4. ~(c = on[t] /\ t \notin HAReloads)
    <3>1. SUFFICES ASSUME c = on[t], t \notin HAReloads PROVE FALSE
      OBVIOUS
    <3>2. HoldsOff(t) /\ c \in 1 .. born /\ restoreLock[c].owner = t
      BY <1>1, <3>1, OwnerFacts DEF HoldsOff, HoldsOffPlaces, ReloadPlaces,
         OwnsSyncPlaces, IInv, RestoreOwned
    <3>. QED BY <1>1, <2>3, <3>1, <3>2 DEF Retired, IInv, RestoreOwned
  <2>5. Line(c)[1] \in Calls
    <3>1. 1 \in 1 .. Len(Line(c))
      BY <1>3, <2>1, LineFacts
    <3>. QED BY <1>3, <3>1, LineFacts
  <2>. QED BY <1>2, <1>3, <1>4, <2>1, <2>3, <2>4, <2>5 DEF XInv, LineHead
<1>8. Exclusive' /\ ReloadKind' /\ EditMarked' /\ LeavingUnloads'
  BY <1>1, <1>4 DEF XInv, Exclusive, ReloadKind, EditMarked, LeavingUnloads
<1>9. \A x \in Calls : OwnsSync(x) => on[x] # 0 /\ on[x] # current'
  BY <1>1, BoundAssumption DEF IInv, OnBuilt, TypeOK, Coordinators
<1>10. SyncLoaded'
  <2>1. SUFFICES ASSUME NEW s \in Calls, pc[s] = "sync" PROVE gaveUp[on[s]]
    BY <1>1, <1>4 DEF SyncLoaded
  <2>2. OwnsSync(s)
    BY <2>1 DEF OwnsSync, OwnsSyncPlaces, IInv, HAPlaces, ReloadPlaces
  <2>. QED BY <1>1, <1>9, <2>1, <2>2 DEF XInv, SyncLoaded
<1>11. WaitedForSync' /\ ClosingHold'
  BY <1>2 DEF WaitedForSync, ClosingHold, SetupPlaces
<1>12. EditHold'
  <2>1. SUFFICES ASSUME NEW r \in Calls, ReloadsSoon(r) PROVE on[r] # current'
    BY <1>1, <1>4 DEF EditHold
  <2>2. OwnsSync(r)
    BY <2>1 DEF ReloadsSoon, OwnsSync, OwnsSyncPlaces, HoldsOffPlaces
  <2>. QED BY <1>9, <2>2
<1>. QED
  BY <1>5, <1>6, <1>7, <1>8, <1>10, <1>11, <1>12 DEF XInv

-----------------------------------------------------------------------------
(* The invariant and what follows from it *)

LEMMA XInitial == Init => XInv
<1>1. SUFFICES ASSUME Init PROVE XInv
  OBVIOUS
<1>2. \A c \in Coordinators : Line(c) = <<>>
  BY <1>1 DEF Init, Line, UnusedLock
<1>3. InLine /\ LineOnce /\ LineHead
  BY <1>2 DEF InLine, LineOnce, LineHead
<1>4. \A t \in Calls : pc[t] = "idle"
  BY <1>1 DEF Init
<1>5. Exclusive /\ SyncLoaded /\ WaitedForSync /\ ReloadKind /\ EditMarked
  BY <1>4 DEF Exclusive, SyncLoaded, WaitedForSync, ReloadKind, EditMarked
<1>6. EditHold /\ ClosingHold /\ LeavingUnloads
  BY <1>1, <1>4, KindFacts DEF EditHold, ClosingHold, LeavingUnloads, Init
<1>. QED BY <1>3, <1>5, <1>6 DEF XInv

\* Only a failed unload, after which a coordinator serves calls again, breaks it.
LEMMA XInductive ==
    ASSUME UnloadMayFail = FALSE
    PROVE  IInv /\ IInv' /\ XInv /\ [Next]_vars => XInv'
<1>. SUFFICES ASSUME IInv, IInv', XInv, [Next]_vars PROVE XInv'
  OBVIOUS
<1>1. CASE UNCHANGED vars
  BY <1>1 DEF vars, haVars, coordinatorVars, XInv, InLine, LineOnce, LineHead, Line,
     Retired, Exclusive, SyncLoaded, WaitedForSync, ReloadKind, EditMarked, EditHold,
     ReloadsSoon, ClosingHold, LeavingUnloads
<1>2. CASE Quiet
  BY <1>1, <1>2 DEF Quiet
<1>3. ASSUME NEW t \in Calls, Request(t) PROVE XInv'
  BY <1>3, AskKeeps, RestoreKeeps, EditKeeps, ReloadRequestKeeps, MoveKeeps DEF Request
<1>4. ASSUME NEW t \in Calls, Proceed(t) PROVE XInv'
  <2>1. ~PlatformsStay(t)
    BY DEF PlatformsStay
  <2>. QED
    BY <1>4, <2>1, WokenKeeps, HoldKeeps, MoveKeeps, RestoreEndKeeps, EditKeeps,
       EditEndKeeps, LockedWorkEndKeeps, ReloadWokenKeeps, ReloadRecheckKeeps,
       UnloadBeginKeeps, UnloadWaitKeeps, PlatformsUnloadedKeeps, CloseSessionKeeps,
       ReturnKeeps DEF Proceed
<1>5. ASSUME NEW t \in Calls, UnloadTimeout(t) PROVE XInv'
  BY <1>5, UnloadWaitKeeps
<1>. QED BY <1>1, <1>2, <1>3, <1>4, <1>5 DEF Next

LEMMA XInvariant == ASSUME UnloadMayFail = FALSE PROVE Spec => [](IInv /\ XInv)
<1>1. Init => IInv /\ XInv
  BY InitInv, XInitial
<1>2. IInv /\ XInv /\ [Next]_vars => (IInv /\ XInv)'
  BY Inductive, XInductive
<1>. QED BY <1>1, <1>2, PTL DEF Spec

\* While every unload succeeds, a restore never runs beside a sync, an uninstall
\* cleanup or a range check of its coordinator, whoever waited for which lock.
THEOREM RestoreExcludesSync ==
    ASSUME UnloadMayFail = FALSE PROVE Spec => []RestoreAndSyncExclude
<1>1. IInv /\ XInv => RestoreAndSyncExclude
  BY DEF XInv, Exclusive, RestoreAndSyncExclude, Calls
<1>. QED BY <1>1, XInvariant, PTL

\* While every unload succeeds, no reload cuts off a running sync before the
\* bounded wait of the unload ran out, and no press starts on a coordinator
\* that a reload replaced while it waited.
THEOREM SyncNeverCutOff ==
    ASSUME UnloadMayFail = FALSE PROVE Spec => []SyncNotCutOff
<1>1. IInv /\ XInv => SyncNotCutOff
  <2>1. SUFFICES ASSUME IInv, XInv, NEW s \in Syncs, pc[s] = "sync"
                 PROVE  KeepsItsSession(s)
    BY DEF SyncNotCutOff
  <2>2. s \in Calls /\ s \notin HAReloads
    BY KindFacts
  <2>3. on[s] \in Coordinators
    BY <2>1, <2>2, OwnerFacts DEF OwnsSyncPlaces
  <2>. QED
    BY <2>1, <2>2, <2>3 DEF XInv, SyncLoaded, IInv, LoadedOpen, KeepsItsSession,
       Coordinators
<1>. QED BY <1>1, XInvariant, PTL

\* While every unload succeeds, no reload the integration asks for takes the
\* coordinator whose locks it holds away from a running plan edit.
THEOREM EditsOutlast ==
    ASSUME UnloadMayFail = FALSE PROVE Spec => []EditsOutlastOwnReloads
<1>1. IInv /\ XInv => EditsOutlastOwnReloads
  <2>1. SUFFICES ASSUME IInv, XInv, NEW r \in Calls \ HAReloads,
                        NEW e \in Edits \union Cascades,
                        pc[r] \in {"platforms", "closing"}, on[r] = leaving,
                        pc[e] = "editing", on[e] = leaving
                 PROVE  FALSE
    BY DEF EditsOutlastOwnReloads
  <2>2. CASE pc[r] = "platforms"
    <3>1. leaving = current /\ ReloadsSoon(r)
      BY <2>1, <2>2 DEF IInv, UnloadInv, ReloadsSoon, ReloadPlaces
    <3>. QED BY <2>1, <3>1 DEF XInv, EditHold
  <2>3. CASE pc[r] = "closing"
    BY <2>1, <2>3 DEF XInv, ClosingHold
  <2>. QED BY <2>1, <2>2, <2>3
<1>. QED BY <1>1, XInvariant, PTL

==============================================================================
