---------------------------- MODULE BackupStore ----------------------------
(***************************************************************************)
(* FunctionPlanBackupManager: the rotating snapshots of function plans.    *)
(*                                                                         *)
(* The manager keeps two histories per plan identity (ID and name), newest *)
(* first: "auto" and "change", and the set of deleted plans whose backups  *)
(* the user chose to keep.  Each of the three lives in memory and in a     *)
(* Store on disk.  Every write runs under one lock (_serialized), loads    *)
(* the stores if need be, changes the memory and saves what it changed,    *)
(* store by store.  A save may fail, and the writing call may be cancelled *)
(* while it waits for one.                                                 *)
(*                                                                         *)
(* Abstractions: a snapshot is the time it was taken, the content hash of  *)
(* its plan and the restored_at mark.  An empty history is no history.     *)
(* Only the save itself is an await a writer can be cancelled at.          *)
(***************************************************************************)
EXTENDS BackupHistory

CONSTANTS Callers,      \* calls that write
          Readers,      \* calls that only read, and load the stores for it
          NoCall,
          Ids,          \* plan identities (fub_id, plan_name)
          Contents,     \* content hashes
          AutoSlots,    \* FUNCTION_PLAN_AUTO_BACKUP_SLOTS
          ChangeSlots,  \* FUNCTION_PLAN_CHANGE_BACKUP_SLOTS
          Mixes,        \* bound: what meets in one behaviour, as [writes, restarts]: which
                        \* caller makes which writes, how often Home Assistant restarts
          Cancellable,  \* those whose call may be cancelled
          NoList,       \* no plan list was read from Comexio
          MaxCaptures,  \* bound: snapshots taken in a behaviour
          MaxFaults,    \* bound: failed saves and loads
          MaxCancels    \* bound: cancelled saves

ASSUME SlotsAssumption == AutoSlots \in Nat \ {0} /\ ChangeSlots \in Nat \ {0}
ASSUME BackupBoundsAssumption ==
    /\ {MaxCaptures, MaxFaults, MaxCancels} \subseteq Nat
    /\ \A m \in Mixes : m.restarts \in Nat
ASSUME CallersAssumption == Callers \cap Readers = {}
ASSUME IdsAssumption == IsFiniteSet(Ids)
ASSUME NoCallAssumption == NoCall \notin Callers \union Readers

Procs == Callers \union Readers

INSTANCE AsyncLock WITH Calls <- Procs

Kinds == {"auto", "change"}
Stores == Kinds \union {"kept"}
Limit(kind) == IF kind = "auto" THEN AutoSlots ELSE ChangeSlots

Times == 1 .. MaxCaptures
\* Its snapshots are [at : Times, content : Contents, restored : BOOLEAN], newest first.
NoHistories == [id \in Ids |-> <<>>]

\* A plan list that was read: the identities live in Comexio.
PlanLists == {NoList} \union SUBSET Ids

\* What a write is called with, by its method.
Request ==
    [op : {"auto"}, plans : UNION {[S -> Contents] : S \in SUBSET Ids}]
    \union [op : {"change"}, id : Ids, content : Contents]
    \union [op : {"move"}, id : Ids, to : Ids]
    \union [op : {"mark", "deleteOne"}, kind : Kinds, id : Ids, at : Times,
            slot : Nat]
    \union [op : {"purgeIdentity", "deletePlan", "keep", "unkeep"}, id : Ids]
    \union [op : {"deleteAll"}]
    \union [op : {"audit"}, live : PlanLists]
    \union [op : {"purge"}, live : PlanLists, cutoff : Nat]
NoRequest == [op |-> "none"]

\* What a write still has to do: each task changes the memory (or not) and
\* saves one store (or, with nothing changed, none).
Task ==
    [do : {"save"}, store : Stores]
    \union [do : {"drop"}, kind : Kinds, id : Ids]
    \union [do : {"forget", "forgetLogged"}, id : Ids]
    \union [do : {"clearKept"}]

VARIABLES
    history,    \* _auto_data, _change_data
    kept,       \* _kept
    loaded,     \* _loaded
    writeLock, loadLock,
    disk,       \* @external: the three Store files
    late,       \* @external: writes to disk a cancelled save left running
    clock,      \* snapshots taken so far
    pc, request,
    todo,       \* the running write's tasks
    undo,       \* what the running write does when a save fails
    before,     \* its histories before it changed them
    saved,      \* the stores it has saved
    unsynced,   \* stores whose memory may differ from the disk (history)
    told,       \* plans users were told are kept since Home Assistant started (history)
    mix,        \* the writes and restarts that meet in this behaviour
    faults, cancels, restarts

memory == <<history, kept, loaded>>
work == <<todo, undo, before, saved>>
calls == <<pc, request>>
locks == <<writeLock, loadLock>>
external == <<disk, late>>
bounds == <<faults, cancels, restarts>>
vars == <<memory, work, calls, locks, external, clock, unsynced, told, mix, bounds>>

Init ==
    /\ mix \in Mixes
    /\ history = [k \in Kinds |-> NoHistories]
    /\ kept = {} /\ loaded = FALSE
    /\ writeLock = UnusedLock /\ loadLock = UnusedLock
    /\ disk = [auto |-> NoHistories, change |-> NoHistories, kept |-> {}]
    /\ late = {}
    /\ clock = 0
    /\ pc = [p \in Procs |-> "idle"]
    /\ request = [p \in Procs |-> NoRequest]
    /\ todo = <<>> /\ undo = "keep" /\ saved = {}
    /\ before = [k \in Kinds |-> NoHistories]
    /\ unsynced = {} /\ told = {}
    /\ faults = 0 /\ cancels = 0 /\ restarts = 0

-----------------------------------------------------------------------------
(* Operators on the histories of all plans *)

BackedUp(h, id) == \E k \in Kinds : h[k][id] # <<>>

Orphaned(live, id) == live # NoList /\ id \notin live

\* Mutant of Expired: the kept decision is not looked at.
ExpiredKeptToo(live, cutoff) ==
    {id \in Ids : /\ Orphaned(live, id) /\ BackedUp(history, id)
                  /\ \A k \in Kinds : history[k][id] # <<>> =>
                         Head(history[k][id]).at < cutoff}

\* _expired_orphans: deleted plans whose newest snapshot, read from slot 0 of
\* either history, is older than the cutoff, without the kept ones.
Expired(live, cutoff) ==
    {id \in Ids : /\ Orphaned(live, id) /\ BackedUp(history, id)
                  /\ \A k \in Kinds : history[k][id] # <<>> =>
                         Head(history[k][id]).at < cutoff
                  /\ id \notin kept}

-----------------------------------------------------------------------------
(* Calls, the write lock and the first load *)

Goto(p, place) == pc' = [pc EXCEPT ![p] = place]

\* A request as a caller can make it: a restore marks, and a deletion picks, a
\* snapshot it saw in that slot.
Offered(p, r) ==
    /\ <<p, r.op>> \in mix.writes
    /\ r.op = "move" => r.id # r.to
    /\ r.op \in {"mark", "deleteOne"} =>
           /\ r.slot + 1 \in DOMAIN history[r.kind][r.id]
           /\ history[r.kind][r.id][r.slot + 1].at = r.at

\* The requests of an instance that TLC can enumerate.
Offers ==
    [op : {"auto"}, plans : UNION {[S -> Contents] : S \in (SUBSET Ids) \ {{}}}]
    \union [op : {"change"}, id : Ids, content : Contents]
    \union [op : {"move"}, id : Ids, to : Ids]
    \union [op : {"mark", "deleteOne"}, kind : Kinds, id : Ids, at : 1 .. clock,
            slot : 0 .. (AutoSlots + ChangeSlots)]
    \union [op : {"purgeIdentity", "deletePlan", "keep", "unkeep"}, id : Ids]
    \union [op : {"deleteAll"}]
    \union [op : {"audit"}, live : PlanLists]
    \union [op : {"purge"}, live : PlanLists, cutoff : 1 .. (clock + 1)]

\* Mutant of Call: the write does not take the lock (a method that is not
\* _serialized).
CallUnlocked(p) == \E r \in Offers :
    /\ p \in Callers /\ pc[p] = "idle" /\ Offered(p, r)
    /\ request' = [request EXCEPT ![p] = r]
    /\ Goto(p, "ensure")
    /\ UNCHANGED <<memory, work, locks, external, clock, unsynced, told, bounds>>

\* _serialized: `async with self._write_lock`.
Call(p) == \E r \in Offers :
    /\ p \in Callers /\ pc[p] = "idle" /\ Offered(p, r)
    /\ request' = [request EXCEPT ![p] = r]
    /\ \/ /\ Free(writeLock)
          /\ writeLock' = Take(writeLock, p) /\ Goto(p, "ensure")
       \/ /\ ~Free(writeLock)
          /\ writeLock' = Enqueue(writeLock, p) /\ Goto(p, "writeQueued")
    /\ UNCHANGED <<memory, work, loadLock, external, clock, unsynced, told,
                   bounds>>

WriteWoken(p) ==
    /\ pc[p] = "writeQueued" /\ Woken(writeLock, p)
    /\ writeLock' = TakeWoken(writeLock, p)
    /\ Goto(p, "ensure")
    /\ UNCHANGED <<memory, work, request, loadLock, external, clock, unsynced,
                   told, bounds>>

\* A call ends: a writer gives the write lock back.
Ends(p) ==
    /\ Goto(p, "idle")
    /\ request' = [request EXCEPT ![p] = NoRequest]
    /\ writeLock' = IF p \in Callers THEN Release(writeLock) ELSE writeLock
    /\ todo' = <<>> /\ undo' = "keep" /\ saved' = {}
    /\ before' = [k \in Kinds |-> NoHistories]

\* _async_ensure_loaded, by a writer under the write lock or by a reader.
EnsureLoaded(p) ==
    /\ \/ pc[p] = "ensure"
       \/ p \in Readers /\ pc[p] = "idle"
    /\ ~loaded
    /\ \/ /\ Free(loadLock)
          /\ loadLock' = Take(loadLock, p) /\ Goto(p, "loadAuto")
       \/ /\ ~Free(loadLock)
          /\ loadLock' = Enqueue(loadLock, p) /\ Goto(p, "loadQueued")
    /\ UNCHANGED <<memory, work, request, writeLock, external, clock, unsynced,
                   told, bounds>>

AfterLoad(p) == IF p \in Callers THEN "ensure" ELSE "idle"

\* A call that waited for the load lock finds the stores loaded meanwhile, or
\* loads them when the load it waited for failed.
LoadWoken(p) ==
    /\ pc[p] = "loadQueued" /\ Woken(loadLock, p)
    /\ \/ /\ loaded
          /\ loadLock' = Release(TakeWoken(loadLock, p)) /\ Goto(p, AfterLoad(p))
       \/ /\ ~loaded
          /\ loadLock' = TakeWoken(loadLock, p) /\ Goto(p, "loadAuto")
    /\ UNCHANGED <<memory, work, request, writeLock, external, clock, unsynced,
                   told, bounds>>

\* _async_load_stores, one await per store.
LoadHistory(p, kind, place, next) ==
    /\ pc[p] = place
    /\ history' = [history EXCEPT ![kind] = disk[kind]]
    /\ Goto(p, next)
    /\ UNCHANGED <<kept, loaded, work, request, locks, external, clock, unsynced,
                   told, bounds>>

LoadAuto(p) == LoadHistory(p, "auto", "loadAuto", "loadChange")
LoadChange(p) == LoadHistory(p, "change", "loadChange", "loadKept")

LoadKept(p) ==
    /\ pc[p] = "loadKept"
    /\ kept' = disk["kept"] /\ loaded' = TRUE
    /\ loadLock' = Release(loadLock)
    /\ Goto(p, AfterLoad(p))
    /\ UNCHANGED <<history, work, request, writeLock, external, clock, unsynced,
                   told, bounds>>

\* A reader finds the stores loaded and returns.
Reads(p) == p \in Readers /\ pc[p] = "idle" /\ loaded /\ UNCHANGED vars

\* A store that cannot be read ends the call; the next one loads again.
LoadFails(p) ==
    /\ pc[p] \in {"loadAuto", "loadChange", "loadKept"}
    /\ faults < MaxFaults /\ faults' = faults + 1
    /\ loadLock' = Release(loadLock)
    /\ Ends(p)
    /\ UNCHANGED <<memory, external, clock, unsynced, told, cancels, restarts>>

-----------------------------------------------------------------------------
(* What each write changes in memory before its first save *)

\* The write p is to change the memory: it has the lock and the loaded stores.
Writes(p, op) == pc[p] = "ensure" /\ loaded /\ request[p].op = op

Changed(plans) ==
    {id \in DOMAIN plans : history["auto"][id] = <<>>
                           \/ Head(history["auto"][id]).content # plans[id]}

\* That a plan is kept, as a user was told, lapses with an un-keep, a deletion or
\* a move of its backups.
Lapsed(r) ==
    CASE r.op = "deleteAll" -> Ids
      [] r.op \in {"unkeep", "deletePlan", "purgeIdentity", "move"} -> {r.id}
      [] r.op = "deleteOne" -> {id \in {r.id} : ~BackedUp(history', id)}
      [] OTHER -> {}

Lapses(r) == told' = told \ Lapsed(r)

NothingToDo(p) ==
    /\ UNCHANGED memory
    /\ Ends(p) /\ Lapses(request[p])
    /\ UNCHANGED <<loadLock, external, clock, unsynced, bounds>>

\* The memory is changed, the tasks follow; whenFailing is what a failed save
\* does to it: "keep" the change, "rollback" to before, or "putBack" all stores.
Proceed(p, tasks, whenFailing) ==
    /\ todo' = tasks /\ undo' = whenFailing
    /\ before' = history /\ saved' = {}
    /\ Goto(p, "saving")
    /\ UNCHANGED <<loaded, request, locks, external, unsynced, bounds>>

Save(store) == [do |-> "save", store |-> store]
Drop(kind, id) == [do |-> "drop", kind |-> kind, id |-> id]
Forget(id) == [do |-> "forget", id |-> id]
ForgetLogged(id) == [do |-> "forgetLogged", id |-> id]

\* async_auto_backup: held_back is asked after the awaits, and any answer is
\* possible here.  Each changed plan gets a snapshot of its own time.
AutoBackup(p) ==
    /\ Writes(p, "auto")
    /\ \/ NothingToDo(p)
       \/ LET plans == request[p].plans
              order == SetToSeq(Changed(plans))
              new(id) == [at |-> clock + CHOOSE i \in DOMAIN order : order[i] = id,
                          content |-> plans[id], restored |-> FALSE]
          IN /\ order # <<>> /\ clock + Len(order) <= MaxCaptures
             /\ clock' = clock + Len(order)
             /\ history' = [history EXCEPT !["auto"] = [id \in Ids |->
                    IF id \in Changed(plans)
                    THEN Rotated(@[id], new(id), AutoSlots) ELSE @[id]]]
             /\ Proceed(p, <<Save("auto")>>, "rollback") /\ Lapses(request[p])
             /\ UNCHANGED kept

\* async_change_backup
ChangeBackup(p) == LET r == request[p] IN
    /\ Writes(p, "change")
    /\ \/ clock = MaxCaptures /\ NothingToDo(p)  \* (bound)
       \/ /\ clock < MaxCaptures /\ clock' = clock + 1
          /\ history' = [history EXCEPT !["change"][r.id] =
                 Rotated(@, [at |-> clock + 1, content |-> r.content,
                             restored |-> FALSE], ChangeSlots)]
          /\ Proceed(p, <<Save("change")>>, "keep") /\ Lapses(r)
          /\ UNCHANGED kept

WithHistory(id) == {k \in Kinds : history[k][id] # <<>>}
SavesOf(stores) == (IF "auto" \in stores THEN <<Save("auto")>> ELSE <<>>)
                   \o (IF "change" \in stores THEN <<Save("change")>> ELSE <<>>)

\* async_rekey_fub_id, async_rename_identity: _async_move_identity.
Move(p) == LET r == request[p] IN
    /\ Writes(p, "move")
    /\ history' = [k \in Kinds |->
           IF history[k][r.id] = <<>> THEN history[k]
           ELSE [history[k] EXCEPT
                   ![r.to] = Merged(@, history[k][r.id], Limit(k)),
                   ![r.id] = <<>>]]
    /\ Proceed(p, SavesOf(WithHistory(r.id)) \o <<ForgetLogged(r.id)>>, "putBack")
    /\ Lapses(r)
    /\ UNCHANGED <<kept, clock>>

\* async_purge_identity
PurgeIdentity(p) == LET r == request[p] IN
    /\ Writes(p, "purgeIdentity")
    /\ history' = [k \in Kinds |->
           IF history[k][r.id] = <<>> THEN history[k]
           ELSE [history[k] EXCEPT ![r.id] = <<>>]]
    /\ Proceed(p, SavesOf(WithHistory(r.id)) \o <<ForgetLogged(r.id)>>, "putBack")
    /\ Lapses(r)
    /\ UNCHANGED <<kept, clock>>

\* async_mark_restored finds the snapshot by its capture time.
MarkRestored(p) == LET r == request[p] IN
    /\ Writes(p, "mark")
    /\ \/ ~Holds(history[r.kind][r.id], r.at) /\ NothingToDo(p)
       \/ /\ Holds(history[r.kind][r.id], r.at)
          /\ history' = [history EXCEPT ![r.kind][r.id] = Promoted(@, r.at)]
          /\ Proceed(p, <<Save(r.kind)>>, "rollback")
          /\ UNCHANGED <<kept, clock, told>>

\* async_delete_snapshot: the slot the caller named, whatever is in it now.
DeleteOne(p) == LET r == request[p]
                    old == history[r.kind][r.id] IN
    /\ Writes(p, "deleteOne")
    /\ \/ r.slot + 1 \notin DOMAIN old /\ NothingToDo(p)
       \/ /\ r.slot + 1 \in DOMAIN old
          /\ history' = [history EXCEPT ![r.kind][r.id] = RemoveAt(@, r.slot + 1)]
          /\ Proceed(p, <<Save(r.kind)>>
                         \o IF Len(old) = 1 THEN <<Forget(r.id)>> ELSE <<>>, "keep")
          /\ Lapses(r)
          /\ UNCHANGED <<kept, clock>>

DropAll(id) == <<Drop("auto", id), Drop("change", id), Forget(id)>>

\* async_delete_plan_backups
DeletePlan(p) ==
    /\ Writes(p, "deletePlan")
    /\ Proceed(p, DropAll(request[p].id), "keep") /\ Lapses(request[p])
    /\ UNCHANGED <<history, kept, clock>>

\* async_delete_all_backups
DeleteAll(p) ==
    /\ Writes(p, "deleteAll")
    /\ history' = [k \in Kinds |-> NoHistories]
    /\ Proceed(p, <<Save("auto"), Save("change"), [do |-> "clearKept"]>>, "keep")
    /\ Lapses(request[p])
    /\ UNCHANGED <<kept, clock>>

\* Mutant of Purge: it calls the serialized deletion, which waits for the
\* lock the purge holds.
PurgeReentrant(p) ==
    /\ Writes(p, "purge")
    /\ writeLock' = Enqueue(writeLock, p) /\ Goto(p, "writeQueued")
    /\ UNCHANGED <<memory, work, request, loadLock, external, clock, unsynced,
                   told, bounds>>

\* The three tasks of each plan in ids, plan by plan.
DropsOf(ids) == LET order == SetToSeq(ids) IN
    [i \in 1 .. 3 * Len(order) |->
        DropAll(order[(i + 2) \div 3])[((i + 2) % 3) + 1]]

\* async_purge_orphaned: the identities are chosen once, under the lock.
Purge(p) == LET r == request[p] IN
    /\ Writes(p, "purge")
    /\ Proceed(p, DropsOf(Expired(r.live, r.cutoff)), "keep")
    /\ UNCHANGED <<history, kept, clock, told>>

\* async_expired_orphans also forgets keep decisions: of plans live again, and
\* of plans without backups.
Audit(p) == LET r == request[p]
                stale == {id \in kept : ~Orphaned(r.live, id)
                                        \/ ~BackedUp(history, id)} IN
    /\ Writes(p, "audit")
    /\ \/ (r.live = NoList \/ stale = {}) /\ NothingToDo(p)
       \/ /\ r.live # NoList /\ stale # {}
          /\ kept' = kept \ stale
          /\ told' = told \ stale
          /\ Proceed(p, <<Save("kept")>>, "keep")
          /\ UNCHANGED <<history, clock>>

\* async_keep_orphaned
Keep(p) == LET id == request[p].id IN
    /\ Writes(p, "keep")
    /\ \/ /\ id \in kept
          /\ told' = told \union {id}  \* "are kept already"
          /\ Ends(p)
          /\ UNCHANGED <<memory, loadLock, external, clock, unsynced, bounds>>
       \/ /\ id \notin kept
          /\ kept' = kept \union {id}
          /\ Proceed(p, <<Save("kept")>>, "keep")
          /\ UNCHANGED <<history, clock, told>>

\* async_unkeep_orphaned
Unkeep(p) == LET id == request[p].id IN
    /\ Writes(p, "unkeep")
    /\ \/ id \notin kept /\ NothingToDo(p)
       \/ /\ id \in kept
          /\ kept' = kept \ {id}
          /\ Proceed(p, <<Save("kept")>>, "keep") /\ Lapses(request[p])
          /\ UNCHANGED <<history, clock>>

-----------------------------------------------------------------------------
(* The tasks of a write *)

Forgets(t) == t.do \in {"forget", "forgetLogged"}

\* The memory once task t has changed it.
HistoryAfter(t) ==
    IF t.do = "drop" THEN [history EXCEPT ![t.kind][t.id] = <<>>] ELSE history

\* _async_forget_kept_if_gone
KeptAfter(t) ==
    CASE t.do = "clearKept" -> {}
      [] Forgets(t) /\ ~BackedUp(history, t.id) -> kept \ {t.id}
      [] OTHER -> kept

\* The store task t saves, or "none" when it changed nothing.
StoreOf(t) ==
    CASE t.do = "save" -> t.store
      [] t.do = "drop" -> IF history[t.kind][t.id] = <<>> THEN "none" ELSE t.kind
      [] OTHER -> IF KeptAfter(t) = kept THEN "none" ELSE "kept"

ImageAfter(t) ==
    IF StoreOf(t) = "kept" THEN KeptAfter(t) ELSE HistoryAfter(t)[StoreOf(t)]

HasTask(p) == pc[p] = "saving" /\ todo # <<>>

SkipTask(p) == LET t == Head(todo) IN
    /\ HasTask(p) /\ StoreOf(t) = "none"
    /\ todo' = Tail(todo)
    /\ UNCHANGED <<memory, undo, before, saved, calls, locks, external, clock,
                   unsynced, told, bounds>>

LateOf(store) == {w \in late : w.store = store}

\* Store.async_save returns: the file holds the memory as it was given.
Saves(p) == LET t == Head(todo) IN
    /\ HasTask(p) /\ StoreOf(t) # "none"
    /\ history' = HistoryAfter(t) /\ kept' = KeptAfter(t)
    /\ disk' = [disk EXCEPT ![StoreOf(t)] = ImageAfter(t)]
    /\ late' = late \ LateOf(StoreOf(t))
    /\ unsynced' = unsynced \ {StoreOf(t)}
    /\ saved' = saved \union {StoreOf(t)}
    /\ todo' = Tail(todo)
    /\ UNCHANGED <<loaded, undo, before, calls, locks, clock, told, bounds>>

\* Mutant of PutBack: the stores saved before the failing one are not written
\* again.
PutBackUnsaved(p, stores) ==
    /\ history' = before /\ kept' = kept
    /\ Ends(p)

\* _async_save_all_or_put_back: the memory as it was, and every store written
\* meanwhile written again.  The re-saves finish despite a cancel.
PutBack(p, stores) ==
    /\ history' = before /\ kept' = kept
    /\ IF stores = {} THEN Ends(p)
       ELSE /\ todo' = SavesOf(stores) /\ undo' = "log"
            /\ UNCHANGED <<before, saved, calls, writeLock>>

\* _async_save_auto_or_roll_back, async_mark_restored
RollBack(p) ==
    /\ history' = before /\ kept' = kept
    /\ Ends(p)

\* The change stays in memory; the caller is told that it failed.
LeaveAhead(p, t) ==
    /\ history' = HistoryAfter(t) /\ kept' = KeptAfter(t)
    /\ Ends(p)

\* A failed save that is only logged.
LogAndGoOn(t) ==
    /\ history' = HistoryAfter(t) /\ kept' = KeptAfter(t)
    /\ todo' = Tail(todo)
    /\ UNCHANGED <<undo, before, saved, calls, writeLock>>

Logged(t) == t.do = "forgetLogged" \/ undo = "log"

\* The stores a write that stops here leaves ahead of the disk: the one it was
\* saving, and those it changed in memory before the first save.
LeftAhead == {StoreOf(todo[i]) : i \in {j \in DOMAIN todo : j = 1 \/ todo[j].do = "save"}}

SaveFails(p) == LET t == Head(todo) IN
    /\ HasTask(p) /\ StoreOf(t) # "none"
    /\ faults < MaxFaults /\ faults' = faults + 1
    /\ \/ Logged(t) /\ LogAndGoOn(t)
       \/ ~Logged(t) /\ undo = "putBack" /\ PutBack(p, saved)
       \/ ~Logged(t) /\ undo = "rollback" /\ RollBack(p)
       \/ ~Logged(t) /\ undo = "keep" /\ LeaveAhead(p, t)
    /\ unsynced' = CASE Logged(t) -> unsynced \union {StoreOf(t)}
                      [] ~Logged(t) /\ undo = "keep" -> unsynced \union LeftAhead
                      [] OTHER -> unsynced
    /\ UNCHANGED <<loaded, loadLock, external, clock, told, cancels, restarts>>

\* The writing call is cancelled while it waits for a save.  The write to disk
\* is done, goes on in its thread (late), or never began.  Only a lineage move
\* handles a cancel, and the re-saves of its put-back are shielded from one.
SaveCancelled(p) == LET t == Head(todo)
                        store == StoreOf(t) IN
    /\ HasTask(p) /\ store # "none" /\ undo # "log"
    /\ request[p].op \in Cancellable
    /\ cancels < MaxCancels /\ cancels' = cancels + 1
    /\ \/ /\ disk' = [disk EXCEPT ![store] = ImageAfter(t)]
          /\ late' = late \ LateOf(store)
       \/ /\ late' = (late \ LateOf(store))
                      \union {[store |-> store, image |-> ImageAfter(t)]}
          /\ UNCHANGED disk
       \/ UNCHANGED external
    /\ \/ /\ undo = "putBack" /\ t.do = "save"
          /\ PutBack(p, saved \union {store})
          /\ UNCHANGED unsynced
       \/ /\ undo = "putBack" => t.do # "save"
          /\ LeaveAhead(p, t)
          /\ unsynced' = IF undo = "rollback" THEN unsynced
                         ELSE unsynced \union LeftAhead
    /\ UNCHANGED <<loaded, loadLock, clock, told, faults, restarts>>

\* The write of a cancelled save lands after all.  (Assumed: not after a later
\* save of the same store.)
LateLands == \E w \in late :
    /\ disk' = [disk EXCEPT ![w.store] = w.image]
    /\ late' = late \ {w}
    /\ UNCHANGED <<memory, work, calls, locks, clock, unsynced, told, bounds>>

\* The write is over; what it reports to the user is noted.
WriteEnds(p) == LET r == request[p] IN
    /\ pc[p] = "saving" /\ todo = <<>>
    /\ told' = IF r.op = "keep" THEN told \union {r.id} ELSE told
    /\ Ends(p)
    /\ UNCHANGED <<memory, loadLock, external, clock, unsynced, bounds>>

\* Home Assistant stops, or dies, and starts again: a new manager, nothing
\* loaded.
Restart ==
    /\ restarts < mix.restarts /\ restarts' = restarts + 1
    /\ history' = [k \in Kinds |-> NoHistories] /\ kept' = {} /\ loaded' = FALSE
    /\ writeLock' = UnusedLock /\ loadLock' = UnusedLock
    /\ pc' = [p \in Procs |-> "idle"]
    /\ request' = [p \in Procs |-> NoRequest]
    /\ todo' = <<>> /\ undo' = "keep" /\ saved' = {}
    /\ before' = [k \in Kinds |-> NoHistories]
    /\ late' = {} /\ unsynced' = {} /\ told' = {}
    /\ UNCHANGED <<disk, clock, faults, cancels>>

-----------------------------------------------------------------------------
Loads(p) == EnsureLoaded(p) \/ LoadWoken(p) \/ LoadAuto(p) \/ LoadChange(p)
            \/ LoadKept(p) \/ Reads(p)

Changes(p) == \/ AutoBackup(p) \/ ChangeBackup(p) \/ Move(p) \/ PurgeIdentity(p)
              \/ MarkRestored(p) \/ DeleteOne(p) \/ DeletePlan(p) \/ DeleteAll(p)
              \/ Purge(p) \/ Audit(p) \/ Keep(p) \/ Unkeep(p)

\* What the event loop and the disk make a call do next.
Advances(p) == \/ WriteWoken(p) \/ Loads(p) \/ Changes(p)
               \/ SkipTask(p) \/ Saves(p) \/ WriteEnds(p)

Next == /\ \/ \E p \in Procs : \/ Call(p) \/ Advances(p) \/ LoadFails(p)
                               \/ SaveFails(p) \/ SaveCancelled(p)
           \/ LateLands \/ Restart
        /\ UNCHANGED mix

Spec == Init /\ [][Next]_vars

\* The event loop runs every call that can run, and a save returns or fails.
FairSpec ==
    Spec /\ \A p \in Procs : WF_vars(Advances(p) /\ UNCHANGED mix)

-----------------------------------------------------------------------------
(* Properties *)

Places == {"idle", "writeQueued", "ensure", "loadQueued", "loadAuto",
           "loadChange", "loadKept", "saving"}

Writing == \E p \in Callers : pc[p] = "saving"
Image(store) == IF store = "kept" THEN kept ELSE history[store]

\* The writes of the manager do not overlap: at most one call is past the
\* write lock (_serialized).
OneWriter ==
    \A p, q \in Callers :
        pc[p] \notin {"idle", "writeQueued"} /\ pc[q] \notin {"idle", "writeQueued"}
            => p = q

\* Between two writes each file holds what the memory holds, unless a save
\* failed whose change the code leaves in memory on purpose: a failed auto
\* backup, restore mark or lineage move must leave both as they were.
DiskFollowsMemory ==
    loaded /\ ~Writing => \A s \in Stores \ unsynced : disk[s] = Image(s)

\* A snapshot is in one place: a move between identities, its put-back and a
\* promotion never leave it under two plans or twice in a history.
NoSnapshotTwice == \A k \in Kinds :
    /\ \A id, other \in Ids : id # other =>
           TimesOf(history[k][id]) \cap TimesOf(history[k][other]) = {}
    /\ \A id \in Ids : \A i, j \in DOMAIN history[k][id] :
           history[k][id][i].at = history[k][id][j].at => i = j

Stopping == restarts' # restarts

\* The backups of identity id change in a step of a purge.
PurgeTakes(id) == \E p \in Callers :
    /\ pc[p] = "saving" /\ request[p].op = "purge" /\ ~Stopping
    /\ \E k \in Kinds : history'[k][id] # history[k][id]

\* A purge takes no backups of a plan the user was told is kept since Home Assistant
\* started, nor of a plan its plan list holds, nor any without a plan list.
PurgeSpares ==
    [][\A id \in Ids : PurgeTakes(id) =>
          /\ id \notin told
          /\ \A p \in Callers : request[p].op = "purge" /\ pc[p] = "saving" =>
                 request[p].live # NoList /\ id \notin request[p].live]_vars

\* Every write comes to its turn and ends: no write waits for the lock it
\* holds itself.
EveryWriteEnds == \A p \in Callers : pc[p] = "writeQueued" ~> pc[p] = "idle"

=============================================================================
