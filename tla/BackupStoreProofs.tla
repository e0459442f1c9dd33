------------------------- MODULE BackupStoreProofs -------------------------
(***************************************************************************)
(* Why the writes of the backup store never overlap: from the step that    *)
(* takes the write lock to the step that gives it back, a writing call is  *)
(* the lock's owner, also while it waits for the load lock or for a save.  *)
(* And why no plan has a snapshot twice: no two snapshots are of one time, *)
(* in one history or in two, so a merge of two histories doubles none.     *)
(* Then why the files of the store follow the memory, and why a purge      *)
(* takes no backups of a plan that a user was told is kept.                *)
(***************************************************************************)
EXTENDS BackupStore, BackupHistoryProofs, TLAPS

\* Call p is past the write lock.
Past(p) == p \in Callers /\ pc[p] \notin {"idle", "writeQueued"}

WriterOwns == \A p \in Procs : Past(p) => writeLock.owner = p

\* OneWriter with what makes it inductive.
IInv == pc \in [Procs -> Places] /\ writeLock \in Lock /\ WriterOwns

\* Call p goes to another place, not past the write lock if it was not.
Moves(p) ==
    \E place \in Places :
        /\ pc' = [pc EXCEPT ![p] = place]
        /\ place = "idle" \/ p \notin Callers \/ Past(p)
        /\ writeLock' = writeLock

\* Call p ends, and gives the write lock back if it writes.
GivesBack(p) ==
    /\ pc' = [pc EXCEPT ![p] = "idle"]
    /\ p \in Callers => Past(p)
    /\ writeLock' = IF p \in Callers THEN Release(writeLock) ELSE writeLock

\* Initially no call writes.
LEMMA InitIInv == Init => IInv
<1> SUFFICES ASSUME Init PROVE IInv
  OBVIOUS
<1>1. pc \in [Procs -> Places] /\ WriterOwns
  BY DEF Init, Places, WriterOwns, Past
<1>2. writeLock \in Lock
  BY DEF Init, UnusedLock, Lock
<1> QED
  BY <1>1, <1>2 DEF IInv

\* A step of a call that leaves the write lock alone preserves the invariant.
LEMMA MovesPreserve ==
  ASSUME IInv, NEW p \in Procs, Moves(p)
  PROVE  IInv'
<1>1. PICK place \in Places :
        /\ pc' = [pc EXCEPT ![p] = place]
        /\ place = "idle" \/ p \notin Callers \/ Past(p)
        /\ writeLock' = writeLock
  BY DEF Moves
<1>2. pc' \in [Procs -> Places] /\ writeLock' \in Lock
  BY <1>1 DEF IInv
<1>3. ASSUME NEW q \in Procs, Past(q)' PROVE writeLock'.owner = q
  <2>1. CASE q = p
    BY <1>1, <1>3, <2>1 DEF IInv, WriterOwns, Past
  <2>2. CASE q # p
    BY <1>1, <1>3, <2>2 DEF IInv, WriterOwns, Past
  <2> QED
    BY <2>1, <2>2
<1> QED
  BY <1>2, <1>3 DEF IInv, WriterOwns

\* The end of a call preserves the invariant: the lock's owner was that call.
LEMMA GivesBackPreserves ==
  ASSUME IInv, NEW p \in Procs, GivesBack(p)
  PROVE  IInv'
<1>1. pc' \in [Procs -> Places]
  BY DEF GivesBack, IInv, Places
<1>2. writeLock' \in Lock
  BY DEF GivesBack, IInv, Lock, Release
<1>3. ASSUME NEW q \in Procs, Past(q)' PROVE writeLock'.owner = q
  <2>1. q # p /\ Past(q)
    BY <1>3 DEF GivesBack, Past, IInv
  <2>2. writeLock.owner = q
    BY <2>1 DEF IInv, WriterOwns
  <2>3. p \notin Callers
    BY <2>1, <2>2 DEF GivesBack, IInv, WriterOwns
  <2> QED
    BY <2>2, <2>3 DEF GivesBack
<1> QED
  BY <1>1, <1>2, <1>3 DEF IInv, WriterOwns

\* Taking the free write lock preserves the invariant: nobody was past it.
LEMMA CallPreserves ==
  ASSUME IInv, NEW p \in Procs, Call(p)
  PROVE  IInv'
<1>1. p \in Callers /\ pc[p] = "idle"
  BY DEF Call
<1>2. \/ /\ Free(writeLock) /\ writeLock' = Take(writeLock, p)
         /\ pc' = [pc EXCEPT ![p] = "ensure"]
      \/ /\ writeLock' = Enqueue(writeLock, p)
         /\ pc' = [pc EXCEPT ![p] = "writeQueued"]
  BY DEF Call, Goto
<1>3. CASE /\ Free(writeLock) /\ writeLock' = Take(writeLock, p)
           /\ pc' = [pc EXCEPT ![p] = "ensure"]
  <2>1. \A q \in Procs : ~Past(q)
    BY <1>3, NoCallAssumption DEF IInv, WriterOwns, Free, Locked, Past, Procs
  <2>2. writeLock' \in Lock /\ writeLock'.owner = p
    BY <1>3 DEF IInv, Lock, Take
  <2>3. pc' \in [Procs -> Places]
    BY <1>3 DEF IInv, Places
  <2>4. \A q \in Procs : Past(q)' => q = p
    BY <1>3, <2>1 DEF IInv, Past
  <2> QED
    BY <2>2, <2>3, <2>4 DEF IInv, WriterOwns
<1>4. CASE /\ writeLock' = Enqueue(writeLock, p)
           /\ pc' = [pc EXCEPT ![p] = "writeQueued"]
  <2>1. writeLock'.owner = writeLock.owner
    BY <1>4 DEF IInv, Lock, Enqueue
  <2>4. Append(writeLock.queue, p) \in Seq(Procs)
    BY DEF IInv, Lock
  <2>5. writeLock' \in Lock
    BY <1>4, <2>4 DEF IInv, Lock, Enqueue
  <2>2. pc' \in [Procs -> Places]
    BY <1>4 DEF IInv, Places
  <2>3. \A q \in Procs : Past(q)' => Past(q)
    BY <1>4 DEF IInv, Past
  <2> QED
    BY <2>1, <2>2, <2>3, <2>5 DEF IInv, WriterOwns
<1> QED
  BY <1>2, <1>3, <1>4

\* So does the woken waiter that takes it.
LEMMA WriteWokenPreserves ==
  ASSUME IInv, NEW p \in Procs, WriteWoken(p)
  PROVE  IInv'
<1>1. /\ Woken(writeLock, p) /\ writeLock' = TakeWoken(writeLock, p)
      /\ pc' = [pc EXCEPT ![p] = "ensure"]
  BY DEF WriteWoken, Goto
<1>2. \A q \in Procs : ~Past(q)
  BY <1>1, NoCallAssumption DEF IInv, WriterOwns, Woken, Locked, Past, Procs
<1>3. writeLock' \in Lock /\ writeLock'.owner = p
  BY <1>1 DEF IInv, Lock, Woken, TakeWoken
<1>4. pc' \in [Procs -> Places]
  BY <1>1 DEF IInv, Places
<1>5. \A q \in Procs : Past(q)' => q = p
  BY <1>1, <1>2 DEF IInv, Past
<1> QED
  BY <1>3, <1>4, <1>5 DEF IInv, WriterOwns

-----------------------------------------------------------------------------
(* Which steps take nothing and which give the lock back *)

\* A call past the write lock, or a reader, goes on and takes no lock.
LEMMA GotoMoves ==
  ASSUME NEW p \in Procs, NEW place \in Places, Goto(p, place),
         p \notin Callers \/ Past(p), writeLock' = writeLock
  PROVE  Moves(p)
BY DEF Moves, Goto

\* Every end of a call past the write lock, or of a reader, gives it back.
LEMMA EndsGivesBack ==
  ASSUME NEW p \in Procs, Ends(p), p \in Callers => Past(p)
  PROVE  GivesBack(p)
BY DEF Ends, GivesBack, Goto

\* A write that is to change the memory is past the write lock.
LEMMA WritesIsPast ==
  ASSUME NEW p \in Procs, pc[p] \in {"ensure", "saving", "loadAuto",
                                     "loadChange", "loadKept", "loadQueued"}
  PROVE  p \in Callers => Past(p)
BY DEF Past

\* A write with something to do keeps the lock for its saves.
LEMMA ProceedMoves ==
  ASSUME NEW p \in Procs, pc[p] = "ensure", NEW tasks, NEW w,
         Proceed(p, tasks, w)
  PROVE  Moves(p)
<1>1. Goto(p, "saving") /\ writeLock' = writeLock
  BY DEF Proceed, locks
<1>2. "saving" \in Places
  BY DEF Places
<1> QED
  BY <1>1, <1>2, WritesIsPast, GotoMoves

\* The steps that load the stores.
LEMMA LoadsMove ==
  ASSUME NEW p \in Procs, Loads(p)
  PROVE  Moves(p) \/ UNCHANGED <<pc, writeLock>>
<1>1. CASE EnsureLoaded(p)
  <2>1. \E place \in {"loadAuto", "loadQueued"} : Goto(p, place)
    BY <1>1 DEF EnsureLoaded
  <2>2. p \notin Callers \/ Past(p)
    BY <1>1, CallersAssumption DEF EnsureLoaded, Past
  <2>3. writeLock' = writeLock
    BY <1>1 DEF EnsureLoaded
  <2> QED
    BY <2>1, <2>2, <2>3, GotoMoves DEF Places
<1>2. CASE LoadWoken(p)
  <2>1. \E place \in {"ensure", "idle", "loadAuto"} : Goto(p, place)
    BY <1>2 DEF LoadWoken, AfterLoad
  <2>2. pc[p] = "loadQueued" /\ writeLock' = writeLock
    BY <1>2 DEF LoadWoken
  <2> QED
    BY <2>1, <2>2, GotoMoves, WritesIsPast DEF Places
<1>3. CASE LoadAuto(p) \/ LoadChange(p)
  <2>1. \E place \in {"loadChange", "loadKept"} : Goto(p, place)
    BY <1>3 DEF LoadAuto, LoadChange, LoadHistory
  <2>2. pc[p] \in {"loadAuto", "loadChange"} /\ writeLock' = writeLock
    BY <1>3 DEF LoadAuto, LoadChange, LoadHistory, locks
  <2> QED
    BY <2>1, <2>2, GotoMoves, WritesIsPast DEF Places
<1>4. CASE LoadKept(p)
  <2>1. \E place \in {"ensure", "idle"} : Goto(p, place)
    BY <1>4 DEF LoadKept, AfterLoad
  <2>2. pc[p] = "loadKept" /\ writeLock' = writeLock
    BY <1>4 DEF LoadKept
  <2> QED
    BY <2>1, <2>2, GotoMoves, WritesIsPast DEF Places
<1>5. CASE Reads(p)
  BY <1>5 DEF Reads, vars, calls, locks
<1> QED
  BY <1>1, <1>2, <1>3, <1>4, <1>5 DEF Loads

\* The changes of the memory: each keeps the lock for its saves, or ends.
LEMMA ChangesMove ==
  ASSUME NEW p \in Procs, Changes(p)
  PROVE  Moves(p) \/ GivesBack(p)
<1>1. pc[p] = "ensure"
  BY DEF Changes, AutoBackup, ChangeBackup, Move, PurgeIdentity, MarkRestored,
         DeleteOne, DeletePlan, DeleteAll, Purge, Audit, Keep, Unkeep, Writes
<1>2. \A tasks, w : Proceed(p, tasks, w) => Moves(p)
  BY <1>1, ProceedMoves
<1>3. Ends(p) => GivesBack(p)
  BY <1>1, WritesIsPast, EndsGivesBack
<1>4. NothingToDo(p) => GivesBack(p)
  BY <1>3 DEF NothingToDo
<1>5. CASE AutoBackup(p)
  BY <1>2, <1>4, <1>5 DEF AutoBackup
<1>6. CASE ChangeBackup(p)
  BY <1>2, <1>4, <1>6 DEF ChangeBackup
<1>7. CASE Move(p) \/ PurgeIdentity(p)
  BY <1>2, <1>7 DEF Move, PurgeIdentity
<1>8. CASE MarkRestored(p)
  BY <1>2, <1>4, <1>8 DEF MarkRestored
<1>9. CASE DeleteOne(p)
  BY <1>2, <1>4, <1>9 DEF DeleteOne
<1>10. CASE DeletePlan(p) \/ DeleteAll(p) \/ Purge(p)
  BY <1>2, <1>10 DEF DeletePlan, DeleteAll, Purge
<1>11. CASE Audit(p)
  BY <1>2, <1>4, <1>11 DEF Audit
<1>12. CASE Keep(p) \/ Unkeep(p)
  BY <1>2, <1>3, <1>4, <1>12 DEF Keep, Unkeep
<1> QED
  BY <1>5, <1>6, <1>7, <1>8, <1>9, <1>10, <1>11, <1>12 DEF Changes

\* The saves of a write: a failed or cancelled one ends the call or leaves it
\* where it is.
LEMMA SavingMoves ==
  ASSUME NEW p \in Procs,
         \/ SkipTask(p) \/ Saves(p) \/ SaveFails(p) \/ SaveCancelled(p)
         \/ WriteEnds(p) \/ LoadFails(p)
  PROVE  GivesBack(p) \/ UNCHANGED <<pc, writeLock>>
<1>1. pc[p] \in {"saving", "loadAuto", "loadChange", "loadKept"}
  BY DEF SkipTask, Saves, SaveFails, SaveCancelled, WriteEnds, LoadFails, HasTask
<1>2. Ends(p) => GivesBack(p)
  BY <1>1, WritesIsPast, EndsGivesBack
<1>3. CASE SkipTask(p) \/ Saves(p)
  BY <1>3 DEF SkipTask, Saves, calls, locks
<1>4. CASE SaveFails(p)
  BY <1>2, <1>4 DEF SaveFails, LogAndGoOn, PutBack, RollBack, LeaveAhead, calls
<1>5. CASE SaveCancelled(p)
  BY <1>2, <1>5 DEF SaveCancelled, PutBack, LeaveAhead, calls
<1>6. CASE WriteEnds(p) \/ LoadFails(p)
  BY <1>2, <1>6 DEF WriteEnds, LoadFails
<1> QED
  BY <1>3, <1>4, <1>5, <1>6

-----------------------------------------------------------------------------
(* The theorem *)

\* A step of the manager preserves the invariant, and so does standing still.
LEMMA NextPreserves == IInv /\ [Next]_vars => IInv'
<1> SUFFICES ASSUME IInv, [Next]_vars PROVE IInv'
  OBVIOUS
<1>1. ASSUME UNCHANGED <<pc, writeLock>> PROVE IInv'
  BY <1>1 DEF IInv, WriterOwns, Past
<1>2. ASSUME NEW p \in Procs, Call(p) \/ WriteWoken(p) PROVE IInv'
  BY <1>2, CallPreserves, WriteWokenPreserves
<1>3. ASSUME NEW p \in Procs, Loads(p) PROVE IInv'
  BY <1>1, <1>3, LoadsMove, MovesPreserve
<1>4. ASSUME NEW p \in Procs, Changes(p) PROVE IInv'
  BY <1>4, ChangesMove, MovesPreserve, GivesBackPreserves
<1>5. ASSUME NEW p \in Procs,
             \/ SkipTask(p) \/ Saves(p) \/ SaveFails(p) \/ SaveCancelled(p)
             \/ WriteEnds(p) \/ LoadFails(p)
      PROVE  IInv'
  BY <1>1, <1>5, SavingMoves, GivesBackPreserves
<1>6. ASSUME LateLands PROVE IInv'
  BY <1>1, <1>6 DEF LateLands, calls, locks
<1>7. ASSUME Restart PROVE IInv'
  <2>1. pc' \in [Procs -> Places] /\ WriterOwns'
    BY <1>7 DEF Restart, Places, WriterOwns, Past
  <2>2. writeLock' \in Lock
    BY <1>7 DEF Restart, UnusedLock, Lock
  <2> QED
    BY <2>1, <2>2 DEF IInv
<1>8. CASE UNCHANGED vars
  BY <1>1, <1>8 DEF vars, calls, locks
<1>9. CASE Next
  BY <1>2, <1>3, <1>4, <1>5, <1>6, <1>7, <1>9 DEF Next, Advances
<1> QED
  BY <1>8, <1>9

\* The writes of the manager do not overlap, for any number of calls, plans and
\* slots, through failed and cancelled saves and restarts (_serialized).
THEOREM WritesNeverOverlap == Spec => []OneWriter
<1>1. IInv => OneWriter
  <2>1. SUFFICES ASSUME IInv, NEW p \in Callers, NEW q \in Callers,
                        Past(p), Past(q)
                 PROVE  p = q
    BY DEF OneWriter, Past
  <2> QED
    BY <2>1 DEF IInv, WriterOwns, Procs
<1> QED
  BY <1>1, InitIInv, NextPreserves, PTL DEF Spec

-----------------------------------------------------------------------------
(* Snapshots in one place: the histories of a kind, in memory, to be put back, *)
(* on disk or on their way there, hold each time at most once, and none that   *)
(* is still to come.                                                           *)

FiledBoth(h, now) == \A k \in Kinds : Filed(h[k], Ids, Contents, now)

\* What a request names.
Names(r) ==
    /\ r.op \in {"change", "move", "purgeIdentity", "mark", "deleteOne"} => r.id \in Ids
    /\ r.op \in {"mark", "deleteOne"} => r.kind \in Kinds
    /\ r.op = "deleteOne" => r.slot \in Nat
    /\ r.op = "move" => r.to \in Ids /\ r.id # r.to
    /\ r.op = "change" => r.content \in Contents
    /\ r.op = "auto" => /\ DOMAIN r.plans \subseteq Ids
                        /\ \A id \in DOMAIN r.plans : r.plans[id] \in Contents

SInv ==
    /\ clock \in Nat
    /\ DOMAIN history = Kinds /\ DOMAIN before = Kinds /\ DOMAIN disk = Stores
    /\ FiledBoth(history, clock) /\ FiledBoth(before, clock) /\ FiledBoth(disk, clock)
    /\ \A w \in late : w.store \in Kinds => Filed(w.image, Ids, Contents, clock)
    /\ DOMAIN request = Procs /\ \A p \in Procs : Names(request[p])

LEMMA FiledNothing == ASSUME NEW now PROVE FiledBoth([k \in Kinds |-> NoHistories], now)
BY EmptyHistory DEF FiledBoth, Filed, NoHistories

\* A step that changes neither the store nor what was asked.
LEMMA AtRest ==
  ASSUME SInv, UNCHANGED <<history, before, disk, late, clock, request>>
  PROVE  SInv'
BY DEF SInv, FiledBoth, Filed

LEMMA CallNames ==
  ASSUME SInv, NEW p, NEW r \in Offers, Offered(p, r) PROVE Names(r)
<1>1. clock \in Nat /\ AutoSlots \in Nat /\ ChangeSlots \in Nat
  BY SlotsAssumption DEF SInv
<1>2. r.op \in {"move"} => r.id # r.to
  BY DEF Offered
<1> QED
  BY <1>1, <1>2 DEF Offers, Names, Kinds

LEMMA CallKeepsSInv ==
  ASSUME SInv, NEW p \in Procs, Call(p) PROVE SInv'
<1>1. PICK r \in Offers : Offered(p, r) /\ request' = [request EXCEPT ![p] = r]
  BY DEF Call
<1>2. Names(r)
  BY <1>1, CallNames
<1>3. UNCHANGED <<history, before, disk, late, clock>>
  BY DEF Call, memory, work, external
<1> QED
  BY <1>1, <1>2, <1>3 DEF SInv, FiledBoth, Filed

\* A write that ends, and with it what it was asked and keeps for a failure.
LEMMA EndKeepsSInv ==
  ASSUME SInv, NEW p \in Procs, Ends(p), UNCHANGED <<disk, late, clock>>, DOMAIN history' = Kinds,
         FiledBoth(history', clock)
  PROVE  SInv'
<1>1. Names(NoRequest)
  BY DEF Names, NoRequest
<1>2. request' = [request EXCEPT ![p] = NoRequest] /\ before' = [k \in Kinds |-> NoHistories]
  BY DEF Ends
<1>3. FiledBoth(before', clock) /\ DOMAIN before' = Kinds
  BY <1>2, FiledNothing
<1>4. DOMAIN request' = Procs /\ \A q \in Procs : Names(request'[q])
  BY <1>1, <1>2 DEF SInv
<1> QED
  BY <1>3, <1>4 DEF SInv, FiledBoth

LEMMA LoadsKeepSInv ==
  ASSUME SInv, NEW p \in Procs, Loads(p) PROVE SInv'
<1>1. CASE LoadAuto(p) \/ LoadChange(p)
  <2>1. PICK kind \in Kinds : history' = [history EXCEPT ![kind] = disk[kind]]
    BY <1>1 DEF LoadAuto, LoadChange, LoadHistory, Kinds
  <2>2. UNCHANGED <<before, disk, late, clock, request>>
    BY <1>1 DEF LoadAuto, LoadChange, LoadHistory, work, external
  <2>3. DOMAIN history' = Kinds /\ \A k \in Kinds : history'[k] \in {history[k], disk[k]}
    BY <2>1 DEF SInv
  <2>4. FiledBoth(history', clock)
    BY <2>3 DEF SInv, FiledBoth
  <2> QED
    BY <2>2, <2>3, <2>4 DEF SInv, FiledBoth
<1>2. CASE EnsureLoaded(p) \/ LoadWoken(p) \/ LoadKept(p) \/ Reads(p)
  <2>1. UNCHANGED <<history, before, disk, late, clock, request>>
    BY <1>2 DEF EnsureLoaded, LoadWoken, LoadKept, Reads, vars, memory, work, calls, external
  <2> QED
    BY <2>1, AtRest
<1> QED
  BY <1>1, <1>2 DEF Loads

\* A write that changed the memory and starts to save.
LEMMA ProceedKeepsSInv ==
  ASSUME SInv, UNCHANGED <<disk, late, request>>, before' = history,
         clock' \in Nat, clock <= clock', DOMAIN history' = Kinds, FiledBoth(history', clock')
  PROVE  SInv'
<1>1. \A k \in Kinds : Filed(history[k], Ids, Contents, clock') /\ Filed(disk[k], Ids, Contents, clock')
  BY FiledLater DEF SInv, FiledBoth
<1>2. \A w \in late : w.store \in Kinds => Filed(w.image, Ids, Contents, clock')
  BY FiledLater DEF SInv
<1> QED
  BY <1>1, <1>2 DEF SInv, FiledBoth

\* A write of one kind.
LEMMA KindKeepsSInv ==
  ASSUME SInv, UNCHANGED <<disk, late, request>>, before' = history,
         clock' \in Nat, clock <= clock', NEW kind, NEW h,
         history' = [history EXCEPT ![kind] = h], kind \in Kinds => Filed(h, Ids, Contents, clock')
  PROVE  SInv'
<1>1. DOMAIN history' = Kinds
  BY DEF SInv
<1>2. ASSUME NEW k \in Kinds PROVE Filed(history'[k], Ids, Contents, clock')
  <2>1. Filed(history[k], Ids, Contents, clock')
    BY FiledLater DEF SInv, FiledBoth
  <2>2. history'[k] = IF k = kind THEN h ELSE history[k]
    BY DEF SInv
  <2> QED
    BY <2>1, <2>2
<1> QED
  BY <1>1, <1>2, ProceedKeepsSInv DEF FiledBoth

LEMMA NothingToDoKeepsSInv ==
  ASSUME SInv, NEW p \in Procs, NothingToDo(p) PROVE SInv'
<1>1. Ends(p) /\ UNCHANGED <<history, disk, late, clock>>
  BY DEF NothingToDo, memory, external
<1> QED
  BY <1>1, EndKeepsSInv DEF SInv, FiledBoth

\* The changed plans get snapshots of the next times, one each.
LEMMA NewTimes ==
  ASSUME NEW S, IsFiniteSet(S), NEW now \in Nat
  PROVE  LET order == SetToSeq(S)
             time(id) == now + CHOOSE i \in DOMAIN order : order[i] = id
         IN /\ Len(order) \in Nat
            /\ \A id \in S : time(id) \in (now + 1) .. (now + Len(order))
            /\ \A id, other \in S : id # other => time(id) # time(other)
<1> DEFINE order == SetToSeq(S)
           place(id) == CHOOSE i \in DOMAIN order : order[i] = id
<1>1. /\ Len(order) \in Nat /\ DOMAIN order = 1 .. Len(order)
      /\ \A x \in S : \E i \in DOMAIN order : order[i] = x
  BY SetToSeqLists, LenProperties
<1> HIDE DEF order
<1>2. \A id \in S : place(id) \in 1 .. Len(order) /\ order[place(id)] = id
  BY <1>1
<1> HIDE DEF place
<1>3. \A id \in S : now + place(id) \in (now + 1) .. (now + Len(order))
  BY <1>1, <1>2
<1>4. \A id, other \in S : id # other => now + place(id) # now + place(other)
  BY <1>1, <1>2
<1> QED
  BY <1>1, <1>3, <1>4 DEF order, place

LEMMA AutoBackupKeepsSInv ==
  ASSUME SInv, NEW p \in Procs, AutoBackup(p) PROVE SInv'
<1> DEFINE plans == request[p].plans
           order == SetToSeq(Changed(plans))
           time(id) == clock + CHOOSE i \in DOMAIN order : order[i] = id
           new(id) == [at |-> time(id), content |-> plans[id], restored |-> FALSE]
           auto == history["auto"]
           h == [id \in Ids |-> IF id \in Changed(plans)
                                THEN Rotated(auto[id], new(id), AutoSlots) ELSE auto[id]]
<1>1. SUFFICES ASSUME ~NothingToDo(p) PROVE SInv'
  BY NothingToDoKeepsSInv
<1>2. /\ clock' = clock + Len(order) /\ request[p].op = "auto"
      /\ history' = [history EXCEPT !["auto"] = h]
      /\ before' = history /\ UNCHANGED <<disk, late, request>>
  BY <1>1 DEF AutoBackup, Writes, Proceed, external
<1>3. Names(request[p]) /\ clock \in Nat /\ Filed(auto, Ids, Contents, clock) /\ AutoSlots \in Nat
  BY SlotsAssumption DEF SInv, FiledBoth, Kinds
<1>4. Changed(plans) \subseteq Ids /\ \A id \in Changed(plans) : plans[id] \in Contents
  BY <1>2, <1>3 DEF Names, Changed
<1>5. IsFiniteSet(Changed(plans))
  BY <1>4, IdsAssumption, FS_Subset
<1>6. Len(order) \in Nat
  BY <1>3, <1>5, NewTimes
<1>7. \A id \in Changed(plans) : time(id) \in (clock + 1) .. (clock + Len(order))
  BY <1>3, <1>5, NewTimes
<1>8. \A id, other \in Changed(plans) : id # other => time(id) # time(other)
  BY <1>3, <1>5, NewTimes
<1>9. \A id \in Changed(plans) : new(id).at = time(id)
  OBVIOUS
<1> HIDE DEF order, time
<1>10. \A id \in Changed(plans) : new(id) \in Snapshots(Contents, clock')
  BY <1>2, <1>3, <1>4, <1>6, <1>7 DEF Snapshots
<1> HIDE DEF plans, auto, new
<1>11. clock' \in Nat /\ clock <= clock'
  BY <1>2, <1>3, <1>6
<1> DEFINE fresh == [id \in Ids |-> IF id \in Changed(plans) THEN {time(id)} ELSE {}]
<1>12. /\ \A id \in Ids : fresh[id] \subseteq (clock + 1) .. clock'
       /\ \A id, other \in Ids : id # other => fresh[id] \cap fresh[other] = {}
  BY <1>2, <1>7, <1>8
<1>13. \A id \in Ids : History(auto[id], Contents, clock') /\ TimesOf(auto[id]) \subseteq 1 .. clock
  BY <1>3, <1>11, HistoryLater, TimesSoFar DEF Filed
<1>14. ASSUME NEW id \in Ids
       PROVE  /\ History(h[id], Contents, clock')
              /\ TimesOf(h[id]) \subseteq TimesOf(auto[id]) \union fresh[id]
  <2>1. CASE id \notin Changed(plans)
    BY <1>13, <2>1
  <2>2. CASE id \in Changed(plans)
    <3>1. time(id) \notin TimesOf(auto[id])
      BY <1>3, <1>6, <1>7, <1>13, <2>2
    <3>2. /\ History(Rotated(auto[id], new(id), AutoSlots), Contents, clock')
          /\ ToSet(Rotated(auto[id], new(id), AutoSlots)) \subseteq ToSet(auto[id]) \union {new(id)}
      BY <1>3, <1>9, <1>10, <1>11, <1>13, <2>2, <3>1, RotatedHistory
    <3>3. fresh[id] = {new(id).at}
      BY <1>9, <2>2
    <3>4. h[id] = Rotated(auto[id], new(id), AutoSlots)
      BY <2>2
    <3> HIDE DEF fresh, h
    <3> QED
      BY <3>2, <3>3, <3>4, TimesOfElements
  <2> QED
    BY <2>1, <2>2
<1>15. DOMAIN h = Ids
  OBVIOUS
<1> HIDE DEF fresh, h
<1>16. Filed(h, Ids, Contents, clock')
  BY <1>3, <1>11, <1>12, <1>14, <1>15, FiledChange
<1> QED
  BY <1>2, <1>11, <1>16, KindKeepsSInv

LEMMA ChangeBackupKeepsSInv ==
  ASSUME SInv, NEW p \in Procs, ChangeBackup(p) PROVE SInv'
<1> DEFINE r == request[p]
           old == history["change"][r.id]
           snap == [at |-> clock + 1, content |-> r.content, restored |-> FALSE]
           new == Rotated(old, snap, ChangeSlots)
<1>1. SUFFICES ASSUME ~NothingToDo(p) PROVE SInv'
  BY NothingToDoKeepsSInv
<1>2. /\ clock' = clock + 1 /\ r.op = "change"
      /\ history' = [history EXCEPT !["change"] = [@ EXCEPT ![r.id] = new]]
      /\ before' = history /\ UNCHANGED <<disk, late, request>>
  BY <1>1 DEF ChangeBackup, Writes, Proceed, external
<1>3. /\ Names(r) /\ clock \in Nat /\ Filed(history["change"], Ids, Contents, clock) /\ ChangeSlots \in Nat
      /\ clock + 1 \in Nat /\ clock <= clock + 1
  BY SlotsAssumption DEF SInv, FiledBoth, Kinds
<1>4. r.id \in Ids /\ r.content \in Contents
  BY <1>2, <1>3 DEF Names
<1>5. /\ History(old, Contents, clock + 1) /\ TimesOf(old) \subseteq 1 .. clock
  BY <1>3, <1>4, HistoryLater, TimesSoFar DEF Filed
<1>6. snap \in Snapshots(Contents, clock + 1) /\ snap.at = clock + 1 /\ snap.at \notin TimesOf(old)
  BY <1>3, <1>4, <1>5 DEF Snapshots
<1> HIDE DEF snap, old, r
<1>7. History(new, Contents, clock + 1) /\ ToSet(new) \subseteq ToSet(old) \union {snap}
  BY <1>3, <1>5, <1>6, RotatedHistory
<1> HIDE DEF new
<1>8. TimesOf(new) \subseteq TimesOf(old) \union {clock + 1}
  BY <1>6, <1>7, TimesOfElements
<1>9. Filed([history["change"] EXCEPT ![r.id] = new], Ids, Contents, clock + 1)
  BY <1>3, <1>4, <1>7, <1>8, FiledNew DEF old
<1> QED
  BY <1>2, <1>3, <1>9, KindKeepsSInv

LEMMA MoveKeepsSInv ==
  ASSUME SInv, NEW p \in Procs, Move(p) \/ PurgeIdentity(p) PROVE SInv'
<1> DEFINE r == request[p]
<1>1. /\ r.op \in {"move", "purgeIdentity"}
      /\ before' = history /\ UNCHANGED <<disk, late, request, clock>>
  BY DEF Move, PurgeIdentity, Writes, Proceed, external
<1>2. /\ Names(r) /\ clock \in Nat
      /\ \A k \in Kinds : Limit(k) \in Nat /\ Filed(history[k], Ids, Contents, clock)
  BY SlotsAssumption DEF SInv, FiledBoth, Limit
<1>3. DOMAIN history' = Kinds
  BY DEF Move, PurgeIdentity
<1>4. ASSUME NEW k \in Kinds PROVE Filed(history'[k], Ids, Contents, clock)
  <2>1. CASE history'[k] = history[k]
    BY <1>2, <2>1
  <2>2. CASE Move(p) /\ history'[k] # history[k]
    <3>1. history'[k] = [history[k] EXCEPT
                            ![r.to] = Merged(@, history[k][r.id], Limit(k)), ![r.id] = <<>>]
      BY <2>2 DEF Move
    <3>2. r.op = "move"
      BY <2>2 DEF Move, Writes
    <3>3. r.id \in Ids /\ r.to \in Ids /\ r.id # r.to
      BY <1>2, <3>2 DEF Names
    <3> HIDE DEF r
    <3> QED
      BY <1>2, <3>1, <3>3, FiledMerge
  <2>3. CASE PurgeIdentity(p) /\ history'[k] # history[k]
    <3>1. history'[k] = [history[k] EXCEPT ![r.id] = <<>>]
      BY <2>3 DEF PurgeIdentity
    <3> HIDE DEF r
    <3>2. Filed([history[k] EXCEPT ![r.id] = <<>>], Ids, Contents, clock)
      BY <1>2, FiledWithout
    <3> QED
      BY <3>1, <3>2
  <2> QED
    BY <2>1, <2>2, <2>3
<1> QED
  BY <1>1, <1>2, <1>3, <1>4, ProceedKeepsSInv DEF FiledBoth

LEMMA MarkKeepsSInv ==
  ASSUME SInv, NEW p \in Procs, MarkRestored(p) PROVE SInv'
<1> DEFINE r == request[p]
           old == history[r.kind][r.id]
           new == Promoted(old, r.at)
<1>1. SUFFICES ASSUME ~NothingToDo(p) PROVE SInv'
  BY NothingToDoKeepsSInv
<1>2. /\ r.op = "mark" /\ Holds(old, r.at)
      /\ history' = [history EXCEPT ![r.kind] = [@ EXCEPT ![r.id] = new]]
      /\ before' = history /\ UNCHANGED <<disk, late, request, clock>>
  BY <1>1 DEF MarkRestored, Writes, Proceed, external
<1>3. Names(r) /\ clock \in Nat
  BY DEF SInv
<1>4. r.kind \in Kinds /\ r.id \in Ids
  BY <1>2, <1>3 DEF Names
<1>5. Filed(history[r.kind], Ids, Contents, clock) /\ History(old, Contents, clock)
  BY <1>4 DEF SInv, FiledBoth, Filed
<1> HIDE DEF r, old
<1>6. /\ History(new, Contents, clock)
      /\ \A x \in ToSet(new) : \E y \in ToSet(old) : x.at = y.at /\ x.content = y.content
  BY <1>2, <1>3, <1>5, PromotedHistory
<1> HIDE DEF new
<1>7. TimesOf(new) \subseteq TimesOf(old)
  BY <1>6, TimesOfElements
<1>8. Filed([history[r.kind] EXCEPT ![r.id] = new], Ids, Contents, clock)
  BY <1>3, <1>5, <1>6, <1>7, FiledPart DEF old
<1>9. clock' \in Nat /\ clock <= clock' /\ clock' = clock
  BY <1>2, <1>3
<1> QED
  BY <1>2, <1>8, <1>9, KindKeepsSInv

LEMMA DeleteOneKeepsSInv ==
  ASSUME SInv, NEW p \in Procs, DeleteOne(p) PROVE SInv'
<1> DEFINE r == request[p]
           old == history[r.kind][r.id]
           new == RemoveAt(old, r.slot + 1)
<1>1. SUFFICES ASSUME ~NothingToDo(p) PROVE SInv'
  BY NothingToDoKeepsSInv
<1>2. /\ r.op = "deleteOne" /\ r.slot + 1 \in DOMAIN old
      /\ history' = [history EXCEPT ![r.kind] = [@ EXCEPT ![r.id] = new]]
      /\ before' = history /\ UNCHANGED <<disk, late, request, clock>>
  BY <1>1 DEF DeleteOne, Writes, Proceed, external
<1>3. Names(r) /\ clock \in Nat
  BY DEF SInv
<1>4. r.kind \in Kinds /\ r.id \in Ids
  BY <1>2, <1>3 DEF Names
<1>5. Filed(history[r.kind], Ids, Contents, clock) /\ History(old, Contents, clock)
  BY <1>4 DEF SInv, FiledBoth, Filed
<1> HIDE DEF r, old
<1>6. History(new, Contents, clock) /\ ToSet(new) \subseteq ToSet(old)
  BY <1>2, <1>3, <1>5, RemovedHistory
<1> HIDE DEF new
<1>7. TimesOf(new) \subseteq TimesOf(old)
  BY <1>6, TimesOfElements
<1>8. Filed([history[r.kind] EXCEPT ![r.id] = new], Ids, Contents, clock)
  BY <1>3, <1>5, <1>6, <1>7, FiledPart DEF old
<1>9. clock' \in Nat /\ clock <= clock' /\ clock' = clock
  BY <1>2, <1>3
<1> QED
  BY <1>2, <1>8, <1>9, KindKeepsSInv

LEMMA ChangesKeepSInv ==
  ASSUME SInv, NEW p \in Procs, Changes(p) PROVE SInv'
<1>1. clock \in Nat /\ clock <= clock /\ DOMAIN history = Kinds /\ FiledBoth(history, clock)
  BY DEF SInv
<1>2. CASE DeletePlan(p) \/ Purge(p) \/ Audit(p) \/ Keep(p) \/ Unkeep(p)
  <2>1. CASE NothingToDo(p)
    BY <2>1, NothingToDoKeepsSInv
  <2>2. CASE Ends(p) /\ UNCHANGED <<memory, external, clock>>
    <3>1. UNCHANGED <<history, disk, late, clock>>
      BY <2>2 DEF memory, external
    <3> QED
      BY <1>1, <2>2, <3>1, EndKeepsSInv
  <2>3. CASE ~NothingToDo(p) /\ ~(Ends(p) /\ UNCHANGED <<memory, external, clock>>)
    <3>1. before' = history /\ UNCHANGED <<history, disk, late, request, clock>>
      BY <1>2, <2>3 DEF DeletePlan, Purge, Audit, Keep, Unkeep, Proceed, external
    <3> QED
      BY <1>1, <3>1, ProceedKeepsSInv
  <2> QED
    BY <2>1, <2>2, <2>3
<1>3. CASE DeleteAll(p)
  <2>1. /\ before' = history /\ UNCHANGED <<disk, late, request, clock>>
        /\ history' = [k \in Kinds |-> NoHistories]
    BY <1>3 DEF DeleteAll, Proceed, external
  <2>2. DOMAIN history' = Kinds /\ FiledBoth(history', clock)
    BY <2>1, FiledNothing
  <2> QED
    BY <1>1, <2>1, <2>2, ProceedKeepsSInv
<1> QED
  BY <1>2, <1>3, AutoBackupKeepsSInv, ChangeBackupKeepsSInv, MoveKeepsSInv, MarkKeepsSInv,
     DeleteOneKeepsSInv DEF Changes

\* What a task leaves in memory and writes is filed.
LEMMA TaskFiled ==
  ASSUME SInv, NEW t
  PROVE  /\ DOMAIN HistoryAfter(t) = Kinds /\ FiledBoth(HistoryAfter(t), clock)
         /\ StoreOf(t) \in Kinds => Filed(ImageAfter(t), Ids, Contents, clock)
<1>1. DOMAIN HistoryAfter(t) = Kinds
  BY DEF HistoryAfter, SInv
<1>2. ASSUME NEW k \in Kinds PROVE Filed(HistoryAfter(t)[k], Ids, Contents, clock)
  <2>1. Filed(history[k], Ids, Contents, clock) /\ clock \in Nat
    BY DEF SInv, FiledBoth
  <2>2. CASE t.do = "drop" /\ t.kind = k
    <3>1. HistoryAfter(t)[k] = [history[k] EXCEPT ![t.id] = <<>>]
      BY <2>2 DEF HistoryAfter, SInv
    <3>2. Filed([history[k] EXCEPT ![t.id] = <<>>], Ids, Contents, clock)
      BY <2>1, FiledWithout
    <3> QED
      BY <3>1, <3>2
  <2>3. CASE ~(t.do = "drop" /\ t.kind = k)
    <3>1. HistoryAfter(t)[k] = history[k]
      BY <2>3 DEF HistoryAfter, SInv
    <3> QED
      BY <2>1, <3>1
  <2> QED
    BY <2>2, <2>3
<1>3. StoreOf(t) \in Kinds => ImageAfter(t) = HistoryAfter(t)[StoreOf(t)]
  BY DEF ImageAfter, Kinds
<1> QED
  BY <1>1, <1>2, <1>3 DEF FiledBoth

\* A save writes the image to disk, at once or late, or does not.
LEMMA WriteFiled ==
  ASSUME SInv, NEW t,
         \/ disk' = [disk EXCEPT ![StoreOf(t)] = ImageAfter(t)]
         \/ disk' = disk,
         late' \subseteq late \union {[store |-> StoreOf(t), image |-> ImageAfter(t)]}
  PROVE  /\ DOMAIN disk' = Stores /\ FiledBoth(disk', clock)
         /\ \A w \in late' : w.store \in Kinds => Filed(w.image, Ids, Contents, clock)
<1>1. StoreOf(t) \in Kinds => Filed(ImageAfter(t), Ids, Contents, clock)
  BY TaskFiled
<1>2. DOMAIN disk' = Stores
  BY DEF SInv
<1>3. ASSUME NEW k \in Kinds PROVE Filed(disk'[k], Ids, Contents, clock)
  <2>1. Filed(disk[k], Ids, Contents, clock) /\ k \in DOMAIN disk
    BY DEF SInv, FiledBoth, Stores
  <2>2. disk'[k] = disk[k] \/ (k = StoreOf(t) /\ disk'[k] = ImageAfter(t))
    BY <2>1
  <2> QED
    BY <1>1, <2>1, <2>2
<1>4. ASSUME NEW w \in late', w.store \in Kinds PROVE Filed(w.image, Ids, Contents, clock)
  <2>1. CASE w \in late
    BY <1>4, <2>1 DEF SInv
  <2>2. CASE w = [store |-> StoreOf(t), image |-> ImageAfter(t)]
    BY <1>1, <1>4, <2>2
  <2> QED
    BY <2>1, <2>2
<1> QED
  BY <1>2, <1>3, <1>4 DEF FiledBoth

LEMMA SavingKeepsSInv ==
  ASSUME SInv, NEW p \in Procs, Saves(p) \/ SaveFails(p) \/ SaveCancelled(p) PROVE SInv'
<1> DEFINE t == Head(todo)
<1>1. /\ disk' = [disk EXCEPT ![StoreOf(t)] = ImageAfter(t)] \/ disk' = disk
      /\ late' \subseteq late \union {[store |-> StoreOf(t), image |-> ImageAfter(t)]}
      /\ clock' = clock
  BY DEF Saves, SaveFails, SaveCancelled, external, LateOf
<1>2. /\ history' = before \/ history' = HistoryAfter(t)
      /\ \/ Ends(p)
         \/ UNCHANGED <<before, request>>
  BY DEF Saves, SaveFails, SaveCancelled, LogAndGoOn, PutBack, RollBack, LeaveAhead, calls
<1> HIDE DEF t
<1>3. /\ DOMAIN disk' = Stores /\ FiledBoth(disk', clock)
      /\ \A w \in late' : w.store \in Kinds => Filed(w.image, Ids, Contents, clock)
  BY <1>1, WriteFiled
<1>4. DOMAIN history' = Kinds /\ FiledBoth(history', clock)
  BY <1>2, TaskFiled DEF SInv
<1>5. DOMAIN before' = Kinds /\ FiledBoth(before', clock)
  <2>1. CASE Ends(p)
    BY <2>1, FiledNothing DEF Ends
  <2>2. CASE before' = before
    BY <2>2 DEF SInv
  <2> QED
    BY <1>2, <2>1, <2>2
<1>6. DOMAIN request' = Procs /\ \A q \in Procs : Names(request'[q])
  <2>1. CASE Ends(p)
    BY <2>1 DEF Ends, SInv, Names, NoRequest
  <2>2. CASE request' = request
    BY <2>2 DEF SInv
  <2> QED
    BY <1>2, <2>1, <2>2
<1> QED
  BY <1>1, <1>3, <1>4, <1>5, <1>6 DEF SInv

LEMMA LateLandsKeepsSInv ==
  ASSUME SInv, LateLands PROVE SInv'
<1>1. PICK w \in late : disk' = [disk EXCEPT ![w.store] = w.image] /\ late' = late \ {w}
  BY DEF LateLands
<1>2. UNCHANGED <<history, before, clock, request>>
  BY DEF LateLands, memory, work, calls
<1>3. ASSUME NEW k \in Kinds PROVE Filed(disk'[k], Ids, Contents, clock)
  <2>1. Filed(disk[k], Ids, Contents, clock) /\ k \in DOMAIN disk
    BY DEF SInv, FiledBoth, Stores
  <2>2. disk'[k] = disk[k] \/ (k = w.store /\ disk'[k] = w.image)
    BY <1>1, <2>1
  <2> QED
    BY <2>1, <2>2 DEF SInv
<1>4. DOMAIN disk' = Stores
  BY <1>1 DEF SInv
<1> QED
  BY <1>1, <1>2, <1>3, <1>4 DEF SInv, FiledBoth

LEMMA InitSInv == ASSUME Init PROVE SInv
<1>1. FiledBoth([k \in Kinds |-> NoHistories], 0)
  BY FiledNothing
<1>2. /\ history = [k \in Kinds |-> NoHistories] /\ before = [k \in Kinds |-> NoHistories]
      /\ DOMAIN disk = Stores /\ \A k \in Kinds : disk[k] = NoHistories
  BY DEF Init, Stores, Kinds
<1>3. FiledBoth(history, 0) /\ FiledBoth(before, 0) /\ FiledBoth(disk, 0)
  BY <1>1, <1>2 DEF FiledBoth
<1>4. clock = 0 /\ late = {} /\ request = [p \in Procs |-> NoRequest]
  BY DEF Init
<1> QED
  BY <1>2, <1>3, <1>4 DEF SInv, Names, NoRequest

LEMMA RestartKeepsSInv == ASSUME SInv, Restart PROVE SInv'
<1>1. /\ history' = [k \in Kinds |-> NoHistories] /\ before' = [k \in Kinds |-> NoHistories]
      /\ late' = {} /\ request' = [p \in Procs |-> NoRequest] /\ UNCHANGED <<disk, clock>>
  BY DEF Restart
<1>2. FiledBoth(history', clock) /\ FiledBoth(before', clock)
  BY <1>1, FiledNothing
<1> QED
  BY <1>1, <1>2 DEF SInv, Names, NoRequest

LEMMA NextKeepsSInv == ASSUME SInv, [Next]_vars PROVE SInv'
<1>1. ASSUME NEW p \in Procs, WriteEnds(p) \/ LoadFails(p) PROVE SInv'
  <2>1. Ends(p) /\ UNCHANGED <<history, disk, late, clock>>
    BY <1>1 DEF WriteEnds, LoadFails, memory, external
  <2> QED
    BY <2>1, EndKeepsSInv DEF SInv, FiledBoth
<1>2. ASSUME NEW p \in Procs, WriteWoken(p) \/ SkipTask(p) PROVE SInv'
  <2>1. UNCHANGED <<history, before, disk, late, clock, request>>
    BY <1>2 DEF WriteWoken, SkipTask, memory, work, external, calls
  <2> QED
    BY <2>1, AtRest
<1>3. CASE UNCHANGED vars
  <2>1. UNCHANGED <<history, before, disk, late, clock, request>>
    BY <1>3 DEF vars, memory, work, external, calls
  <2> QED
    BY <2>1, AtRest
<1> QED
  BY <1>1, <1>2, <1>3, CallKeepsSInv, LoadsKeepSInv, ChangesKeepSInv, SavingKeepsSInv,
     LateLandsKeepsSInv, RestartKeepsSInv DEF Next, Advances

\* A snapshot is in one place, for any plans, slots and writes: no backup, move, put-back,
\* promotion, deletion or load, after whatever failure, cancel or restart, leaves it under two
\* plans or twice in a history.
THEOREM SnapshotsStaySingle == Spec => []NoSnapshotTwice
<1>1. SInv => NoSnapshotTwice
  BY DEF SInv, FiledBoth, Filed, NoSnapshotTwice, History, Distinct
<1> QED
  BY <1>1, InitSInv, NextKeepsSInv, PTL DEF Spec

-----------------------------------------------------------------------------
(***************************************************************************)
(* Why the files follow the memory, and what a purge spares. Only one call *)
(* writes at a time, so the running write's tasks tell which files may be  *)
(* behind: a file agrees with the memory, or the write has yet to save it, *)
(* or a save of it failed or was cancelled with the change left in memory. *)
(***************************************************************************)
LoadPlaces == {"loadAuto", "loadChange", "loadKept"}

\* The running write has yet to save the store.
Pending(store) == \E i \in DOMAIN todo : todo[i].do = "save" /\ todo[i].store = store

Shapes ==
    /\ DOMAIN history = Kinds /\ DOMAIN before = Kinds /\ DOMAIN disk = Stores
    /\ todo \in Seq(Task)
    /\ undo \in {"keep", "rollback", "putBack", "log"}
    /\ loadLock \in Lock

\* What a request names.
Fits(r) ==
    /\ r.op \in {"move", "purgeIdentity", "deletePlan", "keep", "mark", "deleteOne"} =>
           r.id \in Ids
    /\ r.op \in {"mark", "deleteOne"} => r.kind \in Kinds

Requests == DOMAIN request = Procs /\ \A p \in Procs : Fits(request[p])

\* The stores are loaded by one call at a time, and nobody writes before.
Loading ==
    /\ \A p \in Procs :
           /\ pc[p] \in LoadPlaces => ~loaded /\ loadLock.owner = p
           /\ pc[p] \in {"writeQueued", "ensure", "saving"} => p \in Callers
           /\ pc[p] = "saving" => loaded
           /\ pc[p] \in {"loadChange", "loadKept"} => history["auto"] = disk["auto"]
           /\ pc[p] = "loadKept" => history["change"] = disk["change"]
    /\ ~loaded => late = {}

\* The tasks a failing write can undo, and what it undoes them with.
Undoing ==
    /\ (\A p \in Procs : pc[p] # "saving") => todo = <<>>
    /\ \A p \in Procs : pc[p] = "saving" /\ undo = "rollback" =>
           request[p].op \in {"auto", "mark"}
    /\ undo = "rollback" /\ todo # <<>> =>
           saved = {} /\ \E k \in Kinds : todo = <<Save(k)>>
    /\ undo = "putBack" => \A i \in DOMAIN todo :
           \/ todo[i].do = "forgetLogged"
           \/ todo[i].do = "save" /\ todo[i].store \in Kinds
    /\ undo \in {"rollback", "putBack"} /\ todo # <<>> =>
           \A k \in Kinds \ (unsynced \union saved) : disk[k] = before[k]

\* A file agrees with the memory, or will, or is known not to.
Follows ==
    loaded => \A s \in Stores \ unsynced : disk[s] = Image(s) \/ Pending(s)

\* A late write lands in a file that is known not to agree, or is saved again.
LateKnown == \A w \in late :
    /\ w.store \in Stores
    /\ w.store \in unsynced \/ (undo = "log" /\ Pending(w.store))

FInv == Shapes /\ Requests /\ Loading /\ Undoing /\ Follows /\ LateKnown

\* No task takes a backup, or the keep decision, of a plan users were told is
\* kept.
SparesTold(t) ==
    /\ t.do = "drop" => t.id \notin told
    /\ Forgets(t) => t.id \notin told \/ BackedUp(history, t.id)
    /\ t.do = "clearKept" => told = {}

KInv ==
    /\ told \subseteq kept \intersect Ids
    /\ ~loaded => told = {}
    /\ \A i \in DOMAIN todo : SparesTold(todo[i])
    /\ \A p \in Procs : pc[p] = "saving" /\ request[p].op = "keep" =>
           /\ request[p].id \in kept
           /\ \A i \in DOMAIN todo : todo[i].do = "save"
    /\ \A p \in Procs : pc[p] = "saving" /\ request[p].op = "purge" =>
           /\ undo = "keep"
           /\ \A i \in DOMAIN todo : /\ todo[i].do \in {"drop", "forget"}
                                     /\ Orphaned(request[p].live, todo[i].id)
    /\ restarts \in Nat

-----------------------------------------------------------------------------
(* Sequences of tasks *)

\* The elements of a non-empty sequence are its head and those of its tail.
LEMMA TailParts ==
  ASSUME NEW T, NEW s \in Seq(T), s # <<>>
  PROVE  /\ Head(s) \in T /\ Tail(s) \in Seq(T)
         /\ 1 \in DOMAIN s /\ Head(s) = s[1]
         /\ \A i \in DOMAIN Tail(s) : \E j \in DOMAIN s : Tail(s)[i] = s[j]
         /\ \A j \in DOMAIN s :
                j = 1 \/ \E i \in DOMAIN Tail(s) : Tail(s)[i] = s[j]
<1>1. Len(s) \in Nat \ {0} /\ DOMAIN s = 1 .. Len(s)
  OBVIOUS
<1>2. Head(s) \in T /\ Tail(s) \in Seq(T) /\ Head(s) = s[1]
  OBVIOUS
<1>3. DOMAIN Tail(s) = 1 .. (Len(s) - 1)
  OBVIOUS
<1>4. \A i \in DOMAIN Tail(s) : Tail(s)[i] = s[i + 1]
  OBVIOUS
<1>5. \A i \in DOMAIN Tail(s) : i + 1 \in DOMAIN s
  BY <1>1, <1>3
<1>6. \A j \in DOMAIN s : j = 1 \/ j - 1 \in DOMAIN Tail(s)
  BY <1>1, <1>3
<1>7. \A j \in DOMAIN s : j = 1 \/ Tail(s)[j - 1] = s[j]
  BY <1>1, <1>3, <1>4, <1>6
<1> QED
  BY <1>1, <1>2, <1>4, <1>5, <1>6, <1>7

\* The saves of a set of stores are those of its histories.
LEMMA SavesOfParts ==
  ASSUME NEW stores
  PROVE  /\ SavesOf(stores) \in Seq(Task)
         /\ \A i \in DOMAIN SavesOf(stores) :
                /\ SavesOf(stores)[i].do = "save"
                /\ SavesOf(stores)[i].store \in Kinds \intersect stores
         /\ \A k \in Kinds \intersect stores :
                \E i \in DOMAIN SavesOf(stores) :
                    /\ SavesOf(stores)[i].do = "save"
                    /\ SavesOf(stores)[i].store = k
<1>1. Save("auto") \in Task /\ Save("change") \in Task
  BY DEF Save, Task, Stores, Kinds
<1>2. CASE "auto" \in stores /\ "change" \in stores
  <2>1. SavesOf(stores) = <<Save("auto")>> \o <<Save("change")>>
    BY <1>2 DEF SavesOf
  <2>2. /\ SavesOf(stores) \in Seq(Task) /\ Len(SavesOf(stores)) = 2
        /\ SavesOf(stores)[1] = Save("auto")
        /\ SavesOf(stores)[2] = Save("change")
    BY <1>1, <2>1
  <2>3. \A i \in DOMAIN SavesOf(stores) : i = 1 \/ i = 2
    BY <2>2
  <2>4. 1 \in DOMAIN SavesOf(stores) /\ 2 \in DOMAIN SavesOf(stores)
    BY <2>2
  <2>5. \A k \in Kinds : k = "auto" \/ k = "change"
    BY DEF Kinds
  <2> QED
    BY <1>2, <2>2, <2>3, <2>4, <2>5 DEF Save, Kinds
<1>3. CASE "auto" \in stores /\ "change" \notin stores
  <2>1. SavesOf(stores) = <<Save("auto")>>
    BY <1>3 DEF SavesOf
  <2> QED
    BY <1>1, <1>3, <2>1 DEF Save, Kinds
<1>4. CASE "auto" \notin stores /\ "change" \in stores
  <2>1. SavesOf(stores) = <<Save("change")>>
    BY <1>4 DEF SavesOf
  <2> QED
    BY <1>1, <1>4, <2>1 DEF Save, Kinds
<1>5. CASE "auto" \notin stores /\ "change" \notin stores
  <2>1. SavesOf(stores) = <<>>
    BY <1>5 DEF SavesOf
  <2> QED
    BY <1>1, <1>5, <2>1 DEF Save, Kinds
<1> QED
  BY <1>2, <1>3, <1>4, <1>5

\* The tasks of a purge drop and forget plans of the purged set.
LEMMA DropsOfParts ==
  ASSUME NEW ids \in SUBSET Ids
  PROVE  /\ DropsOf(ids) \in Seq(Task)
         /\ \A i \in DOMAIN DropsOf(ids) :
                /\ DropsOf(ids)[i].do \in {"drop", "forget"}
                /\ DropsOf(ids)[i].id \in ids
<1> DEFINE order == SetToSeq(ids)
           task(i) == DropAll(order[(i + 2) \div 3])[((i + 2) % 3) + 1]
<1>1. order \in Seq(ids)
  <2>1. IsFiniteSet(ids)
    BY IdsAssumption, FS_Subset
  <2> QED
    BY <2>1, SetToSeqLists
<1>2. Len(order) \in Nat /\ \A j \in 1 .. Len(order) : order[j] \in ids
  BY <1>1
<1>3. ASSUME NEW i \in 1 .. 3 * Len(order)
      PROVE  /\ task(i) \in Task /\ task(i).do \in {"drop", "forget"}
             /\ task(i).id \in ids
  <2>1. (i + 2) \div 3 \in 1 .. Len(order) /\ ((i + 2) % 3) + 1 \in 1 .. 3
    BY <1>2, <1>3
  <2>2. PICK id \in ids : order[(i + 2) \div 3] = id
    BY <1>2, <2>1
  <2>3. PICK n \in 1 .. 3 : ((i + 2) % 3) + 1 = n
    BY <2>1
  <2>4. task(i) = DropAll(id)[n]
    BY <2>2, <2>3
  <2>5. task(i) \in {Drop("auto", id), Drop("change", id), Forget(id)}
    <3>1. n = 1 \/ n = 2 \/ n = 3
      BY <2>3
    <3> QED
      BY <2>4, <3>1 DEF DropAll
  <2> QED
    BY <2>5 DEF Drop, Forget, Task, Kinds
<1>4. DropsOf(ids) = [i \in 1 .. 3 * Len(order) |-> task(i)]
  BY DEF DropsOf
<1>5. 3 * Len(order) \in Nat
  BY <1>2
<1> QED
  BY <1>3, <1>4, <1>5

-----------------------------------------------------------------------------
(* Calls that do not write: waiting, loading, reading *)

\* What the operations on a lock make of it.
LEMMA LockOps ==
  ASSUME NEW l \in Lock, NEW p \in Procs
  PROVE  /\ Take(l, p) \in Lock /\ Take(l, p).owner = p
         /\ Enqueue(l, p) \in Lock /\ Enqueue(l, p).owner = l.owner
         /\ Release(l) \in Lock /\ Release(l).owner = NoCall
         /\ Woken(l, p) => /\ l.owner = NoCall
                           /\ TakeWoken(l, p) \in Lock /\ TakeWoken(l, p).owner = p
                           /\ Release(TakeWoken(l, p)) \in Lock
         /\ Free(l) => l.owner = NoCall
<1>1. l.queue \in Seq(Procs) /\ Append(l.queue, p) \in Seq(Procs)
  BY DEF Lock
<1>2. l.queue # <<>> => Tail(l.queue) \in Seq(Procs)
  BY <1>1
<1> QED
  BY <1>1, <1>2 DEF Lock, Take, Enqueue, Release, Woken, TakeWoken, Free, Locked

\* Only one call is past the write lock, so no other one writes.
LEMMA Alone ==
  ASSUME IInv, Loading, NEW p \in Procs, NEW q \in Procs,
         pc[p] \in {"ensure", "saving"}, pc[q] \in {"ensure", "saving"}
  PROVE  p = q
BY DEF IInv, WriterOwns, Past, Loading

\* A call goes on that does not write, and leaves the running write's work and
\* the files alone.
Walks(p, place) ==
    /\ pc' = [pc EXCEPT ![p] = place] /\ pc[p] # "saving" /\ place # "saving"
    /\ UNCHANGED <<work, external, unsynced>>
    /\ loadLock' \in Lock
    /\ \A q \in Procs \ {p} : request'[q] = request[q]

\* Such a step keeps the shapes, the tasks and the late writes as they are.
LEMMA WalksKeep ==
  ASSUME IInv, FInv, NEW p \in Procs, NEW place \in Places, Walks(p, place),
         DOMAIN history' = Kinds
  PROVE  Shapes' /\ Undoing' /\ LateKnown'
<1>1. UNCHANGED <<todo, undo, before, saved, disk, late, unsynced>>
  BY DEF Walks, work, external
<1>2. \A q \in Procs : pc'[q] = "saving" <=> pc[q] = "saving"
  BY DEF Walks, IInv
<1>3. Shapes'
  BY <1>1 DEF Walks, FInv, Shapes
<1>4. ASSUME NEW q \in Procs, pc'[q] = "saving", undo = "rollback"
      PROVE  request'[q].op \in {"auto", "mark"}
  BY <1>2, <1>4 DEF FInv, Undoing, Walks
<1>6. Undoing'
  BY <1>1, <1>2, <1>4 DEF FInv, Undoing
<1>5. LateKnown'
  BY <1>1 DEF FInv, LateKnown, Pending
<1> QED
  BY <1>3, <1>5, <1>6

\* A call for a write queues or takes the write lock.
LEMMA CallFits ==
  ASSUME NEW r \in Offers
  PROVE  Fits(r)
BY DEF Offers, Fits

LEMMA CallKeepsFInv ==
  ASSUME IInv, FInv, NEW p \in Procs, Call(p)
  PROVE  FInv'
<1>1. PICK r \in Offers :
        /\ pc[p] = "idle" /\ request' = [request EXCEPT ![p] = r]
        /\ \E place \in {"ensure", "writeQueued"} : pc' = [pc EXCEPT ![p] = place]
        /\ p \in Callers
        /\ UNCHANGED <<memory, work, loadLock, external, unsynced>>
  BY DEF Call, Goto
<1>2. PICK place \in {"ensure", "writeQueued"} : pc' = [pc EXCEPT ![p] = place]
  BY <1>1
<1>3. Walks(p, place)
  BY <1>1, <1>2 DEF Walks, FInv, Shapes, Requests
<1>4. Shapes' /\ Undoing' /\ LateKnown'
  BY <1>1, <1>3, WalksKeep DEF Places, FInv, Shapes, memory
<1>5. Requests'
  BY <1>1, CallFits DEF FInv, Requests
<1>6. Loading'
  BY <1>1, <1>2 DEF FInv, Loading, memory, external, IInv, LoadPlaces
<1>7. Follows'
  BY <1>1 DEF FInv, Follows, memory, external, work, Image, Pending
<1> QED
  BY <1>4, <1>5, <1>6, <1>7 DEF FInv

\* A woken call takes the write lock.
LEMMA WriteWokenKeepsFInv ==
  ASSUME IInv, FInv, NEW p \in Procs, WriteWoken(p)
  PROVE  FInv'
<1>1. /\ pc[p] = "writeQueued" /\ pc' = [pc EXCEPT ![p] = "ensure"]
      /\ UNCHANGED <<memory, work, request, loadLock, external, unsynced>>
  BY DEF WriteWoken, Goto
<1>3. Walks(p, "ensure")
  BY <1>1 DEF Walks, FInv, Shapes
<1>4. Shapes' /\ Undoing' /\ LateKnown'
  BY <1>1, <1>3, WalksKeep DEF Places, FInv, Shapes, memory
<1>6. Loading'
  BY <1>1 DEF FInv, Loading, memory, external, IInv, LoadPlaces
<1>7. Follows'
  BY <1>1 DEF FInv, Follows, memory, external, work, Image, Pending
<1> QED
  BY <1>1, <1>4, <1>6, <1>7 DEF FInv, Requests

\* A call waits for the load, starts it or finds it done.
LEMMA WaitsKeepFInv ==
  ASSUME IInv, FInv, NEW p \in Procs, EnsureLoaded(p) \/ LoadWoken(p)
  PROVE  FInv'
<1>1. /\ pc[p] \in {"idle", "ensure", "loadQueued"}
      /\ UNCHANGED <<memory, work, request, external, unsynced>>
  BY DEF EnsureLoaded, LoadWoken
<1>2. loadLock \in Lock
  BY DEF FInv, Shapes
<1>3. PICK place \in {"loadAuto", "loadQueued", "ensure", "idle"} :
        /\ pc' = [pc EXCEPT ![p] = place] /\ loadLock' \in Lock
        /\ place = "ensure" => p \in Callers
        /\ place = "loadAuto" =>
               ~loaded /\ loadLock.owner = NoCall /\ loadLock'.owner = p
        /\ place = "loadQueued" => loadLock'.owner = loadLock.owner
        /\ place \in {"ensure", "idle"} => loadLock.owner = NoCall
  <2>1. CASE EnsureLoaded(p)
    BY <1>2, <2>1, LockOps DEF EnsureLoaded, Goto
  <2>2. CASE LoadWoken(p)
    BY <1>2, <2>2, LockOps DEF LoadWoken, Goto, AfterLoad
  <2> QED
    BY <2>1, <2>2
<1>4. Walks(p, place)
  BY <1>1, <1>3 DEF Walks
<1>5. Shapes' /\ Undoing' /\ LateKnown'
  BY <1>1, <1>4, WalksKeep DEF Places, FInv, Shapes, memory
<1>6. Loading'
  <2>1. \A q \in Procs : q # NoCall
    BY NoCallAssumption DEF Procs
  <2>2. \A q \in Procs : pc[q] \in LoadPlaces => loadLock.owner = q
    BY DEF FInv, Loading
  <2>3. UNCHANGED <<history, kept, loaded, disk, late>>
    BY <1>1 DEF memory, external
  <2>4. ASSUME NEW q \in Procs
        PROVE /\ pc'[q] \in LoadPlaces => ~loaded' /\ loadLock'.owner = q
              /\ pc'[q] \in {"writeQueued", "ensure", "saving"} => q \in Callers
              /\ pc'[q] = "saving" => loaded'
              /\ pc'[q] \in {"loadChange", "loadKept"} =>
                     history'["auto"] = disk'["auto"]
              /\ pc'[q] = "loadKept" => history'["change"] = disk'["change"]
    <3>1. CASE q = p
      BY <1>3, <2>3, <3>1 DEF IInv, LoadPlaces
    <3>2. CASE q # p
      <4>1. pc'[q] = pc[q]
        BY <1>3, <3>2 DEF IInv
      <4>2. pc[q] \in LoadPlaces => place = "loadQueued"
        BY <1>3, <2>1, <2>2
      <4> QED
        BY <1>3, <2>2, <2>3, <4>1, <4>2 DEF FInv, Loading
    <3> QED
      BY <3>1, <3>2
  <2>5. ~loaded' => late' = {}
    BY <2>3 DEF FInv, Loading
  <2> QED
    BY <2>4, <2>5 DEF Loading
<1>7. Follows'
  BY <1>1 DEF FInv, Follows, memory, external, work, Image, Pending
<1> QED
  BY <1>1, <1>5, <1>6, <1>7 DEF FInv, Requests

\* No other call loads while p does.
LEMMA LoadsAlone ==
  ASSUME Loading, NEW p \in Procs, NEW q \in Procs,
         pc[p] \in LoadPlaces, pc[q] \in LoadPlaces
  PROVE  p = q
BY DEF Loading

\* The load of the automatic or of the change backups.
LEMMA LoadHistoryKeepsFInv ==
  ASSUME IInv, FInv, NEW p \in Procs, LoadAuto(p) \/ LoadChange(p)
  PROVE  FInv'
<1>1. UNCHANGED <<kept, loaded, work, request, locks, external, unsynced>>
  BY DEF LoadAuto, LoadChange, LoadHistory
<1>2. \/ /\ pc[p] = "loadAuto" /\ pc' = [pc EXCEPT ![p] = "loadChange"]
         /\ history' = [history EXCEPT !["auto"] = disk["auto"]]
      \/ /\ pc[p] = "loadChange" /\ pc' = [pc EXCEPT ![p] = "loadKept"]
         /\ history' = [history EXCEPT !["change"] = disk["change"]]
  BY DEF LoadAuto, LoadChange, LoadHistory, Goto
<1>3. DOMAIN history' = Kinds /\ pc[p] \in LoadPlaces
  BY <1>2 DEF FInv, Shapes, LoadPlaces
<1>4. PICK place \in {"loadChange", "loadKept"} : pc' = [pc EXCEPT ![p] = place]
  BY <1>2
<1>5. Walks(p, place)
  BY <1>1, <1>2, <1>4 DEF Walks, FInv, Shapes, locks
<1>6. Shapes' /\ Undoing' /\ LateKnown'
  BY <1>3, <1>5, WalksKeep DEF Places
<1>7. ~loaded /\ loadLock.owner = p
  BY <1>3 DEF FInv, Loading
<1>8. Loading'
  <2>1. UNCHANGED <<kept, loaded, disk, late, loadLock>>
    BY <1>1 DEF external, locks
  <2>2. ASSUME NEW q \in Procs \ {p} PROVE pc'[q] = pc[q] /\ pc[q] \notin LoadPlaces
    BY <1>3, <1>4, LoadsAlone DEF IInv, FInv
  <2>3. ASSUME NEW q \in Procs
        PROVE /\ pc'[q] \in LoadPlaces => ~loaded' /\ loadLock'.owner = q
              /\ pc'[q] \in {"writeQueued", "ensure", "saving"} => q \in Callers
              /\ pc'[q] = "saving" => loaded'
              /\ pc'[q] \in {"loadChange", "loadKept"} =>
                     history'["auto"] = disk'["auto"]
              /\ pc'[q] = "loadKept" => history'["change"] = disk'["change"]
    <3>1. CASE q = p
      BY <1>2, <1>3, <1>7, <2>1, <3>1 DEF IInv, LoadPlaces, FInv, Loading, Shapes, Kinds
    <3>2. CASE q # p
      BY <2>1, <2>2, <3>2 DEF FInv, Loading, LoadPlaces
    <3> QED
      BY <3>1, <3>2
  <2> QED
    BY <2>1, <2>3 DEF Loading, FInv
<1>9. Follows'
  BY <1>1, <1>7 DEF Follows
<1> QED
  BY <1>1, <1>6, <1>8, <1>9 DEF FInv, Requests

\* The load of the keep decisions is the last: the memory is what the files hold.
LEMMA LoadKeptKeepsFInv ==
  ASSUME IInv, FInv, NEW p \in Procs, LoadKept(p)
  PROVE  FInv'
<1>1. /\ pc[p] = "loadKept" /\ kept' = disk["kept"] /\ loaded' = TRUE
      /\ loadLock' = Release(loadLock)
      /\ UNCHANGED <<history, work, request, external, unsynced>>
  BY DEF LoadKept
<1>2. PICK place \in {"ensure", "idle"} :
        pc' = [pc EXCEPT ![p] = place] /\ (place = "ensure" => p \in Callers)
  BY DEF LoadKept, AfterLoad, Goto
<1>3. loadLock' \in Lock
  BY <1>1, LockOps DEF FInv, Shapes
<1>4. Walks(p, place)
  BY <1>1, <1>2, <1>3 DEF Walks
<1>5. Shapes' /\ Undoing' /\ LateKnown'
  BY <1>1, <1>4, WalksKeep DEF Places, FInv, Shapes
<1>6. pc[p] \in LoadPlaces
  BY <1>1 DEF LoadPlaces
<1>7. \A q \in Procs : pc'[q] \notin LoadPlaces
  BY <1>2, <1>6, LoadsAlone DEF IInv, FInv, LoadPlaces
<1>8. Loading'
  <2>1. \A q \in Procs : pc'[q] \in {"writeQueued", "ensure", "saving"} => q \in Callers
    BY <1>2 DEF IInv, FInv, Loading
  <2> QED
    BY <1>1, <1>7, <2>1 DEF Loading, LoadPlaces
<1>9. Follows'
  <2>1. history["auto"] = disk["auto"] /\ history["change"] = disk["change"]
    BY <1>1 DEF FInv, Loading
  <2> QED
    BY <1>1, <2>1 DEF Follows, Image, Stores, Kinds, external
<1> QED
  BY <1>1, <1>5, <1>8, <1>9 DEF FInv, Requests

-----------------------------------------------------------------------------
(* The end of a call *)

\* What the end of a call leaves, when no other call writes.
LEMMA EndsShapes ==
  ASSUME IInv, FInv, NEW p \in Procs, Ends(p), loadLock' \in Lock,
         DOMAIN history' = Kinds, DOMAIN disk' = Stores,
         \A q \in Procs \ {p} : pc[q] # "saving"
  PROVE  Shapes' /\ Requests' /\ Undoing'
<1>1. /\ pc' = [pc EXCEPT ![p] = "idle"]
      /\ request' = [request EXCEPT ![p] = NoRequest]
      /\ todo' = <<>> /\ undo' = "keep" /\ DOMAIN before' = Kinds
  BY DEF Ends, Goto
<1>2. Shapes'
  BY <1>1 DEF Shapes
<1>3. Requests'
  BY <1>1 DEF FInv, Requests, Fits, NoRequest
<1>4. \A q \in Procs : pc'[q] # "saving"
  BY <1>1 DEF IInv
<1>5. Undoing'
  BY <1>1, <1>4 DEF Undoing
<1> QED
  BY <1>2, <1>3, <1>5

\* The end of a write, with every file as the memory or known not to be.
LEMMA WriteEndKeepsFInv ==
  ASSUME IInv, FInv, NEW p \in Procs, Ends(p), pc[p] \in {"ensure", "saving"},
         loaded, UNCHANGED <<loaded, loadLock>>,
         DOMAIN history' = Kinds, DOMAIN disk' = Stores,
         \A s \in Stores \ unsynced' : disk'[s] = Image(s)',
         \A w \in late' : w.store \in Stores /\ w.store \in unsynced'
  PROVE  FInv'
<1>1. \A q \in Procs \ {p} : pc[q] # "saving"
  BY Alone DEF FInv
<1>2. Shapes' /\ Requests' /\ Undoing'
  BY <1>1, EndsShapes DEF FInv, Shapes
<1>3. pc' = [pc EXCEPT ![p] = "idle"]
  BY DEF Ends, Goto
<1>4. \A q \in Procs : pc[q] \notin LoadPlaces
  BY DEF FInv, Loading
<1>5. Loading'
  BY <1>3, <1>4 DEF IInv, FInv, Loading, LoadPlaces
<1>6. Follows' /\ LateKnown'
  BY DEF Follows, LateKnown
<1> QED
  BY <1>2, <1>5, <1>6 DEF FInv

\* Between two writes, no task is left.
LEMMA NothingPending ==
  ASSUME IInv, FInv, NEW p \in Procs, pc[p] = "ensure", loaded
  PROVE  /\ todo = <<>>
         /\ \A s \in Stores \ unsynced : disk[s] = Image(s)
         /\ \A w \in late : w.store \in Stores /\ w.store \in unsynced
<1>1. \A q \in Procs : pc[q] # "saving"
  BY Alone DEF FInv
<1>2. todo = <<>>
  BY <1>1 DEF FInv, Undoing
<1>3. \A s : ~Pending(s)
  BY <1>2 DEF Pending
<1> QED
  BY <1>2, <1>3 DEF FInv, Follows, LateKnown

\* A write that ends without a change.
LEMMA IdleWriteKeepsFInv ==
  ASSUME IInv, FInv, NEW p \in Procs, Ends(p), pc[p] = "ensure", loaded,
         UNCHANGED <<memory, loadLock, external, unsynced>>
  PROVE  FInv'
<1>1. DOMAIN history' = Kinds /\ DOMAIN disk' = Stores
  BY DEF memory, external, FInv, Shapes
<1>2. \A s \in Stores \ unsynced' : disk'[s] = Image(s)'
  BY NothingPending DEF memory, external, Image
<1>3. \A w \in late' : w.store \in Stores /\ w.store \in unsynced'
  BY NothingPending DEF external
<1> QED
  BY <1>1, <1>2, <1>3, WriteEndKeepsFInv DEF memory

\* The end of a write whose tasks are done.
LEMMA WriteEndsKeepsFInv ==
  ASSUME IInv, FInv, NEW p \in Procs, WriteEnds(p)
  PROVE  FInv'
<1>1. /\ pc[p] = "saving" /\ todo = <<>> /\ Ends(p)
      /\ UNCHANGED <<memory, loadLock, external, unsynced>>
  BY DEF WriteEnds
<1>2. loaded /\ \A s : ~Pending(s)
  BY <1>1 DEF FInv, Loading, Pending
<1>3. DOMAIN history' = Kinds /\ DOMAIN disk' = Stores
  BY <1>1 DEF memory, external, FInv, Shapes
<1>4. \A s \in Stores \ unsynced' : disk'[s] = Image(s)'
  BY <1>1, <1>2 DEF memory, external, Image, FInv, Follows
<1>5. \A w \in late' : w.store \in Stores /\ w.store \in unsynced'
  BY <1>1, <1>2 DEF external, FInv, LateKnown
<1> QED
  BY <1>1, <1>2, <1>3, <1>4, <1>5, WriteEndKeepsFInv DEF memory

\* A load that fails ends its call; nobody writes yet.
LEMMA LoadFailsKeepsFInv ==
  ASSUME IInv, FInv, NEW p \in Procs, LoadFails(p)
  PROVE  FInv'
<1>1. /\ pc[p] \in LoadPlaces /\ Ends(p) /\ loadLock' = Release(loadLock)
      /\ UNCHANGED <<memory, external, unsynced>>
  BY DEF LoadFails, LoadPlaces
<1>2. ~loaded /\ \A q \in Procs : pc[q] # "saving"
  BY <1>1 DEF FInv, Loading
<1>3. loadLock' \in Lock
  BY <1>1, LockOps DEF FInv, Shapes
<1>4. Shapes' /\ Requests' /\ Undoing'
  BY <1>1, <1>2, <1>3, EndsShapes DEF FInv, Shapes, memory, external
<1>5. pc' = [pc EXCEPT ![p] = "idle"]
  BY <1>1 DEF Ends, Goto
<1>6. \A q \in Procs : pc'[q] \notin LoadPlaces
  BY <1>1, <1>5, LoadsAlone DEF IInv, FInv, LoadPlaces
<1>7. Loading'
  BY <1>1, <1>2, <1>5, <1>6 DEF IInv, FInv, Loading, LoadPlaces, memory, external
<1>8. Follows'
  BY <1>1, <1>2 DEF Follows, memory
<1>9. LateKnown'
  BY <1>1, <1>2 DEF FInv, Loading, LateKnown, external
<1> QED
  BY <1>4, <1>7, <1>8, <1>9 DEF FInv

-----------------------------------------------------------------------------
(* A write changes the memory *)

\* A write whose changed stores have a task each, and whose undo fits its tasks.
LEMMA ProceedKeepsFInv ==
  ASSUME IInv, FInv, NEW p \in Procs, pc[p] = "ensure", loaded,
         NEW tasks \in Seq(Task), NEW w \in {"keep", "rollback", "putBack"},
         Proceed(p, tasks, w), DOMAIN history' = Kinds,
         w = "rollback" => /\ request[p].op \in {"auto", "mark"}
                           /\ \E k \in Kinds : tasks = <<Save(k)>>,
         w = "putBack" => \A i \in DOMAIN tasks :
             \/ tasks[i].do = "forgetLogged"
             \/ tasks[i].do = "save" /\ tasks[i].store \in Kinds,
         \A s \in Stores :
             \/ Image(s)' = Image(s)
             \/ \E i \in DOMAIN tasks : tasks[i].do = "save" /\ tasks[i].store = s
  PROVE  FInv'
<1>1. /\ todo' = tasks /\ undo' = w /\ before' = history /\ saved' = {}
      /\ pc' = [pc EXCEPT ![p] = "saving"]
      /\ UNCHANGED <<loaded, request, loadLock, disk, late, unsynced>>
  BY DEF Proceed, Goto, locks, external
<1>2. \A s \in Stores \ unsynced : disk[s] = Image(s)
  BY NothingPending
<1>3. \A v \in late : v.store \in Stores /\ v.store \in unsynced
  BY NothingPending
<1>4. Shapes' /\ Requests'
  BY <1>1 DEF FInv, Shapes, Requests
<1>5. Loading'
  <2>1. \A q \in Procs : pc[q] \notin LoadPlaces
    BY DEF FInv, Loading
  <2> QED
    BY <1>1, <2>1 DEF IInv, FInv, Loading, LoadPlaces
<1>6. Undoing'
  <2>1. \A q \in Procs : pc'[q] = "saving" => q = p
    BY <1>1, Alone DEF IInv, FInv
  <2>2. pc'[p] = "saving"
    BY <1>1 DEF IInv
  <2>3. \A k \in Kinds \ unsynced : disk[k] = history[k]
    BY <1>2 DEF Image, Stores, Kinds
  <2> QED
    BY <1>1, <2>1, <2>2, <2>3 DEF Undoing
<1>7. Follows'
  BY <1>1, <1>2 DEF Follows, Pending
<1>8. LateKnown'
  BY <1>1, <1>3 DEF LateKnown
<1> QED
  BY <1>4, <1>5, <1>6, <1>7, <1>8 DEF FInv

\* A write that finds nothing to do.
LEMMA NothingToDoKeepsFInv ==
  ASSUME IInv, FInv, NEW p \in Procs, pc[p] = "ensure", loaded, NothingToDo(p)
  PROVE  FInv'
BY IdleWriteKeepsFInv DEF NothingToDo

\* One save of one history that the write changed.
LEMMA OneSave ==
  ASSUME NEW k \in Stores
  PROVE  /\ <<Save(k)>> \in Seq(Task)
         /\ \E i \in DOMAIN <<Save(k)>> :
                <<Save(k)>>[i].do = "save" /\ <<Save(k)>>[i].store = k
<1>1. Save(k) \in Task
  BY DEF Save, Task
<1>2. <<Save(k)>> \in Seq(Task) /\ 1 \in DOMAIN <<Save(k)>>
  BY <1>1
<1> QED
  BY <1>2 DEF Save

\* A history is changed, and the others and the keep decisions are not.
LEMMA OtherImages ==
  ASSUME FInv, NEW k \in Kinds, NEW h, history' = [history EXCEPT ![k] = h],
         kept' = kept
  PROVE  DOMAIN history' = Kinds /\ \A s \in Stores : s = k \/ Image(s)' = Image(s)
BY DEF FInv, Shapes, Image, Stores, Kinds

\* A backup or a mark saves the one history it changed.
LEMMA HistoryWriteKeepsFInv ==
  ASSUME IInv, FInv, NEW p \in Procs, pc[p] = "ensure", loaded, NEW k \in Kinds,
         NEW h, history' = [history EXCEPT ![k] = h], kept' = kept,
         NEW w \in {"keep", "rollback"}, Proceed(p, <<Save(k)>>, w),
         w = "rollback" => request[p].op \in {"auto", "mark"}
  PROVE  FInv'
<1>1. k \in Stores
  BY DEF Stores
<1>2. DOMAIN history' = Kinds /\ \A s \in Stores : s = k \/ Image(s)' = Image(s)
  BY OtherImages
<1>3. \A s \in Stores :
          \/ Image(s)' = Image(s)
          \/ \E i \in DOMAIN <<Save(k)>> :
                 <<Save(k)>>[i].do = "save" /\ <<Save(k)>>[i].store = s
  BY <1>1, <1>2, OneSave
<1>4. PICK tasks : tasks = <<Save(k)>>
  OBVIOUS
<1>5. tasks \in Seq(Task) /\ Proceed(p, tasks, w)
  BY <1>1, <1>4, OneSave
<1>6. w = "rollback" => \E j \in Kinds : tasks = <<Save(j)>>
  BY <1>4
<1>7. \A s \in Stores :
          \/ Image(s)' = Image(s)
          \/ \E i \in DOMAIN tasks : tasks[i].do = "save" /\ tasks[i].store = s
  BY <1>3, <1>4
<1> QED
  BY <1>2, <1>5, <1>6, <1>7, ProceedKeepsFInv

LEMMA AutoBackupKeepsFInv ==
  ASSUME IInv, FInv, NEW p \in Procs, AutoBackup(p)
  PROVE  FInv'
<1>1. pc[p] = "ensure" /\ loaded /\ request[p].op = "auto"
  BY DEF AutoBackup, Writes
<1>2. CASE NothingToDo(p)
  BY <1>1, <1>2, NothingToDoKeepsFInv
<1>3. CASE ~NothingToDo(p)
  <2>1. /\ \E h : history' = [history EXCEPT !["auto"] = h]
        /\ Proceed(p, <<Save("auto")>>, "rollback") /\ kept' = kept
    BY <1>3 DEF AutoBackup
  <2> QED
    BY <1>1, <2>1, HistoryWriteKeepsFInv DEF Kinds
<1> QED
  BY <1>2, <1>3

LEMMA ChangeBackupKeepsFInv ==
  ASSUME IInv, FInv, NEW p \in Procs, ChangeBackup(p)
  PROVE  FInv'
<1>1. pc[p] = "ensure" /\ loaded
  BY DEF ChangeBackup, Writes
<1>2. CASE NothingToDo(p)
  BY <1>1, <1>2, NothingToDoKeepsFInv
<1>3. CASE ~NothingToDo(p)
  <2>1. /\ \E h : history' = [history EXCEPT !["change"] = h]
        /\ Proceed(p, <<Save("change")>>, "keep") /\ kept' = kept
    BY <1>3 DEF ChangeBackup
  <2> QED
    BY <1>1, <2>1, HistoryWriteKeepsFInv DEF Kinds
<1> QED
  BY <1>2, <1>3

LEMMA MarkRestoredKeepsFInv ==
  ASSUME IInv, FInv, NEW p \in Procs, MarkRestored(p)
  PROVE  FInv'
<1>1. pc[p] = "ensure" /\ loaded /\ request[p].op = "mark"
  BY DEF MarkRestored, Writes
<1>2. request[p].kind \in Kinds
  BY <1>1 DEF FInv, Requests, Fits
<1>3. CASE NothingToDo(p)
  BY <1>1, <1>3, NothingToDoKeepsFInv
<1>4. CASE ~NothingToDo(p)
  <2>1. /\ \E h : history' = [history EXCEPT ![request[p].kind] = h]
        /\ Proceed(p, <<Save(request[p].kind)>>, "rollback") /\ kept' = kept
    BY <1>4 DEF MarkRestored
  <2> QED
    BY <1>1, <1>2, <2>1, HistoryWriteKeepsFInv
<1> QED
  BY <1>3, <1>4

\* A move or a purge of a lineage saves the histories that held the old identity.
LEMMA LineageKeepsFInv ==
  ASSUME IInv, FInv, NEW p \in Procs, Move(p) \/ PurgeIdentity(p)
  PROVE  FInv'
<1> DEFINE id == request[p].id
           tasks == SavesOf(WithHistory(id)) \o <<ForgetLogged(id)>>
<1>1. /\ pc[p] = "ensure" /\ loaded /\ Proceed(p, tasks, "putBack") /\ kept' = kept
      /\ DOMAIN history' = Kinds
      /\ \A k \in Kinds : history[k][id] = <<>> => history'[k] = history[k]
  BY DEF Move, PurgeIdentity, Writes
<1>2. id \in Ids
  BY DEF Move, PurgeIdentity, Writes, FInv, Requests, Fits
<1>3. ForgetLogged(id) \in Task /\ ForgetLogged(id).do = "forgetLogged"
  BY <1>2 DEF ForgetLogged, Task
<1>4. /\ SavesOf(WithHistory(id)) \in Seq(Task)
      /\ \A i \in DOMAIN SavesOf(WithHistory(id)) :
             /\ SavesOf(WithHistory(id))[i].do = "save"
             /\ SavesOf(WithHistory(id))[i].store \in Kinds
      /\ \A k \in WithHistory(id) : \E i \in DOMAIN SavesOf(WithHistory(id)) :
             /\ SavesOf(WithHistory(id))[i].do = "save"
             /\ SavesOf(WithHistory(id))[i].store = k
  BY SavesOfParts DEF WithHistory
<1>5. tasks \in Seq(Task)
  BY <1>3, <1>4
<1>6. \A i \in DOMAIN tasks : \/ tasks[i] = ForgetLogged(id)
                              \/ /\ i \in DOMAIN SavesOf(WithHistory(id))
                                 /\ tasks[i] = SavesOf(WithHistory(id))[i]
  BY <1>3, <1>4
<1>7. \A i \in DOMAIN SavesOf(WithHistory(id)) :
          i \in DOMAIN tasks /\ tasks[i] = SavesOf(WithHistory(id))[i]
  BY <1>3, <1>4
<1>8. \A i \in DOMAIN tasks : \/ tasks[i].do = "forgetLogged"
                              \/ tasks[i].do = "save" /\ tasks[i].store \in Kinds
  BY <1>3, <1>4, <1>6
<1>9. \A s \in Stores :
          \/ Image(s)' = Image(s)
          \/ \E i \in DOMAIN tasks : tasks[i].do = "save" /\ tasks[i].store = s
  <2>1. ASSUME NEW s \in Stores, Image(s)' # Image(s)
        PROVE  s \in WithHistory(id)
    BY <1>1, <2>1 DEF Image, Stores, WithHistory
  <2> QED
    BY <1>4, <1>7, <2>1
<1> HIDE DEF tasks
<1> QED
  BY <1>1, <1>5, <1>8, <1>9, ProceedKeepsFInv

\* A write all of whose tasks keep their change when one fails.
LEMMA KeepWriteKeepsFInv ==
  ASSUME IInv, FInv, NEW p \in Procs, pc[p] = "ensure", loaded,
         NEW tasks \in Seq(Task), Proceed(p, tasks, "keep"), DOMAIN history' = Kinds,
         \A s \in Stores :
             \/ Image(s)' = Image(s)
             \/ \E i \in DOMAIN tasks : tasks[i].do = "save" /\ tasks[i].store = s
  PROVE  FInv'
BY ProceedKeepsFInv

LEMMA DeleteOneKeepsFInv ==
  ASSUME IInv, FInv, NEW p \in Procs, DeleteOne(p)
  PROVE  FInv'
<1> DEFINE k == request[p].kind
           id == request[p].id
           rest == IF Len(history[k][id]) = 1 THEN <<Forget(id)>> ELSE <<>>
           tasks == <<Save(k)>> \o rest
<1>1. pc[p] = "ensure" /\ loaded /\ request[p].op = "deleteOne"
  BY DEF DeleteOne, Writes
<1>2. k \in Kinds /\ id \in Ids
  BY <1>1 DEF FInv, Requests, Fits
<1>3. CASE NothingToDo(p)
  BY <1>1, <1>3, NothingToDoKeepsFInv
<1>4. CASE ~NothingToDo(p)
  <2>1. /\ \E h : history' = [history EXCEPT ![k] = h]
        /\ Proceed(p, tasks, "keep") /\ kept' = kept
    BY <1>4 DEF DeleteOne
  <2>2. DOMAIN history' = Kinds /\ \A s \in Stores : s = k \/ Image(s)' = Image(s)
    BY <1>2, <2>1, OtherImages
  <2>3. Save(k) \in Task /\ Forget(id) \in Task
    BY <1>2 DEF Save, Forget, Task, Stores
  <2>4. rest \in Seq(Task)
    BY <2>3
  <2>5. tasks \in Seq(Task) /\ 1 \in DOMAIN tasks /\ tasks[1] = Save(k)
    BY <2>3, <2>4
  <2>6. tasks[1].do = "save" /\ tasks[1].store = k
    BY <2>5 DEF Save
  <2> HIDE DEF tasks
  <2> QED
    BY <1>1, <2>1, <2>2, <2>5, <2>6, KeepWriteKeepsFInv
<1> QED
  BY <1>3, <1>4

\* The deletions of whole plans change nothing before their first task.
LEMMA DropsKeepFInv ==
  ASSUME IInv, FInv, NEW p \in Procs, DeletePlan(p) \/ Purge(p)
  PROVE  FInv'
<1>1. /\ pc[p] = "ensure" /\ loaded /\ UNCHANGED <<history, kept>>
  BY DEF DeletePlan, Purge, Writes
<1>2. DOMAIN history' = Kinds /\ \A s \in Stores : Image(s)' = Image(s)
  BY <1>1 DEF FInv, Shapes, Image
<1>3. \E tasks \in Seq(Task) : Proceed(p, tasks, "keep")
  <2>1. CASE DeletePlan(p)
    <3>1. request[p].id \in Ids
      BY <2>1 DEF DeletePlan, Writes, FInv, Requests, Fits
    <3>2. DropAll(request[p].id) \in Seq(Task)
      <4>1. /\ Drop("auto", request[p].id) \in Task
            /\ Drop("change", request[p].id) \in Task
            /\ Forget(request[p].id) \in Task
        BY <3>1 DEF Drop, Forget, Task, Kinds
      <4> QED
        BY <4>1 DEF DropAll
    <3> QED
      BY <2>1, <3>2 DEF DeletePlan
  <2>2. CASE Purge(p)
    BY <2>2, DropsOfParts DEF Purge, Expired
  <2> QED
    BY <2>1, <2>2
<1> QED
  BY <1>1, <1>2, <1>3, KeepWriteKeepsFInv

LEMMA DeleteAllKeepsFInv ==
  ASSUME IInv, FInv, NEW p \in Procs, DeleteAll(p)
  PROVE  FInv'
<1> DEFINE tasks == <<Save("auto"), Save("change"), [do |-> "clearKept"]>>
<1>1. /\ pc[p] = "ensure" /\ loaded /\ kept' = kept /\ DOMAIN history' = Kinds
      /\ Proceed(p, tasks, "keep")
  BY DEF DeleteAll, Writes
<1>2. Save("auto") \in Task /\ Save("change") \in Task /\ [do |-> "clearKept"] \in Task
  BY DEF Save, Task, Stores, Kinds
<1>3. tasks \in Seq(Task) /\ {1, 2} \subseteq DOMAIN tasks
  BY <1>2
<1>4. /\ tasks[1].do = "save" /\ tasks[1].store = "auto"
      /\ tasks[2].do = "save" /\ tasks[2].store = "change"
  BY DEF Save
<1>5. \A s \in Stores : s = "auto" \/ s = "change" \/ Image(s)' = Image(s)
  BY <1>1 DEF Stores, Kinds, Image
<1> HIDE DEF tasks
<1>6. \A s \in Stores :
          \/ Image(s)' = Image(s)
          \/ \E i \in DOMAIN tasks : tasks[i].do = "save" /\ tasks[i].store = s
  BY <1>3, <1>4, <1>5
<1> QED
  BY <1>1, <1>3, <1>6, KeepWriteKeepsFInv

\* A keep decision is made or forgotten, and saved.
LEMMA DecisionsKeepFInv ==
  ASSUME IInv, FInv, NEW p \in Procs, Audit(p) \/ Keep(p) \/ Unkeep(p)
  PROVE  FInv'
<1>1. pc[p] = "ensure" /\ loaded
  BY DEF Audit, Keep, Unkeep, Writes
<1>2. CASE NothingToDo(p)
  BY <1>1, <1>2, NothingToDoKeepsFInv
<1>3. CASE Ends(p) /\ UNCHANGED <<memory, loadLock, external, unsynced>>
  BY <1>1, <1>3, IdleWriteKeepsFInv
<1>4. CASE Proceed(p, <<Save("kept")>>, "keep") /\ history' = history
  <2>1. DOMAIN history' = Kinds /\ \A s \in Stores : s = "kept" \/ Image(s)' = Image(s)
    BY <1>4 DEF FInv, Shapes, Image
  <2>2. PICK tasks : tasks = <<Save("kept")>>
    OBVIOUS
  <2>3. /\ tasks \in Seq(Task)
        /\ \E i \in DOMAIN tasks : tasks[i].do = "save" /\ tasks[i].store = "kept"
    BY <2>2, OneSave DEF Stores
  <2>4. Proceed(p, tasks, "keep")
    BY <1>4, <2>2
  <2> QED
    BY <1>1, <2>1, <2>3, <2>4, KeepWriteKeepsFInv
<1> QED
  BY <1>2, <1>3, <1>4 DEF Audit, Keep, Unkeep

\* Every write keeps the invariant when it changes the memory.
LEMMA ChangesKeepFInv ==
  ASSUME IInv, FInv, NEW p \in Procs, Changes(p)
  PROVE  FInv'
BY AutoBackupKeepsFInv, ChangeBackupKeepsFInv, MarkRestoredKeepsFInv,
   LineageKeepsFInv, DeleteOneKeepsFInv, DropsKeepFInv, DeleteAllKeepsFInv,
   DecisionsKeepFInv DEF Changes

-----------------------------------------------------------------------------
(* The tasks of a write *)

\* A task changes the image of the one store it saves.
LEMMA TaskImages ==
  ASSUME FInv, NEW t \in Task, StoreOf(t) # "none",
         history' = HistoryAfter(t), kept' = KeptAfter(t)
  PROVE  /\ StoreOf(t) \in Stores /\ DOMAIN history' = Kinds
         /\ \A s \in Stores :
                Image(s)' = IF s = StoreOf(t) THEN ImageAfter(t) ELSE Image(s)
         /\ t.do = "save" => t.store = StoreOf(t)
<1>1. DOMAIN history = Kinds
  BY DEF FInv, Shapes
<1>2. CASE t.do = "save"
  <2>1. t.store \in Stores
    BY <1>2 DEF Task
  <2>2. StoreOf(t) = t.store /\ HistoryAfter(t) = history /\ KeptAfter(t) = kept
    BY <1>2 DEF StoreOf, HistoryAfter, KeptAfter, Forgets
  <2> QED
    BY <1>1, <2>1, <2>2 DEF Image, ImageAfter, Stores
<1>3. CASE t.do = "drop"
  <2>1. t.kind \in Kinds
    BY <1>3 DEF Task
  <2>2. /\ StoreOf(t) = t.kind /\ KeptAfter(t) = kept
        /\ HistoryAfter(t) = [history EXCEPT ![t.kind][t.id] = <<>>]
    BY <1>3 DEF StoreOf, HistoryAfter, KeptAfter, Forgets
  <2> QED
    BY <1>1, <1>3, <2>1, <2>2 DEF Image, ImageAfter, Stores, Kinds
<1>4. CASE t.do \notin {"save", "drop"}
  <2>1. StoreOf(t) = "kept" /\ HistoryAfter(t) = history
    BY <1>4 DEF StoreOf, HistoryAfter
  <2> QED
    BY <1>1, <1>4, <2>1 DEF Image, ImageAfter, Stores, Kinds
<1> QED
  BY <1>2, <1>3, <1>4

\* A task that saves nothing is no save.
LEMMA NoneIsNoSave ==
  ASSUME NEW t \in Task, StoreOf(t) = "none"
  PROVE  t.do # "save"
<1> SUFFICES ASSUME t.do = "save" PROVE FALSE
  OBVIOUS
<1>1. t.store \in Stores /\ t.store = "none"
  BY DEF StoreOf, Task
<1> QED
  BY <1>1 DEF Stores, Kinds

\* The write at its task: its stores are loaded, and it is the only one.
LEMMA AtTask ==
  ASSUME IInv, FInv, NEW p \in Procs, HasTask(p)
  PROVE  /\ pc[p] = "saving" /\ todo # <<>> /\ loaded
         /\ Head(todo) \in Task /\ Tail(todo) \in Seq(Task)
         /\ \A q \in Procs : pc[q] = "saving" => q = p
         /\ \A q \in Procs : pc[q] \notin LoadPlaces
         /\ \A i \in DOMAIN Tail(todo) : \E j \in DOMAIN todo : Tail(todo)[i] = todo[j]
         /\ \A s : Pending(s) =>
                \/ Head(todo).do = "save" /\ Head(todo).store = s
                \/ \E i \in DOMAIN Tail(todo) :
                       Tail(todo)[i].do = "save" /\ Tail(todo)[i].store = s
<1>1. pc[p] = "saving" /\ todo # <<>> /\ loaded
  BY DEF HasTask, FInv, Loading
<1>2. todo \in Seq(Task)
  BY DEF FInv, Shapes
<1>3. /\ Head(todo) \in Task /\ Tail(todo) \in Seq(Task) /\ Head(todo) = todo[1]
      /\ \A i \in DOMAIN Tail(todo) : \E j \in DOMAIN todo : Tail(todo)[i] = todo[j]
      /\ \A j \in DOMAIN todo :
             j = 1 \/ \E i \in DOMAIN Tail(todo) : Tail(todo)[i] = todo[j]
  BY <1>1, <1>2, TailParts
<1>4. \A s : Pending(s) =>
          \/ Head(todo).do = "save" /\ Head(todo).store = s
          \/ \E i \in DOMAIN Tail(todo) :
                 Tail(todo)[i].do = "save" /\ Tail(todo)[i].store = s
  BY <1>3 DEF Pending
<1>5. \A q \in Procs : pc[q] = "saving" => q = p
  BY <1>1, Alone DEF FInv
<1>6. \A q \in Procs : pc[q] \notin LoadPlaces
  BY <1>1 DEF FInv, Loading
<1> QED
  BY <1>1, <1>3, <1>4, <1>5, <1>6

\* While the stores are loaded and no call moves, nobody loads.
LEMMA LoadingStays ==
  ASSUME FInv, loaded, UNCHANGED <<pc, loaded>>
  PROVE  Loading'
BY DEF FInv, Loading, LoadPlaces

LEMMA SkipTaskKeepsFInv ==
  ASSUME IInv, FInv, NEW p \in Procs, SkipTask(p)
  PROVE  FInv'
<1> DEFINE t == Head(todo)
<1>1. /\ HasTask(p) /\ StoreOf(t) = "none" /\ todo' = Tail(todo)
      /\ UNCHANGED <<history, kept, loaded, undo, before, saved, pc, request,
                     loadLock, disk, late, unsynced>>
  BY DEF SkipTask, memory, calls, locks, external
<1>2. /\ loaded /\ t \in Task /\ todo' \in Seq(Task) /\ pc[p] = "saving"
      /\ todo # <<>>
  BY <1>1, AtTask
<1>3. t.do # "save"
  BY <1>1, <1>2, NoneIsNoSave
<1>4. \A s : Pending(s) => Pending(s)'
  BY <1>1, <1>3, AtTask DEF Pending
<1>5. Shapes' /\ Requests' /\ Loading'
  BY <1>1, <1>2, LoadingStays DEF FInv, Shapes, Requests
<1>6. Undoing'
  <2>1. undo # "rollback"
    <3>1. SUFFICES ASSUME undo = "rollback" PROVE FALSE
      OBVIOUS
    <3>2. PICK k \in Kinds : todo = <<Save(k)>>
      BY <1>2, <3>1 DEF FInv, Undoing
    <3> QED
      BY <1>3, <3>2 DEF Save
  <2>2. \A i \in DOMAIN todo' : \E j \in DOMAIN todo : todo'[i] = todo[j]
    BY <1>1, AtTask
  <2> QED
    BY <1>1, <1>2, <2>1, <2>2 DEF FInv, Undoing
<1>7. Follows' /\ LateKnown'
  BY <1>1, <1>4 DEF FInv, Follows, LateKnown, Image
<1> QED
  BY <1>5, <1>6, <1>7 DEF FInv

\* A save that returns: its file is as the memory.
LEMMA SavesKeepsFInv ==
  ASSUME IInv, FInv, NEW p \in Procs, Saves(p)
  PROVE  FInv'
<1> DEFINE t == Head(todo)
           store == StoreOf(t)
<1>1. /\ HasTask(p) /\ store # "none" /\ todo' = Tail(todo)
      /\ history' = HistoryAfter(t) /\ kept' = KeptAfter(t)
      /\ disk' = [disk EXCEPT ![store] = ImageAfter(t)]
      /\ late' = late \ LateOf(store)
      /\ unsynced' = unsynced \ {store} /\ saved' = saved \union {store}
      /\ UNCHANGED <<loaded, undo, before, pc, request, loadLock>>
  BY DEF Saves, calls, locks
<1>2. /\ loaded /\ t \in Task /\ todo' \in Seq(Task) /\ pc[p] = "saving"
      /\ todo # <<>>
  BY <1>1, AtTask
<1>3. /\ store \in Stores /\ DOMAIN history' = Kinds
      /\ \A s \in Stores :
             Image(s)' = IF s = store THEN ImageAfter(t) ELSE Image(s)
      /\ t.do = "save" => t.store = store
  BY <1>1, <1>2, TaskImages
<1>4. \A s : Pending(s) => s = store \/ Pending(s)'
  BY <1>1, <1>3, AtTask DEF Pending
<1>5. DOMAIN disk' = Stores /\ disk'[store] = ImageAfter(t)
      /\ \A s \in Stores : s = store \/ disk'[s] = disk[s]
  BY <1>1, <1>3 DEF FInv, Shapes
<1> HIDE DEF store, t
<1>6. Shapes' /\ Requests' /\ Loading'
  BY <1>1, <1>2, <1>3, <1>5, LoadingStays DEF FInv, Shapes, Requests
<1>7. Undoing'
  <2>1. undo = "rollback" => todo' = <<>>
    <3>1. SUFFICES ASSUME undo = "rollback" PROVE todo' = <<>>
      OBVIOUS
    <3>2. PICK k \in Kinds : todo = <<Save(k)>>
      BY <1>2, <3>1 DEF FInv, Undoing
    <3> QED
      BY <1>1, <3>2
  <2>2. \A i \in DOMAIN todo' : \E j \in DOMAIN todo : todo'[i] = todo[j]
    BY <1>1, AtTask
  <2>3. undo = "putBack" => \A i \in DOMAIN todo' :
           \/ todo'[i].do = "forgetLogged"
           \/ todo'[i].do = "save" /\ todo'[i].store \in Kinds
    BY <2>2 DEF FInv, Undoing
  <2>4. undo = "putBack" => \A k \in Kinds \ (unsynced' \union saved') :
            disk'[k] = before[k]
    <3>1. ASSUME undo = "putBack", NEW k \in Kinds \ (unsynced' \union saved')
          PROVE  disk'[k] = before[k]
      <4>1. k # store /\ k \in Kinds \ (unsynced \union saved) /\ k \in Stores
        BY <1>1, <3>1 DEF Stores
      <4>2. disk[k] = before[k]
        BY <1>2, <3>1, <4>1 DEF FInv, Undoing
      <4> QED
        BY <1>5, <4>1, <4>2
    <3> QED
      BY <3>1
  <2>5. \A q \in Procs : pc[q] = "saving" /\ undo = "rollback" =>
            request[q].op \in {"auto", "mark"}
    BY DEF FInv, Undoing
  <2> QED
    BY <1>1, <1>2, <2>1, <2>3, <2>4, <2>5 DEF Undoing
<1>8. Follows'
  BY <1>1, <1>2, <1>3, <1>4, <1>5 DEF FInv, Follows
<1>9. LateKnown'
  <2>1. \A w \in late' : w \in late /\ w.store # store
    BY <1>1 DEF LateOf
  <2> QED
    BY <1>1, <1>4, <2>1 DEF FInv, LateKnown
<1> QED
  BY <1>6, <1>7, <1>8, <1>9 DEF FInv

-----------------------------------------------------------------------------
(* Saves that fail or are cancelled *)

\* A write that stops leaves ahead at most the stores it says.
LEMMA LeftAheadCovers ==
  ASSUME IInv, FInv, NEW p \in Procs, HasTask(p)
  PROVE  StoreOf(Head(todo)) \in LeftAhead /\ \A s : Pending(s) => s \in LeftAhead
<1>1. 1 \in DOMAIN todo /\ Head(todo) = todo[1]
  BY AtTask, TailParts DEF FInv, Shapes
<1>2. \A i \in DOMAIN todo : todo[i].do = "save" => StoreOf(todo[i]) = todo[i].store
  BY DEF StoreOf
<1> QED
  BY <1>1, <1>2 DEF LeftAhead, Pending

\* The files but those of stores are as they were, and late writes go to those.
OnlyTouches(stores) ==
    /\ DOMAIN disk' = Stores
    /\ \A s \in Stores \ stores : disk'[s] = disk[s]
    /\ \A w \in late' : w \in late \/ w.store \in stores \intersect Stores

\* A change left in memory, with what it leaves ahead noted, or undone.
LEMMA StopsKeepsFInv ==
  ASSUME IInv, FInv, NEW p \in Procs, HasTask(p), StoreOf(Head(todo)) # "none",
         LeaveAhead(p, Head(todo)), undo # "log",
         OnlyTouches({StoreOf(Head(todo))}),
         UNCHANGED <<loaded, loadLock>>, unsynced' = unsynced \union LeftAhead
  PROVE  FInv'
<1> DEFINE t == Head(todo)
           store == StoreOf(t)
<1>1. /\ pc[p] = "saving" /\ loaded /\ t \in Task
  BY AtTask
<1>2. history' = HistoryAfter(t) /\ kept' = KeptAfter(t) /\ Ends(p)
  BY DEF LeaveAhead
<1>3. /\ DOMAIN history' = Kinds /\ store \in Stores
      /\ \A s \in Stores :
             Image(s)' = IF s = store THEN ImageAfter(t) ELSE Image(s)
  BY <1>1, <1>2, TaskImages
<1>4. store \in unsynced' /\ \A s : Pending(s) => s \in unsynced'
  BY LeftAheadCovers
<1>5. \A s \in Stores \ unsynced' : disk'[s] = Image(s)'
  BY <1>1, <1>3, <1>4 DEF OnlyTouches, FInv, Follows
<1>6. \A w \in late' : w.store \in Stores /\ w.store \in unsynced'
  BY <1>4 DEF OnlyTouches, FInv, LateKnown
<1> QED
  BY <1>1, <1>2, <1>3, <1>5, <1>6, WriteEndKeepsFInv DEF OnlyTouches

\* The memory goes back to before, and the stores that may hold something else
\* are saved again.
LEMMA PutBackKeepsFInv ==
  ASSUME IInv, FInv, NEW p \in Procs, HasTask(p), undo = "putBack",
         NEW stores, saved \subseteq stores, PutBack(p, stores),
         OnlyTouches(stores \intersect Kinds),
         UNCHANGED <<loaded, loadLock, unsynced>>
  PROVE  FInv'
<1>1. /\ pc[p] = "saving" /\ loaded /\ todo # <<>>
      /\ \A q \in Procs : pc[q] = "saving" => q = p
  BY AtTask
<1>2. history' = before /\ kept' = kept
  BY DEF PutBack
<1>3. DOMAIN history' = Kinds /\ DOMAIN disk' = Stores
  BY <1>2 DEF FInv, Shapes, OnlyTouches
<1>4. ASSUME NEW s \in Stores \ unsynced, s \notin stores \intersect Kinds
      PROVE  disk'[s] = Image(s)'
  <2>1. disk'[s] = disk[s]
    BY <1>4 DEF OnlyTouches
  <2>2. CASE s \in Kinds
    <3>1. s \in Kinds \ (unsynced \union saved)
      BY <1>4, <2>2
    <3>2. disk[s] = before[s]
      BY <1>1, <3>1 DEF FInv, Undoing
    <3>3. s # "kept"
      BY <2>2 DEF Kinds
    <3> QED
      BY <1>2, <2>1, <3>2, <3>3 DEF Image
  <2>3. CASE s \notin Kinds
    <3>1. s = "kept"
      BY <2>3 DEF Stores
    <3>2. ~Pending(s)
      BY <2>3 DEF FInv, Undoing, Pending
    <3> QED
      BY <1>1, <1>2, <1>4, <2>1, <3>1, <3>2 DEF FInv, Follows, Image
  <2> QED
    BY <2>2, <2>3
<1>5. \A w \in late : w.store \in Stores /\ w.store \in unsynced
  BY DEF FInv, LateKnown
<1>6. CASE stores = {}
  <2>1. Ends(p)
    BY <1>6 DEF PutBack
  <2>2. \A s \in Stores \ unsynced' : disk'[s] = Image(s)'
    BY <1>4, <1>6
  <2>3. \A w \in late' : w.store \in Stores /\ w.store \in unsynced'
    BY <1>5, <1>6 DEF OnlyTouches
  <2> QED
    BY <1>1, <1>3, <2>1, <2>2, <2>3, WriteEndKeepsFInv
<1>7. CASE stores # {}
  <2>1. /\ todo' = SavesOf(stores) /\ undo' = "log"
        /\ UNCHANGED <<before, saved, pc, request>>
    BY <1>7 DEF PutBack, calls
  <2>2. todo' \in Seq(Task) /\ \A k \in Kinds \intersect stores : Pending(k)'
    BY <2>1, SavesOfParts DEF Pending
  <2>3. Shapes' /\ Requests' /\ Loading'
    BY <1>1, <1>3, <2>1, <2>2, LoadingStays DEF FInv, Shapes, Requests
  <2>4. Undoing'
    BY <1>1, <2>1 DEF Undoing
  <2>5. Follows'
    BY <1>4, <2>2 DEF Follows
  <2>6. LateKnown'
    BY <1>5, <2>1, <2>2 DEF LateKnown, OnlyTouches
  <2> QED
    BY <2>3, <2>4, <2>5, <2>6 DEF FInv
<1> QED
  BY <1>6, <1>7

\* A failed save that is only logged is noted, and the write goes on.
LEMMA LogKeepsFInv ==
  ASSUME IInv, FInv, NEW p \in Procs, HasTask(p), StoreOf(Head(todo)) # "none",
         Logged(Head(todo)), LogAndGoOn(Head(todo)),
         UNCHANGED <<loaded, loadLock, external>>,
         unsynced' = unsynced \union {StoreOf(Head(todo))}
  PROVE  FInv'
<1> DEFINE t == Head(todo)
           store == StoreOf(t)
<1>1. /\ loaded /\ t \in Task /\ todo' \in Seq(Task) /\ pc[p] = "saving"
      /\ todo # <<>>
      /\ \A i \in DOMAIN todo' : \E j \in DOMAIN todo : todo'[i] = todo[j]
  BY AtTask DEF LogAndGoOn
<1>2. /\ history' = HistoryAfter(t) /\ kept' = KeptAfter(t) /\ todo' = Tail(todo)
      /\ UNCHANGED <<undo, before, saved, pc, request, disk, late>>
  BY DEF LogAndGoOn, calls, external
<1>3. /\ DOMAIN history' = Kinds /\ store \in Stores
      /\ \A s \in Stores :
             Image(s)' = IF s = store THEN ImageAfter(t) ELSE Image(s)
      /\ t.do = "save" => t.store = store
  BY <1>1, <1>2, TaskImages
<1>4. \A s : Pending(s) => s = store \/ Pending(s)'
  BY <1>2, <1>3, AtTask DEF Pending
<1> HIDE DEF t, store
<1>5. Shapes' /\ Requests' /\ Loading'
  BY <1>1, <1>2, <1>3, LoadingStays DEF FInv, Shapes, Requests
<1>6. undo # "rollback"
  <2>1. SUFFICES ASSUME undo = "rollback" PROVE FALSE
    OBVIOUS
  <2>2. PICK k \in Kinds : todo = <<Save(k)>>
    BY <1>1, <2>1 DEF FInv, Undoing
  <2>3. Head(todo).do = "save"
    BY <2>2 DEF Save
  <2> QED
    BY <2>1, <2>3 DEF Logged
<1>7. Undoing'
  BY <1>1, <1>2, <1>6 DEF FInv, Undoing
<1>8. Follows'
  BY <1>1, <1>2, <1>3, <1>4 DEF FInv, Follows, store, t
<1>9. LateKnown'
  BY <1>2, <1>4 DEF FInv, LateKnown, store, t
<1> QED
  BY <1>5, <1>7, <1>8, <1>9 DEF FInv

\* A failed automatic backup or mark is rolled back.
LEMMA RollBackKeepsFInv ==
  ASSUME IInv, FInv, NEW p \in Procs, HasTask(p), undo = "rollback", RollBack(p),
         UNCHANGED <<loaded, loadLock, external, unsynced>>
  PROVE  FInv'
<1>1. pc[p] = "saving" /\ loaded /\ todo # <<>>
  BY AtTask
<1>2. history' = before /\ kept' = kept /\ Ends(p)
  BY DEF RollBack
<1>3. PICK k \in Kinds : todo = <<Save(k)>> /\ saved = {}
  BY <1>1 DEF FInv, Undoing
<1>4. DOMAIN history' = Kinds /\ DOMAIN disk' = Stores /\ disk' = disk /\ late' = late
  BY <1>2 DEF FInv, Shapes, external
<1>5. ~Pending("kept")
  BY <1>3 DEF Pending, Save, Kinds
<1>6. \A s \in Stores \ unsynced' : disk'[s] = Image(s)'
  <2>1. ASSUME NEW s \in Kinds \ unsynced PROVE disk[s] = before[s] /\ s # "kept"
    BY <1>1, <1>3, <2>1 DEF FInv, Undoing, Kinds
  <2>2. "kept" \notin unsynced => disk["kept"] = kept
    BY <1>1, <1>5 DEF FInv, Follows, Image, Stores
  <2> QED
    BY <1>2, <1>4, <2>1, <2>2 DEF Image, Stores
<1>7. \A w \in late' : w.store \in Stores /\ w.store \in unsynced'
  BY <1>4 DEF FInv, LateKnown
<1> QED
  BY <1>1, <1>2, <1>4, <1>6, <1>7, WriteEndKeepsFInv

LEMMA SaveFailsKeepsFInv ==
  ASSUME IInv, FInv, NEW p \in Procs, SaveFails(p)
  PROVE  FInv'
<1> DEFINE t == Head(todo)
<1>1. /\ HasTask(p) /\ StoreOf(t) # "none"
      /\ UNCHANGED <<loaded, loadLock, external>>
  BY DEF SaveFails
<1>2. CASE Logged(t)
  <2>1. LogAndGoOn(t) /\ unsynced' = unsynced \union {StoreOf(t)}
    BY <1>2 DEF SaveFails
  <2> QED
    BY <1>1, <1>2, <2>1, LogKeepsFInv
<1>3. CASE ~Logged(t) /\ undo = "putBack"
  <2>1. PutBack(p, saved) /\ unsynced' = unsynced
    BY <1>3 DEF SaveFails
  <2>2. OnlyTouches(saved \intersect Kinds)
    BY <1>1 DEF OnlyTouches, external, FInv, Shapes
  <2> QED
    BY <1>1, <1>3, <2>1, <2>2, PutBackKeepsFInv
<1>4. CASE ~Logged(t) /\ undo = "rollback"
  <2>1. RollBack(p) /\ unsynced' = unsynced
    BY <1>4 DEF SaveFails
  <2> QED
    BY <1>1, <1>4, <2>1, RollBackKeepsFInv
<1>5. CASE ~Logged(t) /\ undo = "keep"
  <2>1. LeaveAhead(p, t) /\ unsynced' = unsynced \union LeftAhead
    BY <1>5 DEF SaveFails
  <2>2. OnlyTouches({StoreOf(t)})
    BY <1>1 DEF OnlyTouches, external, FInv, Shapes
  <2> QED
    BY <1>1, <1>5, <2>1, <2>2, StopsKeepsFInv
<1> QED
  BY <1>2, <1>3, <1>4, <1>5 DEF SaveFails

\* The calls that roll back, automatic backups and restore marks, are not
\* cancelled.
NoCancelledRollBack == Cancellable \intersect {"auto", "mark"} = {}

LEMMA SaveCancelledKeepsFInv ==
  ASSUME IInv, FInv, NoCancelledRollBack, NEW p \in Procs, SaveCancelled(p)
  PROVE  FInv'
<1> DEFINE t == Head(todo)
           store == StoreOf(t)
<1>1. /\ HasTask(p) /\ store # "none" /\ undo # "log"
      /\ request[p].op \in Cancellable
      /\ UNCHANGED <<loaded, loadLock>>
  BY DEF SaveCancelled
<1>2. t \in Task /\ pc[p] = "saving" /\ todo # <<>>
  BY <1>1, AtTask
<1>3. store \in Stores /\ (t.do = "save" => t.store = store)
  <2>1. CASE t.do = "save"
    BY <1>2, <2>1 DEF StoreOf, Task
  <2>2. CASE t.do = "drop"
    BY <1>1, <1>2, <2>2 DEF StoreOf, Task, Stores
  <2>3. CASE t.do \notin {"save", "drop"}
    BY <1>1, <2>3 DEF StoreOf, Stores
  <2> QED
    BY <2>1, <2>2, <2>3
<1>4. undo # "rollback"
  BY <1>1, <1>2 DEF NoCancelledRollBack, FInv, Undoing
<1>5. OnlyTouches({store})
  <2>1. DOMAIN disk = Stores
    BY DEF FInv, Shapes
  <2>2. \/ disk' = [disk EXCEPT ![store] = ImageAfter(t)] \/ disk' = disk
    BY DEF SaveCancelled, external
  <2>3. \A w \in late' : w \in late \/ w.store = store
    BY DEF SaveCancelled, external
  <2> QED
    BY <1>3, <2>1, <2>2, <2>3 DEF OnlyTouches
<1>6. CASE /\ undo = "putBack" /\ t.do = "save"
           /\ PutBack(p, saved \union {store}) /\ unsynced' = unsynced
  <2>1. store \in Kinds
    <3>1. 1 \in DOMAIN todo /\ t = todo[1]
      BY <1>2, TailParts DEF FInv, Shapes
    <3> QED
      BY <1>3, <1>6, <3>1 DEF FInv, Undoing
  <2>2. OnlyTouches((saved \union {store}) \intersect Kinds)
    BY <1>5, <2>1 DEF OnlyTouches
  <2>3. saved \subseteq saved \union {store}
    OBVIOUS
  <2> HIDE DEF store, t
  <2> QED
    BY <1>1, <1>6, <2>2, <2>3, PutBackKeepsFInv
<1>7. CASE LeaveAhead(p, t) /\ unsynced' = unsynced \union LeftAhead
  BY <1>1, <1>5, <1>7, StopsKeepsFInv
<1> QED
  BY <1>4, <1>6, <1>7 DEF SaveCancelled

-----------------------------------------------------------------------------
(* The disk, a restart, and the theorem *)

\* A late write lands in a file that is known not to agree.
LEMMA LateLandsKeepsFInv ==
  ASSUME IInv, FInv, LateLands
  PROVE  FInv'
<1>1. PICK w \in late :
        /\ disk' = [disk EXCEPT ![w.store] = w.image] /\ late' = late \ {w}
        /\ UNCHANGED <<memory, work, calls, locks, unsynced>>
  BY DEF LateLands
<1>2. UNCHANGED <<history, kept, loaded, todo, undo, before, saved, pc, request,
                  loadLock, unsynced>>
  BY <1>1 DEF memory, work, calls, locks
<1>3. loaded
  BY DEF LateLands, FInv, Loading
<1>4. w.store \in Stores /\ (w.store \in unsynced \/ (undo = "log" /\ Pending(w.store)))
  BY DEF FInv, LateKnown
<1>5. DOMAIN disk' = Stores /\ \A s \in Stores : s = w.store \/ disk'[s] = disk[s]
  BY <1>1 DEF FInv, Shapes
<1>6. \A s : Pending(s)' = Pending(s)
  BY <1>2 DEF Pending
<1>7. Shapes' /\ Requests' /\ Loading'
  BY <1>2, <1>3, <1>5, LoadingStays DEF FInv, Shapes, Requests
<1>8. Undoing'
  <2>1. \A k \in Kinds \ (unsynced \union saved) :
            undo \in {"rollback", "putBack"} => disk'[k] = disk[k]
    BY <1>4, <1>5 DEF Stores
  <2> QED
    BY <1>2, <2>1 DEF FInv, Undoing
<1>9. Follows'
  BY <1>2, <1>4, <1>5, <1>6 DEF FInv, Follows, Image
<1>10. LateKnown'
  BY <1>1, <1>2, <1>6 DEF FInv, LateKnown
<1> QED
  BY <1>7, <1>8, <1>9, <1>10 DEF FInv

\* Initially, and after a restart, nothing is loaded and nothing written.
LEMMA RestartKeepsFInv ==
  ASSUME FInv, Restart
  PROVE  FInv'
<1>1. /\ DOMAIN history' = Kinds /\ DOMAIN before' = Kinds /\ disk' = disk
      /\ loaded' = FALSE /\ loadLock' = UnusedLock
      /\ pc' = [p \in Procs |-> "idle"] /\ request' = [p \in Procs |-> NoRequest]
      /\ todo' = <<>> /\ undo' = "keep" /\ late' = {}
  BY DEF Restart
<1>2. Shapes'
  BY <1>1 DEF FInv, Shapes, UnusedLock, Lock
<1>3. Requests' /\ Loading' /\ Undoing' /\ Follows' /\ LateKnown'
  BY <1>1 DEF Requests, Fits, NoRequest, Loading, LoadPlaces, Undoing, Follows, LateKnown
<1> QED
  BY <1>2, <1>3 DEF FInv

LEMMA InitFInv == Init => FInv
<1> SUFFICES ASSUME Init PROVE FInv
  OBVIOUS
<1>1. /\ DOMAIN history = Kinds /\ DOMAIN before = Kinds /\ DOMAIN disk = Stores
      /\ loaded = FALSE /\ loadLock = UnusedLock
      /\ pc = [p \in Procs |-> "idle"] /\ request = [p \in Procs |-> NoRequest]
      /\ todo = <<>> /\ undo = "keep" /\ late = {}
  BY DEF Init, Stores, Kinds
<1>2. Shapes
  BY <1>1 DEF Shapes, UnusedLock, Lock
<1>3. Requests /\ Loading /\ Undoing /\ Follows /\ LateKnown
  BY <1>1 DEF Requests, Fits, NoRequest, Loading, LoadPlaces, Undoing, Follows, LateKnown
<1> QED
  BY <1>2, <1>3 DEF FInv

\* A step of the manager preserves the invariant.
LEMMA NextKeepsFInv ==
  ASSUME NoCancelledRollBack
  PROVE  IInv /\ FInv /\ [Next]_vars => FInv'
<1> SUFFICES ASSUME IInv, FInv, [Next]_vars PROVE FInv'
  OBVIOUS
<1>1. ASSUME UNCHANGED vars PROVE FInv'
  BY <1>1 DEF vars, memory, work, calls, locks, external, FInv, Shapes, Requests,
     Loading, Undoing, Follows, LateKnown, Pending, Image
<1>2. ASSUME NEW p \in Procs, Loads(p) PROVE FInv'
  BY <1>1, <1>2, WaitsKeepFInv, LoadHistoryKeepsFInv, LoadKeptKeepsFInv
     DEF Loads, Reads
<1>3. ASSUME NEW p \in Procs, Advances(p) PROVE FInv'
  BY <1>2, <1>3, WriteWokenKeepsFInv, ChangesKeepFInv, SkipTaskKeepsFInv,
     SavesKeepsFInv, WriteEndsKeepsFInv DEF Advances
<1>4. ASSUME NEW p \in Procs,
             Call(p) \/ LoadFails(p) \/ SaveFails(p) \/ SaveCancelled(p)
      PROVE  FInv'
  BY <1>4, CallKeepsFInv, LoadFailsKeepsFInv, SaveFailsKeepsFInv,
     SaveCancelledKeepsFInv
<1>5. CASE LateLands \/ Restart
  BY <1>5, LateLandsKeepsFInv, RestartKeepsFInv
<1> QED
  BY <1>1, <1>3, <1>4, <1>5 DEF Next

\* Between two writes every file holds what the memory holds, or a save of it
\* failed or was cut off with the change left in memory on purpose: no failed
\* backup, mark or move, no late write of a cancelled one and no load puts the
\* two apart unnoticed.
THEOREM FilesFollowMemory ==
  ASSUME NoCancelledRollBack
  PROVE  Spec => []DiskFollowsMemory
<1>1. FInv => DiskFollowsMemory
  <2>1. SUFFICES ASSUME FInv, loaded, ~Writing, NEW s \in Stores \ unsynced
                 PROVE  disk[s] = Image(s)
    BY DEF DiskFollowsMemory
  <2>2. \A p \in Procs : pc[p] # "saving"
    BY <2>1 DEF Writing, FInv, Loading
  <2>3. ~Pending(s)
    BY <2>1, <2>2 DEF FInv, Undoing, Pending
  <2> QED
    BY <2>1, <2>3 DEF FInv, Follows
<1>2. Init => IInv /\ FInv
  BY InitIInv, InitFInv
<1>3. IInv /\ FInv /\ [Next]_vars => (IInv /\ FInv)'
  BY NextPreserves, NextKeepsFInv
<1> QED
  BY <1>1, <1>2, <1>3, PTL DEF Spec

-----------------------------------------------------------------------------
(* Which plans a history is of *)

OfAllPlans(h) == \A k \in Kinds : DOMAIN h[k] = Ids

\* Every history, in memory, on disk or on its way there, is of all plans.
DInv ==
    /\ OfAllPlans(history) /\ OfAllPlans(before) /\ OfAllPlans(disk)
    /\ \A w \in late : w.store \in Kinds => DOMAIN w.image = Ids

\* A change of one plan's history in one kind.
LEMMA ExceptOfAllPlans ==
  ASSUME NEW h, DOMAIN h = Kinds, OfAllPlans(h), NEW k, NEW x,
         k \in Kinds => DOMAIN x = Ids
  PROVE  OfAllPlans([h EXCEPT ![k] = x])
BY DEF OfAllPlans

LEMMA ChangesKeepDInv ==
  ASSUME FInv, DInv, NEW p \in Procs, Changes(p)
  PROVE  OfAllPlans(history')
<1>1. DOMAIN history = Kinds /\ OfAllPlans(history)
  BY DEF FInv, Shapes, DInv
<1>2. CASE history' = history
  BY <1>1, <1>2
<1>3. ASSUME NEW k, NEW id, NEW x, history' = [history EXCEPT ![k][id] = x]
      PROVE  OfAllPlans(history')
  BY <1>1, <1>3 DEF OfAllPlans
<1>4. CASE AutoBackup(p)
  <2>1. history' = history
        \/ \E x : history' = [history EXCEPT !["auto"] = [id \in Ids |-> x[id]]]
    <3>1. ASSUME NothingToDo(p) PROVE history' = history
      BY <3>1 DEF NothingToDo, memory
    <3>2. ASSUME ~NothingToDo(p)
          PROVE  \E x : history' = [history EXCEPT !["auto"] = [id \in Ids |-> x[id]]]
      <4> DEFINE plans == request[p].plans
                 order == SetToSeq(Changed(plans))
                 new(id) == [at |-> clock + CHOOSE i \in DOMAIN order : order[i] = id,
                             content |-> plans[id], restored |-> FALSE]
                 y == [id \in Ids |->
                         IF id \in Changed(plans)
                         THEN Rotated(history["auto"][id], new(id), AutoSlots)
                         ELSE history["auto"][id]]
      <4>1. history' = [history EXCEPT !["auto"] = y]
        BY <1>4, <3>2, <1>1 DEF AutoBackup, Kinds
      <4>2. y = [id \in Ids |-> y[id]]
        OBVIOUS
      <4> HIDE DEF y
      <4> QED
        BY <4>1, <4>2
    <3> QED
      BY <3>1, <3>2
  <2> QED
    BY <1>1, <1>2, <2>1 DEF OfAllPlans, Kinds
<1>5. CASE ChangeBackup(p)
  BY <1>2, <1>3, <1>5 DEF ChangeBackup, NothingToDo, memory
<1>6. CASE MarkRestored(p)
  BY <1>2, <1>3, <1>6 DEF MarkRestored, NothingToDo, memory
<1>7. CASE DeleteOne(p)
  BY <1>2, <1>3, <1>7 DEF DeleteOne, NothingToDo, memory
<1>8. CASE Move(p) \/ PurgeIdentity(p)
  BY <1>1, <1>8 DEF Move, PurgeIdentity, OfAllPlans
<1>9. CASE DeleteAll(p)
  BY <1>9 DEF DeleteAll, OfAllPlans, NoHistories
<1>10. CASE DeletePlan(p) \/ Purge(p) \/ Audit(p) \/ Keep(p) \/ Unkeep(p)
  BY <1>2, <1>10 DEF DeletePlan, Purge, Audit, Keep, Unkeep, NothingToDo, memory
<1> QED
  BY <1>4, <1>5, <1>6, <1>7, <1>8, <1>9, <1>10 DEF Changes

\* What a call that ends, or starts to save, remembers of before.
LEMMA BeforeOfAllPlans ==
  ASSUME NEW p \in Procs, DInv,
         Ends(p) \/ \E tasks, w : Proceed(p, tasks, w)
  PROVE  OfAllPlans(before')
BY DEF Ends, Proceed, OfAllPlans, NoHistories, DInv

LEMMA ChangesSave ==
  ASSUME NEW p \in Procs, Changes(p)
  PROVE  /\ Ends(p) \/ \E tasks, w : Proceed(p, tasks, w)
         /\ UNCHANGED <<disk, late, loaded, restarts>>
<1>1. NothingToDo(p) => Ends(p) /\ UNCHANGED <<disk, late, loaded, restarts>>
  BY DEF NothingToDo, memory, external, bounds
<1>2. \A tasks, w : Proceed(p, tasks, w) => UNCHANGED <<disk, late, loaded, restarts>>
  BY DEF Proceed, external, bounds
<1>3. CASE AutoBackup(p)
  BY <1>1, <1>2, <1>3 DEF AutoBackup
<1>4. CASE ChangeBackup(p) \/ MarkRestored(p) \/ DeleteOne(p)
  BY <1>1, <1>2, <1>4 DEF ChangeBackup, MarkRestored, DeleteOne
<1>5. CASE Move(p) \/ PurgeIdentity(p) \/ DeletePlan(p) \/ DeleteAll(p) \/ Purge(p)
  BY <1>2, <1>5 DEF Move, PurgeIdentity, DeletePlan, DeleteAll, Purge
<1>6. CASE Audit(p) \/ Keep(p) \/ Unkeep(p)
  BY <1>1, <1>2, <1>6 DEF Audit, Keep, Unkeep, memory, external, bounds
<1> QED
  BY <1>3, <1>4, <1>5, <1>6 DEF Changes

\* The histories after a task, and what it writes.
LEMMA TaskOfAllPlans ==
  ASSUME FInv, DInv, NEW t \in Task
  PROVE  /\ OfAllPlans(HistoryAfter(t))
         /\ StoreOf(t) \in Kinds => DOMAIN ImageAfter(t) = Ids
<1>1. OfAllPlans(HistoryAfter(t))
  BY DEF FInv, Shapes, DInv, HistoryAfter, OfAllPlans
<1> QED
  BY <1>1 DEF ImageAfter, OfAllPlans, Kinds

\* A write to disk, at once or late, of what a task made of a store.
LEMMA WriteOfAllPlans ==
  ASSUME FInv, DInv, NEW t \in Task, NEW store, store = StoreOf(t),
         \/ disk' = disk \/ disk' = [disk EXCEPT ![store] = ImageAfter(t)],
         late' \subseteq late \union {[store |-> store, image |-> ImageAfter(t)]}
  PROVE  OfAllPlans(disk') /\ \A w \in late' : w.store \in Kinds => DOMAIN w.image = Ids
<1>1. store \in Kinds => DOMAIN ImageAfter(t) = Ids
  BY TaskOfAllPlans
<1>2. DOMAIN disk = Stores /\ OfAllPlans(disk)
  BY DEF FInv, Shapes, DInv
<1>3. OfAllPlans(disk')
  BY <1>1, <1>2 DEF OfAllPlans, Stores
<1> QED
  BY <1>1, <1>3 DEF DInv

LEMMA SavingKeepsDInv ==
  ASSUME IInv, FInv, DInv, NEW p \in Procs,
         Saves(p) \/ SaveFails(p) \/ SaveCancelled(p)
  PROVE  DInv'
<1> DEFINE t == Head(todo)
<1>1. HasTask(p)
  BY DEF Saves, SaveFails, SaveCancelled
<1>2. t \in Task
  BY <1>1, AtTask
<1>3. history' = HistoryAfter(t) \/ history' = before
  BY DEF Saves, SaveFails, SaveCancelled, LogAndGoOn, PutBack, RollBack, LeaveAhead
<1>4. OfAllPlans(history')
  BY <1>2, <1>3, TaskOfAllPlans DEF DInv
<1>5. OfAllPlans(before')
  <2>1. before' = before \/ Ends(p)
    BY DEF Saves, SaveFails, SaveCancelled, LogAndGoOn, PutBack, RollBack, LeaveAhead
  <2> QED
    BY <2>1, BeforeOfAllPlans DEF DInv
<1>6. /\ \/ disk' = disk \/ disk' = [disk EXCEPT ![StoreOf(t)] = ImageAfter(t)]
      /\ late' \subseteq late \union {[store |-> StoreOf(t), image |-> ImageAfter(t)]}
  <2>1. CASE Saves(p)
    BY <2>1 DEF Saves
  <2>2. CASE SaveFails(p)
    BY <2>2 DEF SaveFails, external
  <2>3. CASE SaveCancelled(p)
    BY <2>3 DEF SaveCancelled, external
  <2> QED
    BY <2>1, <2>2, <2>3
<1> QED
  BY <1>2, <1>4, <1>5, <1>6, WriteOfAllPlans DEF DInv

LEMMA InitDInv == Init => DInv
BY DEF Init, DInv, OfAllPlans, NoHistories, Kinds

LEMMA NextKeepsDInv ==
  ASSUME IInv, FInv, DInv, [Next]_vars
  PROVE  DInv'
<1>1. ASSUME UNCHANGED <<history, before, disk, late>> PROVE DInv'
  BY <1>1 DEF DInv
<1>2. DOMAIN history = Kinds /\ DOMAIN disk = Stores
  BY DEF FInv, Shapes
<1>3. ASSUME NEW p \in Procs, Loads(p) PROVE DInv'
  <2>1. CASE LoadAuto(p) \/ LoadChange(p)
    <3>1. /\ UNCHANGED <<before, disk, late>>
          /\ \/ history' = [history EXCEPT !["auto"] = disk["auto"]]
             \/ history' = [history EXCEPT !["change"] = disk["change"]]
      BY <2>1 DEF LoadAuto, LoadChange, LoadHistory, work, external
    <3> QED
      BY <1>2, <3>1 DEF DInv, OfAllPlans, Kinds
  <2>2. CASE EnsureLoaded(p) \/ LoadWoken(p) \/ LoadKept(p) \/ Reads(p)
    BY <1>1, <2>2 DEF EnsureLoaded, LoadWoken, LoadKept, Reads, memory, work,
       external, vars
  <2> QED
    BY <1>3, <2>1, <2>2 DEF Loads
<1>4. ASSUME NEW p \in Procs, Changes(p) PROVE DInv'
  BY <1>4, ChangesKeepDInv, ChangesSave, BeforeOfAllPlans DEF DInv
<1>5. ASSUME NEW p \in Procs, WriteEnds(p) \/ LoadFails(p) PROVE DInv'
  <2>1. Ends(p) /\ UNCHANGED <<history, disk, late>>
    BY <1>5 DEF WriteEnds, LoadFails, memory, external
  <2> QED
    BY <2>1, BeforeOfAllPlans DEF DInv
<1>6. ASSUME NEW p \in Procs, Call(p) \/ WriteWoken(p) \/ SkipTask(p) PROVE DInv'
  BY <1>1, <1>6 DEF Call, WriteWoken, SkipTask, memory, work, external
<1>7. CASE LateLands
  <2>1. PICK w \in late :
          /\ disk' = [disk EXCEPT ![w.store] = w.image] /\ late' = late \ {w}
          /\ UNCHANGED <<history, before>>
    BY <1>7 DEF LateLands, memory, work
  <2> QED
    BY <1>2, <2>1 DEF DInv, OfAllPlans, Stores
<1>8. CASE Restart
  BY <1>8 DEF Restart, DInv, OfAllPlans, NoHistories
<1>9. CASE UNCHANGED vars
  BY <1>1, <1>9 DEF vars, memory, work, external
<1> QED
  BY <1>3, <1>4, <1>5, <1>6, <1>7, <1>8, <1>9, SavingKeepsDInv DEF Next, Advances

-----------------------------------------------------------------------------
(* Kept plans *)

\* A step that leaves the memory, what users were told and the tasks as they
\* are, and starts no saves.
LEMMA QuietKeepsKInv ==
  ASSUME KInv, UNCHANGED <<history, kept, told, todo, undo, loaded, restarts>>,
         \A q \in Procs : pc'[q] = "saving" =>
             pc[q] = "saving" /\ request'[q] = request[q]
  PROVE  KInv'
<1>1. \A i \in DOMAIN todo' : SparesTold(todo[i])'
  BY DEF KInv, SparesTold, BackedUp, Forgets
<1>2. todo' = todo
  OBVIOUS
<1> QED
  BY <1>1, <1>2 DEF KInv, SparesTold

\* No task is left when no call writes.
LEMMA RestKeepsKInv ==
  ASSUME todo' = <<>>, \A q \in Procs : pc'[q] # "saving",
         told' \subseteq kept' \intersect Ids, ~loaded' => told' = {},
         restarts' \in Nat
  PROVE  KInv'
BY DEF KInv

\* The end of a write that told users nothing new but what is kept.
LEMMA EndKeepsKInv ==
  ASSUME IInv, FInv, KInv, NEW p \in Procs, pc[p] \in {"ensure", "saving"}, Ends(p),
         loaded', told' \subseteq kept' \intersect Ids, restarts' = restarts
  PROVE  KInv'
<1>1. \A q \in Procs : pc'[q] # "saving"
  BY Alone DEF Ends, Goto, IInv, FInv
<1>2. todo' = <<>>
  BY DEF Ends
<1> QED
  BY <1>1, <1>2, RestKeepsKInv DEF KInv

\* The start of the saves: its tasks spare what users were told is kept.
LEMMA ProceedKeepsKInv ==
  ASSUME IInv, FInv, KInv, NEW p \in Procs, pc[p] = "ensure", loaded,
         NEW tasks, NEW w, Proceed(p, tasks, w),
         told' \subseteq kept' \intersect Ids,
         \A i \in DOMAIN tasks :
             /\ tasks[i].do = "drop" => tasks[i].id \notin told'
             /\ Forgets(tasks[i]) => tasks[i].id \notin told'
                                     \/ BackedUp(history', tasks[i].id)
             /\ tasks[i].do = "clearKept" => told' = {},
         request[p].op = "keep" =>
             request[p].id \in kept' /\ \A i \in DOMAIN tasks : tasks[i].do = "save",
         request[p].op = "purge" =>
             /\ w = "keep"
             /\ \A i \in DOMAIN tasks : /\ tasks[i].do \in {"drop", "forget"}
                                        /\ Orphaned(request[p].live, tasks[i].id)
  PROVE  KInv'
<1>1. /\ todo' = tasks /\ undo' = w /\ pc' = [pc EXCEPT ![p] = "saving"]
      /\ UNCHANGED <<loaded, request, restarts>>
  BY DEF Proceed, Goto, bounds
<1>2. \A q \in Procs : pc'[q] = "saving" => q = p
  BY <1>1, Alone DEF IInv, FInv
<1>3. \A i \in DOMAIN todo' : SparesTold(todo[i])'
  BY <1>1 DEF SparesTold, Forgets
<1> QED
  BY <1>1, <1>2, <1>3 DEF KInv, Orphaned

\* A task changes no plan that users were told is kept.
LEMMA TaskSpares ==
  ASSUME FInv, DInv, NEW t \in Task, SparesTold(t), told \subseteq kept \intersect Ids
  PROVE  /\ told \subseteq KeptAfter(t)
         /\ \A k \in Kinds, id \in Ids :
                \/ HistoryAfter(t)[k][id] = history[k][id]
                \/ t.do = "drop" /\ t.id = id /\ id \notin told
<1>1. told \subseteq KeptAfter(t)
  BY DEF SparesTold, KeptAfter
<1>2. ASSUME NEW k \in Kinds, NEW id \in Ids
      PROVE  \/ HistoryAfter(t)[k][id] = history[k][id]
             \/ t.do = "drop" /\ t.id = id /\ id \notin told
  <2>1. DOMAIN history = Kinds /\ DOMAIN history[k] = Ids
    BY DEF FInv, Shapes, DInv, OfAllPlans
  <2>2. CASE t.do = "drop" /\ t.id = id
    BY <2>2 DEF SparesTold
  <2>3. CASE t.do # "drop" \/ t.id # id
    BY <2>1, <2>3 DEF HistoryAfter
  <2> QED
    BY <2>2, <2>3
<1> QED
  BY <1>1, <1>2

\* The write has done its first task, or skips it.
LEMMA TaskKeepsKInv ==
  ASSUME IInv, FInv, DInv, KInv, NEW p \in Procs, HasTask(p), todo' = Tail(todo),
         \/ history' = history /\ kept' = kept
         \/ history' = HistoryAfter(Head(todo)) /\ kept' = KeptAfter(Head(todo)),
         UNCHANGED <<told, undo, loaded, pc, request, restarts>>
  PROVE  KInv'
<1> DEFINE t == Head(todo)
<1>1. t \in Task /\ todo # <<>> /\ pc[p] = "saving" /\ loaded
  BY AtTask
<1>2. 1 \in DOMAIN todo /\ t = todo[1]
  BY <1>1, TailParts DEF FInv, Shapes
<1>3. SparesTold(t)
  BY <1>2 DEF KInv
<1>4. told' \subseteq kept' \intersect Ids
  BY <1>1, <1>3, TaskSpares DEF KInv
<1>5. \A id \in told : BackedUp(history, id) => BackedUp(history', id)
  <2>1. \A k \in Kinds, id \in told : history'[k][id] = history[k][id]
    BY <1>1, <1>3, TaskSpares DEF KInv
  <2> QED
    BY <2>1 DEF BackedUp
<1>6. \A i \in DOMAIN todo' : \E j \in DOMAIN todo : todo'[i] = todo[j]
  BY AtTask
<1>7. ASSUME NEW i \in DOMAIN todo' PROVE SparesTold(todo[i])'
  <2>1. PICK j \in DOMAIN todo : todo'[i] = todo[j]
    BY <1>6
  <2>2. SparesTold(todo[j])
    BY DEF KInv
  <2> QED
    BY <1>5, <2>1, <2>2 DEF SparesTold, Forgets
<1>8. ASSUME NEW q \in Procs, pc[q] = "saving", request[q].op = "keep"
      PROVE  request[q].id \in kept' /\ \A i \in DOMAIN todo' : todo'[i].do = "save"
  <2>1. request[q].id \in kept /\ \A i \in DOMAIN todo : todo[i].do = "save"
    BY <1>8 DEF KInv
  <2>2. KeptAfter(t) = kept
    BY <1>2, <2>1 DEF KeptAfter, Forgets
  <2> QED
    BY <1>6, <2>1, <2>2
<1>9. ASSUME NEW q \in Procs, pc[q] = "saving", request[q].op = "purge"
      PROVE  /\ undo = "keep"
             /\ \A i \in DOMAIN todo' : /\ todo'[i].do \in {"drop", "forget"}
                                        /\ Orphaned(request[q].live, todo'[i].id)
  BY <1>6, <1>9 DEF KInv
<1> QED
  BY <1>1, <1>4, <1>7, <1>8, <1>9 DEF KInv, Orphaned

-----------------------------------------------------------------------------
(* What each write tells, and what its tasks spare *)

LEMMA LapsesOnly ==
  ASSUME NEW r, Lapses(r)
  PROVE  told' \subseteq told
BY DEF Lapses

LEMMA NothingToDoKeepsKInv ==
  ASSUME IInv, FInv, KInv, NEW p \in Procs, pc[p] = "ensure", loaded, NothingToDo(p)
  PROVE  KInv'
<1>1. /\ Ends(p) /\ told' \subseteq told
      /\ UNCHANGED <<kept, loaded, restarts>>
  BY LapsesOnly DEF NothingToDo, memory, bounds
<1>2. told' \subseteq kept' \intersect Ids
  BY <1>1 DEF KInv
<1> QED
  BY <1>1, <1>2, EndKeepsKInv

\* A write with one save.
LEMMA OneSaveKeepsKInv ==
  ASSUME IInv, FInv, KInv, NEW p \in Procs, pc[p] = "ensure", loaded,
         NEW k, NEW w, Proceed(p, <<Save(k)>>, w),
         told' \subseteq kept' \intersect Ids, request[p].op # "purge",
         request[p].op = "keep" => request[p].id \in kept'
  PROVE  KInv'
<1>1. PICK tasks : tasks = <<Save(k)>>
  OBVIOUS
<1>2. \A i \in DOMAIN tasks : tasks[i].do = "save"
  BY <1>1 DEF Save
<1>3. \A i \in DOMAIN tasks : ~Forgets(tasks[i])
  BY <1>2 DEF Forgets
<1>4. Proceed(p, tasks, w)
  BY <1>1
<1> QED
  BY <1>2, <1>3, <1>4, ProceedKeepsKInv

\* Backups and restore marks.
LEMMA BackupsKeepKInv ==
  ASSUME IInv, FInv, KInv, NEW p \in Procs,
         AutoBackup(p) \/ ChangeBackup(p) \/ MarkRestored(p)
  PROVE  KInv'
<1>1. pc[p] = "ensure" /\ loaded /\ request[p].op \in {"auto", "change", "mark"}
  BY DEF AutoBackup, ChangeBackup, MarkRestored, Writes
<1>2. CASE NothingToDo(p)
  BY <1>1, <1>2, NothingToDoKeepsKInv
<1>3. CASE ~NothingToDo(p)
  <2>1. told' \subseteq told /\ kept' = kept
    BY <1>3, LapsesOnly DEF AutoBackup, ChangeBackup, MarkRestored
  <2>2. \E k, w : Proceed(p, <<Save(k)>>, w)
    BY <1>3 DEF AutoBackup, ChangeBackup, MarkRestored
  <2>3. told' \subseteq kept' \intersect Ids
    BY <2>1 DEF KInv
  <2> QED
    BY <1>1, <2>2, <2>3, OneSaveKeepsKInv
<1> QED
  BY <1>2, <1>3

\* A move or purge of a lineage ends what was told of its old identity.
LEMMA LineageKeepsKInv ==
  ASSUME IInv, FInv, KInv, NEW p \in Procs, Move(p) \/ PurgeIdentity(p)
  PROVE  KInv'
<1> DEFINE id == request[p].id
           saves == SavesOf(WithHistory(id))
           tasks == saves \o <<ForgetLogged(id)>>
<1>1. /\ pc[p] = "ensure" /\ loaded /\ Proceed(p, tasks, "putBack") /\ kept' = kept
      /\ request[p].op \in {"move", "purgeIdentity"} /\ Lapses(request[p])
  BY DEF Move, PurgeIdentity, Writes
<1>2. told' = told \ {id}
  BY <1>1 DEF Lapses, Lapsed
<1>3. told' \subseteq kept' \intersect Ids
  BY <1>1, <1>2 DEF KInv
<1>4. saves \in Seq(Task) /\ \A i \in DOMAIN saves : saves[i].do = "save"
  BY SavesOfParts
<1>5. id \in Ids
  BY <1>1 DEF FInv, Requests, Fits
<1>6. ForgetLogged(id) \in Task
  BY <1>5 DEF ForgetLogged, Task
<1>7. \A i \in DOMAIN tasks :
          tasks[i] = ForgetLogged(id) \/ (i \in DOMAIN saves /\ tasks[i] = saves[i])
  BY <1>4, <1>6
<1>8. \A i \in DOMAIN tasks :
          /\ tasks[i].do \in {"save", "forgetLogged"}
          /\ tasks[i].do = "forgetLogged" => tasks[i].id = id
  BY <1>4, <1>7 DEF ForgetLogged
<1> HIDE DEF tasks
<1>9. \A i \in DOMAIN tasks :
          /\ tasks[i].do # "drop" /\ tasks[i].do # "clearKept"
          /\ Forgets(tasks[i]) => tasks[i].id \notin told'
  BY <1>2, <1>8 DEF Forgets
<1> QED
  BY <1>1, <1>3, <1>9, ProceedKeepsKInv

\* A deletion of one snapshot ends what was told when it was the last one.
LEMMA DeleteOneKeepsKInv ==
  ASSUME IInv, FInv, KInv, NEW p \in Procs, DeleteOne(p)
  PROVE  KInv'
<1> DEFINE k == request[p].kind
           id == request[p].id
           rest == IF Len(history[k][id]) = 1 THEN <<Forget(id)>> ELSE <<>>
           tasks == <<Save(k)>> \o rest
<1>1. pc[p] = "ensure" /\ loaded /\ request[p].op = "deleteOne"
  BY DEF DeleteOne, Writes
<1>2. k \in Kinds /\ id \in Ids
  BY <1>1 DEF FInv, Requests, Fits
<1>3. CASE NothingToDo(p)
  BY <1>1, <1>3, NothingToDoKeepsKInv
<1>4. CASE ~NothingToDo(p)
  <2>1. Proceed(p, tasks, "keep") /\ kept' = kept /\ Lapses(request[p])
    BY <1>4 DEF DeleteOne
  <2>2. told' \subseteq told /\ (id \in told' => BackedUp(history', id))
    BY <1>1, <2>1 DEF Lapses, Lapsed
  <2>3. told' \subseteq kept' \intersect Ids
    BY <2>1, <2>2 DEF KInv
  <2>4. Save(k) \in Task /\ Forget(id) \in Task
    BY <1>2 DEF Save, Forget, Task, Stores
  <2>5. \A i \in DOMAIN tasks : tasks[i] = Save(k) \/ tasks[i] = Forget(id)
    BY <2>4
  <2>6. \A i \in DOMAIN tasks :
            /\ tasks[i].do \in {"save", "forget"}
            /\ tasks[i].do = "forget" => tasks[i].id = id
    BY <2>5 DEF Save, Forget
  <2> HIDE DEF tasks
  <2>7. \A i \in DOMAIN tasks :
            /\ tasks[i].do # "drop" /\ tasks[i].do # "clearKept"
            /\ Forgets(tasks[i]) => tasks[i].id \notin told'
                                    \/ BackedUp(history', tasks[i].id)
    BY <2>2, <2>6 DEF Forgets
  <2> QED
    BY <1>1, <2>1, <2>3, <2>7, ProceedKeepsKInv
<1> QED
  BY <1>3, <1>4

\* A deletion of a plan's backups ends what was told of it.
LEMMA DeletePlanKeepsKInv ==
  ASSUME IInv, FInv, KInv, NEW p \in Procs, DeletePlan(p)
  PROVE  KInv'
<1> DEFINE id == request[p].id
           tasks == DropAll(id)
<1>1. /\ pc[p] = "ensure" /\ loaded /\ Proceed(p, tasks, "keep") /\ kept' = kept
      /\ request[p].op = "deletePlan" /\ Lapses(request[p])
  BY DEF DeletePlan, Writes
<1>2. told' = told \ {id}
  BY <1>1 DEF Lapses, Lapsed
<1>3. told' \subseteq kept' \intersect Ids
  BY <1>1, <1>2 DEF KInv
<1>4. \A i \in DOMAIN tasks : tasks[i] \in {Drop("auto", id), Drop("change", id), Forget(id)}
  BY DEF DropAll
<1>5. \A i \in DOMAIN tasks : tasks[i].do \in {"drop", "forget"} /\ tasks[i].id = id
  BY <1>4 DEF Drop, Forget
<1> HIDE DEF tasks
<1> QED
  BY <1>1, <1>2, <1>3, <1>5, ProceedKeepsKInv

\* A deletion of all backups ends all that was told.
LEMMA DeleteAllKeepsKInv ==
  ASSUME IInv, FInv, KInv, NEW p \in Procs, DeleteAll(p)
  PROVE  KInv'
<1> DEFINE tasks == <<Save("auto"), Save("change"), [do |-> "clearKept"]>>
<1>1. /\ pc[p] = "ensure" /\ loaded /\ Proceed(p, tasks, "keep") /\ kept' = kept
      /\ request[p].op = "deleteAll" /\ Lapses(request[p])
  BY DEF DeleteAll, Writes
<1>2. told' = {}
  BY <1>1 DEF Lapses, Lapsed, KInv
<1>3. \A i \in DOMAIN tasks : tasks[i].do \in {"save", "clearKept"}
  BY DEF Save
<1> HIDE DEF tasks
<1>4. \A i \in DOMAIN tasks : tasks[i].do # "drop" /\ ~Forgets(tasks[i])
  BY <1>3 DEF Forgets
<1> QED
  BY <1>1, <1>2, <1>4, ProceedKeepsKInv

\* A purge chooses deleted plans that are not kept.
LEMMA PurgeKeepsKInv ==
  ASSUME IInv, FInv, KInv, NEW p \in Procs, Purge(p)
  PROVE  KInv'
<1> DEFINE chosen == Expired(request[p].live, request[p].cutoff)
<1>1. /\ pc[p] = "ensure" /\ loaded /\ Proceed(p, DropsOf(chosen), "keep")
      /\ request[p].op = "purge" /\ UNCHANGED <<kept, told>>
  BY DEF Purge, Writes
<1>2. /\ chosen \in SUBSET Ids
      /\ \A id \in chosen : id \notin told /\ Orphaned(request[p].live, id)
  BY DEF Expired, KInv
<1>3. PICK tasks : tasks = DropsOf(chosen)
  OBVIOUS
<1> HIDE DEF chosen
<1>4. \A i \in DOMAIN tasks : /\ tasks[i].do \in {"drop", "forget"}
                              /\ tasks[i].id \in chosen
  BY <1>2, <1>3, DropsOfParts
<1>5. Proceed(p, tasks, "keep")
  BY <1>1, <1>3
<1>6. told' \subseteq kept' \intersect Ids
  BY <1>1 DEF KInv
<1> QED
  BY <1>1, <1>2, <1>4, <1>5, <1>6, ProceedKeepsKInv

\* The keep decisions.
LEMMA DecisionsKeepKInv ==
  ASSUME IInv, FInv, KInv, NEW p \in Procs, Audit(p) \/ Keep(p) \/ Unkeep(p)
  PROVE  KInv'
<1>1. /\ pc[p] = "ensure" /\ loaded
      /\ request[p].op \in {"audit", "keep", "unkeep"}
  BY DEF Audit, Keep, Unkeep, Writes
<1>2. request[p].op = "keep" => request[p].id \in Ids
  BY DEF FInv, Requests, Fits
<1>3. CASE NothingToDo(p)
  BY <1>1, <1>3, NothingToDoKeepsKInv
<1>4. CASE ~NothingToDo(p) /\ Audit(p)
  <2>1. /\ Proceed(p, <<Save("kept")>>, "keep") /\ request[p].op = "audit"
        /\ \E stale : kept' = kept \ stale /\ told' = told \ stale
    BY <1>4 DEF Audit, Writes
  <2>2. told' \subseteq kept' \intersect Ids
    BY <2>1 DEF KInv
  <2> QED
    BY <1>1, <2>1, <2>2, OneSaveKeepsKInv
<1>5. CASE Keep(p) /\ request[p].id \in kept
  <2>1. request[p].op = "keep" /\ Ends(p) /\ told' = told \union {request[p].id}
        /\ UNCHANGED <<kept, loaded, restarts>>
    BY <1>5 DEF Keep, Writes, memory, bounds
  <2>2. told' \subseteq kept' \intersect Ids
    BY <1>2, <1>5, <2>1 DEF KInv
  <2> QED
    BY <1>1, <2>1, <2>2, EndKeepsKInv
<1>6. CASE Keep(p) /\ request[p].id \notin kept
  <2>1. /\ Proceed(p, <<Save("kept")>>, "keep") /\ kept' = kept \union {request[p].id}
        /\ told' = told
    BY <1>6 DEF Keep
  <2>2. told' \subseteq kept' \intersect Ids
    BY <2>1 DEF KInv
  <2> QED
    BY <1>1, <2>1, <2>2, OneSaveKeepsKInv
<1>7. CASE ~NothingToDo(p) /\ Unkeep(p)
  <2>1. /\ Proceed(p, <<Save("kept")>>, "keep") /\ request[p].op = "unkeep"
        /\ kept' = kept \ {request[p].id} /\ Lapses(request[p])
    BY <1>7 DEF Unkeep, Writes
  <2>2. told' = told \ {request[p].id}
    BY <2>1 DEF Lapses, Lapsed
  <2>3. told' \subseteq kept' \intersect Ids
    BY <2>1, <2>2 DEF KInv
  <2> QED
    BY <1>1, <2>1, <2>3, OneSaveKeepsKInv
<1> QED
  BY <1>3, <1>4, <1>5, <1>6, <1>7

LEMMA ChangesKeepKInv ==
  ASSUME IInv, FInv, KInv, NEW p \in Procs, Changes(p)
  PROVE  KInv'
BY BackupsKeepKInv, LineageKeepsKInv, DeleteOneKeepsKInv, DeletePlanKeepsKInv,
   DeleteAllKeepsKInv, PurgeKeepsKInv, DecisionsKeepKInv DEF Changes

\* A put-back keeps the decisions, and its saves take nothing.
LEMMA PutBackKeepsKInv ==
  ASSUME IInv, FInv, KInv, NEW p \in Procs, HasTask(p), undo = "putBack", NEW stores,
         PutBack(p, stores), UNCHANGED <<told, loaded, restarts>>
  PROVE  KInv'
<1>1. pc[p] = "saving" /\ loaded /\ \A q \in Procs : pc[q] = "saving" => q = p
  BY AtTask
<1>2. kept' = kept
  BY DEF PutBack
<1>3. told' \subseteq kept' \intersect Ids
  BY <1>2 DEF KInv
<1>4. CASE stores = {}
  BY <1>1, <1>3, <1>4, EndKeepsKInv DEF PutBack
<1>5. CASE stores # {}
  <2>1. todo' = SavesOf(stores) /\ UNCHANGED <<pc, request>>
    BY <1>5 DEF PutBack, calls
  <2>2. \A i \in DOMAIN todo' : todo'[i].do = "save"
    BY <2>1, SavesOfParts
  <2>3. \A i \in DOMAIN todo' : SparesTold(todo[i])'
    BY <2>2 DEF SparesTold, Forgets
  <2>4. request[p].op # "purge"
    BY <1>1 DEF KInv
  <2> QED
    BY <1>1, <1>2, <1>3, <2>1, <2>2, <2>3, <2>4 DEF KInv
<1> QED
  BY <1>4, <1>5

LEMMA SavingKeepsKInv ==
  ASSUME IInv, FInv, DInv, KInv, NEW p \in Procs,
         SkipTask(p) \/ Saves(p) \/ SaveFails(p) \/ SaveCancelled(p)
  PROVE  KInv'
<1> DEFINE t == Head(todo)
<1>1. /\ HasTask(p) /\ UNCHANGED <<told, loaded, restarts>>
  BY DEF SkipTask, Saves, SaveFails, SaveCancelled, memory, bounds
<1>2. pc[p] = "saving" /\ loaded /\ todo # <<>> /\ t \in Task
  BY <1>1, AtTask
<1>3. SparesTold(t)
  BY <1>2, TailParts DEF FInv, Shapes, KInv
<1>4. CASE SkipTask(p)
  BY <1>1, <1>4, TaskKeepsKInv DEF SkipTask, memory, calls
<1>5. CASE Saves(p)
  BY <1>1, <1>5, TaskKeepsKInv DEF Saves, calls
<1>6. CASE LogAndGoOn(t)
  BY <1>1, <1>6, TaskKeepsKInv DEF LogAndGoOn, calls
<1>7. CASE LeaveAhead(p, t)
  <2>1. kept' = KeptAfter(t) /\ Ends(p)
    BY <1>7 DEF LeaveAhead
  <2>2. told' \subseteq kept' \intersect Ids
    BY <1>1, <1>2, <1>3, <2>1, TaskSpares DEF KInv
  <2> QED
    BY <1>1, <1>2, <2>1, <2>2, EndKeepsKInv
<1>8. CASE RollBack(p)
  <2>1. kept' = kept /\ Ends(p)
    BY <1>8 DEF RollBack
  <2>2. told' \subseteq kept' \intersect Ids
    BY <1>1, <2>1 DEF KInv
  <2> QED
    BY <1>1, <1>2, <2>1, <2>2, EndKeepsKInv
<1>9. ASSUME NEW stores, PutBack(p, stores), undo = "putBack" PROVE KInv'
  BY <1>1, <1>9, PutBackKeepsKInv
<1>10. CASE SaveFails(p)
  BY <1>6, <1>7, <1>8, <1>9, <1>10 DEF SaveFails
<1>11. CASE SaveCancelled(p)
  BY <1>7, <1>9, <1>11 DEF SaveCancelled
<1> QED
  BY <1>4, <1>5, <1>10, <1>11

\* A write that ends tells its caller that the plan is kept, as it is.
LEMMA WriteEndsKeepsKInv ==
  ASSUME IInv, FInv, KInv, NEW p \in Procs, WriteEnds(p)
  PROVE  KInv'
<1>1. /\ pc[p] = "saving" /\ Ends(p) /\ UNCHANGED <<kept, loaded, restarts>>
      /\ told' = IF request[p].op = "keep" THEN told \union {request[p].id} ELSE told
  BY DEF WriteEnds, memory, bounds
<1>2. loaded
  BY <1>1 DEF FInv, Loading
<1>3. request[p].op = "keep" => request[p].id \in kept \intersect Ids
  BY <1>1 DEF KInv, FInv, Requests, Fits
<1>4. told' \subseteq kept' \intersect Ids
  BY <1>1, <1>3 DEF KInv
<1> QED
  BY <1>1, <1>2, <1>4, EndKeepsKInv

\* Calls that wait or load.
LEMMA LoadsKeepKInv ==
  ASSUME IInv, FInv, KInv, NEW p \in Procs,
         Call(p) \/ WriteWoken(p) \/ Loads(p) \/ LoadFails(p)
  PROVE  KInv'
<1>1. CASE Call(p) \/ WriteWoken(p) \/ EnsureLoaded(p) \/ LoadWoken(p) \/ Reads(p)
  <2>1. UNCHANGED <<history, kept, told, todo, undo, loaded, restarts>>
    BY <1>1 DEF Call, WriteWoken, EnsureLoaded, LoadWoken, Reads, memory, work,
       bounds, vars
  <2>2. \A q \in Procs : pc'[q] = "saving" => pc[q] = "saving" /\ request'[q] = request[q]
    BY <1>1 DEF Call, WriteWoken, EnsureLoaded, LoadWoken, Reads, Goto, AfterLoad,
       vars, calls, IInv, FInv, Requests
  <2> QED
    BY <2>1, <2>2, QuietKeepsKInv
<1>2. CASE LoadAuto(p) \/ LoadChange(p) \/ LoadKept(p) \/ LoadFails(p)
  <2>1. pc[p] \in LoadPlaces
    BY <1>2 DEF LoadAuto, LoadChange, LoadHistory, LoadKept, LoadFails, LoadPlaces
  <2>2. ~loaded /\ told = {}
    BY <2>1 DEF FInv, Loading, KInv
  <2>3. todo = <<>> /\ \A q \in Procs : pc[q] # "saving"
    BY <2>2 DEF FInv, Loading, Undoing
  <2>4. todo' = <<>> /\ told' = {} /\ restarts' = restarts
    BY <1>2, <2>2, <2>3 DEF LoadAuto, LoadChange, LoadHistory, LoadKept, LoadFails,
       work, bounds, Ends
  <2>5. \A q \in Procs : pc'[q] # "saving"
    BY <1>2, <2>3 DEF LoadAuto, LoadChange, LoadHistory, LoadKept, LoadFails,
       Ends, Goto, AfterLoad, IInv
  <2> QED
    BY <2>4, <2>5, RestKeepsKInv DEF KInv
<1> QED
  BY <1>1, <1>2 DEF Loads

LEMMA InitKInv == Init => KInv
<1> SUFFICES ASSUME Init PROVE KInv
  OBVIOUS
<1>1. /\ told = {} /\ todo = <<>> /\ pc = [p \in Procs |-> "idle"] /\ restarts = 0
  BY DEF Init
<1> QED
  BY <1>1 DEF KInv

LEMMA NextKeepsKInv == IInv /\ FInv /\ DInv /\ KInv /\ [Next]_vars => KInv'
<1> SUFFICES ASSUME IInv, FInv, DInv, KInv, [Next]_vars PROVE KInv'
  OBVIOUS
<1>1. CASE LateLands \/ UNCHANGED vars
  <2>1. UNCHANGED <<history, kept, told, todo, undo, loaded, restarts, pc, request>>
    BY <1>1 DEF LateLands, memory, work, calls, bounds, vars
  <2> QED
    BY <2>1, QuietKeepsKInv
<1>2. CASE Restart
  <2>1. /\ told' = {} /\ todo' = <<>> /\ restarts' = restarts + 1
        /\ pc' = [p \in Procs |-> "idle"]
    BY <1>2 DEF Restart
  <2> QED
    BY <2>1 DEF KInv
<1>3. ASSUME NEW p \in Procs, Advances(p) PROVE KInv'
  BY <1>3, LoadsKeepKInv, ChangesKeepKInv, SavingKeepsKInv, WriteEndsKeepsKInv
     DEF Advances
<1>4. ASSUME NEW p \in Procs,
             Call(p) \/ LoadFails(p) \/ SaveFails(p) \/ SaveCancelled(p)
      PROVE  KInv'
  BY <1>4, LoadsKeepKInv, SavingKeepsKInv
<1> QED
  BY <1>1, <1>2, <1>3, <1>4 DEF Next

\* A step that changes a plan's backups while a purge runs is the purge's own.
LEMMA PurgeTakesOwn ==
  ASSUME IInv, FInv, DInv, KInv, [Next]_vars, NEW id \in Ids, NEW p \in Procs,
         pc[p] = "saving", request[p].op = "purge", ~Stopping,
         NEW k \in Kinds, history'[k][id] # history[k][id]
  PROVE  id \notin told /\ Orphaned(request[p].live, id)
<1>1. undo = "keep" /\ loaded
  BY DEF KInv, FInv, Loading
<1>2. \A q \in Procs : pc[q] \in {"ensure", "saving"} => q = p
  BY Alone DEF FInv
<1>3. \A q \in Procs : pc[q] \notin LoadPlaces
  BY <1>1 DEF FInv, Loading
<1>4. ASSUME NEW q \in Procs, Changes(q) PROVE FALSE
  <2>1. pc[q] = "ensure"
    BY <1>4 DEF Changes, AutoBackup, ChangeBackup, Move, PurgeIdentity, MarkRestored,
       DeleteOne, DeletePlan, DeleteAll, Purge, Audit, Keep, Unkeep, Writes
  <2> QED
    BY <1>2, <2>1
<1>5. ASSUME NEW q \in Procs,
             Call(q) \/ WriteWoken(q) \/ Loads(q) \/ LoadFails(q) \/ WriteEnds(q)
             \/ SkipTask(q)
      PROVE  history' = history
  BY <1>3, <1>5 DEF Call, WriteWoken, Loads, EnsureLoaded, LoadWoken, LoadAuto,
     LoadChange, LoadHistory, LoadKept, Reads, LoadFails, WriteEnds, SkipTask,
     memory, vars, LoadPlaces
<1>6. LateLands => history' = history
  BY DEF LateLands, memory
<1>7. ~Restart
  BY DEF Restart, Stopping, KInv
<1>8. UNCHANGED vars => history' = history
  BY DEF vars, memory
<1>9. PICK q \in Procs : Saves(q) \/ SaveFails(q) \/ SaveCancelled(q)
  BY <1>4, <1>5, <1>6, <1>7, <1>8 DEF Next, Advances
<1>10. HasTask(q)
  BY <1>9 DEF Saves, SaveFails, SaveCancelled
<1>11. history' = HistoryAfter(Head(todo))
  BY <1>1, <1>9 DEF Saves, SaveFails, SaveCancelled, LogAndGoOn, LeaveAhead
<1>12. Head(todo) \in Task /\ 1 \in DOMAIN todo /\ Head(todo) = todo[1]
  BY <1>10, AtTask, TailParts DEF FInv, Shapes
<1>13. SparesTold(Head(todo)) /\ Orphaned(request[p].live, Head(todo).id)
  BY <1>12 DEF KInv
<1> QED
  BY <1>11, <1>12, <1>13, TaskSpares DEF KInv

\* A purge changes no backups of a plan that a user was told is kept, nor of one
\* its plan list holds, nor any without a plan list, through failed and cancelled
\* saves of whatever was asked before; what was told before a restart does not count.
THEOREM PurgeSparesKept ==
  ASSUME NoCancelledRollBack
  PROVE  Spec => PurgeSpares
<1> DEFINE Spared == \A id \in Ids : PurgeTakes(id) =>
               /\ id \notin told
               /\ \A p \in Callers : request[p].op = "purge" /\ pc[p] = "saving" =>
                      request[p].live # NoList /\ id \notin request[p].live
           AllInv == IInv /\ FInv /\ DInv /\ KInv
<1>1. AllInv /\ [Next]_vars => [Spared]_vars
  <2> SUFFICES ASSUME AllInv, [Next]_vars, NEW id \in Ids, PurgeTakes(id)
               PROVE  /\ id \notin told
                      /\ \A p \in Callers :
                             request[p].op = "purge" /\ pc[p] = "saving" =>
                             request[p].live # NoList /\ id \notin request[p].live
    OBVIOUS
  <2>1. PICK p \in Callers : /\ pc[p] = "saving" /\ request[p].op = "purge"
                             /\ ~Stopping
                             /\ \E k \in Kinds : history'[k][id] # history[k][id]
    BY DEF PurgeTakes
  <2>2. id \notin told /\ \A q \in Callers :
            pc[q] = "saving" /\ request[q].op = "purge" => Orphaned(request[q].live, id)
    BY <2>1, PurgeTakesOwn DEF Procs
  <2> QED
    BY <2>2 DEF Orphaned
<1>2. Init => AllInv
  BY InitIInv, InitFInv, InitDInv, InitKInv
<1>3. AllInv /\ [Next]_vars => AllInv'
  BY NextPreserves, NextKeepsFInv, NextKeepsDInv, NextKeepsKInv
<1>4. Spec => [][Spared]_vars
  BY <1>1, <1>2, <1>3, PTL DEF Spec
<1> QED
  BY <1>4 DEF PurgeSpares


=============================================================================
