---------------------------- MODULE BackupCycle ----------------------------
(***************************************************************************)
(* The automatic backup cycle, the rename follow-up and a restore in       *)
(* place, meeting over one function plan of Comexio.                       *)
(*                                                                         *)
(* After a poll read the plan list, a background task loads every plan's   *)
(* wiring, moves the backups of a renamed plan to its new name and stores  *)
(* a snapshot of each changed plan.  A user may change the plan in Comexio *)
(* at any time; a restore rewrites it, and pauses the automatic backup.    *)
(*                                                                         *)
(* Abstractions: one plan ID, whose plan HA does not manage and the        *)
(* watchdog does not watch; Comexio has other plans too.  The content of a *)
(* plan is what plan_hash covers.  A write of the backup store is one step *)
(* but for the save of an automatic backup and the move of a renamed       *)
(* plan's backups, which take time; all wait for the write lock (see       *)
(* BackupStore).                                                           *)
(***************************************************************************)
EXTENDS BackupHistory

CONSTANTS Names,        \* plan names
          NoName,       \* Comexio has no plan under the ID
          Contents,     \* contents a user gives a plan
          Half,         \* the content of a plan a restore has not finished
          NoContent,
          AutoSlots, ChangeSlots,
          MaxUserSteps, \* bound: changes in Comexio Studio
          MaxRestores,  \* bound: restores
          MaxFaults     \* bound: failed requests and saves, cancels, refusals

ASSUME CycleSlotsAssumption == {AutoSlots, ChangeSlots} \subseteq Nat \ {0}
ASSUME CycleBoundsAssumption == {MaxUserSteps, MaxRestores, MaxFaults} \subseteq Nat
ASSUME CycleNamesAssumption ==
    NoName \notin Names /\ {Half, NoContent} \cap Contents = {} /\ Half # NoContent

Kinds == {"auto", "change"}
NoChoice == [kind |-> "none"]

SlotsOf(kind) == IF kind = "auto" THEN AutoSlots ELSE ChangeSlots

VARIABLES
    name, content,  \* @external: the plan in Comexio
    listed,         \* api.fub_data: the plan's name as last read
    history,        \* the stored snapshots, by kind and name
    clock,
    cycle,          \* where the cycle's task is
    seen,           \* what it has read: generation, the plan's name before and
                    \* after the load, its content; what it moves or took
    sources,        \* former names whose backups it is to move
    pending,        \* _rename_move_pending: former name -> name its move failed to
    restore,        \* where the restore is
    chosen,         \* the snapshot it restores, and notes on its undo (history)
    mismatch,       \* identity_was_mismatched
    pauses,         \* _auto_backup_pauses
    generation,     \* _auto_backup_pause_generation
    leftHalf,       \* a restore ended with the plan half restored (history)
    promoted,       \* an auto snapshot was restored, nothing changed since (history)
    userSteps, faults

plan == <<name, content>>
store == <<history, clock>>
cycling == <<cycle, seen, sources, pending>>
restoring == <<restore, chosen, mismatch, pauses, generation>>
noted == <<leftHalf, promoted>>
vars == <<plan, listed, store, cycling, restoring, noted, userSteps, faults>>

NothingSeen == [generation |-> 0, atLoad |-> NoName, got |-> NoContent,
                fub |-> NoName, old |-> NoName, before |-> <<>>]

Init ==
    /\ name = NoName /\ content = NoContent /\ listed = NoName
    /\ history = [k \in Kinds |-> [n \in Names |-> <<>>]] /\ clock = 0
    /\ cycle = "idle" /\ seen = NothingSeen /\ sources = {}
    /\ pending = [n \in Names |-> NoName]
    /\ restore = "idle" /\ chosen = NoChoice /\ mismatch = FALSE
    /\ pauses = 0 /\ generation = 0
    /\ leftHalf = FALSE /\ promoted = FALSE
    /\ userSteps = 0 /\ faults = 0

Faulty == faults < MaxFaults /\ faults' = faults + 1

\* The write lock of the store: held while the cycle saves or moves.
StoreFree == cycle \notin {"saving", "moving"}

-----------------------------------------------------------------------------
(* Comexio Studio *)

\* The user creates, edits, renames or deletes the plan under the ID; a new
\* plan may take the ID of a deleted one.
UserStep ==
    /\ userSteps < MaxUserSteps /\ userSteps' = userSteps + 1
    /\ \/ name = NoName /\ name' \in Names /\ content' \in Contents
       \/ name # NoName /\ content' \in Contents \ {content} /\ UNCHANGED name
       \/ name # NoName /\ name' \in Names \ {name} /\ UNCHANGED content
       \/ name # NoName /\ name' = NoName /\ content' = NoContent
    /\ promoted' = FALSE
    /\ UNCHANGED <<listed, store, cycling, restoring, leftHalf, faults>>

-----------------------------------------------------------------------------
(* The poll and the backup cycle *)

\* A poll reads the plan list, and starts a cycle unless one runs
\* (_spawn_function_plan_backup_cycle).
Poll ==
    /\ listed' = name
    /\ cycle' = IF cycle = "idle" THEN "spawned" ELSE cycle
    /\ UNCHANGED <<plan, store, seen, sources, pending, restoring, noted, userSteps,
                   faults>>

\* Mutant of HeldBack: a restore that ended meanwhile does not count.
HeldBackNow(gen) == pauses > 0

\* _auto_backup_held_back
HeldBack(gen) == pauses > 0 \/ gen # generation

CycleEnds ==
    /\ cycle' = "idle" /\ seen' = NothingSeen /\ sources' = {}

\* _async_function_plan_backup_cycle_locked, up to its bulk load.
CycleBegins ==
    /\ cycle = "spawned"
    /\ \/ pauses > 0 /\ CycleEnds
       \/ /\ pauses = 0
          /\ cycle' = "loading"
          /\ seen' = [NothingSeen EXCEPT !.generation = generation, !.atLoad = listed]
          /\ UNCHANGED sources
    /\ UNCHANGED <<plan, listed, store, pending, restoring, noted, userSteps, faults>>

\* Comexio answers the bulk load, with the plans the list held at its start.
Loads ==
    /\ cycle = "loading"
    /\ cycle' = "loaded"
    /\ seen' = [seen EXCEPT !.got = IF seen.atLoad = NoName THEN NoContent ELSE content]
    /\ UNCHANGED <<plan, listed, store, sources, pending, restoring, noted, userSteps,
                   faults>>

LoadFails ==
    /\ cycle = "loading" /\ Faulty
    /\ CycleEnds
    /\ UNCHANGED <<plan, listed, store, pending, restoring, noted, userSteps>>

Steady == seen.got # NoContent /\ seen.fub = seen.atLoad

\* The plan list is read again from the cache; a plan renamed or deleted since
\* the load waits for the next cycle (_plans_named_as_at_load), and a noted move
\* of a plan that is gone is given up (_forget_stale_rename_state).
Judge ==
    /\ cycle = "loaded"
    /\ \/ HeldBack(seen.generation) /\ CycleEnds /\ UNCHANGED pending
       \/ /\ ~HeldBack(seen.generation)
          /\ cycle' = "following" /\ seen' = [seen EXCEPT !.fub = listed]
          /\ pending' = IF listed = NoName THEN [n \in Names |-> NoName] ELSE pending
          /\ UNCHANGED sources
    /\ UNCHANGED <<plan, listed, store, restoring, noted, userSteps, faults>>

NewestAuto(n) == IF history["auto"][n] = <<>> THEN NoContent
                 ELSE Head(history["auto"][n]).content

\* Mutant of RenamedFrom: the oldest backup of a name is compared.
RenamedFromOldest(n) ==
    {old \in Names \ {n} : /\ history["auto"][old] # <<>>
                           /\ Last(history["auto"][old]).content = seen.got}

\* _renamed_from: the former names whose newest auto backup is what n holds.
RenamedFrom(n) == {old \in Names \ {n} : NewestAuto(old) = seen.got}

\* A move that failed before is made up for while the plan has the name it was
\* renamed to, or its old name again.
NotedMoves(n) == {old \in Names : pending[old] # NoName /\ n \in {old, pending[old]}}

\* _rename_sources; a noted move the plan no longer fits is given up.
FollowRenames ==
    /\ cycle = "following"
    /\ \/ /\ Steady /\ ~HeldBack(seen.generation)
          /\ sources' = RenamedFrom(seen.fub) \union NotedMoves(seen.fub)
          /\ pending' = [old \in Names |->
                            IF old \in sources' THEN pending[old] ELSE NoName]
       \/ /\ ~Steady \/ HeldBack(seen.generation)
          /\ sources' = {} /\ UNCHANGED pending
    /\ cycle' = "renames"
    /\ UNCHANGED <<plan, listed, store, seen, restoring, noted, userSteps, faults>>

\* _async_follow_rename, up to the move: not while plans are busy, not when the
\* ID has another name by now.  Renamed back, there is nothing to move.
FollowRename == \E old \in sources :
    /\ cycle = "renames" /\ ~HeldBack(seen.generation)
    /\ sources' = sources \ {old}
    /\ \/ /\ Faulty             \* a sync, reload or plan edit runs
          /\ UNCHANGED <<cycle, seen, pending>>
       \/ /\ listed # seen.fub
          /\ UNCHANGED <<cycle, seen, pending, faults>>
       \/ /\ listed = seen.fub /\ old = seen.fub
          /\ pending' = [pending EXCEPT ![old] = NoName]
          /\ UNCHANGED <<cycle, seen, faults>>
       \/ /\ listed = seen.fub /\ old # seen.fub
          /\ cycle' = "moving" /\ seen' = [seen EXCEPT !.old = old]
          /\ UNCHANGED <<pending, faults>>
    /\ UNCHANGED <<plan, listed, store, restoring, noted, userSteps>>

\* async_rename_identity.  The merged chain is sorted by capture time, which takes
\* an earlier promotion back.
Moves == LET old == seen.old
             new == seen.fub IN
    /\ cycle = "moving"
    /\ history' = [k \in Kinds |->
           IF history[k][old] = <<>> THEN history[k]
           ELSE [history[k] EXCEPT
                   ![new] = Merged(@, history[k][old], SlotsOf(k)), ![old] = <<>>]]
    /\ pending' = [pending EXCEPT ![old] = NoName]
    /\ cycle' = "renames"
    /\ promoted' = FALSE
    /\ UNCHANGED <<plan, listed, clock, seen, sources, restoring, leftHalf, userSteps,
                   faults>>

\* The backups are put back and the move is noted.
MoveFails ==
    /\ cycle = "moving" /\ Faulty
    /\ pending' = [pending EXCEPT ![seen.old] = seen.fub]
    /\ cycle' = "renames"
    /\ UNCHANGED <<plan, listed, store, seen, sources, restoring, noted, userSteps>>

RenamesDone ==
    /\ cycle = "renames" /\ (sources = {} \/ HeldBack(seen.generation))
    /\ cycle' = "storing" /\ sources' = {}
    /\ UNCHANGED <<plan, listed, store, seen, pending, restoring, noted, userSteps,
                   faults>>

\* Mutant of Unstored: the content is looked for in the whole history.
UnstoredAnywhere(n, c) == \A i \in DOMAIN history["auto"][n] :
                             history["auto"][n][i].content # c

\* _auto_backup_reason
Unstored(n, c) == NewestAuto(n) # c

\* async_auto_backup: held_back is asked again after the store's awaits.
StoreAuto == LET n == seen.fub
                 due == Steady /\ ~HeldBack(seen.generation) /\ Unstored(n, seen.got) IN
    /\ cycle = "storing"
    /\ \/ ~due /\ CycleEnds /\ UNCHANGED store
       \/ /\ due
          /\ clock' = clock + 1
          /\ history' = [history EXCEPT !["auto"][n] =
                Rotated(@, [at |-> clock', content |-> seen.got, restored |-> FALSE],
                        AutoSlots)]
          /\ cycle' = "saving"
          /\ seen' = [seen EXCEPT !.before = history["auto"][n]]
          /\ UNCHANGED sources
    /\ UNCHANGED <<plan, listed, pending, restoring, noted, userSteps, faults>>

\* The save ends, or fails and is rolled back (_async_save_auto_or_roll_back).
SaveEnds ==
    /\ cycle = "saving"
    /\ \/ UNCHANGED <<history, faults>>
       \/ /\ Faulty
          /\ history' = [history EXCEPT !["auto"][seen.fub] = seen.before]
    /\ CycleEnds
    /\ UNCHANGED <<plan, listed, clock, pending, restoring, noted, userSteps>>

\* The cycle's timeout: a move is put back and noted, an unsaved snapshot stays.
CycleTimeout ==
    /\ cycle \notin {"idle", "spawned"} /\ Faulty
    /\ pending' = IF cycle = "moving" THEN [pending EXCEPT ![seen.old] = seen.fub]
                  ELSE pending
    /\ CycleEnds
    /\ UNCHANGED <<plan, listed, store, restoring, noted, userSteps>>

-----------------------------------------------------------------------------
(* The restore *)

Goto(place) == restore' = place /\ UNCHANGED <<pauses, generation, leftHalf>>

\* The restore ends, and with it the pause.
Ends ==
    /\ restore' = "idle" /\ pauses' = pauses - 1
    /\ leftHalf' = (leftHalf \/ content = Half)
    /\ UNCHANGED generation

\* _handle_function_plan_restore and pause_auto_backup: a restore of snapshot i
\* of (k, n) starts, not during another one or a plan edit.
RestoreBegins == \E k \in Kinds : \E n \in Names : \E i \in DOMAIN history[k][n] :
    /\ generation < MaxRestores
    /\ restore = "idle" /\ cycle # "moving"
    /\ restore' = "fetching" /\ pauses' = pauses + 1 /\ generation' = generation + 1
    /\ chosen' = [kind |-> k, name |-> n, at |-> history[k][n][i].at,
                  content |-> history[k][n][i].content, since |-> userSteps,
                  secured |-> userSteps, unsecured |-> FALSE]
    /\ mismatch' = FALSE /\ promoted' = FALSE
    /\ UNCHANGED <<plan, listed, store, cycling, leftHalf, userSteps, faults>>

\* _fetch_live_plan: the plan list is read afresh.  A plan of another name is
\* overwritten only when the user asked for it (force_override); otherwise, or
\* when the plan is gone, the restore in place ends here.
FetchPlan ==
    /\ restore = "fetching"
    /\ listed' = IF name = NoName THEN listed ELSE name
    /\ mismatch' = (name # chosen.name)
    /\ chosen' = [chosen EXCEPT !.since = userSteps]
    /\ \/ name # NoName /\ Goto("securing")
       \/ mismatch' /\ Ends
    /\ UNCHANGED <<plan, store, cycling, promoted, userSteps, faults>>

\* Mutant of Secure: the backup is left to the end of the restore.
SecureLate ==
    /\ restore = "securing"
    /\ chosen' = [chosen EXCEPT !.secured = userSteps]
    /\ Goto("aligning")
    /\ UNCHANGED <<plan, listed, store, cycling, mismatch, promoted, userSteps,
                   faults>>

\* async_function_plan_change_backup: the pre_restore snapshot of the plan as it
\* is.  A backup that fails is logged, and the restore goes on.  (A plan the list
\* lost since is backed up under no name of Names.)
Secure ==
    /\ restore = "securing" /\ StoreFree
    /\ \/ /\ name # NoName /\ listed # NoName
          /\ clock' = clock + 1
          /\ history' = [history EXCEPT !["change"][listed] =
                Rotated(@, [at |-> clock', content |-> content, restored |-> FALSE],
                        ChangeSlots)]
          /\ chosen' = [chosen EXCEPT !.secured = userSteps]
          /\ UNCHANGED faults
       \/ /\ name = NoName \/ listed = NoName
          /\ chosen' = [chosen EXCEPT !.unsecured = TRUE]
          /\ UNCHANGED <<store, faults>>
       \/ /\ Faulty
          /\ chosen' = [chosen EXCEPT !.unsecured = TRUE]
          /\ UNCHANGED store
    /\ Goto("aligning")
    /\ UNCHANGED <<plan, listed, cycling, mismatch, promoted, userSteps>>

\* _restore_apply_snapshot: the plan takes the snapshot's name and paper format,
\* unless it has both already.
Align ==
    /\ restore = "aligning"
    /\ \/ /\ name # NoName
          /\ name' = chosen.name /\ listed' = chosen.name
          /\ UNCHANGED faults
       \/ /\ ~mismatch \/ name = NoName
          /\ UNCHANGED <<name, listed, faults>>
       \/ Faulty /\ UNCHANGED <<name, listed>>
    /\ Goto("running")
    /\ UNCHANGED <<content, store, cycling, chosen, mismatch, promoted, userSteps>>

\* run_fup applies the wiring; comments it had to leave out are missing until
\* they are placed again (_sanitize_missing_comments).
RunFup ==
    /\ restore = "running"
    /\ \/ /\ name # NoName /\ content' \in {chosen.content, Half}
          /\ UNCHANGED faults
       \/ name = NoName /\ UNCHANGED <<content, faults>>
       \/ Faulty /\ UNCHANGED content
    /\ Goto("completing")
    /\ UNCHANGED <<name, listed, store, cycling, chosen, mismatch, promoted, userSteps>>

\* _recreate_missing_comments
Complete ==
    /\ restore = "completing"
    /\ \/ /\ content' = IF content = Half THEN chosen.content ELSE content
          /\ UNCHANGED faults
       \/ Faulty /\ UNCHANGED content
    /\ Goto("verifying")
    /\ UNCHANGED <<name, listed, store, cycling, chosen, mismatch, promoted, userSteps>>

\* _restore_verify: only a plan that reads back as the snapshot is promoted.
Verify ==
    /\ restore = "verifying"
    /\ \/ content = chosen.content /\ ~mismatch /\ Goto("promoting") /\ UNCHANGED faults
       \/ (content # chosen.content \/ mismatch) /\ Ends /\ UNCHANGED faults
       \/ Faulty /\ Ends
    /\ UNCHANGED <<plan, listed, store, cycling, chosen, mismatch, promoted, userSteps>>

\* async_mark_restored: the snapshot may have left the history meanwhile; a
\* save that fails is rolled back.
Promote == LET h == history[chosen.kind][chosen.name] IN
    /\ restore = "promoting" /\ StoreFree
    /\ \/ /\ Holds(h, chosen.at)
          /\ history' = [history EXCEPT ![chosen.kind][chosen.name] = Promoted(@, chosen.at)]
          /\ promoted' = (chosen.kind = "auto" /\ userSteps = chosen.since)
          /\ UNCHANGED faults
       \/ ~Holds(h, chosen.at) /\ UNCHANGED <<history, promoted, faults>>
       \/ Faulty /\ UNCHANGED <<history, promoted>>
    /\ Ends
    /\ UNCHANGED <<plan, listed, clock, cycling, chosen, mismatch, userSteps>>

\* A request the restore does not catch fails, or its call is cancelled.
RestoreAborts ==
    /\ restore # "idle" /\ Faulty
    /\ Ends
    /\ UNCHANGED <<plan, listed, store, cycling, chosen, mismatch, promoted, userSteps>>

-----------------------------------------------------------------------------
CycleStep == \/ CycleBegins \/ Loads \/ Judge \/ FollowRenames \/ FollowRename
             \/ Moves \/ RenamesDone \/ StoreAuto \/ SaveEnds

RestoreStep == \/ FetchPlan \/ Secure \/ Align \/ RunFup \/ Complete \/ Verify
               \/ Promote

Next == \/ UserStep \/ Poll \/ CycleStep \/ LoadFails \/ MoveFails \/ CycleTimeout
        \/ RestoreBegins \/ RestoreStep \/ RestoreAborts

Spec == Init /\ [][Next]_vars

\* Polls go on, and the event loop runs the cycle and the restore; requests end.
FairSpec == Spec /\ WF_vars(Poll) /\ WF_vars(CycleStep) /\ WF_vars(RestoreStep)

-----------------------------------------------------------------------------
(* Properties *)

\* A plan that a restore is still writing is never stored: a half restored plan
\* is in a backup only when a restore ended and left the plan so
\* (pause_auto_backup).
NoHalfPlanStored ==
    (\E k \in Kinds : \E n \in Names : \E i \in DOMAIN history[k][n] :
         history[k][n][i].content = Half) => leftHalf

AutoTimes == UNION {TimesOf(history["auto"][n]) : n \in Names}

\* An automatic backup that was restored is not stored a second time: until the
\* plan changes again or backups of a former name join its own, no cycle adds a
\* snapshot (async_mark_restored).
NoDuplicateAfterRestore == [][promoted /\ promoted' => AutoTimes' \subseteq AutoTimes]_vars

\* A restore can be undone: what it overwrites is in a change backup, unless
\* that backup failed or the user changed the plan after it was taken.
UndoIsThere ==
    [][restore = "running" /\ content' # content /\ userSteps' = userSteps
       /\ userSteps = chosen.secured /\ ~chosen.unsecured
       => \E n \in Names : \E i \in DOMAIN history["change"][n] :
             history["change"][n][i].content = content]_vars

\* Backups follow a rename: in the end no former name keeps a chain whose newest
\* automatic backup is what the plan holds now (_async_follow_plan_renames).
RenamesSettle ==
    <>[](name # NoName => \A old \in Names \ {name} : NewestAuto(old) # content)

\* In the end the newest automatic backup of the plan is the plan, whatever
\* renames, restores, failures and timeouts came before.
EveryChangeBackedUp == <>[](name # NoName => NewestAuto(name) = content)

=============================================================================
