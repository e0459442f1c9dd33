--------------------------- MODULE VanishedPlans ---------------------------
(* A watched user plan that is deleted in Comexio: the watchdog check lists   *)
(* it as vanished, alarms the phones, and the alarm offers to restore it from *)
(* its newest backup or to stop watching it (plan_watchdog.py, the vanished   *)
(* half of coordinator.py, the restore-as-new of services/backup.py and the   *)
(* repair of repairs.py).                                                     *)
(*                                                                            *)
(* Every push of a plan has one tag, so the phone shows the one that arrived  *)
(* last.  The pushes of a tag wait for its lock in line and are judged again  *)
(* once they have it, because checks, taps, restores and a reload have gone   *)
(* on meanwhile.  A send may fail, or arrive and be reported as failed (its   *)
(* timeout).                                                                  *)
(*                                                                            *)
(* A plan is its (ID, name); every pick names one.  A reload is one step; a   *)
(* plan restored under another ID leaves this model with its pick.            *)
EXTENDS Naturals, Sequences, FiniteSets

CONSTANTS
    Plans,        \* (ID, name) of the plans that are watched at first
    Phones,       \* companion-app notify targets
    Calls,        \* restores that may run or wait at a time
    NoCall,
    Budgets       \* bounds: the changes made in Comexio, failed requests and sends,
                  \* buttons pressed (on a phone or in Home Assistant) and reloads
                  \* that may meet in one behaviour

ASSUME VanishedAssumption ==
    /\ {NoCall, "nobody", "check", "pending"} \cap Calls = {}
    /\ IsFiniteSet(Plans) /\ IsFiniteSet(Phones) /\ Phones # {}
    /\ Budgets \subseteq [changes : Nat, faults : Nat, taps : Nat, reloads : Nat]

VARIABLES
    \* Comexio
    comexio,      \* what a plan's ID holds: it, nothing, it renamed, another plan
    episode,      \* (history) since it was lost: rebuilt, its backups moved along
    \* the options and the backups
    picked,       \* CONF_FUNCTION_PLAN_WATCHDOG_USER_PLANS
    backedUp,     \* the plans that have a backup under their ID and name
    \* the coordinator and its watchdog, made anew by a reload
    listRead,     \* a poll read the plan list (live_plan_list)
    seen,         \* the cached plan list (api.fub_data), of each plan's ID
    settled,      \* _rename_checked: plans and holders found to be no rename
    checked,      \* vanished is not None
    vanished, holders, restored, clearing, unsent,
    check,        \* the running check: where it is, and the alarms it has to send
    restoring,    \* the call that holds the restore lock
    stage, call,     \* each restore: where it is, and what it was asked
    reloads,      \* reloads so far
    reloadDue,    \* a restore asked for the reload that follows it
    \* the pushes
    queue,        \* tag -> the pushes that hold or wait for its lock
    sending,      \* tag -> the targets its push still goes to, and the failed
    shown,        \* @external: tag -> what each phone shows under it
    missed,       \* (history) phones left with buttons no check takes off
    replaceable,  \* (history) lost since its confirmation, or a phone failed on it
    excused,      \* (history) phones that need no alarm: a button was pressed
                  \* there, or the plan was lost again before a confirmation
    budget        \* what is left of the bounds

outside == <<comexio, episode, replaceable>>
options == <<picked, backedUp>>
lists == <<listRead, seen, settled>>
watch == <<checked, vanished, holders, restored, clearing, unsent>>
calls == <<restoring, stage, call>>
life == <<reloads, reloadDue>>
pushes == <<queue, sending, shown, missed, excused>>
vanishedVars == <<outside, options, lists, watch, check, calls, life, pushes,
          budget>>

\* What an ID can hold; "holds" another plan in the last two.
Contents == {"here", "gone", "renamed", "other"}
HoldsOther == {"renamed", "other"}
Buttons == {"offer", "stopOnly", "pending"}

\* A restore: whose plan and who asked, under which watchdog, whether it built a
\* copy under another ID, whether its plan was marked as restored, and (history)
\* that the plan it built was not lost since.
NoTask == [plan |-> NoCall, by |-> "nobody", reload |-> 0, copy |-> FALSE,
           marked |-> FALSE, lasts |-> FALSE]
NoAlarms == [p \in Plans |-> {}]
Resting == [at |-> "idle", left |-> NoAlarms]
NotSending == [left |-> {}, failed |-> {}]

VanishedInit ==
    /\ comexio = [p \in Plans |-> "here"]
    /\ episode = [p \in Plans |-> "lost"] /\ replaceable = {}
    /\ picked = Plans /\ backedUp \in SUBSET Plans
    /\ listRead = FALSE /\ seen = [p \in Plans |-> "here"] /\ settled = {}
    /\ checked = FALSE /\ vanished = {} /\ holders = {} /\ restored = {}
    /\ clearing = {} /\ unsent = NoAlarms
    /\ check = Resting
    /\ restoring = NoCall
    /\ stage = [c \in Calls |-> "idle"] /\ call = [c \in Calls |-> NoTask]
    /\ reloads = 0 /\ reloadDue = FALSE
    /\ queue = [p \in Plans |-> <<>>]
    /\ sending = [p \in Plans |-> NotSending]
    /\ shown = [p \in Plans |-> [ph \in Phones |-> "nothing"]]
    /\ missed = {} /\ excused = {}
    /\ budget \in Budgets

-----------------------------------------------------------------------------
Spends(kind) ==
    budget[kind] > 0 /\ budget' = [budget EXCEPT ![kind] = @ - 1]
Fault == Spends("faults")
NoFault == UNCHANGED budget

(* What happens in Comexio *)

Becomes(p, from, to) ==
    /\ comexio[p] \in from /\ Spends("changes")
    /\ comexio' = [comexio EXCEPT ![p] = to]
    /\ UNCHANGED <<options, lists, watch, check, restoring, stage, life, queue,
                   sending, shown, missed>>

\* The plan is deleted or renamed: a new episode.
Lost(p) ==
    /\ Becomes(p, {"here"}, "gone") \/ Becomes(p, {"here"}, "renamed")
    /\ episode' = [episode EXCEPT ![p] = "lost"]
    /\ replaceable' = replaceable \union {p}
    /\ call' = [c \in Calls |-> IF call[c].plan = p
                                THEN [call[c] EXCEPT !.lasts = FALSE] ELSE call[c]]
    /\ excused' = IF p \in replaceable
                  THEN excused \union ({p} \X Phones) ELSE excused

\* Its ID is given to another plan, becomes free, or holds it again; a renamed
\* plan is edited (its content no longer tells).
Changed(p) ==
    /\ \/ Becomes(p, {"gone", "renamed"}, "other") \/ Becomes(p, {"other"}, "gone")
       \/ Becomes(p, {"gone", "renamed"}, "here")
    /\ UNCHANGED <<episode, replaceable, call, excused>>

\* The full poll reads the plan list.
Poll ==
    /\ ~(listRead /\ seen = comexio)
    /\ listRead' = TRUE /\ seen' = comexio
    /\ UNCHANGED <<outside, options, settled, watch, check, calls, life, pushes,
                   budget>>

\* The backup cycle takes an auto backup of a live plan.
BackUp(p) ==
    /\ comexio[p] = "here" /\ p \notin backedUp /\ restoring = NoCall
    /\ backedUp' = backedUp \union {p}
    /\ UNCHANGED <<outside, picked, lists, watch, check, calls, life, pushes,
                   budget>>

-----------------------------------------------------------------------------
(* The pushes *)

\* A push (or the "clear_notification" command) asks for its tag's lock.
Job(shows, guard, to, owner) ==
    [shows |-> shows, guard |-> guard, to |-> to, reload |-> reloads,
     owner |-> owner]
Clear(guard, owner) == Job("clear", guard, Phones, owner)
Queued(p, job) == queue' = [queue EXCEPT ![p] = Append(@, job)]

\* _no_longer_due: what a push is judged by once its tag's lock is held.
StillDue(p, job) ==
    /\ job.reload = reloads                                   \* not _closed
    /\ job.guard \in {"unlessRestored", "whileVanished"} => p \notin restored
    /\ job.guard = "whileVanished" => p \in vanished
    /\ job.guard = "whilePending" => ~checked
    /\ job.guard = "unlessVanishedAgain" => p \notin vanished \/ p \in restored
    /\ job.guard = "unlessVanished" => p \notin vanished

Idles(c) ==
    /\ stage' = [stage EXCEPT ![c] = "idle"]
    /\ call' = [call EXCEPT ![c] = NoTask]

\* Mutant: nothing looks after the answer to a tap before the first check.
FollowsNothing(p, job, failed) == <<>>

\* The clear that follows a push at once: of a phone the confirmation failed
\* on (async_push_restored), of an answer no check listed (check_pending).
FollowUp(p, job, failed) ==
    IF job.owner \in Calls
    THEN IF /\ stage[job.owner] = "confirming" /\ call[job.owner].marked
            /\ failed # {} /\ p \notin restored \union vanished
         THEN <<Clear("none", "nobody")>> ELSE <<>>
    ELSE IF job.owner = "pending" /\ checked /\ p \notin vanished \union restored
         THEN <<Clear("unlessVanished", "nobody")>> ELSE <<>>

\* The lock is given back: with no await from there to the end of the
\* bookkeeping, the failed targets are noted and the push's caller goes on.
Sent(p, job, failed) ==
    LET mine == job.reload = reloads
        done == job.to \ failed
        unmarked == /\ mine /\ job.owner \in Calls /\ failed # {}
                    /\ stage[job.owner] = "confirming" /\ call[job.owner].marked
                    /\ p \in restored
    IN
    /\ queue' = [queue EXCEPT ![p] = Tail(@) \o
                     (IF mine THEN FollowUp(p, job, failed) ELSE <<>>)]
    /\ sending' = [sending EXCEPT ![p] = NotSending]
    /\ unsent' =
         IF ~mine \/ job.shows = "clear" THEN unsent
         ELSE IF unmarked THEN [unsent EXCEPT ![p] = {}]
         ELSE IF job.owner = "check" /\ failed # {}
              THEN [unsent EXCEPT ![p] = failed]
              ELSE [unsent EXCEPT ![p] = @ \ done]
    /\ replaceable' =
         IF job.shows # "restored" THEN replaceable
         ELSE IF failed = {} /\ call[job.owner].lasts THEN replaceable \ {p}
         ELSE replaceable \union {p}
    /\ restored' = IF unmarked THEN restored \ {p} ELSE restored
    /\ check' = IF mine /\ job.owner = "check"
                THEN [check EXCEPT !.at = "pushes"] ELSE check
    /\ IF job.owner \in Calls
       THEN IF stage[job.owner] = "moving"
            THEN stage' = [stage EXCEPT ![job.owner] = "built"] /\ UNCHANGED call
            ELSE Idles(job.owner)
       ELSE UNCHANGED <<stage, call>>
    /\ UNCHANGED <<checked, vanished, holders, clearing>>

\* The push at the head of its tag's line is judged and sent, or dropped.
Begins(p) ==
    /\ queue[p] # <<>> /\ sending[p].left = {}
    /\ LET job == Head(queue[p]) IN
       IF StillDue(p, job)
       THEN /\ sending' = [sending EXCEPT ![p] = [left |-> job.to, failed |-> {}]]
            /\ UNCHANGED <<watch, check, stage, call, queue, replaceable>>
       ELSE Sent(p, [job EXCEPT !.to = {}], {})
    /\ UNCHANGED <<comexio, episode, options, lists, restoring, life, shown,
                   missed, excused, budget>>

\* One notify service answers: it took the push, failed, or took it and did not
\* answer in time.
Delivers(p, ph, arrives, answered) ==
    /\ ph \in sending[p].left
    /\ IF arrives /\ answered THEN NoFault ELSE Fault
    /\ LET job == Head(queue[p])
           now == IF job.shows = "clear" THEN "nothing" ELSE job.shows
           left == sending[p].left \ {ph}
           failed == IF answered THEN sending[p].failed
                     ELSE sending[p].failed \union {ph}
       IN
       /\ shown' = IF arrives THEN [shown EXCEPT ![p][ph] = now] ELSE shown
       /\ missed' = IF ~arrives /\ job.shows # "clear" THEN missed
                    ELSE IF /\ arrives /\ job.reload = reloads
                            /\ job.shows = "pending" => checked
                         THEN missed \ {<<p, ph>>}
                         ELSE missed \union {<<p, ph>>}
       /\ IF left = {} THEN Sent(p, job, failed)
          ELSE /\ sending' = [sending EXCEPT ![p] = [left |-> left,
                                                     failed |-> failed]]
               /\ UNCHANGED <<watch, check, stage, call, queue, replaceable>>
    /\ UNCHANGED <<comexio, episode, options, lists, restoring, life, excused>>

Sends(p) == \E ph \in Phones : \/ Delivers(p, ph, TRUE, TRUE)
                               \/ Delivers(p, ph, FALSE, FALSE)
                               \/ Delivers(p, ph, TRUE, FALSE)

-----------------------------------------------------------------------------
(* The check *)

\* _vanished_user_plans, vanished_id_holders.
VanishedNow == {p \in picked : seen[p] # "here"}
HoldersOf(plans) == {p \in plans : seen[p] \in HoldsOther}

\* async_watch_managed_plans: not while a restore runs, nor before a poll.  It
\* then judges the stopped plans (module PlanWatchdog), which awaits.
CheckStarts ==
    /\ check.at = "idle" /\ listRead /\ restoring = NoCall
    /\ check' = [check EXCEPT !.at = "judging"]
    /\ UNCHANGED <<outside, options, lists, watch, calls, life, pushes, budget>>

\* _async_follow_vanished_rename: the plan on the ID is loaded and compared with
\* the newest backup.  A renamed plan takes its pick along, then its backups,
\* whose move may fail; another one is not compared again.  A comparison that
\* fails, or a rename that is held off by a restore, waits for the next check.
CheckFollows(p) ==
    /\ check.at = "judging"
    /\ p \in HoldersOf(VanishedNow) /\ <<p, seen[p]>> \notin settled
    /\ \/ /\ comexio[p] \in {"renamed", "here"} /\ p \in backedUp
          /\ restoring = NoCall /\ picked' = picked \ {p}
          /\ \/ backedUp' = backedUp \ {p} /\ NoFault
             \/ UNCHANGED backedUp /\ Fault
          /\ UNCHANGED settled
       \/ /\ comexio[p] # "renamed" \/ p \notin backedUp
          /\ settled' = settled \union {<<p, seen[p]>>}
          /\ NoFault /\ UNCHANGED options
    /\ UNCHANGED <<outside, listRead, seen, watch, check, calls, life, pushes>>

\* Mutant: an alarm is only sent when its plan is new among the vanished.
SyncsNewOnly(over) ==
    /\ check.at = "judging"
    /\ LET now == VanishedNow IN
       /\ vanished' = now /\ holders' = HoldersOf(now) /\ checked' = TRUE
       /\ clearing' = vanished \ now
       /\ unsent' = [p \in Plans |-> IF p \in now THEN unsent[p] ELSE {}]
       /\ settled' = {x \in settled : x[1] \in HoldersOf(now) /\ x[2] = seen[x[1]]}
       /\ check' = [at |-> "pushes",
                    left |-> [p \in Plans |-> IF p \in now \ vanished THEN Phones
                                              ELSE {}]]
    /\ UNCHANGED <<outside, options, listRead, seen, restored, calls, life,
                   pushes, budget>>

\* async_sync_vanished up to its first push: the vanished plans as they are now.
\* over: the gap after a failed alarm is over, so it is sent again.
CheckSyncs(over) ==
    /\ check.at = "judging"
    /\ LET now == VanishedNow IN
       /\ vanished' = now /\ holders' = HoldersOf(now) /\ checked' = TRUE
       /\ clearing' = vanished \ now
       /\ unsent' = [p \in Plans |-> IF p \in now THEN unsent[p] ELSE {}]
       /\ settled' = {x \in settled : x[1] \in HoldersOf(now) /\ x[2] = seen[x[1]]}
       /\ check' = [at |-> "pushes",
                    left |-> [p \in Plans |-> IF p \in now \ vanished THEN Phones
                                              ELSE IF over THEN unsent'[p]
                                              ELSE {}]]
    /\ UNCHANGED <<outside, options, listRead, seen, restored, calls, life,
                   pushes, budget>>

\* Mutant: the alarm goes out whatever was restored since the plans were read.
AlarmsBlindly(p) ==
    /\ check.at = "pushes" /\ check.left[p] # {}
    /\ check' = [at |-> "pushing", left |-> [check.left EXCEPT ![p] = {}]]
    /\ Queued(p, Job("offer", "none", check.left[p], "check"))
    /\ UNCHANGED <<outside, options, lists, watch, calls, life, sending, shown,
                   missed, excused, budget>>

\* _async_push_vanished: the alarm, unless a Restore brought the plan back.
CheckAlarms(p) ==
    /\ check.at = "pushes" /\ check.left[p] # {}
    /\ IF p \in restored
       THEN /\ check' = [check EXCEPT !.left[p] = {}]
            /\ unsent' = [unsent EXCEPT ![p] = {}]
            /\ UNCHANGED queue
       ELSE /\ check' = [at |-> "pushing", left |-> [check.left EXCEPT ![p] = {}]]
            /\ Queued(p, Job(IF p \in holders THEN "stopOnly" ELSE "offer",
                             "unlessRestored", check.left[p], "check"))
            /\ UNCHANGED unsent
    /\ UNCHANGED <<outside, options, lists, checked, vanished, holders, restored,
                   clearing, calls, life, sending, shown, missed, excused,
                   budget>>

\* The pushes of the plans no longer vanished go, but a confirmation stays.
CheckClears(p) ==
    /\ check.at = "pushes" /\ check.left = NoAlarms /\ p \in clearing
    /\ clearing' = clearing \ {p}
    /\ IF p \in restored
       THEN restored' = restored \ {p} /\ UNCHANGED <<check, queue>>
       ELSE /\ check' = [check EXCEPT !.at = "pushing"]
            /\ Queued(p, Clear("none", "check"))
            /\ UNCHANGED restored
    /\ UNCHANGED <<outside, options, lists, checked, vanished, holders, unsent,
                   calls, life, sending, shown, missed, excused, budget>>

VanishedCheckEnds ==
    /\ check.at = "pushes" /\ check.left = NoAlarms /\ clearing = {}
    /\ check' = Resting
    /\ UNCHANGED <<outside, options, lists, watch, calls, life, pushes, budget>>

-----------------------------------------------------------------------------
(* The buttons *)

\* A button is pressed on a phone, which may or may not take the push off.
Pressed(p, kinds) ==
    /\ Spends("taps")
    /\ \E ph \in Phones : \E stays \in BOOLEAN :
          /\ shown[p][ph] \in kinds
          /\ shown' = IF stays THEN shown
                      ELSE [shown EXCEPT ![p][ph] = "nothing"]
          /\ excused' = excused \union {<<p, ph>>}
    /\ UNCHANGED <<sending, missed>>

\* _handle_vanished_plan_action before the first check, and once the plan no
\* longer is vanished.
TapAnswered(p) ==
    /\ \/ /\ ~checked
          /\ Queued(p, Job("pending", "whilePending", Phones, "pending"))
       \/ /\ checked /\ p \notin vanished
          /\ Queued(p, Clear("unlessVanished", "nobody"))
    /\ UNCHANGED <<options, stage, call>>

\* async_restore_vanished_plan is called: a second one for the plan is left to
\* the first (_vanished_restores).
IdleCalls == {c \in Calls : stage[c] = "idle"}
Free == CHOOSE c \in IdleCalls : TRUE
Asked(p, by) == [NoTask EXCEPT !.plan = p, !.by = by, !.reload = reloads]
BeingRestored(p) == \E c \in Calls :
    /\ call[c].plan = p /\ call[c].reload = reloads /\ call[c].by # "card"
StartsRestore(p, by) ==
    IF BeingRestored(p) THEN UNCHANGED <<stage, call>>
    ELSE /\ IdleCalls # {}
         /\ stage' = [stage EXCEPT ![Free] = "turn"]
         /\ call' = [call EXCEPT ![Free] = Asked(p, by)]

TapRestore(p) ==
    /\ Pressed(p, {"offer", "pending"})
    /\ \/ TapAnswered(p)
       \/ /\ checked /\ p \in vanished /\ StartsRestore(p, "push")
          /\ UNCHANGED <<queue, options>>
    /\ UNCHANGED <<outside, lists, watch, check, restoring, life>>

\* async_unwatch_user_plan.
TapStopWatching(p) ==
    /\ Pressed(p, Buttons)
    /\ \/ TapAnswered(p)
       \/ /\ checked /\ p \in vanished /\ picked' = picked \ {p}
          /\ UNCHANGED <<queue, backedUp, stage, call>>
    /\ UNCHANGED <<outside, lists, watch, check, restoring, life>>

\* The repair of a vanished plan: restore it, stop watching it, or watch the
\* plan that holds its ID, with its backups if that is the plan renamed.
Repairs(p) ==
    /\ checked /\ p \in vanished /\ Spends("taps")
    /\ \/ p \in backedUp /\ StartsRestore(p, "repair") /\ UNCHANGED options
       \/ picked' = picked \ {p} /\ UNCHANGED <<backedUp, stage, call>>
       \/ /\ p \in holders /\ seen[p] \in HoldsOther /\ p \in picked /\ ~BeingRestored(p)
          /\ picked' = picked \ {p}
          /\ \/ UNCHANGED backedUp
             \/ /\ comexio[p] = "renamed" /\ restoring = NoCall
                /\ backedUp' = backedUp \ {p}
          /\ UNCHANGED <<stage, call>>
    /\ UNCHANGED <<outside, lists, watch, check, restoring, life, pushes>>

\* The plan card restores a deleted plan's backup: refused while another restore
\* runs.
CardRestores(p) ==
    /\ p \in backedUp /\ IdleCalls # {} /\ Spends("taps")
    /\ restoring = NoCall /\ restoring' = Free
    /\ stage' = [stage EXCEPT ![Free] = "decide"]
    /\ call' = [call EXCEPT ![Free] = Asked(p, "card")]
    /\ UNCHANGED <<outside, options, lists, watch, check, life, pushes>>

-----------------------------------------------------------------------------
(* The restore of a vanished plan *)

Goto(c, place) == stage' = [stage EXCEPT ![c] = place]
Plan(c) == call[c].plan
Vanishing(c) == call[c].by \in {"push", "repair"}
Stays(c) == call[c].reload = reloads
\* The reply to a tap; a repair and the plan card report in Home Assistant.
Replies(c, shows) ==
    IF call[c].by = "push"
    THEN /\ Queued(Plan(c), Job(shows, "whileVanished", Phones, c))
         /\ Goto(c, "replying") /\ UNCHANGED call
    ELSE Idles(c) /\ UNCHANGED queue
Fails(c) == Replies(c, IF Plan(c) \in holders THEN "stopOnly" ELSE "offer")

\* _vanished_restore_lock is free, and so is the restore lock (or the wait for
\* it took too long): not for a pick that moved meanwhile, nor past a reload.
TakesTurn(c) ==
    /\ stage[c] = "turn"
    /\ \A d \in Calls : Vanishing(d) /\ call[d].reload = call[c].reload
                         => stage[d] = "turn"
    /\ \/ restoring = NoCall /\ NoFault
       \/ restoring # NoCall /\ Fault
    /\ IF Stays(c) /\ Plan(c) \in picked
       THEN Goto(c, "compare") /\ UNCHANGED call
       ELSE Idles(c)
    /\ UNCHANGED <<outside, options, lists, watch, check, restoring, life,
                   pushes>>

\* Mutant: the action does not refuse while another restore runs.
ActsRegardless(c) ==
    IF Plan(c) \notin backedUp
    THEN NoFault /\ Replies(c, "stopOnly") /\ UNCHANGED restoring
    ELSE NoFault /\ restoring' = c /\ Goto(c, "decide") /\ UNCHANGED <<call, queue>>

\* The newest backup is looked up and the function_plan_restore action called: it
\* is refused while another restore (or a sync, a plan edit) runs.
Acts(c) ==
    IF Plan(c) \notin backedUp
    THEN NoFault /\ Replies(c, "stopOnly") /\ UNCHANGED restoring
    ELSE \/ /\ restoring = NoCall /\ NoFault
            /\ restoring' = c /\ Goto(c, "decide") /\ UNCHANGED <<call, queue>>
         \/ /\ \/ restoring # NoCall /\ NoFault
               \/ restoring = NoCall /\ Fault
            /\ Fails(c) /\ UNCHANGED restoring

\* _async_suspected_rename_holder: the plan list is read afresh, and a plan on
\* the ID with the content of the backup is taken for the plan renamed.  Any other
\* restore goes on with no await.  A reload has closed the session of its requests.
Compares(c) ==
    /\ stage[c] = "compare"
    /\ \/ ~Stays(c) /\ Idles(c) /\ NoFault /\ UNCHANGED <<queue, seen, restoring>>
       \/ Stays(c) /\ Fault /\ Fails(c) /\ UNCHANGED <<seen, restoring>>
       \/ /\ Stays(c) /\ seen' = comexio
          /\ IF comexio[Plan(c)] = "renamed" /\ Plan(c) \in backedUp
             THEN NoFault /\ Replies(c, "stopOnly") /\ UNCHANGED restoring
             ELSE Acts(c)
    /\ UNCHANGED <<outside, options, listRead, settled, watch, check, life,
                   sending, shown, missed, excused>>

\* _run_function_plan_restore: the snapshot is loaded and the plan list read
\* afresh.  A plan back under its ID is not overwritten by a vanished plan's
\* restore; its alarm goes.
Decides(c) ==
    LET p == Plan(c) IN
    /\ stage[c] = "decide"
    /\ \/ /\ \/ p \notin backedUp /\ NoFault
             \/ Fault
          /\ restoring' = NoCall /\ Fails(c) /\ UNCHANGED seen
       \/ /\ p \in backedUp /\ comexio[p] = "here" /\ NoFault
          /\ restoring' = NoCall /\ seen' = [seen EXCEPT ![p] = "here"]
          /\ IF Vanishing(c)
             THEN /\ Queued(p, Clear("none", c)) /\ Goto(c, "replying")
                  /\ UNCHANGED call
             ELSE Idles(c) /\ UNCHANGED queue
       \/ /\ p \in backedUp /\ comexio[p] # "here" /\ NoFault
          /\ seen' = IF comexio[p] \in HoldsOther
                     THEN [seen EXCEPT ![p] = comexio[p]] ELSE seen
          /\ Goto(c, "build") /\ UNCHANGED <<restoring, call, queue>>
    /\ UNCHANGED <<outside, options, listRead, settled, watch, check, life,
                   sending, shown, missed, excused>>

\* The new plan could not be built, or only half of it.
BuildFails(c) ==
    /\ stage[c] = "build" /\ Fault /\ restoring' = NoCall /\ Fails(c)
    /\ UNCHANGED <<outside, options, lists, watch, check, life, sending, shown,
                   missed, excused>>

\* _restore_plan_as_new: the plan is rebuilt, under its old ID if that is free
\* and Comexio hands it out again.  Its backups move with it (or are purged,
\* where another plan holds the ID), and so does its pick; a moved pick asks for
\* a reload and takes the alarm off first.  Either move may fail.
Builds(c) ==
    LET p == Plan(c) IN
    /\ stage[c] = "build"
    /\ \E copy, keptThere, unmoved \in BOOLEAN :
       /\ copy \/ comexio[p] = "gone"
       /\ IF keptThere \/ unmoved THEN Fault ELSE NoFault
       /\ keptThere => copy
       /\ episode' = [episode EXCEPT ![p] =
                        IF keptThere THEN "rebuilt" ELSE "moved"]
       /\ comexio' = IF copy THEN comexio ELSE [comexio EXCEPT ![p] = "here"]
       /\ seen' = IF copy THEN seen ELSE [seen EXCEPT ![p] = "here"]
       /\ backedUp' = IF copy /\ ~keptThere THEN backedUp \ {p} ELSE backedUp
       /\ call' = [call EXCEPT ![c].copy = copy, ![c].lasts = TRUE]
       /\ IF p \in picked /\ ~unmoved
          THEN /\ picked' = IF copy THEN picked \ {p} ELSE picked
               /\ reloadDue' = TRUE
               /\ IF p \in vanished
                  THEN Queued(p, Clear("none", c)) /\ Goto(c, "moving")
                  ELSE Goto(c, "built") /\ UNCHANGED queue
          ELSE Goto(c, "built") /\ UNCHANGED <<picked, reloadDue, queue>>
    /\ UNCHANGED <<replaceable, listRead, settled, watch, check, restoring,
                   reloads, sending, shown, missed, excused>>

\* The action ends and gives the restore lock back.
Releases(c) ==
    /\ stage[c] = "built" /\ restoring' = NoCall
    /\ IF Vanishing(c) THEN Goto(c, "report") /\ UNCHANGED call ELSE Idles(c)
    /\ UNCHANGED <<outside, options, lists, watch, check, life, pushes, budget>>

\* Whether a confirmation marks its plan as restored: a check knows of it.
Marks(p) == p \in vanished \union clearing

\* async_push_restored, or for the repair the alarm is removed.  The plan is
\* marked before the push is sent, so that no check clears it on its way.
Reports(c) ==
    LET p == Plan(c) IN
    /\ stage[c] = "report"
    /\ picked' = IF call[c].copy THEN picked \ {p} ELSE picked
    /\ IF ~Stays(c) THEN Idles(c) /\ UNCHANGED <<restored, queue>>
       ELSE IF call[c].by = "push"
       THEN /\ restored' = IF Marks(p) THEN restored \union {p} ELSE restored
            /\ call' = [call EXCEPT ![c].marked = Marks(p)]
            /\ Queued(p, Job("restored", "unlessVanishedAgain", Phones, c))
            /\ Goto(c, "confirming")
       ELSE /\ Queued(p, Clear("none", c)) /\ Goto(c, "replying")
            /\ UNCHANGED <<call, restored>>
    /\ UNCHANGED <<outside, backedUp, lists, checked, vanished, holders, clearing,
                   unsent, check, restoring, life, sending, shown, missed,
                   excused, budget>>

\* The integration is reloaded: not while a restore runs (PlanCoordination).
\* The old watchdog sends nothing more (close), but a push on its way arrives.
Reload ==
    /\ restoring = NoCall
    /\ IF reloadDue THEN UNCHANGED budget ELSE Spends("reloads")
    /\ reloads' = reloads + 1 /\ reloadDue' = FALSE
    /\ listRead' = FALSE /\ settled' = {}
    /\ checked' = FALSE /\ vanished' = {} /\ holders' = {} /\ restored' = {}
    /\ clearing' = {} /\ unsent' = NoAlarms /\ check' = Resting
    /\ missed' = missed \union
           {x \in Plans \X Phones : shown[x[1]][x[2]] \in Buttons}
    /\ UNCHANGED <<outside, options, seen, calls, queue, sending, shown, excused>>

-----------------------------------------------------------------------------
CheckSteps == \/ CheckStarts \/ CheckSyncs(TRUE) \/ CheckSyncs(FALSE) \/ VanishedCheckEnds
              \/ \E p \in Plans : CheckFollows(p) \/ CheckAlarms(p) \/ CheckClears(p)

CallSteps(c) == \/ TakesTurn(c) \/ Compares(c) \/ Decides(c)
                \/ BuildFails(c) \/ Builds(c) \/ Releases(c) \/ Reports(c)

User(p) == \/ Lost(p) \/ Changed(p) \/ TapRestore(p) \/ TapStopWatching(p)
           \/ Repairs(p) \/ CardRestores(p)

VanishedNext == \/ \E p \in Plans : User(p) \/ BackUp(p) \/ Begins(p) \/ Sends(p)
        \/ \E c \in Calls : CallSteps(c)
        \/ CheckSteps \/ Poll \/ Reload

VanishedSpec == VanishedInit /\ [][VanishedNext]_vanishedVars

\* The timers poll and check again and again, every gap after a failed alarm
\* ends, and the event loop runs every call and push that can go on.
FairVanishedSpec ==
    /\ VanishedSpec
    /\ WF_vanishedVars(Poll) /\ WF_vanishedVars(CheckSteps) /\ SF_vanishedVars(CheckSyncs(TRUE))
    /\ WF_vanishedVars(Reload /\ reloadDue)
    /\ \A p \in Plans : WF_vanishedVars(Begins(p)) /\ WF_vanishedVars(Sends(p))
    /\ \A c \in Calls : WF_vanishedVars(CallSteps(c))

-----------------------------------------------------------------------------
(* Properties *)

\* A vanished plan's restore builds it once: two taps, a tap and a repair, or a
\* restore from the plan card meanwhile make no second copy, unless the backups
\* could not be moved to the first (async_restore_vanished_plan).
RestoredOnce ==
    [][\A c \in Calls :
          Vanishing(c) /\ stage[c] = "build" /\ stage'[c] \in {"moving", "built"}
             => episode[Plan(c)] # "moved"]_vanishedVars

\* No alarm and no refusal replaces the confirmation of a restored plan, unless
\* the plan was lost again since, or a phone failed on the confirmation
\* (_VanishedGuard.UNLESS_RESTORED, WHILE_VANISHED).
ConfirmationStays ==
    [][\A p \in Plans, ph \in Phones :
          shown[p][ph] = "restored" /\ shown'[p][ph] \in {"offer", "stopOnly"}
             => p \in replaceable]_vanishedVars

\* Nothing is under way, and the last check saw Comexio as it is.
Settled ==
    /\ checked /\ seen = comexio /\ vanished = VanishedNow
    /\ check = Resting /\ clearing = {} /\ ~reloadDue
    /\ \A p \in Plans : queue[p] = <<>>
    /\ \A c \in Calls : stage[c] = "idle"

\* Once all is settled, no phone offers buttons for a plan that is not vanished
\* (restored, back, unwatched), but for one left by a failed clear, a reload or
\* the answer to a tap before the first check (the next tap takes it off:
\* async_sync_vanished, async_clear_push).
NoStaleButtons ==
    Settled => \A p \in Plans \ vanished, ph \in Phones :
                  shown[p][ph] \in Buttons => <<p, ph>> \in missed

\* The alarm of a deleted plan that stays watched reaches every phone, whatever
\* failed, was restored in vain or reloaded before, until a button of it is
\* pressed there or the plan comes and goes between two checks
\* (async_sync_vanished, _vanished_push_retries_due).
AlarmArrives ==
    \A p \in Plans, ph \in Phones :
        (comexio[p] = "gone" /\ p \in picked)
            ~> \/ shown[p][ph] \in {"offer", "stopOnly"}
               \/ <<p, ph>> \in excused
               \/ comexio[p] # "gone" \/ p \notin picked
=============================================================================
