---------------------------- MODULE PlanWatchdog ----------------------------
(* The function plan watchdog (plan_watchdog.py and its half of               *)
(* coordinator.py): Comexio's plans are read by run-state fetches and full     *)
(* polls, a check judges what was read, reports the watched plans that are     *)
(* stopped and starts them again, and a user may start one from its repair.    *)
(*                                                                             *)
(* Comexio answers a deleted plan's run state like a stopped one's, starts its *)
(* plans itself after a boot, and its answers are as old as the request.       *)
(* Clock readings are abstracted to "still within" flags that lapse.           *)
EXTENDS Naturals, FiniteSets

CONSTANTS
    Ids,          \* plan IDs
    Names,        \* plan names
    FirstName,    \* the name every plan begins with
    NoPlan,       \* "no plan under this ID", "not stopped"
    Watched,      \* <<id, name>> pairs watched: both names of an ID is a bare-ID pick
    MaxFailed,    \* FUNCTION_PLAN_WATCHDOG_MAX_FAILED_STARTS
    Scenarios     \* which disturbances may meet in one behaviour, and among which plan IDs

ASSUME WatchdogAssumption ==
    /\ NoPlan \notin Names /\ FirstName \in Names
    /\ Watched \subseteq Ids \X Names
    /\ MaxFailed \in Nat \ {0}
    /\ \A s \in Scenarios :
          /\ s.may \subseteq {"stops", "reuse", "outage", "error", "edit", "user", "switch"}
          /\ s.ids \subseteq Ids

VARIABLES
    \* Comexio
    plan,         \* id -> the plan's name, or NoPlan
    runs,         \* id -> whether the plan runs
    up,           \* whether Comexio answers
    \* what the integration read last
    listed,       \* id -> name in the cached plan list (api.fub_data)
    active,       \* id -> cached Active flag
    haStopped,    \* ids HA stopped itself within the grace
    unreachable,  \* _comexio_unreachable
    grace,        \* the boot grace after an outage still runs
    \* requests on their way
    fetch,        \* the run-state fetch: "idle" or what it would have read when asked
    fetchNewer,   \* ids HA started or stopped since the fetch was asked (run_state_mark)
    fetchStale,   \* the plan list was written since (fub_cache_epoch)
    poll,         \* the full poll: "idle" or what it would have read when asked
    pollNewer,    \* ids HA started or stopped since the poll was asked
    edit,         \* the id of the plan an edit stopped, or NoPlan
    \* the watchdog
    wanted,       \* the check asked for: "no", "read", "unread" (the fetch failed)
    pc,           \* the running check: "idle", "starts", "sent"
    todo,         \* ids the check has still to start
    current,      \* id of the start on its way, or NoPlan
    judged,       \* id -> name the check judged stopped, or NoPlan
    autoStarted,  \* ids the running check started
    startedIn,    \* ids a user started while the check runs (_started_in_check)
    stopped,      \* id -> name reported as stopped, or NoPlan
    known,        \* id -> name it was watched under at the last check, or NoPlan
    unverified,   \* id -> "no", "seen", "polled", "waited": see the reader
    failed,       \* id -> failed auto-starts in a row
    suspended,    \* ids auto-start gave up on
    probation,    \* ids within the stopped-again window of their auto-start
    gap,          \* ids whose retry gap after a refused or unsent start still runs
    autoStart,    \* the auto-start switch
    scenario,     \* the disturbances of this behaviour and the IDs in use
    user,         \* the start from a repair or push: <<"idle" | "login" | "sent", id>>
    \* history
    lived,        \* id -> names the ID held since it was first read as stopped
    tries         \* id -> auto-starts answered since its slate was clean

world == <<plan, runs, up>>
cache == <<listed, active, haStopped>>
reach == <<unreachable, grace>>
requests == <<fetch, fetchNewer, fetchStale, poll, pollNewer>>
checking == <<wanted, pc, todo, current, judged, autoStarted, startedIn>>
verdict == <<stopped, known, unverified, failed, suspended, probation, gap>>
others == <<edit, autoStart, scenario, user>>
history == <<lived, tries>>
vars == <<world, cache, reach, requests, checking, verdict, others, history>>

Idle == [asked |-> FALSE]
RunStates == [asked |-> TRUE, runs |-> runs]
PlanList == [asked |-> TRUE, plan |-> plan, runs |-> runs]
NoUser == <<"idle", NoPlan>>

Init ==
    /\ scenario \in Scenarios
    /\ plan = [i \in Ids |-> IF i \in scenario.ids THEN FirstName ELSE NoPlan]
    /\ runs \in {[i \in Ids |-> i \in S] : S \in SUBSET scenario.ids} /\ up = TRUE
    /\ listed = plan /\ active = runs /\ haStopped = {}
    /\ unreachable = FALSE /\ grace = FALSE
    /\ fetch = Idle /\ fetchNewer = {} /\ fetchStale = FALSE
    /\ poll = Idle /\ pollNewer = {} /\ edit = NoPlan
    /\ wanted = "read" /\ pc = "idle" /\ todo = {} /\ current = NoPlan
    /\ judged = [i \in Ids |-> NoPlan] /\ autoStarted = {} /\ startedIn = {}
    /\ stopped = [i \in Ids |-> NoPlan] /\ known = stopped /\ unverified = [i \in Ids |-> "no"]
    /\ failed = [i \in Ids |-> 0] /\ suspended = {} /\ probation = {}
    /\ gap = {} /\ autoStart \in BOOLEAN /\ user = NoUser
    /\ lived = [i \in Ids |-> {}] /\ tries = [i \in Ids |-> 0]

-----------------------------------------------------------------------------
(* Comexio and the people at it                                                *)

StudioChanges(newPlan, newRuns) ==
    /\ up
    /\ plan' = newPlan /\ runs' = newRuns
    /\ lived' = [i \in Ids |-> IF unverified[i] = "no" THEN {} ELSE lived[i] \union ({newPlan[i]} \ {NoPlan})]
    /\ UNCHANGED <<up, cache, reach, requests, checking, verdict, others, tries>>

Stops(i) == "stops" \in scenario.may /\ runs[i] /\ StudioChanges(plan, [runs EXCEPT ![i] = FALSE])
Starts(i) == "stops" \in scenario.may /\ plan[i] # NoPlan /\ ~runs[i] /\ StudioChanges(plan, [runs EXCEPT ![i] = TRUE])
Deletes(i) ==
    /\ "reuse" \in scenario.may /\ plan[i] # NoPlan
    /\ StudioChanges([plan EXCEPT ![i] = NoPlan], [runs EXCEPT ![i] = FALSE])
\* The ID is given to another plan, or its plan renamed.
Creates(i, n) ==
    /\ "reuse" \in scenario.may /\ i \in scenario.ids /\ plan[i] # n
    /\ StudioChanges([plan EXCEPT ![i] = n], runs)

\* An outage: Comexio reboots, and starts its plans itself once it is up again.
GoesDown ==
    /\ "outage" \in scenario.may /\ up /\ up' = FALSE /\ runs' = [i \in Ids |-> FALSE]
    /\ UNCHANGED <<plan, cache, reach, requests, checking, verdict, others, history>>

ComesUp ==
    /\ ~up /\ up' = TRUE
    /\ runs' \in {[i \in Ids |-> i \in S] : S \in SUBSET {j \in Ids : plan[j] # NoPlan}}
    /\ UNCHANGED <<plan, cache, reach, requests, checking, verdict, others, history>>

-----------------------------------------------------------------------------
(* Time                                                                        *)

HAStopGraceEnds(i) ==
    /\ i \in haStopped /\ haStopped' = haStopped \ {i}
    /\ UNCHANGED <<world, listed, active, reach, requests, checking, verdict, others, history>>

BootGraceEnds ==
    /\ grace /\ grace' = FALSE
    /\ UNCHANGED <<world, cache, unreachable, requests, checking, verdict, others, history>>

RestopWindowEnds(i) ==
    /\ i \in probation /\ probation' = probation \ {i}
    /\ tries' = [tries EXCEPT ![i] = failed[i]]
    /\ UNCHANGED <<world, cache, reach, requests, checking, stopped, known, unverified, failed, suspended,
                   gap, others, lived>>

RetryGapEnds(i) ==
    /\ i \in gap /\ gap' = gap \ {i}
    /\ UNCHANGED <<world, cache, reach, requests, checking, stopped, known, unverified, failed, suspended,
                   probation, others, history>>

\* FUNCTION_PLAN_WATCHDOG_EXISTENCE_CHECK_MAX_SEC without a poll that read the list.
ExistenceCheckLapses(i) ==
    /\ unverified[i] = "seen" /\ unverified' = [unverified EXCEPT ![i] = "waited"]
    /\ UNCHANGED <<world, cache, reach, requests, checking, stopped, known, failed, suspended, probation,
                   gap, others, history>>

-----------------------------------------------------------------------------
(* Reading Comexio                                                             *)

NothingBlocks == FALSE
\* _plan_run_state_poll_blocked
PollBlocked == poll.asked

\* _watchdog_lock is held by a start until it is answered.
LockHeld == pc = "sent" \/ user[1] = "sent"

\* _plan_watch_blocked
WatchBlocked == LockHeld \/ PollBlocked

EditsRunning == edit # NoPlan \/ LockHeld

\* managed_plan_start_blocked
StartBlocked == WatchBlocked \/ EditsRunning

\* note_comexio_unreachable, unless another error.
FailedRequest ==
    \/ ~up /\ unreachable' = TRUE
    \/ "error" \in scenario.may /\ up /\ unreachable' \in {unreachable, TRUE}

\* _note_comexio_reachable: the first answer after an outage starts the boot grace.
Answered ==
    /\ unreachable' = FALSE
    /\ grace' = (grace \/ unreachable)

\* A tick of the run-state poll: _async_refresh_plan_run_states up to the request.
FetchBegins ==
    /\ ~fetch.asked /\ ~PollBlocked
    /\ IF \E i \in Ids : listed[i] # NoPlan
       THEN /\ fetch' = RunStates /\ fetchNewer' = {} /\ fetchStale' = FALSE
            /\ UNCHANGED wanted
       ELSE wanted' = "read" /\ UNCHANGED <<fetch, fetchNewer, fetchStale>>
    /\ UNCHANGED <<world, cache, reach, poll, pollNewer, pc, todo, current, judged, autoStarted,
                   startedIn, verdict, others, history>>

\* The states that were read when asked, or any time until now; a plan that is gone reads as
\* stopped. Dropped when the plan list was written meanwhile, and for a plan HA started or stopped.
FetchAnswers ==
    /\ fetch.asked /\ up
    /\ \E r \in {fetch, RunStates} :
          active' = IF fetchStale THEN active
                    ELSE [i \in Ids |-> IF i \in fetchNewer \/ listed[i] = NoPlan THEN active[i] ELSE r.runs[i]]
    /\ fetch' = Idle /\ fetchNewer' = {} /\ fetchStale' = FALSE
    /\ wanted' = "read" /\ Answered
    /\ UNCHANGED <<world, listed, haStopped, poll, pollNewer, pc, todo, current, judged,
                   autoStarted, startedIn, verdict, others, history>>

FetchFails ==
    /\ fetch.asked /\ FailedRequest
    /\ fetch' = Idle /\ fetchNewer' = {} /\ fetchStale' = FALSE
    /\ wanted' = IF wanted = "no" THEN "unread" ELSE wanted
    /\ UNCHANGED <<world, listed, active, haStopped, grace, poll, pollNewer, pc, todo, current,
                   judged, autoStarted, startedIn, verdict, others, history>>

\* A full poll: on its interval, after a first "stopped", after a refused start.
PollBegins ==
    /\ ~poll.asked
    /\ poll' = PlanList /\ pollNewer' = {}
    /\ UNCHANGED <<world, cache, reach, fetch, fetchNewer, fetchStale, checking, verdict, others, history>>

\* The generation of the plan list advances: what was read as stopped before it is verified.
PollReads ==
    /\ poll.asked /\ up
    /\ \E r \in {poll, PlanList} :
          /\ listed' = r.plan
          /\ active' = [i \in Ids |-> IF i \in pollNewer THEN active[i] ELSE r.runs[i]]
    /\ poll' = Idle /\ pollNewer' = {} /\ fetchStale' = fetch.asked
    /\ Answered
    /\ unverified' = [i \in Ids |-> IF unverified[i] = "seen" THEN "polled" ELSE unverified[i]]
    /\ UNCHANGED <<world, haStopped, fetch, fetchNewer, checking, stopped, known, failed, suspended, probation,
                   gap, others, history>>

\* The page is read but not its plan list.
PollUnread ==
    /\ "error" \in scenario.may /\ poll.asked /\ up
    /\ poll' = Idle /\ pollNewer' = {}
    /\ Answered
    /\ UNCHANGED <<world, listed, active, haStopped, fetch, fetchNewer, fetchStale, checking,
                   verdict, others, history>>

PollFails ==
    /\ poll.asked /\ FailedRequest
    /\ poll' = Idle /\ pollNewer' = {}
    /\ UNCHANGED <<world, cache, grace, fetch, fetchNewer, fetchStale, checking, verdict, others,
                   history>>

-----------------------------------------------------------------------------
(* A check: what is read once, then judged                                     *)

Unknown == "unknown"
Held == unreachable \/ grace
Watches(i) == <<i, listed[i]>> \in Watched

\* _watchdog_run_state
RunState(i) ==
    IF i \in haStopped THEN Unknown
    ELSE IF active[i] THEN "runs" ELSE "stops"

\* A plan read as stopped that is not reported yet is judged once its existence is checked.
Unreported(i) == RunState(i) = "stops" /\ stopped[i] = NoPlan
NeverVerified(i) == IF Unreported(i) THEN Unknown ELSE RunState(i)
Verified(i) ==
    IF Unreported(i) /\ unverified[i] \in {"no", "seen"} THEN Unknown ELSE RunState(i)

\* _watchdog_run_state_for
Reader(i) ==
    IF wanted = "unread" THEN Unknown
    ELSE IF Held THEN IF RunState(i) = "runs" THEN "runs" ELSE Unknown
    ELSE Verified(i)

\* next_stopped_plans: unknown keeps the verdict of the same plan.
NextStopped(i) ==
    IF Watches(i) /\ (Reader(i) = "stops" \/ (Reader(i) = Unknown /\ stopped[i] = listed[i]))
    THEN listed[i] ELSE NoPlan

SeenRunning(i) == Watches(i) /\ Reader(i) = "runs"

\* _forget_reassigned: an ID under another name than at the last check holds another plan.
Reassigned == {i \in Ids : Watches(i) /\ known[i] \notin {NoPlan, listed[i]}}

\* _track_running
Lifted == {i \in Ids : ~Watches(i) \/ SeenRunning(i)}
Healthy == {i \in Ids : ~Watches(i) \/ (SeenRunning(i) /\ i \notin probation)}
Cleared == (Lifted \intersect suspended) \union Healthy \union Reassigned

\* async_check up to the first start: the states are read once.
CheckBegins ==
    /\ pc = "idle" /\ wanted # "no" /\ ~WatchBlocked
    /\ unverified' = [i \in Ids |->
          IF ~Watches(i) THEN "no"
          ELSE IF wanted = "unread" \/ Held THEN unverified[i]
          ELSE IF ~Unreported(i) THEN "no"
          ELSE IF unverified[i] = "no" THEN "seen" ELSE unverified[i]]
    /\ lived' = [i \in Ids |->
          IF unverified'[i] = "no" THEN {}
          ELSE IF unverified[i] = "no" THEN {plan[i]} \ {NoPlan} ELSE lived[i]]
    /\ judged' = [i \in Ids |-> NextStopped(i)]
    /\ known' = [i \in Ids |-> IF Watches(i) THEN listed[i] ELSE NoPlan]
    /\ suspended' = suspended \ (Lifted \union Reassigned)
    /\ probation' = probation \ Cleared
    /\ failed' = [i \in Ids |-> IF i \in Cleared THEN 0 ELSE failed[i]]
    /\ tries' = [i \in Ids |-> IF i \in Cleared THEN 0 ELSE tries[i]]
    /\ gap' = gap \ (Lifted \union Reassigned)
    /\ todo' = {i \in Ids : NextStopped(i) # NoPlan /\ autoStart /\ wanted = "read"
                                /\ ~Held /\ ~EditsRunning}
    /\ pc' = "starts" /\ wanted' = "no" /\ autoStarted' = {} /\ startedIn' = {}
    /\ UNCHANGED <<world, cache, reach, requests, current, stopped, others>>

\* Blocked when it came, or once it got the check lock.
CheckSkipped ==
    /\ pc = "idle" /\ wanted # "no" /\ WatchBlocked
    /\ wanted' = "no"
    /\ UNCHANGED <<world, cache, reach, requests, pc, todo, current, judged, autoStarted, startedIn,
                   verdict, others, history>>

\* _count_failed_start
CountFailed(i) ==
    /\ failed' = [failed EXCEPT ![i] = @ + 1]
    /\ suspended' = IF failed[i] + 1 >= MaxFailed THEN suspended \union {i} ELSE suspended

\* _auto_start_due: a stop within the window of its own start is a failed start.
StoppedAgain(i) == i \in probation
GivesUp(i) == StoppedAgain(i) /\ failed[i] + 1 >= MaxFailed
Due(i) ==
    /\ i \notin suspended /\ ~GivesUp(i)
    /\ i \notin startedIn /\ autoStart
    /\ i \notin gap

ForgetStoppedAgain(i) == probation' = probation \ {i} /\ UNCHANGED <<failed, suspended>>
CountStoppedAgain(i) ==
    /\ probation' = probation \ {i}
    /\ IF StoppedAgain(i) THEN CountFailed(i) ELSE UNCHANGED <<failed, suspended>>

\* The next plan of _async_auto_start: not due, held back, or its start sent.
StartSkipped(i) ==
    /\ pc = "starts" /\ i \in todo /\ ~Due(i)
    /\ CountStoppedAgain(i) /\ todo' = todo \ {i}
    /\ UNCHANGED <<world, cache, reach, requests, wanted, pc, current, judged, autoStarted, startedIn,
                   stopped, known, unverified, gap, others, history>>

StartDeferred(i) ==
    /\ pc = "starts" /\ i \in todo /\ Due(i) /\ (Held \/ StartBlocked)
    /\ CountStoppedAgain(i) /\ todo' = todo \ {i}
    /\ gap' = gap \union {i}
    /\ UNCHANGED <<world, cache, reach, requests, wanted, pc, current, judged, autoStarted, startedIn,
                   stopped, known, unverified, others, history>>

StartSent(i) ==
    /\ pc = "starts" /\ i \in todo /\ Due(i) /\ ~Held /\ ~StartBlocked
    /\ CountStoppedAgain(i)
    /\ todo' = todo \ {i} /\ pc' = "sent" /\ current' = i
    /\ UNCHANGED <<world, cache, reach, requests, wanted, judged, autoStarted, startedIn,
                   stopped, known, unverified, gap, others, history>>

\* set_fub_active(TRUE): newer than any answer asked before it.
MarkRunning(i) ==
    /\ active' = [active EXCEPT ![i] = listed[i] # NoPlan]
    /\ haStopped' = haStopped \ {i}
    /\ fetchNewer' = IF fetch.asked THEN fetchNewer \union {i} ELSE fetchNewer
    /\ pollNewer' = IF poll.asked THEN pollNewer \union {i} ELSE pollNewer

StartBody(i) ==
    /\ pc = "sent" /\ current = i /\ pc' = "starts" /\ current' = NoPlan
    /\ UNCHANGED <<plan, up, listed, reach, fetch, fetchStale, poll, wanted, todo,
                   judged, startedIn, stopped, known, unverified, others, lived>>

StartConfirmed(i) ==
    /\ StartBody(i) /\ up /\ plan[i] # NoPlan
    /\ runs' = [runs EXCEPT ![i] = TRUE] /\ MarkRunning(i)
    /\ IF i \in startedIn THEN UNCHANGED <<probation, autoStarted, tries>>
       ELSE /\ probation' = probation \union {i} /\ autoStarted' = autoStarted \union {i}
            /\ tries' = [tries EXCEPT ![i] = @ + 1]
    /\ UNCHANGED <<failed, suspended, gap>>

StartRefused(i) ==
    /\ StartBody(i) /\ up /\ (plan[i] = NoPlan \/ ~runs[i])
    /\ IF i \in startedIn THEN UNCHANGED <<gap, failed, suspended, tries>>
       ELSE /\ gap' = gap \union {i} /\ CountFailed(i)
            /\ tries' = [tries EXCEPT ![i] = @ + 1]
    /\ UNCHANGED <<runs, active, haStopped, fetchNewer, pollNewer, probation, autoStarted>>

\* No usable answer; the plan may have been started all the same.
StartUnanswered(i) ==
    /\ StartBody(i)
    /\ \/ ~up /\ UNCHANGED runs
       \/ "error" \in scenario.may /\ up /\ runs' \in {runs, [runs EXCEPT ![i] = plan[i] # NoPlan]}
    /\ gap' = IF i \in startedIn THEN gap ELSE gap \union {i}
    /\ UNCHANGED <<active, haStopped, fetchNewer, pollNewer, probation, autoStarted, failed,
                   suspended, tries>>

\* What remains stopped is reported, without what was started meanwhile.
CheckEnds ==
    /\ pc = "starts" /\ todo = {} /\ pc' = "idle"
    /\ stopped' = [i \in Ids |-> IF i \in autoStarted \union startedIn THEN NoPlan ELSE judged[i]]
    /\ judged' = [i \in Ids |-> NoPlan] /\ autoStarted' = {} /\ startedIn' = {}
    /\ UNCHANGED <<world, cache, reach, requests, wanted, todo, current, known, unverified, failed,
                   suspended,
                   probation, gap, others, history>>

-----------------------------------------------------------------------------
(* A user starts a stopped plan, flips the switch; HA stops plans itself       *)

\* async_start_managed_plan: looked at before the login and after it.
UserStarts(i) ==
    /\ "user" \in scenario.may /\ user = NoUser /\ stopped[i] # NoPlan /\ ~StartBlocked
    /\ user' = <<"login", i>>
    /\ UNCHANGED <<world, cache, reach, requests, checking, verdict, edit, autoStart, scenario, history>>

UserLoggedIn(i) ==
    /\ user = <<"login", i>>
    /\ user' = IF StartBlocked \/ ~up THEN NoUser ELSE <<"sent", i>>
    /\ UNCHANGED <<world, cache, reach, requests, checking, verdict, edit, autoStart, scenario, history>>

\* async_plan_started; the fetch that follows is the next FetchBegins.
UserStarted(i) ==
    /\ user = <<"sent", i>> /\ up /\ plan[i] # NoPlan /\ user' = NoUser
    /\ runs' = [runs EXCEPT ![i] = TRUE] /\ MarkRunning(i)
    /\ probation' = IF i \in autoStarted THEN probation ELSE probation \ {i}
    /\ startedIn' = IF pc # "idle" THEN startedIn \union {i} ELSE startedIn
    /\ stopped' = [stopped EXCEPT ![i] = NoPlan]
    /\ tries' = IF i \in autoStarted THEN tries ELSE [tries EXCEPT ![i] = failed[i]]
    /\ UNCHANGED <<plan, up, listed, reach, fetch, fetchStale, poll, wanted, pc, todo,
                   current, judged, autoStarted, known, unverified, failed, suspended, gap,
                   edit, autoStart, scenario, lived>>

UserStartFails(i) ==
    /\ user = <<"sent", i>> /\ user' = NoUser
    /\ \/ UNCHANGED runs /\ (~up \/ plan[i] = NoPlan \/ ~runs[i])
       \/ up /\ plan[i] # NoPlan /\ runs' = [runs EXCEPT ![i] = TRUE]
    /\ UNCHANGED <<plan, up, cache, reach, requests, checking, verdict, edit, autoStart, scenario, history>>

\* Turning it on asks for a check when plans are known to be stopped.
FlipSwitch ==
    /\ "switch" \in scenario.may /\ autoStart' = ~autoStart
    /\ wanted' = IF ~autoStart /\ (\E i \in Ids : stopped[i] # NoPlan) THEN "read" ELSE wanted
    /\ UNCHANGED <<world, cache, reach, requests, pc, todo, current, judged, autoStarted, startedIn,
                   verdict, edit, scenario, user, history>>

\* A sort, a restore or the cascade stops a plan (set_fub_active FALSE) and starts it again, or fails to.
EditStops(i) ==
    /\ "edit" \in scenario.may /\ edit = NoPlan /\ ~LockHeld /\ up /\ runs[i]
    /\ edit' = i /\ runs' = [runs EXCEPT ![i] = FALSE]
    /\ active' = [active EXCEPT ![i] = FALSE] /\ haStopped' = haStopped \union {i}
    /\ fetchNewer' = IF fetch.asked THEN fetchNewer \union {i} ELSE fetchNewer
    /\ pollNewer' = IF poll.asked THEN pollNewer \union {i} ELSE pollNewer
    /\ UNCHANGED <<plan, up, listed, reach, fetch, fetchStale, poll, checking, verdict,
                   autoStart, scenario, user, lived, tries>>

EditEnds(i) ==
    /\ edit = i /\ edit' = NoPlan
    /\ \/ /\ up /\ plan[i] # NoPlan /\ runs' = [runs EXCEPT ![i] = TRUE] /\ MarkRunning(i)
       \/ UNCHANGED <<runs, active, haStopped, fetchNewer, pollNewer>>
    /\ UNCHANGED <<plan, up, listed, reach, fetch, fetchStale, poll, checking, verdict,
                   autoStart, scenario, user, history>>

-----------------------------------------------------------------------------

Studio == \E i \in Ids : Stops(i) \/ Starts(i) \/ Deletes(i) \/ \E n \in Names : Creates(i, n)

Time ==
    \/ BootGraceEnds
    \/ \E i \in Ids : HAStopGraceEnds(i) \/ RestopWindowEnds(i) \/ RetryGapEnds(i) \/ ExistenceCheckLapses(i)

FetchEnds == FetchAnswers \/ FetchFails
PollEnds == PollReads \/ PollUnread \/ PollFails

StartAnswered(i) == StartConfirmed(i) \/ StartRefused(i) \/ StartUnanswered(i)

CheckGoesOn == CheckSkipped \/ CheckEnds \/ \E i \in Ids : StartSkipped(i) \/ StartDeferred(i) \/ StartSent(i)
CheckAnswered == \E i \in Ids : StartAnswered(i)
UserGoesOn == \E i \in Ids : UserLoggedIn(i) \/ UserStarted(i) \/ UserStartFails(i)

\* A check runs without an await from the answer that asks for it to its first start, from each
\* start's answer to the next start, and to its end.
Running == pc = "starts" \/ (pc = "idle" /\ wanted # "no")

Elsewhere ==
    \/ Studio \/ GoesDown \/ ComesUp \/ Time
    \/ FetchBegins \/ FetchEnds \/ PollBegins \/ PollEnds
    \/ CheckAnswered \/ UserGoesOn \/ FlipSwitch
    \/ \E i \in Ids : UserStarts(i) \/ EditStops(i) \/ EditEnds(i)

Next ==
    \/ CheckBegins \/ CheckGoesOn
    \/ ~Running /\ Elsewhere

Spec == Init /\ [][Next]_vars

\* Timers tick, and requests end, in the end with an answer while Comexio is up. A poll lasts
\* or a start lasts seconds and the timers fire every minute, so not every fetch meets one.
\* Nobody has to use Studio, the switch or a repair.
FairSpec ==
    /\ Spec
    /\ \A i \in Ids : WF_vars(HAStopGraceEnds(i)) /\ WF_vars(RestopWindowEnds(i)) /\ WF_vars(RetryGapEnds(i))
                      /\ WF_vars(ExistenceCheckLapses(i)) /\ WF_vars(EditEnds(i))
    /\ WF_vars(BootGraceEnds) /\ WF_vars(ComesUp)
    /\ SF_vars(~WatchBlocked /\ FetchBegins) /\ WF_vars(FetchEnds) /\ SF_vars(~WatchBlocked /\ FetchAnswers)
    /\ WF_vars(PollBegins) /\ WF_vars(PollEnds) /\ SF_vars(PollReads)
    /\ WF_vars(CheckBegins) /\ WF_vars(CheckGoesOn) /\ WF_vars(CheckAnswered)
    /\ WF_vars(UserGoesOn)

\* A plan that was deleted before it was first read as stopped is never reported as stopped: what
\* is reported after a poll verified it held its ID then or later (_watchdog_verified_run_state).
DeletedNotReported ==
    [][\A i \in Ids :
          stopped[i] = NoPlan /\ stopped'[i] # NoPlan /\ unverified[i] = "polled"
              => stopped'[i] \in lived[i]]_vars

\* Auto-start sends no plan more starts than it may fail, until the plan is seen running, kept
\* running for the window, was started by a user or gave its ID away (_count_failed_start).
AutoStartGivesUp == \A i \in Ids : tries[i] <= MaxFailed

\* However reads, starts, outages and edits went: a watched plan that stays stopped is reported
\* in the end, and one that stays running is neither reported nor given up on. Outages must end:
\* each one starts the boot grace anew, in which nothing is reported.
Reached == up /\ ~unreachable
VerdictSettles ==
    \A i \in Ids :
        /\ \A n \in Names :
              <>[](Reached /\ plan[i] = n /\ ~runs[i] /\ <<i, n>> \in Watched) => <>[](stopped[i] = n)
        /\ <>[](Reached /\ runs[i]) => <>[](stopped[i] = NoPlan /\ i \notin suspended)

=============================================================================
