------------------------- MODULE PlanWatchdogProofs -------------------------
(* The watchdog, for any number of plans, any names and picks: first its       *)
(* verdict and the auto-start, then the plans that vanished.                   *)
(*                                                                             *)
(* Auto-start gives up on a plan after MaxFailed failed starts, whatever       *)
(* fetches, polls, users, edits, outages and timers do between its starts.     *)
(*                                                                             *)
(* A start that was confirmed is not counted as failed yet: it is on probation *)
(* and counts when the plan is read as stopped again. What makes the bound     *)
(* inductive is that the two never add up to more, and that no start is under  *)
(* way for a plan that is on probation or that auto-start gave up on.          *)
EXTENDS PlanWatchdog, VanishedPlans, SequenceTheorems, TLAPS

\* What the bound is about; every other variable may change freely.
slate == <<failed, suspended, probation, tries, pc, current>>

SlateType ==
    /\ failed \in [Ids -> Nat] /\ tries \in [Ids -> Nat]
    /\ todo \subseteq Ids

\* Each start since the slate was clean has failed or is still on probation.
StartsCounted ==
    \A i \in Ids : tries[i] <= failed[i] + (IF i \in probation THEN 1 ELSE 0)

\* A plan on probation has a failure left, one without any is given up on.
FailuresBounded ==
    \A i \in Ids : /\ failed[i] <= MaxFailed
                   /\ i \in probation => failed[i] < MaxFailed
                   /\ failed[i] = MaxFailed => i \in suspended

\* No start is under way for a plan that is on probation or given up on.
StartInTurn == pc = "sent" => current \notin suspended \union probation

Inv == SlateType /\ StartsCounted /\ FailuresBounded /\ StartInTurn

-----------------------------------------------------------------------------

LEMMA InvInit == ASSUME Init PROVE Inv
BY WatchdogAssumption
   DEF Init, Inv, SlateType, StartsCounted, FailuresBounded, StartInTurn

\* A step that leaves the slate alone, and only takes plans from the list of starts.
LEMMA SlateKept ==
    ASSUME Inv, UNCHANGED slate, todo' \subseteq Ids PROVE Inv'
BY DEF slate, Inv, SlateType, StartsCounted, FailuresBounded, StartInTurn

\* What Studio, outages, most timers, the requests and the edits do.
LEMMA KeepsElsewhere ==
    ASSUME Inv,
           \/ Studio \/ GoesDown \/ ComesUp
           \/ BootGraceEnds \/ \E i \in Ids : HAStopGraceEnds(i) \/ RetryGapEnds(i) \/ ExistenceCheckLapses(i)
           \/ FetchBegins \/ FetchEnds \/ PollBegins \/ PollEnds \/ FlipSwitch
           \/ \E i \in Ids : UserStarts(i) \/ EditStops(i) \/ EditEnds(i)
    PROVE  Inv'
<1>1. ASSUME Studio PROVE UNCHANGED <<slate, todo>>
  BY <1>1 DEF Studio, Stops, Starts, Deletes, Creates, StudioChanges, slate, checking, verdict
<1>2. ASSUME GoesDown \/ ComesUp \/ BootGraceEnds PROVE UNCHANGED <<slate, todo>>
  BY <1>2 DEF GoesDown, ComesUp, BootGraceEnds, slate, checking, verdict, history
<1>3. ASSUME NEW i \in Ids, HAStopGraceEnds(i) \/ RetryGapEnds(i) \/ ExistenceCheckLapses(i)
      PROVE  UNCHANGED <<slate, todo>>
  BY <1>3 DEF HAStopGraceEnds, RetryGapEnds, ExistenceCheckLapses, slate, checking, verdict, history
<1>4. ASSUME FetchBegins \/ FetchEnds \/ FlipSwitch PROVE UNCHANGED <<slate, todo>>
  BY <1>4 DEF FetchBegins, FetchEnds, FetchAnswers, FetchFails, FlipSwitch, slate, verdict, history
<1>5. ASSUME PollBegins \/ PollEnds PROVE UNCHANGED <<slate, todo>>
  BY <1>5 DEF PollBegins, PollEnds, PollReads, PollUnread, PollFails, slate, checking, verdict, history
<1>6. ASSUME NEW i \in Ids, UserStarts(i) \/ EditStops(i) \/ EditEnds(i)
      PROVE  UNCHANGED <<slate, todo>>
  BY <1>6 DEF UserStarts, EditStops, EditEnds, slate, checking, verdict, history
<1> QED
  BY <1>1, <1>2, <1>3, <1>4, <1>5, <1>6, SlateKept DEF Inv, SlateType

\* The window in which a stop counts as a failed start ends: the start was good.
LEMMA KeepsWindow ==
    ASSUME Inv, NEW i \in Ids, RestopWindowEnds(i) PROVE Inv'
BY DEF Inv, SlateType, StartsCounted, FailuresBounded, StartInTurn, RestopWindowEnds, checking

\* A user's start takes the plan's start off probation, but for one of the same check.
LEMMA KeepsUser ==
    ASSUME Inv, UserGoesOn PROVE Inv'
<1>1. PICK i \in Ids : UserLoggedIn(i) \/ UserStarted(i) \/ UserStartFails(i)
  BY DEF UserGoesOn
<1>2. CASE UserLoggedIn(i) \/ UserStartFails(i)
  <2>1. UNCHANGED <<slate, todo>>
    BY <1>2 DEF UserLoggedIn, UserStartFails, slate, checking, verdict, history
  <2> QED
    BY <2>1, SlateKept DEF Inv, SlateType
<1>3. CASE UserStarted(i)
  BY <1>3 DEF Inv, SlateType, StartsCounted, FailuresBounded, StartInTurn, UserStarted
<1> QED
  BY <1>1, <1>2, <1>3

-----------------------------------------------------------------------------
(* The check                                                                   *)

\* A clean slate is clean of starts and failures; only a plan with one stays given up on.
LEMMA KeepsBegin ==
    ASSUME Inv, CheckBegins PROVE Inv'
<1> USE WatchdogAssumption
<1>1. /\ failed' = [i \in Ids |-> IF i \in Cleared THEN 0 ELSE failed[i]]
      /\ tries' = [i \in Ids |-> IF i \in Cleared THEN 0 ELSE tries[i]]
      /\ suspended' = suspended \ (Lifted \union Reassigned) /\ probation' = probation \ Cleared
      /\ pc' = "starts" /\ todo' \subseteq Ids
  BY DEF CheckBegins
<1>2. ASSUME NEW i \in Ids, i \in suspended, i \notin suspended' PROVE i \in Cleared
  BY <1>1, <1>2 DEF Cleared
<1> QED
  BY <1>1, <1>2 DEF Inv, SlateType, StartsCounted, FailuresBounded, StartInTurn

\* A stop within the window is counted: the start it follows is on probation no longer.
LEMMA CountsStop ==
    ASSUME Inv, NEW i \in Ids, CountStoppedAgain(i), UNCHANGED tries
    PROVE  /\ failed' \in [Ids -> Nat] /\ StartsCounted' /\ FailuresBounded'
           /\ probation' = probation \ {i}
           /\ ~GivesUp(i) /\ i \notin suspended => i \notin suspended'
BY WatchdogAssumption
   DEF Inv, SlateType, StartsCounted, FailuresBounded, CountStoppedAgain, CountFailed, StoppedAgain, GivesUp

\* The next plan: not due, held back, or its start is sent.
LEMMA KeepsNext ==
    ASSUME Inv, NEW i \in Ids, StartSkipped(i) \/ StartDeferred(i) \/ StartSent(i) PROVE Inv'
<1>1. CountStoppedAgain(i) /\ UNCHANGED tries /\ todo' = todo \ {i} /\ pc = "starts"
  BY DEF StartSkipped, StartDeferred, StartSent, history
<1>2. /\ failed' \in [Ids -> Nat] /\ StartsCounted' /\ FailuresBounded'
      /\ probation' = probation \ {i}
      /\ ~GivesUp(i) /\ i \notin suspended => i \notin suspended'
  BY <1>1, CountsStop
<1>3. CASE StartSkipped(i) \/ StartDeferred(i)
  <2>1. pc' = "starts"
    BY <1>1, <1>3 DEF StartSkipped, StartDeferred
  <2> QED
    BY <1>1, <1>2, <2>1 DEF Inv, SlateType, StartInTurn
<1>4. CASE StartSent(i)
  <2>1. current' = i /\ ~GivesUp(i) /\ i \notin suspended
    BY <1>4 DEF StartSent, Due
  <2> QED
    BY <1>1, <1>2, <2>1 DEF Inv, SlateType, StartInTurn
<1> QED
  BY <1>3, <1>4

\* A start is answered: confirmed and on probation, refused and failed, or not known.
LEMMA KeepsAnswer ==
    ASSUME Inv, NEW i \in Ids, StartAnswered(i) PROVE Inv'
<1>1. /\ i \notin suspended /\ i \notin probation
      /\ pc' = "starts" /\ UNCHANGED todo
  BY DEF Inv, StartInTurn, StartAnswered, StartConfirmed, StartRefused, StartUnanswered, StartBody
<1>2. failed[i] < MaxFailed /\ tries[i] <= failed[i]
  BY <1>1, WatchdogAssumption DEF Inv, SlateType, FailuresBounded, StartsCounted
<1>3. CASE StartConfirmed(i)
  BY <1>1, <1>2, <1>3, WatchdogAssumption
     DEF StartConfirmed, Inv, SlateType, StartsCounted, FailuresBounded, StartInTurn
<1>4. CASE StartRefused(i)
  <2>1. UNCHANGED probation
    BY <1>4 DEF StartRefused
  <2>2. CASE i \in startedIn
    BY <1>1, <1>4, <2>1, <2>2
       DEF StartRefused, Inv, SlateType, StartsCounted, FailuresBounded, StartInTurn
  <2>3. CASE i \notin startedIn
    BY <1>1, <1>2, <1>4, <2>1, <2>3, WatchdogAssumption
       DEF StartRefused, CountFailed, Inv, SlateType, StartsCounted, FailuresBounded, StartInTurn
  <2> QED
    BY <2>2, <2>3
<1>5. CASE StartUnanswered(i)
  BY <1>1, <1>5 DEF StartUnanswered, Inv, SlateType, StartsCounted, FailuresBounded, StartInTurn
<1> QED
  BY <1>3, <1>4, <1>5 DEF StartAnswered

LEMMA KeepsCheck ==
    ASSUME Inv, CheckSkipped \/ CheckEnds PROVE Inv'
<1>1. pc' = "idle" \/ UNCHANGED pc
  BY DEF CheckSkipped, CheckEnds
<1>2. UNCHANGED <<failed, suspended, probation, tries, current, todo>>
  BY DEF CheckSkipped, CheckEnds, verdict, history
<1> QED
  BY <1>1, <1>2 DEF Inv, SlateType, StartsCounted, FailuresBounded, StartInTurn

-----------------------------------------------------------------------------

LEMMA InvNext == ASSUME Inv, [Next]_vars PROVE Inv'
<1>1. CASE UNCHANGED vars
  <2>1. UNCHANGED <<slate, todo>>
    BY <1>1 DEF vars, checking, verdict, history, slate
  <2> QED
    BY <2>1, SlateKept DEF Inv, SlateType
<1>2. CASE CheckBegins
  BY <1>2, KeepsBegin
<1>3. CASE CheckGoesOn
  BY <1>3, KeepsCheck, KeepsNext DEF CheckGoesOn
<1>4. CASE Elsewhere
  <2>1. CASE \E i \in Ids : RestopWindowEnds(i)
    BY <2>1, KeepsWindow
  <2>2. CASE CheckAnswered
    BY <2>2, KeepsAnswer DEF CheckAnswered
  <2>3. CASE UserGoesOn
    BY <2>3, KeepsUser
  <2> QED
    BY <1>4, <2>1, <2>2, <2>3, KeepsElsewhere DEF Elsewhere, Time
<1> QED
  BY <1>1, <1>2, <1>3, <1>4 DEF Next

\* Auto-start sends no plan more starts than it may fail, until its slate is clean
\* (_count_failed_start, _auto_start_due): for any set of plans and any limit.
THEOREM StartsAreBounded == Spec => []AutoStartGivesUp
<1>1. ASSUME Inv PROVE AutoStartGivesUp
  BY <1>1, WatchdogAssumption
     DEF Inv, SlateType, StartsCounted, FailuresBounded, AutoStartGivesUp
<1>2. Init => Inv
  BY InvInit
<1>3. Inv /\ [Next]_vars => Inv'
  BY InvNext
<1> QED
  BY <1>1, <1>2, <1>3, PTL DEF Spec

-----------------------------------------------------------------------------
(* A plan that was deleted before it was first read as stopped is not reported *)
(* as stopped once a poll verified it. Whatever the check may take from the    *)
(* plan list is a name the ID held since: no poll is asked while a check       *)
(* begins, so each one that verifies was asked since.                          *)

HeldSince(i, n) == n \in lived[i] \union {NoPlan}

LivedType ==
    /\ DOMAIN plan = Ids /\ DOMAIN stopped = Ids
    /\ unverified \in [Ids -> {"no", "seen", "polled", "waited"}]

\* What Comexio holds, a poll under way reads and a poll since has listed.
NamesSince ==
    \A i \in Ids :
        /\ unverified[i] # "no" => HeldSince(i, plan[i])
        /\ unverified[i] # "no" /\ poll.asked => HeldSince(i, poll.plan[i])
        /\ unverified[i] = "polled" => HeldSince(i, listed[i])

\* What the running check is about to report was verified before it began.
JudgedSince ==
    \A i \in Ids :
        pc # "idle" /\ judged[i] # NoPlan /\ stopped[i] = NoPlan /\ i \notin startedIn
            => /\ unverified[i] \in {"polled", "waited"}
               /\ unverified[i] = "polled" => judged[i] \in lived[i]

LInv == LivedType /\ NamesSince /\ JudgedSince

\* What a step leaves alone that neither reads the plan list nor judges.
names == <<plan, listed, poll, stopped, unverified, judged, startedIn, lived>>

LEMMA LInvInit == ASSUME Init PROVE LInv
BY DEF Init, LInv, LivedType, NamesSince, JudgedSince, Idle

LEMMA NamesKept ==
    ASSUME LInv, UNCHANGED names, (pc' = "idle") = (pc = "idle") PROVE LInv'
BY DEF names, LInv, LivedType, NamesSince, JudgedSince, HeldSince

\* What users, outages, timers, fetches, edits and starts do.
LEMMA LivedElsewhere ==
    ASSUME LInv,
           \/ GoesDown \/ ComesUp \/ BootGraceEnds
           \/ \E i \in Ids : HAStopGraceEnds(i) \/ RestopWindowEnds(i) \/ RetryGapEnds(i)
           \/ FetchBegins \/ FetchEnds \/ PollUnread \/ PollFails \/ FlipSwitch \/ CheckAnswered \/ CheckSkipped
           \/ \E i \in Ids : UserStarts(i) \/ UserLoggedIn(i) \/ UserStartFails(i) \/ EditStops(i) \/ EditEnds(i)
           \/ \E i \in Ids : StartSkipped(i) \/ StartDeferred(i) \/ StartSent(i)
           \/ UNCHANGED vars
    PROVE  LInv' /\ UNCHANGED stopped
<1>1. ASSUME GoesDown \/ ComesUp \/ BootGraceEnds PROVE UNCHANGED <<names, pc>>
  BY <1>1 DEF GoesDown, ComesUp, BootGraceEnds, names, world, cache, requests, checking, verdict, history
<1>2. ASSUME NEW i \in Ids, HAStopGraceEnds(i) \/ RestopWindowEnds(i) \/ RetryGapEnds(i)
      PROVE  UNCHANGED <<names, pc>>
  BY <1>2 DEF HAStopGraceEnds, RestopWindowEnds, RetryGapEnds, names, world, cache, requests, checking, verdict, history
<1>3. ASSUME FetchBegins \/ FetchEnds \/ FlipSwitch \/ CheckSkipped PROVE UNCHANGED <<names, pc>>
  <2>1. CASE FetchBegins
    BY <2>1 DEF FetchBegins, names, world, cache, verdict, history
  <2>2. CASE FetchEnds
    BY <2>2 DEF FetchEnds, FetchAnswers, FetchFails, names, world, verdict, history
  <2>3. CASE FlipSwitch \/ CheckSkipped
    BY <2>3 DEF FlipSwitch, CheckSkipped, names, world, cache, requests, verdict, history
  <2> QED
    BY <1>3, <2>1, <2>2, <2>3
<1>4. ASSUME PollUnread \/ PollFails
      PROVE  poll' = Idle /\ UNCHANGED <<plan, listed, stopped, unverified, judged, startedIn, lived, pc>>
  BY <1>4 DEF PollUnread, PollFails, world, cache, checking, verdict, history
<1>5. ASSUME NEW i \in Ids, StartAnswered(i) \/ StartSkipped(i) \/ StartDeferred(i) \/ StartSent(i)
      PROVE  UNCHANGED names /\ pc # "idle" /\ pc' # "idle"
  BY <1>5 DEF StartAnswered, StartConfirmed, StartRefused, StartUnanswered, StartBody, MarkRunning, StartSkipped,
     StartDeferred, StartSent, names, world, cache, requests, history
<1>6. ASSUME NEW i \in Ids, UserStarts(i) \/ UserLoggedIn(i) \/ UserStartFails(i) \/ EditStops(i) \/ EditEnds(i)
      PROVE  UNCHANGED <<names, pc>>
  <2>1. CASE UserStarts(i) \/ UserLoggedIn(i)
    BY <2>1 DEF UserStarts, UserLoggedIn, names, world, cache, requests, checking, verdict, history
  <2>2. CASE UserStartFails(i)
    BY <2>2 DEF UserStartFails, names, cache, requests, checking, verdict, history
  <2>3. CASE EditStops(i)
    BY <2>3 DEF EditStops, names, checking, verdict
  <2>4. CASE EditEnds(i)
    BY <2>4 DEF EditEnds, MarkRunning, names, checking, verdict, history
  <2> QED
    BY <1>6, <2>1, <2>2, <2>3, <2>4
<1>7. ASSUME UNCHANGED vars PROVE UNCHANGED <<names, pc>>
  BY <1>7 DEF vars, names, world, cache, requests, checking, verdict, history
<1>8. ASSUME PollUnread \/ PollFails PROVE LInv' /\ UNCHANGED stopped
  BY <1>4, <1>8 DEF LInv, LivedType, NamesSince, JudgedSince, HeldSince, Idle
<1>9. CASE PollUnread \/ PollFails
  BY <1>8, <1>9
<1>10. CASE \E i \in Ids : StartAnswered(i) \/ StartSkipped(i) \/ StartDeferred(i) \/ StartSent(i)
  BY <1>5, <1>10, NamesKept DEF names
<1>11. CASE UNCHANGED <<names, pc>>
  BY <1>11, NamesKept DEF names
<1> QED
  BY <1>1, <1>2, <1>3, <1>6, <1>7, <1>9, <1>10, <1>11 DEF CheckAnswered

\* Studio: a new name of an ID joins those it held.
LEMMA LivedStudio ==
    ASSUME LInv, Studio PROVE LInv' /\ UNCHANGED stopped
<1>1. PICK newPlan, newRuns : DOMAIN newPlan = Ids /\ StudioChanges(newPlan, newRuns)
  BY DEF Studio, Stops, Starts, Deletes, Creates, LInv, LivedType
<1>2. /\ plan' = newPlan /\ UNCHANGED <<listed, poll, stopped, unverified, judged, startedIn, pc>>
      /\ lived' = [i \in Ids |-> IF unverified[i] = "no" THEN {} ELSE lived[i] \union ({newPlan[i]} \ {NoPlan})]
  BY <1>1 DEF StudioChanges, cache, requests, checking, verdict
<1> QED
  BY <1>1, <1>2 DEF LInv, LivedType, NamesSince, JudgedSince, HeldSince

\* A poll begins: it may read what Comexio holds. Or it reads the list.
LEMMA LivedPolls ==
    ASSUME LInv, PollBegins \/ PollReads PROVE LInv' /\ UNCHANGED stopped
<1>1. CASE PollBegins
  <2>1. /\ poll'.plan = plan /\ UNCHANGED <<plan, listed, stopped, unverified, judged, startedIn, lived, pc>>
    BY <1>1 DEF PollBegins, PlanList, world, cache, checking, verdict, history
  <2> QED
    BY <2>1 DEF LInv, LivedType, NamesSince, JudgedSince, HeldSince
<1>2. CASE PollReads
  <2>1. /\ poll.asked /\ listed' \in {poll.plan, plan} /\ ~poll'.asked
        /\ UNCHANGED <<plan, stopped, judged, startedIn, lived, pc>>
        /\ unverified' = [i \in Ids |-> IF unverified[i] = "seen" THEN "polled" ELSE unverified[i]]
    BY <1>2 DEF PollReads, PlanList, Idle, world, checking, history
  <2>2. /\ NamesSince'
    BY <2>1 DEF LInv, LivedType, NamesSince, HeldSince
  <2> QED
    BY <2>1, <2>2 DEF LInv, LivedType, JudgedSince
<1> QED
  BY <1>1, <1>2

\* The wait for a poll lapses; a user's start is answered.
LEMMA LivedUser ==
    ASSUME LInv, NEW i \in Ids, ExistenceCheckLapses(i) \/ UserStarted(i)
    PROVE  LInv' /\ \A j \in Ids : stopped'[j] \in {stopped[j], NoPlan}
<1>1. CASE ExistenceCheckLapses(i)
  BY <1>1 DEF ExistenceCheckLapses, LInv, LivedType, NamesSince, JudgedSince, HeldSince, world, cache, requests,
     checking, history
<1>2. CASE UserStarted(i)
  <2>1. /\ UNCHANGED <<plan, listed, poll, unverified, judged, lived, pc>>
        /\ stopped' = [stopped EXCEPT ![i] = NoPlan]
        /\ startedIn' = IF pc # "idle" THEN startedIn \union {i} ELSE startedIn
    BY <1>2 DEF UserStarted
  <2> QED
    BY <2>1 DEF LInv, LivedType, NamesSince, JudgedSince, HeldSince
<1> QED
  BY <1>1, <1>2

\* A check begins: no poll is on its way, and what it judges stopped anew was verified.
LEMMA LivedBegins ==
    ASSUME LInv, CheckBegins PROVE LInv' /\ UNCHANGED stopped
<1>1. /\ ~poll.asked /\ pc' # "idle" /\ UNCHANGED <<plan, listed, poll, stopped>>
      /\ judged' = [i \in Ids |-> NextStopped(i)]
      /\ unverified' = [i \in Ids |->
            IF ~Watches(i) THEN "no"
            ELSE IF wanted = "unread" \/ Held THEN unverified[i]
            ELSE IF ~Unreported(i) THEN "no"
            ELSE IF unverified[i] = "no" THEN "seen" ELSE unverified[i]]
      /\ lived' = [i \in Ids |->
            IF unverified'[i] = "no" THEN {}
            ELSE IF unverified[i] = "no" THEN {plan[i]} \ {NoPlan} ELSE lived[i]]
  BY DEF CheckBegins, WatchBlocked, PollBlocked, world, cache, requests
<1>2. LivedType'
  BY <1>1 DEF LInv, LivedType
<1>3. NamesSince'
  BY <1>1 DEF LInv, LivedType, NamesSince, HeldSince
<1>4. ASSUME NEW i \in Ids, NextStopped(i) # NoPlan, stopped[i] = NoPlan
      PROVE  /\ NextStopped(i) = listed[i] /\ Watches(i) /\ wanted # "unread" /\ ~Held
             /\ Unreported(i) /\ unverified[i] \notin {"no", "seen"}
  <2>1. NextStopped(i) = listed[i] /\ Watches(i) /\ Reader(i) = "stops"
    BY <1>4 DEF NextStopped
  <2>2. wanted # "unread" /\ ~Held /\ Verified(i) = "stops"
    BY <2>1 DEF Reader, Unknown
  <2>3. RunState(i) = "stops" /\ ~(Unreported(i) /\ unverified[i] \in {"no", "seen"})
    BY <2>2 DEF Verified, Unknown
  <2> QED
    BY <1>4, <2>1, <2>2, <2>3 DEF Unreported
<1>5. JudgedSince'
  BY <1>1, <1>4 DEF LInv, LivedType, NamesSince, JudgedSince, HeldSince
<1> QED
  BY <1>1, <1>2, <1>3, <1>5 DEF LInv

\* A check ends: what it newly reports was verified since the plan was read as stopped.
LEMMA LivedEnds ==
    ASSUME LInv, CheckEnds
    PROVE  /\ LInv'
           /\ \A i \in Ids : stopped[i] = NoPlan /\ stopped'[i] # NoPlan /\ unverified[i] = "polled"
                                 => stopped'[i] \in lived[i]
<1>1. /\ pc # "idle" /\ pc' = "idle" /\ UNCHANGED <<plan, listed, poll, unverified, lived>>
      /\ stopped' = [i \in Ids |-> IF i \in autoStarted \union startedIn THEN NoPlan ELSE judged[i]]
  BY DEF CheckEnds, world, cache, requests, history
<1> QED
  BY <1>1 DEF LInv, LivedType, NamesSince, JudgedSince, HeldSince

LEMMA LInvNext ==
    ASSUME LInv, [Next]_vars
    PROVE  /\ LInv'
           /\ \A i \in Ids : stopped[i] = NoPlan /\ stopped'[i] # NoPlan /\ unverified[i] = "polled"
                                 => stopped'[i] \in lived[i]
<1>1. CASE Studio \/ PollBegins \/ PollReads
  BY <1>1, LivedStudio, LivedPolls
<1>2. CASE \E i \in Ids : ExistenceCheckLapses(i) \/ UserStarted(i)
  BY <1>2, LivedUser
<1>3. CASE CheckBegins
  BY <1>3, LivedBegins
<1>4. CASE CheckEnds
  BY <1>4, LivedEnds
<1> QED
  BY <1>1, <1>2, <1>3, <1>4, LivedElsewhere DEF Next, Elsewhere, Time, PollEnds, UserGoesOn, CheckGoesOn

\* A plan that was deleted before it was first read as stopped is never reported as stopped: what is
\* reported once a poll verified it held its ID then or later.
THEOREM DeletedStaysUnreported == Spec => DeletedNotReported
<1>1. Init => LInv
  BY LInvInit
<1>2. LInv /\ [Next]_vars => LInv'
  BY LInvNext
<1>3. LInv /\ [Next]_vars => [\A i \in Ids :
          stopped[i] = NoPlan /\ stopped'[i] # NoPlan /\ unverified[i] = "polled"
              => stopped'[i] \in lived[i]]_vars
  BY LInvNext
<1> QED
  BY <1>1, <1>2, <1>3, PTL DEF Spec, DeletedNotReported

-----------------------------------------------------------------------------
(* The vanished plans *)

Alarms == {"offer", "stopOnly"}
Jobs == [shows : Buttons \union {"restored", "clear"},
         guard : {"none", "unlessRestored", "whileVanished", "whilePending",
                  "unlessVanishedAgain", "unlessVanished"},
         to : SUBSET Phones, reload : Nat,
         owner : Calls \union {"nobody", "check", "pending"}]
Tasks == [plan : Plans \union {NoCall}, by : {"nobody", "push", "repair", "card"},
          reload : Nat, copy : BOOLEAN, marked : BOOLEAN, lasts : BOOLEAN]
Waiting == {"moving", "replying", "confirming"}
Stages == Waiting \union {"idle", "turn", "compare", "decide", "build", "built", "report"}

OutsideType ==
    /\ comexio \in [Plans -> Contents] /\ seen \in [Plans -> Contents]
    /\ episode \in [Plans -> {"lost", "rebuilt", "moved"}] /\ replaceable \subseteq Plans
    /\ picked \subseteq Plans /\ backedUp \subseteq Plans
WatchType ==
    /\ vanished \subseteq Plans /\ clearing \subseteq Plans /\ restored \subseteq Plans
    /\ checked \in BOOLEAN
    /\ check \in [at : {"idle", "judging", "pushes", "pushing"}, left : [Plans -> SUBSET Phones]]
    /\ unsent \in [Plans -> SUBSET Phones]
CallsType ==
    /\ stage \in [Calls -> Stages] /\ call \in [Calls -> Tasks] /\ reloads \in Nat
    /\ \A c \in Calls : stage[c] # "idle" => call[c].plan \in Plans
PushesType ==
    /\ queue \in [Plans -> Seq(Jobs)]
    /\ sending \in [Plans -> [left : SUBSET Phones, failed : SUBSET Phones]]
    /\ shown \in [Plans -> [Phones -> Buttons \union {"nothing", "restored"}]]
    /\ missed \subseteq Plans \X Phones
    /\ \A p \in Plans : sending[p].left # {} => queue[p] # <<>>
Types == OutsideType /\ WatchType /\ CallsType /\ PushesType

LEMMA TypesInit == ASSUME VanishedInit PROVE Types
<1>1. NoTask \in Tasks
  BY DEF NoTask, Tasks
<1>2. NotSending \in [left : SUBSET Phones, failed : SUBSET Phones]
  BY DEF NotSending
<1>3. NoAlarms \in [Plans -> SUBSET Phones]
  BY DEF NoAlarms
<1>4. Resting \in [at : {"idle", "judging", "pushes", "pushing"}, left : [Plans -> SUBSET Phones]]
  BY <1>3 DEF Resting
<1>5. <<>> \in Seq(Jobs)
  BY EmptySeq
<1>6. OutsideType
  BY DEF VanishedInit, OutsideType, Contents
<1>7. WatchType
  BY <1>3, <1>4 DEF VanishedInit, WatchType
<1>8. CallsType
  BY <1>1 DEF VanishedInit, CallsType, Stages
<1>9. PushesType
  BY <1>2, <1>5 DEF VanishedInit, PushesType, NotSending, Buttons
<1> QED
  BY <1>6, <1>7, <1>8, <1>9 DEF Types

\* A push that is queued stands behind the others of its tag.
LEMMA QueuedFacts ==
    ASSUME PushesType, NEW p \in Plans, NEW job \in Jobs, Queued(p, job)
    PROVE  /\ queue' \in [Plans -> Seq(Jobs)]
           /\ \A q \in Plans \ {p} : queue'[q] = queue[q]
           /\ Len(queue[p]) \in Nat /\ Len(queue'[p]) = Len(queue[p]) + 1
           /\ queue'[p] # <<>>
           /\ \A i \in 1..Len(queue[p]) : queue'[p][i] = queue[p][i]
           /\ queue'[p][Len(queue[p]) + 1] = job
<1>1. queue[p] \in Seq(Jobs)
  BY DEF PushesType
<1>2. /\ Append(queue[p], job) \in Seq(Jobs) /\ Append(queue[p], job) # <<>>
      /\ Len(Append(queue[p], job)) = Len(queue[p]) + 1
      /\ \A i \in 1..Len(queue[p]) : Append(queue[p], job)[i] = queue[p][i]
      /\ Append(queue[p], job)[Len(queue[p]) + 1] = job
  BY <1>1, AppendProperties
<1>3. Len(queue[p]) \in Nat
  BY <1>1, LenProperties
<1>4. queue' = [queue EXCEPT ![p] = Append(queue[p], job)]
  BY DEF Queued
<1>5. /\ queue' \in [Plans -> Seq(Jobs)] /\ queue'[p] = Append(queue[p], job)
      /\ \A q \in Plans \ {p} : queue'[q] = queue[q]
  BY <1>2, <1>4 DEF PushesType
<1> QED
  BY <1>2, <1>3, <1>5

\* The pushes of a tag move up once the first is done, and its follow-up joins them.
Follow(p, job, notSent) == IF job.reload = reloads THEN FollowUp(p, job, notSent) ELSE <<>>

LEMMA SentFacts ==
    ASSUME PushesType, CallsType, NEW p \in Plans, queue[p] # <<>>, NEW job \in Jobs, NEW notSent,
           Sent(p, job, notSent)
    PROVE  /\ queue' \in [Plans -> Seq(Jobs)]
           /\ \A q \in Plans \ {p} : queue'[q] = queue[q]
           /\ Len(queue[p]) \in Nat \ {0}
           /\ \A i \in 1..Len(queue[p]) - 1 : queue'[p][i] = queue[p][i + 1]
           /\ \/ Follow(p, job, notSent) = <<>> /\ Len(queue'[p]) = Len(queue[p]) - 1
              \/ /\ Len(queue'[p]) = Len(queue[p])
                 /\ Follow(p, job, notSent) = <<queue'[p][Len(queue[p])]>>
                 /\ queue'[p][Len(queue[p])] \in {Clear("none", "nobody"), Clear("unlessVanished", "nobody")}
<1> DEFINE s == queue[p]
           more == Follow(p, job, notSent)
<1>1. s \in Seq(Jobs) /\ s # <<>>
  BY DEF PushesType
<1>2. /\ Tail(s) \in Seq(Jobs) /\ Len(s) \in Nat \ {0} /\ Len(Tail(s)) = Len(s) - 1
      /\ \A i \in 1..Len(s) - 1 : Tail(s)[i] = s[i + 1]
  BY <1>1, HeadTailProperties, LenProperties, EmptySeq
<1>3. queue' = [queue EXCEPT ![p] = Tail(s) \o more]
  BY DEF Sent, Follow
<1>4. \A guard \in {"none", "unlessVanished"} : Clear(guard, "nobody") \in Jobs
  BY DEF Clear, Job, Jobs, CallsType
<1>5. more = <<>> \/ \E guard \in {"none", "unlessVanished"} : more = <<Clear(guard, "nobody")>>
  BY DEF Follow, FollowUp
<1>6. /\ queue'[p] = Tail(s) \o more
      /\ \A q \in Plans \ {p} : queue'[q] = queue[q]
  BY <1>3 DEF PushesType
<1>7. CASE more = <<>>
  <2>1. queue'[p] = Tail(s)
    BY <1>2, <1>6, <1>7, ConcatEmptySeq
  <2> QED
    BY <1>2, <1>3, <1>6, <1>7, <2>1 DEF PushesType
<1>8. ASSUME NEW guard \in {"none", "unlessVanished"}, more = <<Clear(guard, "nobody")>>
      PROVE  /\ queue' \in [Plans -> Seq(Jobs)]
             /\ \A i \in 1..Len(s) - 1 : queue'[p][i] = s[i + 1]
             /\ Len(queue'[p]) = Len(s) /\ queue'[p][Len(s)] = Clear(guard, "nobody")
  <2>1. more \in Seq(Jobs) /\ Len(more) = 1 /\ more[1] = Clear(guard, "nobody")
    BY <1>4, <1>8
  <2> DEFINE front == Tail(s)
             new == front \o more
  <2> HIDE DEF s, more, front
  <2>2. /\ new \in Seq(Jobs) /\ Len(new) = Len(front) + Len(more)
        /\ \A i \in 1..Len(front) + Len(more) :
              new[i] = IF i <= Len(front) THEN front[i] ELSE more[i - Len(front)]
    BY <1>2, <2>1, ConcatProperties DEF front
  <2>3. queue' \in [Plans -> Seq(Jobs)]
    BY <1>3, <1>6, <2>2 DEF PushesType, front
  <2>4. Len(new) = Len(s) /\ new[Len(s)] = more[1]
    BY <1>2, <2>1, <2>2 DEF front
  <2>5. ASSUME NEW i \in 1..Len(s) - 1 PROVE new[i] = s[i + 1]
    <3>1. i <= Len(front) /\ i \in 1..Len(front) + Len(more)
      BY <1>2, <2>1 DEF front
    <3> QED
      BY <1>2, <2>2, <3>1 DEF front
  <2>6. queue'[p] = new
    BY <1>6 DEF front
  <2> QED
    BY <2>1, <2>3, <2>4, <2>5, <2>6
<1> QED
  BY <1>2, <1>5, <1>6, <1>7, <1>8

-----------------------------------------------------------------------------
\* The fields of a task and of a job.
LEMMA TaskFields ==
    ASSUME CallsType, NEW c \in Calls
    PROVE  /\ call[c].plan \in Plans \union {NoCall} /\ call[c].by \in {"nobody", "push", "repair", "card"}
           /\ call[c].reload \in Nat /\ call[c].copy \in BOOLEAN
           /\ call[c].marked \in BOOLEAN /\ call[c].lasts \in BOOLEAN
BY DEF CallsType, Tasks

LEMMA JobFields ==
    ASSUME PushesType, NEW p \in Plans, NEW i \in 1..Len(queue[p])
    PROVE  /\ queue[p][i] \in Jobs /\ Len(queue[p]) \in Nat
           /\ queue[p][i].shows \in Buttons \union {"restored", "clear"}
           /\ queue[p][i].to \subseteq Phones /\ queue[p][i].reload \in Nat
           /\ queue[p][i].owner \in Calls \union {"nobody", "check", "pending"}
<1>1. queue[p] \in Seq(Jobs)
  BY DEF PushesType
<1>2. queue[p][i] \in Jobs /\ Len(queue[p]) \in Nat
  BY <1>1, LenProperties, ElementOfSeq
<1> QED
  BY <1>2 DEF Jobs

\* A call ends, or another one starts.
LEMMA IdlesTypes ==
    ASSUME CallsType, NEW c \in Calls, Idles(c), UNCHANGED reloads PROVE CallsType'
<1>1. NoTask \in Tasks
  BY DEF NoTask, Tasks
<1> QED
  BY <1>1 DEF CallsType, Idles, Stages

LEMMA FreeIsIdle == ASSUME IdleCalls # {} PROVE Free \in Calls /\ stage[Free] = "idle"
BY DEF Free, IdleCalls

LEMMA AskedTypes ==
    ASSUME CallsType, NEW p \in Plans, NEW by \in {"push", "repair", "card"}
    PROVE  Asked(p, by) \in Tasks /\ Asked(p, by).plan = p /\ Asked(p, by).by = by
           /\ Asked(p, by).reload = reloads /\ ~Asked(p, by).lasts /\ ~Asked(p, by).marked
BY DEF Asked, NoTask, Tasks, CallsType

LEMMA StartsTypes ==
    ASSUME CallsType, NEW p \in Plans, NEW by \in {"push", "repair"}, StartsRestore(p, by), UNCHANGED reloads
    PROVE  CallsType'
<1>1. CASE BeingRestored(p)
  BY <1>1 DEF StartsRestore, CallsType
<1>2. CASE ~BeingRestored(p)
  <2>1. /\ Free \in Calls /\ stage' = [stage EXCEPT ![Free] = "turn"]
        /\ call' = [call EXCEPT ![Free] = Asked(p, by)]
    BY <1>2, FreeIsIdle DEF StartsRestore
  <2>2. Asked(p, by) \in Tasks /\ Asked(p, by).plan = p
    BY AskedTypes
  <2> QED
    BY <2>1, <2>2 DEF CallsType, Stages
<1> QED
  BY <1>1, <1>2

-----------------------------------------------------------------------------
LEMMA BecomesTypes ==
    ASSUME Types, NEW p \in Plans, NEW from, NEW to \in Contents, Becomes(p, from, to)
    PROVE  /\ comexio' \in [Plans -> Contents] /\ WatchType' /\ PushesType'
           /\ UNCHANGED <<seen, picked, backedUp, stage, reloads>>
BY DEF Becomes, Types, OutsideType, WatchType, PushesType, options, lists, watch, life

LEMMA UserTypes ==
    ASSUME Types, NEW p \in Plans, User(p) PROVE Types'
<1>1. CASE Lost(p)
  <2>1. PICK to \in {"gone", "renamed"} : Becomes(p, {"here"}, to)
    BY <1>1 DEF Lost
  <2>2. /\ comexio' \in [Plans -> Contents] /\ WatchType' /\ PushesType'
        /\ UNCHANGED <<seen, picked, backedUp, stage, reloads>>
    BY <2>1, BecomesTypes DEF Contents
  <2>3. CallsType'
    <3>1. \A c \in Calls : [call[c] EXCEPT !.lasts = FALSE] \in Tasks
      BY DEF Types, CallsType, Tasks
    <3>2. call' \in [Calls -> Tasks] /\ \A c \in Calls : call'[c].plan = call[c].plan
      BY <1>1, <3>1 DEF Lost, Types, CallsType, Tasks
    <3> QED
      BY <2>2, <3>2 DEF Types, CallsType
  <2>4. OutsideType'
    BY <1>1, <2>2 DEF Lost, Types, OutsideType
  <2> QED
    BY <2>2, <2>3, <2>4 DEF Types
<1>2. CASE Changed(p)
  <2>1. PICK from \in SUBSET Contents, to \in Contents : Becomes(p, from, to)
    BY <1>2 DEF Changed, Contents
  <2>2. /\ comexio' \in [Plans -> Contents] /\ WatchType' /\ PushesType'
        /\ UNCHANGED <<seen, picked, backedUp, stage, reloads>>
    BY <2>1, BecomesTypes
  <2> QED
    BY <1>2, <2>2 DEF Changed, Types, OutsideType, CallsType
<1>3. ASSUME NEW kinds, Pressed(p, kinds), PushesType, UNCHANGED queue \/ \E job \in Jobs : Queued(p, job)
      PROVE  PushesType'
  <2>1. /\ UNCHANGED <<sending, missed>>
        /\ shown' \in [Plans -> [Phones -> Buttons \union {"nothing", "restored"}]]
    BY <1>3 DEF Pressed, PushesType
  <2>2. CASE UNCHANGED queue
    BY <1>3, <2>1, <2>2 DEF PushesType
  <2>3. CASE \E job \in Jobs : Queued(p, job)
    BY <1>3, <2>1, <2>3, QueuedFacts DEF PushesType
  <2> QED
    BY <1>3, <2>2, <2>3
<1>4. ASSUME TapAnswered(p) PROVE (\E job \in Jobs : Queued(p, job)) /\ UNCHANGED <<options, stage, call>>
  <2>1. Job("pending", "whilePending", Phones, "pending") \in Jobs /\ Clear("unlessVanished", "nobody") \in Jobs
    BY DEF Job, Clear, Jobs, Buttons, Types, CallsType
  <2> QED
    BY <1>4, <2>1 DEF TapAnswered
<1>5. CASE TapRestore(p)
  <2>1. UNCHANGED <<outside, lists, watch, check, restoring, life>> /\ Pressed(p, {"offer", "pending"})
    BY <1>5 DEF TapRestore
  <2>2. PushesType' /\ CallsType' /\ UNCHANGED options
    BY <1>3, <1>4, <1>5, <2>1, StartsTypes DEF TapRestore, Types, life, CallsType
  <2> QED
    BY <2>1, <2>2 DEF Types, OutsideType, WatchType, outside, lists, watch, options
<1>6. CASE TapStopWatching(p)
  <2>1. UNCHANGED <<outside, lists, watch, check, restoring, life>> /\ Pressed(p, Buttons)
    BY <1>6 DEF TapStopWatching
  <2>2. PushesType' /\ CallsType' /\ picked' \subseteq Plans /\ backedUp' \subseteq Plans
    BY <1>3, <1>4, <1>6, <2>1 DEF TapStopWatching, Types, life, CallsType, options, OutsideType
  <2> QED
    BY <2>1, <2>2 DEF Types, OutsideType, WatchType, outside, lists, watch
<1>7. CASE Repairs(p)
  <2>1. UNCHANGED <<outside, lists, watch, check, restoring, life, pushes>>
    BY <1>7 DEF Repairs
  <2>2. CallsType' /\ picked' \subseteq Plans /\ backedUp' \subseteq Plans
    BY <1>7, <2>1, StartsTypes DEF Repairs, Types, life, CallsType, options, OutsideType
  <2> QED
    BY <2>1, <2>2 DEF Types, OutsideType, WatchType, PushesType, outside, lists, watch, pushes
<1>8. CASE CardRestores(p)
  <2>1. /\ UNCHANGED <<outside, options, lists, watch, check, life, pushes>>
        /\ Free \in Calls /\ stage' = [stage EXCEPT ![Free] = "decide"]
        /\ call' = [call EXCEPT ![Free] = Asked(p, "card")]
    BY <1>8, FreeIsIdle DEF CardRestores
  <2>2. Asked(p, "card") \in Tasks /\ Asked(p, "card").plan = p
    BY AskedTypes DEF Types
  <2>3. CallsType'
    BY <2>1, <2>2 DEF Types, CallsType, Stages, life
  <2> QED
    BY <2>1, <2>3 DEF Types, OutsideType, WatchType, PushesType, outside, options, lists, watch, pushes
<1> QED
  BY <1>1, <1>2, <1>5, <1>6, <1>7, <1>8 DEF User

-----------------------------------------------------------------------------
\* A push is done: its caller goes on.
LEMMA SentTypes ==
    ASSUME Types, NEW p \in Plans, queue[p] # <<>>, NEW job \in Jobs, NEW notSent \in SUBSET Phones,
           Sent(p, job, notSent), UNCHANGED reloads
    PROVE  /\ WatchType' /\ CallsType' /\ replaceable' \subseteq Plans
           /\ queue' \in [Plans -> Seq(Jobs)]
           /\ \A q \in Plans \ {p} : queue'[q] = queue[q]
           /\ sending' = [sending EXCEPT ![p] = NotSending]
<1>1. /\ queue' \in [Plans -> Seq(Jobs)]
      /\ \A q \in Plans \ {p} : queue'[q] = queue[q]
  BY SentFacts DEF Types
<1>2. CallsType'
  <2>1. CASE job.owner \in Calls /\ stage[job.owner] = "moving"
    BY <2>1 DEF Sent, Types, CallsType, Stages, Waiting
  <2>2. CASE job.owner \in Calls /\ stage[job.owner] # "moving"
    BY <2>2, IdlesTypes DEF Sent, Types
  <2>3. CASE job.owner \notin Calls
    BY <2>3 DEF Sent, Types, CallsType
  <2> QED
    BY <2>1, <2>2, <2>3
<1>3. replaceable' \subseteq Plans /\ restored' \subseteq Plans
  BY DEF Sent, Types, OutsideType, WatchType
<1>4. check' \in [at : {"idle", "judging", "pushes", "pushing"}, left : [Plans -> SUBSET Phones]]
  BY DEF Sent, Types, WatchType
<1>5. unsent' \in [Plans -> SUBSET Phones]
  BY DEF Sent, Types, WatchType
<1>6. WatchType'
  BY <1>3, <1>4, <1>5 DEF Sent, Types, WatchType
<1> QED
  BY <1>1, <1>2, <1>3, <1>6 DEF Sent

LEMMA HeadFacts ==
    ASSUME PushesType, NEW p \in Plans, queue[p] # <<>>
    PROVE  1 \in 1..Len(queue[p]) /\ Head(queue[p]) = queue[p][1] /\ queue[p][1] \in Jobs
<1>1. queue[p] \in Seq(Jobs)
  BY DEF PushesType
<1>2. Len(queue[p]) \in Nat /\ Len(queue[p]) # 0
  BY <1>1, LenProperties, EmptySeq
<1> QED
  BY <1>1, <1>2, HeadTailProperties, ElementOfSeq

LEMMA BeginsTypes ==
    ASSUME Types, NEW p \in Plans, Begins(p) PROVE Types'
<1>1. /\ queue[p] # <<>> /\ sending[p].left = {}
      /\ UNCHANGED <<comexio, episode, options, lists, restoring, life, shown, missed>>
  BY DEF Begins
<1> DEFINE job == queue[p][1]
<1>2. job = Head(queue[p]) /\ job \in Jobs
  BY <1>1, HeadFacts DEF Types
<1>3. CASE StillDue(p, job)
  <2>1. /\ sending' = [sending EXCEPT ![p] = [left |-> job.to, failed |-> {}]]
        /\ UNCHANGED <<watch, check, stage, call, queue, replaceable>>
    BY <1>2, <1>3 DEF Begins
  <2>2. job.to \subseteq Phones
    BY <1>2 DEF Jobs
  <2>3. PushesType'
    BY <1>1, <2>1, <2>2 DEF Types, PushesType
  <2> QED
    BY <1>1, <2>1, <2>3 DEF Types, OutsideType, WatchType, CallsType, options, lists, watch, life
<1>4. CASE ~StillDue(p, job)
  <2>1. Sent(p, [job EXCEPT !.to = {}], {})
    BY <1>2, <1>4 DEF Begins
  <2>2. [job EXCEPT !.to = {}] \in Jobs
    BY <1>2 DEF Jobs
  <2>3. /\ WatchType' /\ CallsType' /\ replaceable' \subseteq Plans
        /\ queue' \in [Plans -> Seq(Jobs)]
        /\ \A q \in Plans \ {p} : queue'[q] = queue[q]
        /\ sending' = [sending EXCEPT ![p] = NotSending]
    BY <1>1, <2>1, <2>2, SentTypes DEF life
  <2>4. PushesType'
    BY <1>1, <2>3 DEF Types, PushesType, NotSending
  <2> QED
    BY <1>1, <2>3, <2>4 DEF Types, OutsideType, options, lists
<1> QED
  BY <1>3, <1>4

LEMMA SendsTypes ==
    ASSUME Types, NEW p \in Plans, NEW ph \in Phones, NEW arrives \in BOOLEAN, NEW answered \in BOOLEAN,
           Delivers(p, ph, arrives, answered)
    PROVE  Types'
<1> DEFINE job == queue[p][1]
           left == sending[p].left \ {ph}
           notSent == IF answered THEN sending[p].failed ELSE sending[p].failed \union {ph}
<1>1. /\ ph \in sending[p].left /\ queue[p] # <<>>
      /\ UNCHANGED <<comexio, episode, options, lists, restoring, life>>
  BY DEF Delivers, Types, PushesType
<1>2. job = Head(queue[p]) /\ job \in Jobs
  BY <1>1, HeadFacts DEF Types
<1>3. notSent \subseteq Phones /\ left \subseteq Phones
  BY DEF Types, PushesType
<1>4. /\ shown' \in [Plans -> [Phones -> Buttons \union {"nothing", "restored"}]]
      /\ missed' \subseteq Plans \X Phones
  BY <1>2 DEF Delivers, Types, PushesType, Jobs
<1>5. CASE left = {}
  <2>1. Sent(p, job, notSent)
    BY <1>2, <1>5 DEF Delivers
  <2>2. /\ WatchType' /\ CallsType' /\ replaceable' \subseteq Plans
        /\ queue' \in [Plans -> Seq(Jobs)]
        /\ \A q \in Plans \ {p} : queue'[q] = queue[q]
        /\ sending' = [sending EXCEPT ![p] = NotSending]
    BY <1>1, <1>2, <1>3, <2>1, SentTypes DEF life
  <2>3. PushesType'
    BY <1>4, <2>2 DEF Types, PushesType, NotSending
  <2> QED
    BY <1>1, <2>2, <2>3 DEF Types, OutsideType, options, lists
<1>6. CASE left # {}
  <2>1. /\ sending' = [sending EXCEPT ![p] = [left |-> left, failed |-> notSent]]
        /\ UNCHANGED <<watch, check, stage, call, queue, replaceable>>
    BY <1>2, <1>6 DEF Delivers
  <2>2. PushesType'
    BY <1>1, <1>3, <1>4, <2>1 DEF Types, PushesType
  <2> QED
    BY <1>1, <2>1, <2>2 DEF Types, OutsideType, WatchType, CallsType, options, lists, watch, life
<1> QED
  BY <1>5, <1>6

-----------------------------------------------------------------------------
\* What a call's step says to the phone or to nobody.
LEMMA RepliesFacts ==
    ASSUME Types, NEW c \in Calls, stage[c] # "idle", NEW shows \in Alarms, Replies(c, shows)
    PROVE  /\ call[c].plan \in Plans
           /\ \/ /\ call[c].by = "push" /\ stage' = [stage EXCEPT ![c] = "replying"] /\ UNCHANGED call
                 /\ Job(shows, "whileVanished", Phones, c) \in Jobs
                 /\ Queued(call[c].plan, Job(shows, "whileVanished", Phones, c))
              \/ Idles(c) /\ UNCHANGED queue
<1>1. Job(shows, "whileVanished", Phones, c) \in Jobs
  BY DEF Job, Jobs, Alarms, Buttons, Types, CallsType
<1>2. call[c].plan \in Plans
  BY DEF Types, CallsType
<1> QED
  BY <1>1, <1>2 DEF Replies, Plan, Goto

LEMMA RepliesTypes ==
    ASSUME Types, NEW c \in Calls, stage[c] # "idle", NEW shows \in Alarms, Replies(c, shows),
           UNCHANGED <<reloads, sending, shown, missed>>
    PROVE  CallsType' /\ PushesType'
<1>1. CASE Idles(c) /\ UNCHANGED queue
  BY <1>1, IdlesTypes DEF Types, PushesType
<1>2. CASE /\ stage' = [stage EXCEPT ![c] = "replying"] /\ UNCHANGED call
           /\ Job(shows, "whileVanished", Phones, c) \in Jobs
           /\ Queued(call[c].plan, Job(shows, "whileVanished", Phones, c))
  <2>1. CallsType' /\ call[c].plan \in Plans
    BY <1>2 DEF Types, CallsType, Stages, Waiting
  <2>2. /\ queue' \in [Plans -> Seq(Jobs)] /\ queue'[call[c].plan] # <<>>
        /\ \A q \in Plans \ {call[c].plan} : queue'[q] = queue[q]
    BY <1>2, <2>1, QueuedFacts DEF Types
  <2> QED
    BY <2>1, <2>2 DEF Types, PushesType
<1> QED
  BY <1>1, <1>2, RepliesFacts

LEMMA FailsTypes ==
    ASSUME Types, NEW c \in Calls, stage[c] # "idle", Fails(c),
           UNCHANGED <<reloads, sending, shown, missed>>
    PROVE  CallsType' /\ PushesType'
BY RepliesTypes DEF Fails, Alarms

\* A push of a plan is queued while everything else about the pushes stays.
LEMMA QueuedTypes ==
    ASSUME PushesType, NEW p \in Plans, NEW job \in Jobs, Queued(p, job), UNCHANGED <<sending, shown, missed>>
    PROVE  PushesType'
BY QueuedFacts DEF PushesType

LEMMA ClearIsJob ==
    ASSUME Types, NEW guard \in {"none", "unlessVanished"}, NEW owner \in Calls \union {"nobody", "check"}
    PROVE  Clear(guard, owner) \in Jobs
BY DEF Clear, Job, Jobs, Types, CallsType

LEMMA CompareTypes ==
    ASSUME Types, NEW c \in Calls, TakesTurn(c) \/ Compares(c) PROVE Types'
<1>1. CASE TakesTurn(c)
  <2>1. UNCHANGED <<outside, options, lists, watch, check, restoring, life, pushes>>
    BY <1>1 DEF TakesTurn
  <2>2. CallsType'
    BY <1>1, <2>1, IdlesTypes DEF TakesTurn, Types, CallsType, Goto, Stages, life
  <2> QED
    BY <2>1, <2>2 DEF Types, OutsideType, WatchType, PushesType, outside, options, lists, watch, pushes
<1>2. CASE Compares(c)
  <2>1. /\ stage[c] = "compare" /\ UNCHANGED <<outside, options, watch, check, life, sending, shown, missed>>
        /\ call[c].plan \in Plans
    BY <1>2 DEF Compares, Types, CallsType
  <2>2. seen' \in [Plans -> Contents]
    BY <1>2 DEF Compares, Types, OutsideType
  <2>3. Job("stopOnly", "whileVanished", Phones, c) \in Jobs
    BY DEF Job, Jobs, Types, CallsType, Buttons
  <2>4. CallsType' /\ PushesType'
    <3>1. CASE Idles(c) /\ UNCHANGED queue
      BY <2>1, <3>1, IdlesTypes DEF Types, PushesType, life
    <3>2. CASE Fails(c)
      BY <2>1, <3>2, FailsTypes DEF life
    <3>3. CASE Replies(c, "stopOnly")
      BY <2>1, <3>3, RepliesTypes DEF life, Alarms
    <3>4. CASE Goto(c, "decide") /\ UNCHANGED <<call, queue>>
      BY <2>1, <3>4 DEF Goto, Types, CallsType, PushesType, life, Stages
    <3> QED
      BY <1>2, <3>1, <3>2, <3>3, <3>4 DEF Compares, Acts
  <2> QED
    BY <2>1, <2>2, <2>4 DEF Types, OutsideType, WatchType, outside, options, watch
<1> QED
  BY <1>1, <1>2

LEMMA BuildTypes ==
    ASSUME Types, NEW c \in Calls, Decides(c) \/ BuildFails(c) \/ Builds(c) PROVE Types'
<1> DEFINE p == call[c].plan
<1>1. /\ stage[c] # "idle" /\ p \in Plans /\ p = Plan(c)
      /\ UNCHANGED <<watch, check, reloads, sending, shown, missed>>
  BY DEF Decides, BuildFails, Builds, Types, CallsType, Plan, life
<1>2. Clear("none", c) \in Jobs
  BY ClearIsJob
<1>3. WatchType'
  BY <1>1 DEF Types, WatchType, watch
<1>4. CASE Decides(c)
  <2>1. UNCHANGED <<outside, options>> /\ seen' \in [Plans -> Contents]
    BY <1>1, <1>4 DEF Decides, Types, OutsideType, Contents
  <2>2. CallsType' /\ PushesType'
    <3>1. CASE Fails(c)
      BY <1>1, <3>1, FailsTypes
    <3>2. CASE Queued(p, Clear("none", c)) /\ Goto(c, "replying") /\ UNCHANGED call
      BY <1>1, <1>2, <3>2, QueuedTypes DEF Types, CallsType, Goto, Stages, Waiting
    <3>3. CASE Idles(c) /\ UNCHANGED queue
      BY <1>1, <3>3, IdlesTypes DEF Types, PushesType
    <3>4. CASE Goto(c, "build") /\ UNCHANGED <<call, queue>>
      BY <1>1, <3>4 DEF Types, CallsType, PushesType, Goto, Stages
    <3> QED
      BY <1>1, <1>4, <3>1, <3>2, <3>3, <3>4 DEF Decides
  <2> QED
    BY <1>3, <2>1, <2>2 DEF Types, OutsideType, outside, options
<1>5. CASE BuildFails(c)
  <2>1. Fails(c) /\ UNCHANGED <<outside, options, lists>>
    BY <1>5 DEF BuildFails
  <2> QED
    BY <1>1, <1>3, <2>1, FailsTypes DEF Types, OutsideType, outside, options, lists
<1>6. CASE Builds(c)
  <2>1. /\ replaceable' = replaceable /\ episode' \in [Plans -> {"lost", "rebuilt", "moved"}]
        /\ comexio' \in [Plans -> Contents] /\ seen' \in [Plans -> Contents]
        /\ backedUp' \subseteq Plans /\ picked' \subseteq Plans
    BY <1>1, <1>6 DEF Builds, Types, OutsideType, Contents
  <2>2. \E copy \in BOOLEAN : call' = [call EXCEPT ![c].copy = copy, ![c].lasts = TRUE]
    BY <1>6 DEF Builds
  <2>3. call' \in [Calls -> Tasks] /\ \A d \in Calls : call'[d].plan = call[d].plan
    <3>1. PICK copy \in BOOLEAN : call' = [call EXCEPT ![c] = [call[c] EXCEPT !.copy = copy, !.lasts = TRUE]]
      BY <2>2 DEF Types, CallsType, Tasks
    <3>2. /\ [call[c] EXCEPT !.copy = copy, !.lasts = TRUE] \in Tasks
          /\ [call[c] EXCEPT !.copy = copy, !.lasts = TRUE].plan = call[c].plan
      BY DEF Types, CallsType, Tasks
    <3> QED
      BY <3>1, <3>2 DEF Types, CallsType
  <2>4. CallsType' /\ PushesType'
    <3>1. CASE Queued(p, Clear("none", c)) /\ Goto(c, "moving")
      BY <1>1, <1>2, <2>3, <3>1, QueuedTypes DEF Types, CallsType, Goto, Stages, Waiting
    <3>2. CASE Goto(c, "built") /\ UNCHANGED queue
      BY <1>1, <2>3, <3>2 DEF Types, CallsType, PushesType, Goto, Stages
    <3> QED
      BY <1>1, <1>6, <3>1, <3>2 DEF Builds
  <2> QED
    BY <1>3, <2>1, <2>4 DEF Types, OutsideType
<1> QED
  BY <1>4, <1>5, <1>6

LEMMA ReportTypes ==
    ASSUME Types, NEW c \in Calls, Releases(c) \/ Reports(c) PROVE Types'
<1> DEFINE p == call[c].plan
<1>1. /\ stage[c] # "idle" /\ p \in Plans /\ p = Plan(c)
      /\ UNCHANGED <<outside, lists, checked, vanished, clearing, unsent, check, life, sending, shown, missed>>
  BY DEF Releases, Reports, Types, CallsType, Plan, watch, pushes
<1>2. CASE Releases(c)
  <2>1. UNCHANGED <<options, watch, queue>>
    BY <1>2 DEF Releases, pushes
  <2>2. CallsType'
    BY <1>1, <1>2, IdlesTypes DEF Releases, Types, CallsType, Goto, Stages, life
  <2> QED
    BY <1>1, <2>1, <2>2 DEF Types, OutsideType, WatchType, PushesType, outside, options, lists, watch
<1>3. CASE Reports(c)
  <2>1. picked' \subseteq Plans /\ backedUp' = backedUp
    BY <1>1, <1>3 DEF Reports, Types, OutsideType
  <2>2. Clear("none", c) \in Jobs /\ Job("restored", "unlessVanishedAgain", Phones, c) \in Jobs
    BY DEF Clear, Job, Jobs, Types, CallsType
  <2>3. restored' \subseteq Plans
    BY <1>1, <1>3 DEF Reports, Types, WatchType, Idles
  <2>4. CallsType' /\ PushesType'
    <3>1. CASE Idles(c) /\ UNCHANGED queue
      BY <1>1, <3>1, IdlesTypes DEF Types, PushesType, life
    <3>2. CASE /\ call' = [call EXCEPT ![c].marked = Marks(p)] /\ Goto(c, "confirming")
               /\ Queued(p, Job("restored", "unlessVanishedAgain", Phones, c))
      <4>1. Marks(p) \in BOOLEAN
        BY DEF Marks
      <4>2. call' \in [Calls -> Tasks] /\ \A d \in Calls : call'[d].plan = call[d].plan
        BY <3>2, <4>1 DEF Types, CallsType, Tasks
      <4>3. CallsType'
        BY <1>1, <3>2, <4>2 DEF Types, CallsType, Goto, Stages, Waiting, life
      <4> QED
        BY <1>1, <2>2, <3>2, <4>3, QueuedTypes DEF Types
    <3>3. CASE Queued(p, Clear("none", c)) /\ Goto(c, "replying") /\ UNCHANGED call
      BY <1>1, <2>2, <3>3, QueuedTypes DEF Types, CallsType, Goto, Stages, Waiting, life
    <3> QED
      BY <1>1, <1>3, <3>1, <3>2, <3>3 DEF Reports
  <2> QED
    BY <1>1, <2>1, <2>3, <2>4 DEF Types, OutsideType, WatchType, outside, lists
<1> QED
  BY <1>2, <1>3

LEMMA CheckTypes ==
    ASSUME Types, CheckSteps PROVE Types'
<1>1. NoAlarms \in [Plans -> SUBSET Phones]
  BY DEF NoAlarms
<1>2. CASE CheckStarts \/ VanishedCheckEnds
  <2>1. /\ UNCHANGED <<outside, options, lists, watch, calls, life, pushes>>
        /\ check' \in [at : {"idle", "judging", "pushes", "pushing"}, left : [Plans -> SUBSET Phones]]
    BY <1>1, <1>2 DEF CheckStarts, VanishedCheckEnds, Resting, Types, WatchType
  <2> QED
    BY <2>1 DEF Types, OutsideType, WatchType, CallsType, PushesType, outside, options, lists, watch, calls, life,
       pushes
<1>3. ASSUME NEW over \in BOOLEAN, CheckSyncs(over) PROVE Types'
  <2>1. UNCHANGED <<outside, options, listRead, seen, restored, calls, life, pushes>>
    BY <1>3 DEF CheckSyncs
  <2>2. /\ vanished' \subseteq Plans /\ clearing' \subseteq Plans /\ checked' \in BOOLEAN
        /\ unsent' \in [Plans -> SUBSET Phones]
    BY <1>3 DEF CheckSyncs, VanishedNow, Types, OutsideType, WatchType
  <2>3. check' \in [at : {"idle", "judging", "pushes", "pushing"}, left : [Plans -> SUBSET Phones]]
    BY <1>3, <2>2 DEF CheckSyncs
  <2> QED
    BY <2>1, <2>2, <2>3 DEF Types, OutsideType, WatchType, CallsType, PushesType, outside, options, calls, life,
       pushes
<1>4. ASSUME NEW p \in Plans, CheckFollows(p) PROVE Types'
  <2>1. /\ UNCHANGED <<outside, seen, watch, check, calls, life, pushes>>
        /\ picked' \subseteq Plans /\ backedUp' \subseteq Plans
    BY <1>4 DEF CheckFollows, options, Types, OutsideType
  <2> QED
    BY <2>1 DEF Types, OutsideType, WatchType, CallsType, PushesType, outside, watch, calls, life, pushes
<1>5. ASSUME NEW p \in Plans, CheckAlarms(p) PROVE Types'
  <2>1. UNCHANGED <<outside, options, lists, checked, vanished, restored, clearing, calls, life, sending, shown,
                    missed>>
    BY <1>5 DEF CheckAlarms
  <2>2. /\ check' \in [at : {"idle", "judging", "pushes", "pushing"}, left : [Plans -> SUBSET Phones]]
        /\ unsent' \in [Plans -> SUBSET Phones]
    BY <1>5 DEF CheckAlarms, Types, WatchType
  <2>3. UNCHANGED queue \/ \E job \in Jobs : Queued(p, job)
    <3>1. \A shows \in Alarms : Job(shows, "unlessRestored", check.left[p], "check") \in Jobs
      BY DEF Job, Jobs, Alarms, Buttons, Types, WatchType, CallsType
    <3> QED
      BY <1>5, <3>1 DEF CheckAlarms, Alarms
  <2>4. PushesType'
    BY <2>1, <2>3, QueuedTypes DEF Types, PushesType
  <2> QED
    BY <2>1, <2>2, <2>4 DEF Types, OutsideType, WatchType, CallsType, outside, options, lists, calls, life
<1>6. ASSUME NEW p \in Plans, CheckClears(p) PROVE Types'
  <2>1. /\ UNCHANGED <<outside, options, lists, checked, vanished, unsent, calls, life, sending, shown, missed>>
        /\ clearing' \subseteq Plans /\ restored' \subseteq Plans
        /\ check' \in [at : {"idle", "judging", "pushes", "pushing"}, left : [Plans -> SUBSET Phones]]
    BY <1>6 DEF CheckClears, Types, WatchType
  <2>2. PushesType'
    BY <1>6, <2>1, ClearIsJob, QueuedTypes DEF CheckClears, Types, PushesType
  <2> QED
    BY <2>1, <2>2 DEF Types, OutsideType, WatchType, CallsType, outside, options, lists, calls, life
<1> QED
  BY <1>2, <1>3, <1>4, <1>5, <1>6 DEF CheckSteps

LEMMA RestTypes ==
    ASSUME Types, Poll \/ Reload \/ (\E p \in Plans : BackUp(p)) \/ UNCHANGED vanishedVars PROVE Types'
<1>1. CASE Poll
  BY <1>1 DEF Poll, Types, OutsideType, WatchType, CallsType, PushesType, outside, options, watch, calls, life, pushes
<1>2. CASE \E p \in Plans : BackUp(p)
  BY <1>2 DEF BackUp, Types, OutsideType, WatchType, CallsType, PushesType, outside, lists, watch, calls, life, pushes
<1>3. CASE Reload
  <2>1. NoAlarms \in [Plans -> SUBSET Phones]
    BY DEF NoAlarms
  <2>2. /\ UNCHANGED <<outside, options, seen, calls, queue, sending, shown>> /\ reloads' = reloads + 1
        /\ checked' = FALSE /\ vanished' = {} /\ restored' = {} /\ clearing' = {} /\ unsent' = NoAlarms
        /\ check' = Resting /\ missed' \subseteq Plans \X Phones
    BY <1>3 DEF Reload, Types, PushesType
  <2> QED
    <3>1. OutsideType' /\ CallsType' /\ PushesType'
      BY <2>2 DEF Types, OutsideType, CallsType, PushesType, outside, options, calls
    <3>2. WatchType'
      BY <2>1, <2>2 DEF WatchType, Resting
    <3> QED
      BY <3>1, <3>2 DEF Types
<1>4. CASE UNCHANGED vanishedVars
  BY <1>4 DEF vanishedVars, Types, OutsideType, WatchType, CallsType, PushesType, outside, options, lists, watch, calls,
     life, pushes
<1> QED
  BY <1>1, <1>2, <1>3, <1>4

LEMMA TypesNext == ASSUME Types, [VanishedNext]_vanishedVars PROVE Types'
<1>1. CASE \E p \in Plans : User(p) \/ BackUp(p) \/ Begins(p) \/ Sends(p)
  BY <1>1, UserTypes, RestTypes, BeginsTypes, SendsTypes DEF Sends
<1>2. CASE \E c \in Calls : CallSteps(c)
  BY <1>2, CompareTypes, BuildTypes, ReportTypes DEF CallSteps
<1>3. CASE CheckSteps \/ Poll \/ Reload \/ UNCHANGED vanishedVars
  BY <1>3, CheckTypes, RestTypes
<1> QED
  BY <1>1, <1>2, <1>3 DEF VanishedNext

-----------------------------------------------------------------------------
(* A vanished plan's restore builds it once. The restore lock keeps builds apart, *)
(* and a plan that was rebuilt with its backups is there, or has none.            *)

Holding == {"decide", "build", "moving", "built"}

OneHolder == \A c \in Calls : stage[c] \in Holding => restoring = c
MovedIsThere == \A p \in Plans : episode[p] = "moved" => p \notin backedUp \/ comexio[p] = "here"
BuildsAnew == \A c \in Calls : stage[c] = "build" => episode[call[c].plan] # "moved"
OnceInv == OneHolder /\ MovedIsThere /\ BuildsAnew

\* A step that starts and builds no restore, backs nothing up and loses no plan.
LEMMA OnceKept ==
    ASSUME Types, OnceInv, UNCHANGED <<restoring, episode>>, backedUp' \subseteq backedUp,
           \A p \in Plans : comexio[p] = "here" => comexio'[p] = "here",
           \A c \in Calls : stage'[c] \in Holding =>
               /\ stage[c] \in Holding /\ (stage'[c] = "build" => stage[c] = "build")
               /\ call'[c].plan = call[c].plan
    PROVE  OnceInv'
BY DEF Types, CallsType, OutsideType, OnceInv, OneHolder, MovedIsThere, BuildsAnew, Holding

LEMMA IdlesOnce ==
    ASSUME Types, NEW c \in Calls, Idles(c)
    PROVE  \A d \in Calls : stage'[d] \in Holding => stage'[d] = stage[d] /\ call'[d] = call[d]
BY DEF Idles, Types, CallsType, Holding

LEMMA StartsOnce ==
    ASSUME Types, NEW p, NEW by, StartsRestore(p, by)
    PROVE  \A d \in Calls : stage'[d] \in Holding => stage'[d] = stage[d] /\ call'[d] = call[d]
BY FreeIsIdle DEF StartsRestore, Types, CallsType, Holding

LEMMA RepliesOnce ==
    ASSUME Types, NEW c \in Calls, NEW shows, Replies(c, shows) \/ Fails(c)
    PROVE  \A d \in Calls : stage'[d] \in Holding => stage'[d] = stage[d] /\ call'[d] = call[d]
<1>1. PICK any : Replies(c, any)
  BY DEF Fails
<1> QED
  BY <1>1, IdlesOnce DEF Replies, Goto, Types, CallsType, Holding

LEMMA SentOnce ==
    ASSUME Types, NEW p, NEW job, NEW notSent, Sent(p, job, notSent)
    PROVE  \A d \in Calls : stage'[d] \in Holding =>
               stage[d] \in Holding /\ call'[d] = call[d] /\ (stage'[d] = "build" => stage[d] = "build")
<1>1. CASE job.owner \in Calls /\ stage[job.owner] = "moving"
  BY <1>1 DEF Sent, Types, CallsType, Holding
<1>2. CASE job.owner \in Calls /\ stage[job.owner] # "moving"
  BY <1>2, IdlesOnce DEF Sent
<1>3. CASE job.owner \notin Calls
  BY <1>3 DEF Sent
<1> QED
  BY <1>1, <1>2, <1>3

LEMMA UserOnce ==
    ASSUME Types, OnceInv, NEW p \in Plans, User(p) \/ BackUp(p) PROVE OnceInv'
<1>1. CASE Lost(p)
  <2>1. PICK to \in {"gone", "renamed"} : Becomes(p, {"here"}, to)
    BY <1>1 DEF Lost
  <2>2. /\ \A q \in Plans \ {p} : comexio'[q] = comexio[q]
        /\ UNCHANGED <<restoring, backedUp, stage>>
    BY <2>1 DEF Becomes, options, Types, OutsideType
  <2>3. /\ episode' = [episode EXCEPT ![p] = "lost"]
        /\ \A c \in Calls : call'[c].plan = call[c].plan
    BY <1>1 DEF Lost, Types, CallsType, Tasks
  <2> QED
    BY <2>2, <2>3 DEF Types, CallsType, OutsideType, OnceInv, OneHolder, MovedIsThere, BuildsAnew
<1>2. CASE Changed(p)
  <2>1. PICK from, to : from \in {{"gone", "renamed"}, {"other"}} /\ Becomes(p, from, to)
    BY <1>2 DEF Changed
  <2>2. /\ \A q \in Plans : comexio[q] = "here" => comexio'[q] = "here"
        /\ UNCHANGED <<restoring, backedUp, stage, episode, call>>
    BY <1>2, <2>1 DEF Changed, Becomes, options, Types, OutsideType
  <2> QED
    BY <2>2, OnceKept
<1>3. CASE TapRestore(p) \/ TapStopWatching(p) \/ Repairs(p)
  <2>1. UNCHANGED <<restoring, episode, comexio>> /\ backedUp' \subseteq backedUp
    BY <1>3 DEF TapRestore, TapStopWatching, Repairs, TapAnswered, outside, options
  <2>2. \A d \in Calls : stage'[d] \in Holding => stage'[d] = stage[d] /\ call'[d] = call[d]
    BY <1>3, StartsOnce DEF TapRestore, TapStopWatching, Repairs, TapAnswered
  <2> QED
    BY <2>1, <2>2, OnceKept
<1>4. CASE CardRestores(p)
  <2>1. /\ restoring = NoCall /\ restoring' = Free /\ Free \in Calls
        /\ stage' = [stage EXCEPT ![Free] = "decide"] /\ UNCHANGED <<outside, options>>
        /\ \A d \in Calls \ {Free} : call'[d] = call[d]
    BY <1>4, FreeIsIdle DEF CardRestores, Types, CallsType
  <2>2. NoCall \notin Calls
    BY VanishedAssumption
  <2> QED
    BY <2>1, <2>2 DEF Types, CallsType, OnceInv, OneHolder, MovedIsThere, BuildsAnew, Holding, outside, options
<1>5. CASE BackUp(p)
  BY <1>5 DEF BackUp, OnceInv, OneHolder, MovedIsThere, BuildsAnew, Holding, outside, calls
<1> QED
  BY <1>1, <1>2, <1>3, <1>4, <1>5 DEF User

LEMMA PushesOnce ==
    ASSUME Types, OnceInv, NEW p \in Plans, Begins(p) \/ Sends(p) PROVE OnceInv'
<1>1. UNCHANGED <<restoring, episode, comexio, backedUp>>
  BY DEF Begins, Sends, Delivers, options
<1>2. \/ UNCHANGED <<stage, call>>
      \/ \E job, notSent : Sent(p, job, notSent)
  BY DEF Begins, Sends, Delivers
<1>3. \A d \in Calls : stage'[d] \in Holding =>
          stage[d] \in Holding /\ call'[d] = call[d] /\ (stage'[d] = "build" => stage[d] = "build")
  <2>1. CASE UNCHANGED <<stage, call>>
    BY <2>1
  <2>2. CASE \E job, notSent : Sent(p, job, notSent)
    <3>1. PICK job, notSent : Sent(p, job, notSent)
      BY <2>2
    <3> QED
      BY <3>1, SentOnce
  <2> QED
    BY <1>2, <2>1, <2>2
<1> QED
  BY <1>1, <1>3, OnceKept

LEMMA CallOnce ==
    ASSUME Types, OnceInv, NEW c \in Calls, CallSteps(c)
    PROVE  /\ OnceInv'
           /\ stage[c] = "build" => episode[call[c].plan] # "moved"
<1>8. stage[c] = "build" => episode[call[c].plan] # "moved"
  BY DEF OnceInv, BuildsAnew
<1>1. CASE TakesTurn(c)
  <2>1. UNCHANGED <<restoring, outside, options>>
    BY <1>1 DEF TakesTurn
  <2>2. \A d \in Calls : stage'[d] \in Holding => stage'[d] = stage[d] /\ call'[d] = call[d]
    BY <1>1, IdlesOnce DEF TakesTurn, Goto, Types, CallsType, Holding
  <2> QED
    BY <1>8, <2>1, <2>2, OnceKept DEF outside, options
<1>2. CASE Compares(c)
  <2>1. UNCHANGED <<outside, options>> /\ stage[c] = "compare"
    BY <1>2 DEF Compares
  <2>2. CASE /\ UNCHANGED restoring
             /\ \A d \in Calls : stage'[d] \in Holding => stage'[d] = stage[d] /\ call'[d] = call[d]
    BY <2>1, <2>2, OnceKept DEF outside, options
  <2>3. CASE restoring = NoCall /\ restoring' = c /\ Goto(c, "decide") /\ UNCHANGED call
    <3>1. NoCall \notin Calls
      BY VanishedAssumption
    <3> QED
      BY <2>1, <2>3, <3>1 DEF Types, CallsType, OnceInv, OneHolder, MovedIsThere, BuildsAnew, Holding, Goto, outside,
         options
  <2> QED
    BY <1>2, <2>2, <2>3, IdlesOnce, RepliesOnce DEF Compares, Acts
<1>3. CASE Decides(c)
  <2>1. /\ stage[c] = "decide" /\ UNCHANGED <<outside, options>> /\ Plan(c) = call[c].plan
        /\ call[c].plan \in Plans
    BY <1>3 DEF Decides, Plan, Types, CallsType
  <2>2. restoring = c /\ \A d \in Calls \ {c} : stage[d] \notin Holding
    BY <2>1 DEF OnceInv, OneHolder, Holding
  <2>3. CASE /\ restoring' = NoCall /\ stage'[c] \notin Holding
             /\ \A d \in Calls : stage'[d] \in Holding => stage'[d] = stage[d] /\ call'[d] = call[d]
    BY <2>1, <2>2, <2>3 DEF OnceInv, OneHolder, MovedIsThere, BuildsAnew, Holding, outside, options
  <2>4. CASE /\ call[c].plan \in backedUp /\ comexio[call[c].plan] # "here"
             /\ Goto(c, "build") /\ UNCHANGED <<restoring, call, queue>>
    <3>1. episode[call[c].plan] # "moved"
      BY <2>1, <2>4 DEF OnceInv, MovedIsThere
    <3> QED
      BY <2>1, <2>2, <2>4, <3>1 DEF Types, CallsType, OnceInv, OneHolder, MovedIsThere, BuildsAnew, Holding, Goto,
         outside, options
  <2>5. ASSUME Fails(c) \/ Idles(c) \/ (Goto(c, "replying") /\ UNCHANGED call)
        PROVE  /\ stage'[c] \notin Holding
               /\ \A d \in Calls : stage'[d] \in Holding => stage'[d] = stage[d] /\ call'[d] = call[d]
    BY <2>5, IdlesOnce, RepliesOnce DEF Fails, Replies, Idles, Goto, Types, CallsType, Holding
  <2> QED
    BY <1>3, <2>1, <2>3, <2>4, <2>5 DEF Decides
<1>4. CASE BuildFails(c)
  <2>1. /\ stage[c] = "build" /\ Fails(c) /\ restoring' = NoCall /\ UNCHANGED <<outside, options>>
    BY <1>4 DEF BuildFails
  <2>2. /\ stage'[c] \notin Holding
        /\ \A d \in Calls : stage'[d] \in Holding => stage'[d] = stage[d] /\ call'[d] = call[d]
    BY <2>1, RepliesOnce DEF Fails, Replies, Idles, Goto, Types, CallsType, Holding
  <2> QED
    BY <2>1, <2>2 DEF OnceInv, OneHolder, MovedIsThere, BuildsAnew, Holding, outside, options
<1>5. CASE Builds(c)
  <2> DEFINE p == call[c].plan
  <2>1. /\ stage[c] = "build" /\ restoring = c /\ p \in Plans /\ Plan(c) = p /\ UNCHANGED restoring
        /\ \A d \in Calls \ {c} : stage[d] \notin Holding
    BY <1>5 DEF Builds, Plan, Types, CallsType, OnceInv, OneHolder, Holding
  <2>2. /\ \A d \in Calls \ {c} : stage'[d] = stage[d] /\ call'[d] = call[d]
        /\ stage'[c] \in {"moving", "built"}
    BY <1>5 DEF Builds, Goto, Types, CallsType
  <2>3. MovedIsThere'
    <3>1. PICK copy, keptThere \in BOOLEAN :
             /\ episode' = [episode EXCEPT ![p] = IF keptThere THEN "rebuilt" ELSE "moved"]
             /\ comexio' = IF copy THEN comexio ELSE [comexio EXCEPT ![p] = "here"]
             /\ backedUp' = IF copy /\ ~keptThere THEN backedUp \ {p} ELSE backedUp
      BY <1>5, <2>1 DEF Builds
    <3> QED
      BY <2>1, <3>1 DEF Types, OutsideType, OnceInv, MovedIsThere
  <2> QED
    BY <2>1, <2>2, <2>3 DEF OnceInv, OneHolder, BuildsAnew, Holding
<1>6. CASE Releases(c)
  <2>1. /\ stage[c] = "built" /\ restoring' = NoCall /\ UNCHANGED <<outside, options>>
        /\ stage'[c] \notin Holding
        /\ \A d \in Calls : stage'[d] \in Holding => stage'[d] = stage[d] /\ call'[d] = call[d]
    BY <1>6, IdlesOnce DEF Releases, Goto, Idles, Types, CallsType, Holding
  <2> QED
    BY <2>1 DEF OnceInv, OneHolder, MovedIsThere, BuildsAnew, Holding, outside, options
<1>7. CASE Reports(c)
  <2>1. UNCHANGED <<restoring, outside, backedUp>> /\ stage[c] = "report"
    BY <1>7 DEF Reports
  <2>2. \A d \in Calls : stage'[d] \in Holding => stage'[d] = stage[d] /\ call'[d] = call[d]
    BY <1>7, <2>1, IdlesOnce DEF Reports, Goto, Types, CallsType, Holding
  <2> QED
    BY <2>1, <2>2, OnceKept DEF outside
<1> QED
  BY <1>1, <1>2, <1>3, <1>4, <1>5, <1>6, <1>7, <1>8 DEF CallSteps

LEMMA OnceNext ==
    ASSUME Types, OnceInv, [VanishedNext]_vanishedVars
    PROVE  /\ OnceInv'
           /\ \A c \in Calls : Vanishing(c) /\ stage[c] = "build" /\ stage'[c] \in {"moving", "built"}
                  => episode[Plan(c)] # "moved"
<1>1. \A c \in Calls : stage[c] = "build" => episode[Plan(c)] # "moved"
  BY DEF OnceInv, BuildsAnew, Plan
<1>2. CASE \E p \in Plans : User(p) \/ BackUp(p) \/ Begins(p) \/ Sends(p)
  BY <1>1, <1>2, UserOnce, PushesOnce
<1>3. CASE \E c \in Calls : CallSteps(c)
  BY <1>1, <1>3, CallOnce
<1>4. CASE CheckSteps
  <2>1. UNCHANGED <<restoring, episode, comexio, stage, call>> /\ backedUp' \subseteq backedUp
    BY <1>4 DEF CheckSteps, CheckStarts, CheckSyncs, VanishedCheckEnds, CheckFollows, CheckAlarms, CheckClears, outside,
       options, calls
  <2> QED
    BY <2>1, OnceKept
<1>5. CASE Poll \/ Reload \/ UNCHANGED vanishedVars
  <2>1. UNCHANGED <<restoring, episode, comexio, stage, call, backedUp>>
    BY <1>5 DEF Poll, Reload, vanishedVars, outside, options, calls
  <2> QED
    BY <2>1, OnceKept
<1> QED
  BY <1>1, <1>2, <1>3, <1>4, <1>5 DEF VanishedNext

LEMMA OnceInit == ASSUME VanishedInit PROVE OnceInv
BY DEF VanishedInit, OnceInv, OneHolder, MovedIsThere, BuildsAnew, Holding

\* A vanished plan's restore never builds a plan that was built already and whose
\* backups moved along, whoever asked for it and however many restores wait
\* (async_restore_vanished_plan, _handle_function_plan_restore).
THEOREM VanishedRestoredOnce == VanishedSpec => RestoredOnce
<1>1. VanishedInit => Types /\ OnceInv
  BY TypesInit, OnceInit
<1>2. Types /\ OnceInv /\ [VanishedNext]_vanishedVars => Types' /\ OnceInv'
  BY TypesNext, OnceNext
<1>3. Types /\ OnceInv /\ [VanishedNext]_vanishedVars =>
          [\A c \in Calls : Vanishing(c) /\ stage[c] = "build" /\ stage'[c] \in {"moving", "built"}
               => episode[Plan(c)] # "moved"]_vanishedVars
  BY OnceNext
<1> QED
  BY <1>1, <1>2, <1>3, PTL DEF VanishedSpec, RestoredOnce

-----------------------------------------------------------------------------
(* What the pushes in line are, and whom they wait for. *)

JobMeant(p, job) ==
    /\ job.reload <= reloads
    /\ job.owner \in Calls =>
          /\ call[job.owner].plan = p /\ stage[job.owner] \in Waiting
          /\ (stage[job.owner] = "confirming") = (job.shows = "restored")
    /\ job.shows = "restored" => /\ job.owner \in Calls /\ job.guard = "unlessVanishedAgain"
                                 /\ call[job.owner].reload = job.reload
    /\ job.shows \in Alarms => \/ job.guard = "unlessRestored" /\ job.owner = "check"
                               \/ job.guard = "whileVanished" /\ job.owner \in Calls
    /\ (job.shows = "pending") = (job.owner = "pending")
    /\ job.shows = "pending" => job.guard = "whilePending"
    /\ job.shows = "clear" => job.guard \in {"none", "unlessVanished"}
    /\ job.owner = "check" /\ job.reload = reloads =>
          check.at = "pushing" /\ (job.shows # "clear" => p \in vanished)
    /\ job.owner # "check" \/ job.shows = "clear" => job.to = Phones

\* A restore and the running check wait for one push at a time.
Awaited(job) == job.owner \in Calls \/ (job.owner = "check" /\ job.reload = reloads)
AwaitedOnce ==
    \A p, q \in Plans : \A i \in 1..Len(queue[p]), j \in 1..Len(queue[q]) :
        Awaited(queue[p][i]) /\ Awaited(queue[q][j]) /\ queue[p][i].owner = queue[q][j].owner
            => p = q /\ i = j
JobsMeant == \A p \in Plans : \A i \in 1..Len(queue[p]) : JobMeant(p, queue[p][i])
Lines == JobsMeant /\ AwaitedOnce

\* How far the check is with the plans it found, and those it found no longer.
Phases ==
    /\ restored \subseteq vanished \union clearing
    /\ check.at \in {"idle", "judging"} => clearing = {}
    /\ \A p \in Plans : check.left[p] # {} => p \in vanished
    /\ clearing \cap vanished = {}
    /\ ~checked => vanished = {} /\ clearing = {}

LEMMA LinesInit == ASSUME VanishedInit PROVE Lines /\ Phases
BY EmptySeq DEF VanishedInit, Lines, JobsMeant, AwaitedOnce, Phases, Resting, NoAlarms

\* Neither the line nor those who wait in it are touched.
StillWaits(c) ==
    /\ stage'[c] = stage[c] /\ call'[c].plan = call[c].plan /\ call'[c].reload = call[c].reload
    /\ call'[c].marked = call[c].marked
CallersStay == \A c \in Calls : stage[c] \in Waiting => StillWaits(c)
CheckStays == check.at = "pushing" => check'.at = "pushing" /\ vanished' = vanished

\* What is meant by a push is not disturbed by what others do.
LEMMA MeantKept ==
    ASSUME NEW p, NEW x, JobMeant(p, x), UNCHANGED reloads,
           x.owner \in Calls => StillWaits(x.owner),
           x.owner = "check" /\ x.reload = reloads => check'.at = check.at /\ vanished' = vanished
    PROVE  JobMeant(p, x)'
BY DEF JobMeant, StillWaits

LEMMA LinesKept ==
    ASSUME Types, Lines, UNCHANGED <<queue, reloads>>, CallersStay, CheckStays PROVE Lines'
<1>1. ASSUME NEW p \in Plans, NEW i \in 1..Len(queue[p]), NEW x, x = queue[p][i] PROVE JobMeant(p, x)'
  <2>1. JobMeant(p, x)
    BY <1>1 DEF Lines, JobsMeant
  <2>2. x.owner \in Calls => StillWaits(x.owner)
    BY <2>1 DEF JobMeant, CallersStay
  <2>3. x.owner = "check" /\ x.reload = reloads => check'.at = check.at /\ vanished' = vanished
    BY <2>1 DEF JobMeant, CheckStays
  <2> QED
    BY <2>1, <2>2, <2>3, MeantKept
<1>2. JobsMeant'
  BY <1>1 DEF JobsMeant
<1> QED
  BY <1>2 DEF Lines, AwaitedOnce, Awaited

LEMMA LinesAdded ==
    ASSUME Types, Lines, NEW p \in Plans, NEW job \in Jobs, Queued(p, job), UNCHANGED reloads,
           CallersStay, CheckStays, JobMeant(p, job)',
           job.owner \in Calls => stage[job.owner] \notin Waiting,
           job.owner = "check" => check.at # "pushing"
    PROVE  Lines'
<1> DEFINE n == Len(queue[p]) + 1
<1>1. /\ \A q \in Plans \ {p} : queue'[q] = queue[q]
      /\ Len(queue[p]) \in Nat /\ Len(queue'[p]) = n
      /\ \A i \in 1..Len(queue[p]) : queue'[p][i] = queue[p][i]
      /\ queue'[p][n] = job
  BY QueuedFacts DEF Types
<1>2. ASSUME NEW q \in Plans, NEW i \in 1..Len(queue'[q])
      PROVE  \/ i \in 1..Len(queue[q]) /\ queue'[q][i] = queue[q][i]
             \/ q = p /\ i = n /\ queue'[q][i] = job
  BY <1>1
<1>3. ASSUME NEW q \in Plans, NEW i \in 1..Len(queue[q])
      PROVE  JobMeant(q, queue[q][i]) /\ (Awaited(queue[q][i]) => queue[q][i].owner # job.owner)
  <2>1. JobMeant(q, queue[q][i])
    BY DEF Lines, JobsMeant
  <2> QED
    BY <2>1 DEF JobMeant, Awaited
<1>4. ASSUME NEW q \in Plans, NEW i \in 1..Len(queue[q]), NEW x, x = queue[q][i] PROVE JobMeant(q, x)'
  <2>1. JobMeant(q, x)
    BY <1>3, <1>4
  <2>2. x.owner \in Calls => StillWaits(x.owner)
    BY <2>1 DEF JobMeant, CallersStay
  <2>3. x.owner = "check" /\ x.reload = reloads => check'.at = check.at /\ vanished' = vanished
    BY <2>1 DEF JobMeant, CheckStays
  <2> QED
    BY <2>1, <2>2, <2>3, MeantKept
<1>5. JobsMeant'
  BY <1>2, <1>4 DEF JobsMeant
<1>6. ASSUME NEW q \in Plans, NEW r \in Plans, NEW i \in 1..Len(queue'[q]), NEW j \in 1..Len(queue'[r]),
             Awaited(queue[q][i])', Awaited(queue[r][j])', queue'[q][i].owner = queue'[r][j].owner
      PROVE  q = r /\ i = j
  <2>1. \A x : Awaited(x)' = Awaited(x)
    BY DEF Awaited
  <2>2. CASE i \in 1..Len(queue[q]) /\ queue'[q][i] = queue[q][i] /\ j \in 1..Len(queue[r]) /\ queue'[r][j] = queue[r][j]
    BY <1>6, <2>1, <2>2 DEF Lines, AwaitedOnce, Awaited
  <2>3. CASE q = p /\ i = n /\ queue'[q][i] = job /\ j \in 1..Len(queue[r]) /\ queue'[r][j] = queue[r][j]
    BY <1>3, <1>6, <2>1, <2>3 DEF Awaited
  <2>4. CASE r = p /\ j = n /\ queue'[r][j] = job /\ i \in 1..Len(queue[q]) /\ queue'[q][i] = queue[q][i]
    BY <1>3, <1>6, <2>1, <2>4 DEF Awaited
  <2> QED
    BY <1>2, <2>2, <2>3, <2>4
<1>7. AwaitedOnce'
  BY <1>6 DEF AwaitedOnce
<1> QED
  BY <1>5, <1>7 DEF Lines

\* The push at the head is done: whoever waited for it goes on, nobody else.
LEMMA LinesSent ==
    ASSUME Types, Lines, NEW p \in Plans, queue[p] # <<>>, NEW job \in Jobs, NEW notSent,
           job.owner = queue[p][1].owner, job.reload = queue[p][1].reload, Sent(p, job, notSent),
           UNCHANGED reloads
    PROVE  Lines'
<1> DEFINE n == Len(queue[p])
<1>1. /\ \A q \in Plans \ {p} : queue'[q] = queue[q]
      /\ n \in Nat \ {0}
      /\ \A i \in 1..n - 1 : queue'[p][i] = queue[p][i + 1]
      /\ \/ Len(queue'[p]) = n - 1
         \/ /\ Len(queue'[p]) = n
            /\ queue'[p][n] \in {Clear("none", "nobody"), Clear("unlessVanished", "nobody")}
  BY SentFacts DEF Types
<1>2. ASSUME NEW q \in Plans, NEW i \in 1..Len(queue'[q])
      PROVE  \/ /\ IF q = p THEN i + 1 \in 1..Len(queue[q]) /\ queue'[q][i] = queue[q][i + 1]
                            ELSE i \in 1..Len(queue[q]) /\ queue'[q][i] = queue[q][i]
             \/ queue'[q][i] \in {Clear("none", "nobody"), Clear("unlessVanished", "nobody")}
  BY <1>1
<1>3. JobMeant(p, queue[p][1]) /\ 1 \in 1..n
  BY <1>1 DEF Lines, JobsMeant
<1>4. vanished' = vanished
  BY DEF Sent
<1>5. /\ check' = check \/ (job.owner = "check" /\ job.reload = reloads)
      /\ \A c \in Calls \ {job.owner} : stage'[c] = stage[c] /\ call'[c] = call[c]
  <2>1. job.owner \in Calls => \A c \in Calls \ {job.owner} : stage'[c] = stage[c] /\ call'[c] = call[c]
    BY DEF Sent, Idles, Types, CallsType
  <2>2. job.owner \notin Calls => UNCHANGED <<stage, call>>
    BY DEF Sent
  <2>3. check' = check \/ (job.owner = "check" /\ job.reload = reloads)
    BY DEF Sent
  <2> QED
    BY <2>1, <2>2, <2>3
<1>6. ASSUME NEW q \in Plans, NEW k \in 1..Len(queue[q]), ~(q = p /\ k = 1)
      PROVE  \A x : x = queue[q][k] => JobMeant(q, x)'
  <2> SUFFICES ASSUME NEW x, x = queue[q][k] PROVE JobMeant(q, x)'
    OBVIOUS
  <2>1. JobMeant(q, x)
    BY DEF Lines, JobsMeant
  <2>2. Awaited(x) /\ Awaited(job) => x.owner # job.owner
    BY <1>3, <1>6 DEF Lines, AwaitedOnce, Awaited
  <2>3. x.owner \in Calls => StillWaits(x.owner)
    BY <1>5, <2>2 DEF Awaited, StillWaits
  <2>4. x.owner = "check" /\ x.reload = reloads => check'.at = check.at /\ vanished' = vanished
    BY <1>4, <1>5, <2>2 DEF Awaited
  <2> QED
    BY <2>1, <2>3, <2>4, MeantKept
<1>7. ASSUME NEW q \in Plans, NEW guard \in {"none", "unlessVanished"}, NEW x, x = Clear(guard, "nobody")
      PROVE  JobMeant(q, x)'
  BY <1>7, VanishedAssumption DEF JobMeant, Clear, Job, Types, CallsType, Alarms
<1>8. JobsMeant'
  <2> SUFFICES ASSUME NEW q \in Plans, NEW i \in 1..Len(queue'[q]), NEW x, x = queue'[q][i] PROVE JobMeant(q, x)'
    BY DEF JobsMeant
  <2>1. CASE queue'[q][i] \in {Clear("none", "nobody"), Clear("unlessVanished", "nobody")}
    BY <1>7, <2>1
  <2>2. CASE q = p /\ i + 1 \in 1..Len(queue[q]) /\ queue'[q][i] = queue[q][i + 1]
    BY <1>1, <1>6, <2>2
  <2>3. CASE q # p /\ i \in 1..Len(queue[q]) /\ queue'[q][i] = queue[q][i]
    BY <1>6, <2>3
  <2> QED
    BY <1>2, <2>1, <2>2, <2>3
<1>9. AwaitedOnce'
  <2> SUFFICES ASSUME NEW q \in Plans, NEW r \in Plans, NEW i \in 1..Len(queue'[q]), NEW j \in 1..Len(queue'[r]),
                      Awaited(queue[q][i])', Awaited(queue[r][j])', queue'[q][i].owner = queue'[r][j].owner
               PROVE  q = r /\ i = j
    BY DEF AwaitedOnce
  <2>1. \A x : Awaited(x)' = Awaited(x)
    BY DEF Awaited
  <2>2. /\ queue'[q][i] \notin {Clear("none", "nobody"), Clear("unlessVanished", "nobody")}
        /\ queue'[r][j] \notin {Clear("none", "nobody"), Clear("unlessVanished", "nobody")}
    BY VanishedAssumption DEF Awaited, Clear, Job
  <2>3. PICK k \in 1..Len(queue[q]) : queue'[q][i] = queue[q][k] /\ k = IF q = p THEN i + 1 ELSE i
    BY <1>2, <2>2
  <2>4. PICK l \in 1..Len(queue[r]) : queue'[r][j] = queue[r][l] /\ l = IF r = p THEN j + 1 ELSE j
    BY <1>2, <2>2
  <2>6. Awaited(queue'[q][i]) /\ Awaited(queue'[r][j])
    BY <2>1
  <2>5. q = r /\ k = l
    <3>1. Awaited(queue[q][k]) /\ Awaited(queue[r][l]) /\ queue[q][k].owner = queue[r][l].owner
      BY <2>3, <2>4, <2>6
    <3> QED
      BY <3>1 DEF Lines, AwaitedOnce
  <2> QED
    BY <2>3, <2>4, <2>5
<1> QED
  BY <1>8, <1>9 DEF Lines

-----------------------------------------------------------------------------
\* Every step keeps the lines and the phases.
LEMMA PhasesKept ==
    ASSUME Phases, UNCHANGED <<check, vanished, clearing, checked>>, restored' \subseteq restored \union vanished \union clearing
    PROVE  Phases'
BY DEF Phases

LEMMA PhasesSent ==
    ASSUME Phases, Types, NEW p \in Plans, NEW job, NEW notSent, Sent(p, job, notSent) PROVE Phases'
<1>1. UNCHANGED <<checked, vanished, clearing>> /\ restored' \subseteq restored
  BY DEF Sent
<1>2. check' = check \/ check' = [check EXCEPT !.at = "pushes"]
  BY DEF Sent
<1>3. check'.left = check.left /\ (check'.at = check.at \/ check'.at = "pushes")
  BY <1>2 DEF Types, WatchType
<1> QED
  BY <1>1, <1>3 DEF Phases

\* A push that nobody waits for, or the answer to a tap.
LEMMA AnswerMeant ==
    ASSUME Types, NEW p \in Plans, TapAnswered(p)
    PROVE  \E job \in Jobs :
              /\ Queued(p, job) /\ job.owner \in {"pending", "nobody"} /\ job.reload = reloads
              /\ \/ job = Job("pending", "whilePending", Phones, "pending")
                 \/ job = Clear("unlessVanished", "nobody")
<1>1. Job("pending", "whilePending", Phones, "pending") \in Jobs /\ Clear("unlessVanished", "nobody") \in Jobs
  BY DEF Job, Clear, Jobs, Buttons, Types, CallsType
<1> QED
  BY <1>1 DEF TapAnswered, Job, Clear

LEMMA AnswerLines ==
    ASSUME Types, Lines, NEW p \in Plans, TapAnswered(p), UNCHANGED <<reloads, check, vanished>> PROVE Lines'
<1>1. PICK job \in Jobs :
         /\ Queued(p, job)
         /\ \/ job = Job("pending", "whilePending", Phones, "pending")
            \/ job = Clear("unlessVanished", "nobody")
  BY AnswerMeant
<1>2. job.owner \in {"pending", "nobody"} /\ job.owner \notin Calls
  BY <1>1, VanishedAssumption DEF Job, Clear
<1>3. JobMeant(p, job)'
  BY <1>1, <1>2, VanishedAssumption DEF JobMeant, Job, Clear, Types, CallsType, Alarms
<1>4. CallersStay
  BY DEF TapAnswered, CallersStay, StillWaits
<1>5. CheckStays
  BY DEF CheckStays
<1> QED
  BY <1>1, <1>2, <1>3, <1>4, <1>5, LinesAdded

LEMMA StartsStay == ASSUME Types, NEW p, NEW by, StartsRestore(p, by) PROVE CallersStay
BY FreeIsIdle DEF StartsRestore, CallersStay, StillWaits, Waiting, Types, CallsType

LEMMA UserLines ==
    ASSUME Types, Lines, Phases, NEW p \in Plans, User(p) \/ BackUp(p) PROVE Lines' /\ Phases'
<1>1. CASE Lost(p) \/ Changed(p)
  <2>1. PICK from, to : Becomes(p, from, to)
    BY <1>1 DEF Lost, Changed
  <2>2. UNCHANGED <<queue, reloads, check, vanished, clearing, checked, restored, stage>>
    BY <2>1 DEF Becomes, watch, life
  <2>3. CallersStay
    BY <1>1, <2>2 DEF Lost, Changed, CallersStay, StillWaits, Types, CallsType, Tasks
  <2> QED
    BY <2>2, <2>3, LinesKept, PhasesKept DEF CheckStays
<1>2. CASE TapRestore(p) \/ TapStopWatching(p) \/ Repairs(p)
  <2>1. UNCHANGED <<check, vanished, clearing, checked, restored, reloads>>
    BY <1>2 DEF TapRestore, TapStopWatching, Repairs, watch, life
  <2>2. \/ TapAnswered(p)
        \/ UNCHANGED queue /\ (UNCHANGED <<stage, call>> \/ \E by : StartsRestore(p, by))
    BY <1>2 DEF TapRestore, TapStopWatching, Repairs, pushes
  <2>3. UNCHANGED <<stage, call>> => CallersStay
    BY DEF CallersStay, StillWaits
  <2> QED
    BY <2>1, <2>2, <2>3, AnswerLines, StartsStay, LinesKept, PhasesKept DEF CheckStays
<1>3. CASE CardRestores(p)
  <2>1. UNCHANGED <<queue, reloads, check, vanished, clearing, checked, restored>>
    BY <1>3 DEF CardRestores, watch, life, pushes
  <2>2. CallersStay
    BY <1>3, FreeIsIdle DEF CardRestores, CallersStay, StillWaits, Waiting, Types, CallsType
  <2> QED
    BY <2>1, <2>2, LinesKept, PhasesKept DEF CheckStays
<1>4. CASE BackUp(p)
  BY <1>4, LinesKept, PhasesKept DEF BackUp, CallersStay, StillWaits, CheckStays, calls, watch, life, pushes
<1> QED
  BY <1>1, <1>2, <1>3, <1>4 DEF User

LEMMA PushLines ==
    ASSUME Types, Lines, Phases, NEW p \in Plans, Begins(p) \/ Sends(p) PROVE Lines' /\ Phases'
<1>1. queue[p] # <<>> /\ UNCHANGED reloads
  BY DEF Begins, Sends, Delivers, Types, PushesType, life
<1>2. queue[p][1] = Head(queue[p]) /\ queue[p][1] \in Jobs /\ [queue[p][1] EXCEPT !.to = {}] \in Jobs
  BY <1>1, HeadFacts DEF Types, Jobs
<1>3. \/ UNCHANGED <<watch, check, stage, call, queue>>
      \/ \E job \in Jobs : \E notSent :
            job.owner = queue[p][1].owner /\ job.reload = queue[p][1].reload /\ Sent(p, job, notSent)
  BY <1>2 DEF Begins, Sends, Delivers, Jobs
<1>4. CASE UNCHANGED <<watch, check, stage, call, queue>>
  BY <1>1, <1>4, LinesKept, PhasesKept DEF CallersStay, StillWaits, CheckStays, watch
<1>5. CASE \E job \in Jobs : \E notSent :
             job.owner = queue[p][1].owner /\ job.reload = queue[p][1].reload /\ Sent(p, job, notSent)
  BY <1>1, <1>5, LinesSent, PhasesSent
<1> QED
  BY <1>3, <1>4, <1>5

\* A restore that waits for no push goes on, perhaps by asking for one.
LEMMA CallGoesOn ==
    ASSUME Types, Lines, NEW c \in Calls, stage[c] \notin Waiting \union {"idle"},
           \A d \in Calls \ {c} : stage'[d] = stage[d] /\ call'[d] = call[d],
           UNCHANGED <<reloads, check, vanished>>,
           \/ UNCHANGED queue
           \/ \E job \in Jobs : /\ Queued(call[c].plan, job) /\ job.owner = c /\ job.reload = reloads /\ job.to = Phones
                                /\ call'[c].plan = call[c].plan /\ stage'[c] \in Waiting
                                /\ (stage'[c] = "confirming") = (job.shows = "restored")
                                /\ \/ job.shows = "restored" /\ job.guard = "unlessVanishedAgain" /\ call'[c].reload = reloads
                                   \/ job.shows \in Alarms /\ job.guard = "whileVanished"
                                   \/ job.shows = "clear" /\ job.guard = "none"
    PROVE  Lines'
<1>1. CallersStay /\ CheckStays
  BY DEF CallersStay, StillWaits, CheckStays
<1>2. CASE UNCHANGED queue
  BY <1>1, <1>2, LinesKept
<1>3. ASSUME NEW job \in Jobs, Queued(call[c].plan, job), job.owner = c, job.reload = reloads, job.to = Phones,
             call'[c].plan = call[c].plan, stage'[c] \in Waiting,
             (stage'[c] = "confirming") = (job.shows = "restored"),
             \/ job.shows = "restored" /\ job.guard = "unlessVanishedAgain" /\ call'[c].reload = reloads
             \/ job.shows \in Alarms /\ job.guard = "whileVanished"
             \/ job.shows = "clear" /\ job.guard = "none"
      PROVE  Lines'
  <2>1. call[c].plan \in Plans /\ c \notin {"check", "pending"}
    BY VanishedAssumption DEF Types, CallsType
  <2>2. JobMeant(call[c].plan, job)'
    BY <1>3, <2>1 DEF JobMeant, Alarms, Types, CallsType
  <2>3. \A d \in Calls : stage[d] \in Waiting => stage'[d] = stage[d] /\ call'[d].plan = call[d].plan
    BY <1>1 DEF CallersStay, StillWaits
  <2> QED
    BY <1>1, <1>3, <2>1, <2>2, <2>3, LinesAdded
<1> QED
  BY <1>2, <1>3

LEMMA RepliesLines ==
    ASSUME Types, Lines, NEW c \in Calls, stage[c] \notin Waiting \union {"idle"}, NEW shows \in Alarms,
           Replies(c, shows), UNCHANGED <<reloads, check, vanished>>
    PROVE  Lines'
<1>1. CASE Idles(c) /\ UNCHANGED queue
  BY <1>1, CallGoesOn DEF Idles, Types, CallsType
<1>2. CASE /\ stage' = [stage EXCEPT ![c] = "replying"] /\ UNCHANGED call
           /\ Job(shows, "whileVanished", Phones, c) \in Jobs
           /\ Queued(call[c].plan, Job(shows, "whileVanished", Phones, c))
  <2> DEFINE job == Job(shows, "whileVanished", Phones, c)
  <2>1. /\ job.owner = c /\ job.reload = reloads /\ job.to = Phones /\ job.shows = shows
        /\ job.guard = "whileVanished"
    BY DEF Job
  <2>2. shows # "restored" /\ stage'[c] = "replying" /\ \A d \in Calls \ {c} : stage'[d] = stage[d]
    BY <1>2 DEF Alarms, Types, CallsType
  <2> HIDE DEF job
  <2> QED
    BY <1>2, <2>1, <2>2, CallGoesOn DEF Waiting, job
<1> QED
  BY <1>1, <1>2, RepliesFacts

LEMMA CallLines ==
    ASSUME Types, Lines, Phases, NEW c \in Calls, CallSteps(c) PROVE Lines' /\ Phases'
<1> DEFINE p == call[c].plan
<1>1. /\ UNCHANGED <<reloads, check, vanished, clearing, checked>>
      /\ restored' \subseteq restored \union vanished \union clearing
  <2>1. UNCHANGED <<reloads, check, vanished, clearing, checked>>
    BY DEF CallSteps, TakesTurn, Compares, Decides, BuildFails, Builds, Releases, Reports, life, watch
  <2>2. CASE Reports(c)
    <3>1. UNCHANGED restored \/ (Marks(Plan(c)) /\ restored' = restored \union {Plan(c)})
      BY <2>2 DEF Reports
    <3> QED
      BY <2>1, <3>1 DEF Marks
  <2>3. CASE ~Reports(c)
    BY <2>1, <2>3 DEF CallSteps, TakesTurn, Compares, Decides, BuildFails, Builds, Releases, watch
  <2> QED
    BY <2>1, <2>2, <2>3
<1>2. Phases'
  BY <1>1, PhasesKept
<1>3. stage[c] \notin Waiting \union {"idle"}
  BY DEF CallSteps, TakesTurn, Compares, Decides, BuildFails, Builds, Releases, Reports, Waiting
<1>4. p \in Plans /\ Plan(c) = p
  BY <1>3 DEF Types, CallsType, Plan
<1>5. ASSUME UNCHANGED queue, Idles(c) \/ (UNCHANGED call /\ \E place : Goto(c, place)) PROVE Lines'
  <2>1. \A d \in Calls \ {c} : stage'[d] = stage[d] /\ call'[d] = call[d]
    BY <1>5 DEF Idles, Goto, Types, CallsType
  <2> QED
    BY <1>1, <1>3, <1>5, <2>1, CallGoesOn
<1>6. ASSUME NEW shows \in Alarms, Replies(c, shows) PROVE Lines'
  BY <1>1, <1>3, <1>6, RepliesLines
<1>7. Fails(c) => Lines'
  BY <1>6 DEF Fails, Alarms
\* An alarm is taken off while the call waits.
<1>8. ASSUME Queued(p, Clear("none", c)), NEW place \in Waiting \ {"confirming"}, Goto(c, place),
             call'[c].plan = p, \A d \in Calls \ {c} : call'[d] = call[d]
      PROVE  Lines'
  <2>1. Clear("none", c) \in Jobs
    BY ClearIsJob
  <2>2. /\ Clear("none", c).owner = c /\ Clear("none", c).reload = reloads /\ Clear("none", c).to = Phones
        /\ Clear("none", c).shows = "clear" /\ Clear("none", c).guard = "none"
    BY DEF Clear, Job
  <2>3. stage'[c] = place /\ \A d \in Calls \ {c} : stage'[d] = stage[d]
    BY <1>8 DEF Goto, Types, CallsType
  <2>4. \E job \in Jobs : /\ Queued(p, job) /\ job.owner = c /\ job.reload = reloads /\ job.to = Phones
                          /\ job.shows = "clear" /\ job.guard = "none"
    BY <1>8, <2>1, <2>2
  <2>5. \E job \in Jobs : /\ Queued(call[c].plan, job) /\ job.owner = c /\ job.reload = reloads /\ job.to = Phones
                          /\ call'[c].plan = call[c].plan /\ stage'[c] \in Waiting
                          /\ (stage'[c] = "confirming") = (job.shows = "restored")
                          /\ \/ job.shows = "restored" /\ job.guard = "unlessVanishedAgain" /\ call'[c].reload = reloads
                             \/ job.shows \in Alarms /\ job.guard = "whileVanished"
                             \/ job.shows = "clear" /\ job.guard = "none"
    BY <1>8, <2>3, <2>4
  <2> QED
    BY <1>1, <1>3, <1>8, <2>3, <2>5, CallGoesOn
<1>9. CASE TakesTurn(c) \/ Releases(c)
  BY <1>2, <1>5, <1>9 DEF TakesTurn, Releases, pushes
<1>10. CASE Compares(c)
  BY <1>2, <1>5, <1>6, <1>7, <1>10 DEF Compares, Acts, Alarms
<1>11. CASE Decides(c) \/ BuildFails(c)
  <2>1. ASSUME Queued(p, Clear("none", c)), Goto(c, "replying"), UNCHANGED call PROVE Lines'
    BY <1>8, <2>1 DEF Waiting
  <2> QED
    BY <1>2, <1>4, <1>5, <1>7, <1>11, <2>1 DEF Decides, BuildFails
<1>12. CASE Builds(c)
  <2>1. call'[c].plan = p /\ \A d \in Calls \ {c} : call'[d] = call[d]
    BY <1>12 DEF Builds, Types, CallsType, Tasks
  <2>2. CASE Queued(p, Clear("none", c)) /\ Goto(c, "moving")
    BY <1>2, <1>8, <2>1, <2>2 DEF Waiting
  <2>3. CASE Goto(c, "built") /\ UNCHANGED queue
    <3>1. \A d \in Calls \ {c} : stage'[d] = stage[d]
      BY <2>3 DEF Goto, Types, CallsType
    <3> QED
      BY <1>1, <1>2, <1>3, <2>1, <2>3, <3>1, CallGoesOn
  <2> QED
    BY <1>4, <1>12, <2>2, <2>3 DEF Builds
<1>13. CASE Reports(c)
  <2>1. CASE Idles(c) /\ UNCHANGED queue
    BY <1>2, <1>5, <2>1
  <2>2. CASE Queued(p, Clear("none", c)) /\ Goto(c, "replying") /\ UNCHANGED call
    BY <1>2, <1>8, <2>2 DEF Waiting
  <2>3. CASE /\ Stays(c) /\ call' = [call EXCEPT ![c].marked = Marks(p)] /\ Goto(c, "confirming")
             /\ Queued(p, Job("restored", "unlessVanishedAgain", Phones, c))
    <3> DEFINE job == Job("restored", "unlessVanishedAgain", Phones, c)
    <3>1. job \in Jobs
      BY DEF Job, Jobs, Types, CallsType
    <3>2. /\ job.owner = c /\ job.reload = reloads /\ job.to = Phones
          /\ job.shows = "restored" /\ job.guard = "unlessVanishedAgain"
      BY DEF Job
    <3> HIDE DEF job
    <3>3. /\ call'[c].plan = p /\ call'[c].reload = reloads /\ stage'[c] = "confirming"
          /\ \A d \in Calls \ {c} : stage'[d] = stage[d] /\ call'[d] = call[d]
      BY <2>3 DEF Goto, Stays, Types, CallsType, Tasks
    <3> QED
      BY <1>1, <1>2, <1>3, <2>3, <3>1, <3>2, <3>3, CallGoesOn DEF Waiting, job
  <2> QED
    BY <1>4, <1>13, <2>1, <2>2, <2>3 DEF Reports
<1> QED
  BY <1>2, <1>9, <1>10, <1>11, <1>12, <1>13 DEF CallSteps

LEMMA CheckLines ==
    ASSUME Types, Lines, Phases, CheckSteps PROVE Lines' /\ Phases'
<1>1. UNCHANGED <<stage, call, reloads>>
  BY DEF CheckSteps, CheckStarts, CheckSyncs, VanishedCheckEnds, CheckFollows, CheckAlarms, CheckClears, calls, life
<1>2. CallersStay
  BY <1>1 DEF CallersStay, StillWaits
<1>3. check.at # "pushing" /\ CheckStays
  BY DEF CheckSteps, CheckStarts, CheckSyncs, VanishedCheckEnds, CheckFollows, CheckAlarms, CheckClears, CheckStays
<1>4. ASSUME UNCHANGED queue PROVE Lines'
  BY <1>1, <1>2, <1>3, <1>4, LinesKept
<1>5. CASE CheckStarts \/ VanishedCheckEnds \/ \E p \in Plans : CheckFollows(p)
  <2>1. UNCHANGED <<queue, checked, vanished, clearing, restored>>
    BY <1>5 DEF CheckStarts, VanishedCheckEnds, CheckFollows, watch, pushes
  <2>2. CASE CheckStarts
    <3>1. check.at = "idle" /\ check'.at = "judging" /\ check'.left = check.left
      BY <2>2 DEF CheckStarts, Types, WatchType
    <3> QED
      BY <1>4, <2>1, <3>1 DEF Phases
  <2>3. CASE VanishedCheckEnds
    BY <1>4, <2>1, <2>3 DEF Phases, VanishedCheckEnds, Resting, NoAlarms
  <2>4. CASE \E p \in Plans : CheckFollows(p)
    BY <1>4, <2>1, <2>4, PhasesKept DEF CheckFollows
  <2> QED
    BY <1>5, <2>2, <2>3, <2>4
<1>6. ASSUME NEW over \in BOOLEAN, CheckSyncs(over) PROVE Lines' /\ Phases'
  <2>1. /\ UNCHANGED <<queue, restored>> /\ vanished' = VanishedNow /\ checked' = TRUE
        /\ clearing' = vanished \ VanishedNow /\ check.at = "judging" /\ check'.at = "pushes"
    BY <1>6 DEF CheckSyncs, pushes
  <2>2. \A p \in Plans : check'.left[p] # {} => p \in vanished'
    BY <1>6 DEF CheckSyncs
  <2> QED
    BY <1>4, <2>1, <2>2 DEF Phases
<1>7. ASSUME NEW p \in Plans, CheckAlarms(p) PROVE Lines' /\ Phases'
  <2>1. /\ UNCHANGED <<checked, vanished, clearing, restored>> /\ check.at = "pushes" /\ check.left[p] # {}
        /\ p \in vanished
    BY <1>7 DEF CheckAlarms, Phases, watch
  <2>2. CASE p \in restored
    <3>1. UNCHANGED queue /\ check' = [check EXCEPT !.left[p] = {}]
      BY <1>7, <2>2 DEF CheckAlarms
    <3>2. check'.at = "pushes" /\ \A q \in Plans : check'.left[q] # {} => check.left[q] # {}
      BY <2>1, <3>1 DEF Types, WatchType
    <3> QED
      BY <1>4, <2>1, <3>1, <3>2 DEF Phases
  <2>3. CASE p \notin restored
    <3> DEFINE shows == IF p \in holders THEN "stopOnly" ELSE "offer"
               job == Job(shows, "unlessRestored", check.left[p], "check")
    <3>1. Queued(p, job) /\ check' = [at |-> "pushing", left |-> [check.left EXCEPT ![p] = {}]]
      BY <1>7, <2>3 DEF CheckAlarms
    <3>2. check'.at = "pushing" /\ \A q \in Plans : check'.left[q] # {} => check.left[q] # {}
      BY <3>1 DEF Types, WatchType
    <3>3. /\ job.owner = "check" /\ job.reload = reloads /\ job.shows \in Alarms /\ job.guard = "unlessRestored"
          /\ job.to = check.left[p]
      BY DEF Job, Alarms
    <3>4. job \in Jobs
      BY DEF Job, Jobs, Types, CallsType, WatchType, Buttons
    <3> HIDE DEF job
    <3>5. PICK x \in Jobs : x = job
      BY <3>4
    <3>6. JobMeant(p, x)'
      BY <1>1, <2>1, <3>2, <3>3, <3>5, VanishedAssumption DEF JobMeant, Alarms, Types, CallsType
    <3>7. x.owner = "check" /\ Queued(p, x) /\ "check" \notin Calls
      BY <3>1, <3>3, <3>5, VanishedAssumption
    <3>8. Lines'
      BY <1>1, <1>2, <1>3, <3>6, <3>7, LinesAdded
    <3> QED
      BY <2>1, <3>2, <3>8 DEF Phases
  <2> QED
    BY <2>2, <2>3
<1>8. ASSUME NEW p \in Plans, CheckClears(p) PROVE Lines' /\ Phases'
  <2>1. /\ UNCHANGED <<checked, vanished>> /\ clearing' = clearing \ {p} /\ check.at = "pushes" /\ p \in clearing
    BY <1>8 DEF CheckClears
  <2>2. CASE p \in restored
    <3>1. UNCHANGED <<queue, check>> /\ restored' = restored \ {p}
      BY <1>8, <2>2 DEF CheckClears
    <3> QED
      BY <1>4, <2>1, <3>1 DEF Phases
  <2>3. CASE p \notin restored
    <3> DEFINE job == Clear("none", "check")
    <3>1. Queued(p, job) /\ check' = [check EXCEPT !.at = "pushing"] /\ UNCHANGED restored
      BY <1>8, <2>3 DEF CheckClears
    <3>2. check'.at = "pushing" /\ check'.left = check.left
      BY <3>1 DEF Types, WatchType
    <3>3. /\ job.owner = "check" /\ job.reload = reloads /\ job.shows = "clear" /\ job.guard = "none"
          /\ job.to = Phones
      BY DEF Job, Clear
    <3>4. job \in Jobs
      BY ClearIsJob
    <3> HIDE DEF job
    <3>5. PICK x \in Jobs : x = job
      BY <3>4
    <3>6. JobMeant(p, x)'
      BY <1>1, <2>1, <3>2, <3>3, <3>5, VanishedAssumption DEF JobMeant, Alarms, Types, CallsType
    <3>7. x.owner = "check" /\ Queued(p, x) /\ "check" \notin Calls
      BY <3>1, <3>3, <3>5, VanishedAssumption
    <3>8. Lines'
      BY <1>1, <1>2, <1>3, <3>6, <3>7, LinesAdded
    <3> QED
      BY <2>1, <2>3, <3>1, <3>2, <3>8 DEF Phases
  <2> QED
    BY <2>2, <2>3
<1> QED
  BY <1>4, <1>5, <1>6, <1>7, <1>8 DEF CheckSteps

LEMMA ReloadLines == ASSUME Types, Lines, Phases, Reload PROVE Lines' /\ Phases'
<1>1. /\ UNCHANGED <<queue, stage, call>> /\ reloads' = reloads + 1 /\ checked' = FALSE /\ vanished' = {}
      /\ restored' = {} /\ clearing' = {} /\ check' = Resting /\ reloads \in Nat
  BY DEF Reload, calls, Types, CallsType
<1>2. Phases'
  BY <1>1 DEF Phases, Resting, NoAlarms
<1>3. ASSUME NEW p \in Plans, NEW i \in 1..Len(queue[p]), NEW x, x = queue[p][i] PROVE JobMeant(p, x)' /\ ~(x.reload = reloads)'
  <2>1. JobMeant(p, x) /\ x.reload \in Nat
    BY <1>3, JobFields DEF Lines, JobsMeant, Types
  <2> QED
    BY <1>1, <2>1 DEF JobMeant
<1>4. JobsMeant'
  BY <1>1, <1>3 DEF JobsMeant
<1>5. ASSUME NEW p \in Plans, NEW i \in 1..Len(queue[p]), NEW x, x = queue[p][i] PROVE Awaited(x)' => Awaited(x)
  BY <1>3, <1>5 DEF Awaited
<1>6. AwaitedOnce'
  <2> SUFFICES ASSUME NEW p \in Plans, NEW q \in Plans, NEW i \in 1..Len(queue[p]), NEW j \in 1..Len(queue[q]),
                      NEW x, NEW y, x = queue[p][i], y = queue[q][j], Awaited(x)', Awaited(y)', x.owner = y.owner
               PROVE  p = q /\ i = j
    BY <1>1 DEF AwaitedOnce
  <2>1. Awaited(x) /\ Awaited(y)
    BY <1>5
  <2> QED
    BY <2>1 DEF Lines, AwaitedOnce
<1> QED
  BY <1>2, <1>4, <1>6 DEF Lines

LEMMA LinesNext == ASSUME Types, Lines, Phases, [VanishedNext]_vanishedVars PROVE Lines' /\ Phases'
<1>1. CASE Poll \/ UNCHANGED vanishedVars
  BY <1>1, LinesKept, PhasesKept DEF Poll, vanishedVars, CallersStay, StillWaits, CheckStays, watch, calls, life, pushes
<1> QED
  BY <1>1, UserLines, PushLines, CallLines, CheckLines, ReloadLines DEF VanishedNext

-----------------------------------------------------------------------------
(* The confirmation of a restored plan stays. *)

HereSeen(p) == comexio[p] = "here" /\ seen[p] = "here"
\* No check will find the plan vanished as long as it is not lost (again).
NoReason(p) == p \notin picked \/ HereSeen(p)
Rests(p) == NoReason(p) /\ (p \notin vanished \/ p \in restored)
Lasts(c) ==
    /\ call[c].plan \in Plans /\ (call[c].copy \/ HereSeen(call[c].plan))
    /\ stage[c] = "confirming" => Rests(call[c].plan) /\ (call[c].plan \in vanished => Stays(c))

\* Two restores a user asked for are of two plans, or of before and after a reload.
Apart ==
    /\ \A c, d \in Calls : Vanishing(c) /\ Vanishing(d) /\ call[c].plan = call[d].plan /\ call[c].reload = call[d].reload
          => c = d
    /\ \A c \in Calls : stage[c] = "confirming" => call[c].by = "push"
Lasting == \A c \in Calls : call[c].lasts => Lasts(c)
UnreplacedRest == \A p \in Plans \ replaceable : Rests(p)
AlarmsReplace ==
    \A p \in Plans : sending[p].left # {} /\ queue[p][1].shows \in Alarms => p \in replaceable
StaysInv == Apart /\ Lasting /\ UnreplacedRest /\ AlarmsReplace

LEMMA StaysInit == ASSUME VanishedInit PROVE StaysInv
<1>1. \A c \in Calls : call[c].by = "nobody" /\ ~call[c].lasts /\ stage[c] = "idle"
  BY DEF VanishedInit, NoTask
<1>2. \A p \in Plans : HereSeen(p) /\ p \notin vanished /\ sending[p].left = {}
  BY DEF VanishedInit, HereSeen, NotSending
<1> QED
  BY <1>1, <1>2 DEF StaysInv, Apart, Vanishing, Lasting, UnreplacedRest, Rests, NoReason, AlarmsReplace

\* What a step leaves of a plan's and of a restore's state.
PlanCalm(p) ==
    /\ HereSeen(p) => HereSeen(p)'
    /\ p \in picked' => p \in picked
    /\ p \in vanished' => \/ ~NoReason(p)'
                          \/ p \in vanished /\ reloads' = reloads /\ (p \in restored => p \in restored')
CallCalm(c) ==
    /\ call'[c] = call[c] /\ (HereSeen(call[c].plan) => HereSeen(call[c].plan)')
    /\ stage'[c] = "confirming" => stage[c] = "confirming" /\ PlanCalm(call[c].plan)

LEMMA CalmStep ==
    ASSUME Types, Lasting, UnreplacedRest,
           \A c \in Calls : call'[c].lasts => CallCalm(c) \/ Lasts(c)',
           \A p \in Plans \ replaceable' : (p \notin replaceable /\ PlanCalm(p)) \/ Rests(p)'
    PROVE  Lasting' /\ UnreplacedRest'
<1>1. ASSUME NEW p, Rests(p), PlanCalm(p) PROVE Rests(p)' /\ (p \in vanished' => p \in vanished /\ reloads' = reloads)
  BY <1>1 DEF Rests, PlanCalm, NoReason
<1>2. ASSUME NEW c \in Calls, call'[c].lasts, CallCalm(c) PROVE Lasts(c)'
  <2>1. Lasts(c) /\ call'[c] = call[c]
    BY <1>2 DEF Lasting, CallCalm
  <2> DEFINE p == call[c].plan
  <2>2. call'[c].plan \in Plans /\ (call'[c].copy \/ HereSeen(p)')
    BY <1>2, <2>1 DEF Lasts, CallCalm
  <2>3. stage'[c] = "confirming" => Rests(p)' /\ (p \in vanished' => p \in vanished /\ reloads' = reloads)
    BY <1>1, <1>2, <2>1 DEF Lasts, CallCalm
  <2>4. stage'[c] = "confirming" => (p \in vanished' => Stays(c)')
    BY <1>2, <2>1, <2>3 DEF Lasts, CallCalm, Stays
  <2> QED
    BY <2>1, <2>2, <2>3, <2>4 DEF Lasts, HereSeen, Rests, NoReason
<1> QED
  BY <1>1, <1>2 DEF Lasting, UnreplacedRest

\* Most steps touch no plan's confirmation.
LEMMA CalmForAll ==
    ASSUME Types, Lasting, UnreplacedRest, \A p \in Plans : PlanCalm(p), replaceable' = replaceable,
           \A c \in Calls : call'[c].lasts =>
               \/ call'[c] = call[c] /\ (stage'[c] = "confirming" => stage[c] = "confirming")
               \/ Lasts(c)'
    PROVE  Lasting' /\ UnreplacedRest'
<1>1. ASSUME NEW c \in Calls, call'[c].lasts, call'[c] = call[c], stage'[c] = "confirming" => stage[c] = "confirming"
      PROVE  CallCalm(c)
  <2>1. call[c].plan \in Plans
    BY <1>1 DEF Lasting, Lasts
  <2>2. PlanCalm(call[c].plan)
    BY <2>1
  <2>3. HereSeen(call[c].plan) => HereSeen(call[c].plan)'
    BY <2>2 DEF PlanCalm
  <2> QED
    BY <1>1, <2>2, <2>3 DEF CallCalm
<1> QED
  BY <1>1, CalmStep

\* A push that waits stays at the head of its line while others are queued.
LEMMA AlarmsKept ==
    ASSUME Types, AlarmsReplace, replaceable \subseteq replaceable', UNCHANGED sending,
           UNCHANGED queue \/ \E p \in Plans, job \in Jobs : Queued(p, job)
    PROVE  AlarmsReplace'
<1>1. ASSUME NEW q \in Plans, queue[q] # <<>> PROVE queue'[q][1] = queue[q][1]
  <2>1. CASE UNCHANGED queue
    BY <2>1
  <2>2. ASSUME NEW p \in Plans, NEW job \in Jobs, Queued(p, job) PROVE queue'[q][1] = queue[q][1]
    BY <1>1, <2>2, QueuedFacts, HeadFacts DEF Types
  <2> QED
    BY <2>1, <2>2
<1> QED
  BY <1>1 DEF AlarmsReplace, Types, PushesType

LEMMA ApartKept ==
    ASSUME Apart,
           \A c \in Calls :
              \/ call'[c].by \notin {"push", "repair"} /\ stage'[c] # "confirming"
              \/ /\ call'[c].plan = call[c].plan /\ call'[c].by = call[c].by /\ call'[c].reload = call[c].reload
                 /\ stage'[c] = "confirming" => stage[c] = "confirming" \/ call[c].by = "push"
    PROVE  Apart'
BY DEF Apart, Vanishing

LEMMA IdlesBy ==
    ASSUME Types, NEW c \in Calls, Idles(c)
    PROVE  /\ call'[c].by = "nobody" /\ ~call'[c].lasts /\ stage'[c] = "idle"
           /\ \A d \in Calls \ {c} : call'[d] = call[d] /\ stage'[d] = stage[d]
BY DEF Idles, NoTask, Types, CallsType

LEMMA StartsApart ==
    ASSUME Types, Apart, NEW p \in Plans, NEW by \in {"push", "repair"}, StartsRestore(p, by)
    PROVE  /\ Apart'
           /\ \A c \in Calls : call'[c].lasts =>
                 call'[c] = call[c] /\ (stage'[c] = "confirming" => stage[c] = "confirming")
<1>1. CASE BeingRestored(p)
  BY <1>1 DEF StartsRestore, Apart, Vanishing
<1>2. CASE ~BeingRestored(p)
  <2>1. /\ Free \in Calls /\ stage' = [stage EXCEPT ![Free] = "turn"]
        /\ call' = [call EXCEPT ![Free] = Asked(p, by)]
    BY <1>2, FreeIsIdle DEF StartsRestore
  <2>2. \A c \in Calls \ {Free} : call'[c] = call[c] /\ stage'[c] = stage[c]
    BY <2>1 DEF Types, CallsType
  <2>3. /\ call'[Free].plan = p /\ call'[Free].by = by /\ call'[Free].reload = reloads /\ ~call'[Free].lasts
        /\ stage'[Free] = "turn"
    BY <2>1, AskedTypes DEF Types, CallsType
  <2>4. \A c \in Calls : ~(call[c].plan = p /\ call[c].reload = reloads /\ call[c].by # "card")
    BY <1>2 DEF BeingRestored
  <2>5. Apart'
    BY <2>2, <2>3, <2>4 DEF Apart, Vanishing
  <2> QED
    BY <2>2, <2>3, <2>5
<1> QED
  BY <1>1, <1>2

LEMMA LostStays ==
    ASSUME Types, StaysInv, NEW p \in Plans, Lost(p) PROVE StaysInv'
<1>1. PICK to \in {"gone", "renamed"} : Becomes(p, {"here"}, to)
  BY DEF Lost
<1>2. /\ \A q \in Plans \ {p} : comexio'[q] = comexio[q]
      /\ UNCHANGED <<picked, backedUp, seen, vanished, restored, stage, reloads, queue, sending>>
      /\ replaceable' = replaceable \union {p}
  BY <1>1 DEF Lost, Becomes, options, lists, watch, life, Types, OutsideType
<1>3. \A c \in Calls : /\ call'[c].plan = call[c].plan /\ call'[c].by = call[c].by /\ call'[c].reload = call[c].reload
                       /\ call'[c].lasts => call[c].plan # p /\ call'[c] = call[c]
  BY DEF Lost, Types, CallsType, Tasks
<1>4. \A q \in Plans \ {p} : PlanCalm(q)
  BY <1>2 DEF PlanCalm, HereSeen
<1>5. ASSUME NEW c \in Calls, call'[c].lasts PROVE CallCalm(c)
  <2>1. call[c].plan \in Plans \ {p} /\ call'[c] = call[c]
    BY <1>3, <1>5 DEF StaysInv, Lasting, Lasts
  <2>2. PlanCalm(call[c].plan)
    BY <1>4, <2>1
  <2>3. HereSeen(call[c].plan) => HereSeen(call[c].plan)'
    BY <1>2, <2>1 DEF HereSeen
  <2> QED
    BY <1>2, <2>1, <2>2, <2>3 DEF CallCalm
<1>6. Lasting' /\ UnreplacedRest'
  BY <1>2, <1>4, <1>5, CalmStep DEF StaysInv
<1>7. Apart'
  BY <1>2, <1>3, ApartKept DEF StaysInv
<1>8. AlarmsReplace'
  BY <1>2, AlarmsKept DEF StaysInv
<1> QED
  BY <1>6, <1>7, <1>8 DEF StaysInv

\* The plans and the watch are left alone; picks may go.
LEMMA PlansCalm ==
    ASSUME UNCHANGED <<seen, vanished, restored, reloads>>, picked' \subseteq picked,
           \A p \in Plans : comexio[p] = "here" => comexio'[p] = "here"
    PROVE  \A p \in Plans : PlanCalm(p)
BY DEF PlanCalm, HereSeen

LEMMA UserStays ==
    ASSUME Types, StaysInv, NEW p \in Plans, User(p) \/ BackUp(p) PROVE StaysInv'
<1>1. CASE Changed(p)
  <2>1. PICK from, to : from \in {{"gone", "renamed"}, {"other"}} /\ Becomes(p, from, to)
    BY <1>1 DEF Changed
  <2>2. /\ \A q \in Plans : comexio[q] = "here" => comexio'[q] = "here"
        /\ UNCHANGED <<picked, seen, vanished, restored, stage, call, reloads, queue, sending, replaceable>>
    BY <1>1, <2>1 DEF Changed, Becomes, options, lists, watch, life, Types, OutsideType
  <2>3. Lasting' /\ UnreplacedRest'
    BY <2>2, PlansCalm, CalmForAll DEF StaysInv
  <2>4. Apart'
    BY <2>2, ApartKept DEF StaysInv
  <2>5. AlarmsReplace'
    BY <2>2, AlarmsKept DEF StaysInv
  <2> QED
    BY <2>3, <2>4, <2>5 DEF StaysInv
<1>2. ASSUME TapRestore(p) \/ TapStopWatching(p) \/ Repairs(p) PROVE StaysInv'
  <2>1. /\ UNCHANGED <<comexio, seen, vanished, restored, reloads, sending, replaceable>>
        /\ picked' \subseteq picked
    BY <1>2 DEF TapRestore, TapStopWatching, Repairs, TapAnswered, Pressed, outside, lists, watch, life, pushes, options
  <2>2. UNCHANGED queue \/ \E job \in Jobs : Queued(p, job)
    BY <1>2, AnswerMeant DEF TapRestore, TapStopWatching, Repairs, pushes
  <2>3. UNCHANGED <<stage, call>> \/ \E by \in {"push", "repair"} : StartsRestore(p, by)
    BY <1>2 DEF TapRestore, TapStopWatching, Repairs, TapAnswered
  <2>4. /\ Apart'
        /\ \A c \in Calls : call'[c].lasts =>
              call'[c] = call[c] /\ (stage'[c] = "confirming" => stage[c] = "confirming")
    <3>1. CASE UNCHANGED <<stage, call>>
      BY <3>1, ApartKept DEF StaysInv
    <3>2. CASE \E by \in {"push", "repair"} : StartsRestore(p, by)
      BY <3>2, StartsApart DEF StaysInv
    <3> QED
      BY <2>3, <3>1, <3>2
  <2>5. \A q \in Plans : PlanCalm(q)
    BY <2>1, PlansCalm
  <2>6. Lasting' /\ UnreplacedRest'
    BY <2>1, <2>4, <2>5, CalmForAll DEF StaysInv
  <2>7. AlarmsReplace'
    BY <2>1, <2>2, AlarmsKept DEF StaysInv
  <2> QED
    BY <2>4, <2>6, <2>7 DEF StaysInv
<1>3. ASSUME CardRestores(p) \/ BackUp(p) PROVE StaysInv'
  <2>1. UNCHANGED <<comexio, picked, seen, vanished, restored, reloads, sending, queue, replaceable>>
    BY <1>3 DEF CardRestores, BackUp, outside, options, lists, watch, life, pushes
  <2>2. \A c \in Calls : \/ call'[c] = call[c] /\ stage'[c] = stage[c]
                         \/ call'[c].by = "card" /\ ~call'[c].lasts /\ stage'[c] = "decide"
    BY <1>3, FreeIsIdle, AskedTypes DEF CardRestores, BackUp, calls, Types, CallsType
  <2>3. Apart'
    BY <2>2, ApartKept DEF StaysInv
  <2>4. Lasting' /\ UnreplacedRest'
    BY <2>1, <2>2, PlansCalm, CalmForAll DEF StaysInv
  <2>5. AlarmsReplace'
    BY <2>1, AlarmsKept DEF StaysInv
  <2> QED
    BY <2>3, <2>4, <2>5 DEF StaysInv
<1> QED
  BY <1>1, <1>2, <1>3, LostStays DEF User

LEMMA CheckQueues ==
    ASSUME Types, CheckSteps \/ Poll \/ Reload
    PROVE  UNCHANGED queue \/ \E p \in Plans, job \in Jobs : Queued(p, job)
<1>1. ASSUME NEW p \in Plans, CheckAlarms(p) PROVE UNCHANGED queue \/ \E job \in Jobs : Queued(p, job)
  <2>1. \A shows \in Alarms : Job(shows, "unlessRestored", check.left[p], "check") \in Jobs
    BY DEF Job, Jobs, Types, CallsType, WatchType, Alarms, Buttons
  <2> QED
    BY <1>1, <2>1 DEF CheckAlarms, Alarms
<1>2. ASSUME NEW p \in Plans, CheckClears(p) PROVE UNCHANGED queue \/ \E job \in Jobs : Queued(p, job)
  BY <1>2, ClearIsJob DEF CheckClears
<1> QED
  BY <1>1, <1>2 DEF CheckSteps, CheckStarts, CheckSyncs, VanishedCheckEnds, CheckFollows, Poll, Reload, pushes

\* A check finds no plan that nothing is the matter with; a reload finds none at all.
LEMMA WatchStays ==
    ASSUME Types, Phases, StaysInv, CheckSteps \/ Poll \/ Reload PROVE StaysInv'
<1>1. UNCHANGED <<stage, call, comexio, sending, replaceable>>
  BY DEF CheckSteps, CheckStarts, CheckSyncs, VanishedCheckEnds, CheckFollows, CheckAlarms, CheckClears, Poll, Reload,
     calls, outside, pushes
<1>2. Apart'
  BY <1>1, ApartKept DEF StaysInv
<1>3. UNCHANGED queue \/ \E p \in Plans, job \in Jobs : Queued(p, job)
  BY CheckQueues
<1>4. AlarmsReplace'
  BY <1>1, <1>3, AlarmsKept DEF StaysInv
<1>5. \A p \in Plans : PlanCalm(p)
  <2> SUFFICES ASSUME NEW p \in Plans PROVE PlanCalm(p)
    OBVIOUS
  <2>1. HereSeen(p) => HereSeen(p)'
    BY <1>1 DEF CheckSteps, CheckStarts, CheckSyncs, VanishedCheckEnds, CheckFollows, CheckAlarms, CheckClears, Poll,
       Reload, lists, HereSeen
  <2>2. picked' \subseteq picked
    BY DEF CheckSteps, CheckStarts, CheckSyncs, VanishedCheckEnds, CheckFollows, CheckAlarms, CheckClears, Poll, Reload,
       options
  <2>3. CASE Reload
    BY <2>1, <2>2, <2>3 DEF Reload, PlanCalm
  <2>4. ASSUME NEW over \in BOOLEAN, CheckSyncs(over) PROVE PlanCalm(p)
    <3>1. vanished' = VanishedNow /\ UNCHANGED <<picked, seen>>
      BY <2>4 DEF CheckSyncs, options
    <3>2. p \in vanished' => ~NoReason(p)'
      BY <3>1 DEF VanishedNow, NoReason, HereSeen
    <3> QED
      BY <2>1, <2>2, <3>2 DEF PlanCalm
  <2>5. ASSUME NEW q \in Plans, CheckClears(q) PROVE PlanCalm(p)
    <3>1. /\ UNCHANGED <<vanished, reloads>> /\ q \in clearing
          /\ \A x \in restored \ {q} : x \in restored'
      BY <2>5 DEF CheckClears, life
    <3>2. p \in vanished => p # q
      BY <3>1 DEF Phases
    <3> QED
      BY <2>1, <2>2, <3>1, <3>2 DEF PlanCalm
  <2>6. CASE \/ CheckStarts \/ VanishedCheckEnds \/ Poll
             \/ \E q \in Plans : CheckFollows(q) \/ CheckAlarms(q)
    <3>1. UNCHANGED <<vanished, restored, reloads>>
      BY <2>6 DEF CheckStarts, VanishedCheckEnds, CheckFollows, CheckAlarms, Poll, watch, life
    <3> QED
      BY <2>1, <2>2, <3>1 DEF PlanCalm
  <2> QED
    BY <2>3, <2>4, <2>5, <2>6 DEF CheckSteps
<1>6. Lasting' /\ UnreplacedRest'
  BY <1>1, <1>5, CalmForAll DEF StaysInv
<1> QED
  BY <1>2, <1>4, <1>6 DEF StaysInv

LEMMA CallQueues ==
    ASSUME Types, NEW c \in Calls, CallSteps(c)
    PROVE  UNCHANGED queue \/ \E p \in Plans, job \in Jobs : Queued(p, job)
<1> DEFINE Asks == UNCHANGED queue \/ \E p \in Plans, job \in Jobs : Queued(p, job)
<1>1. stage[c] # "idle" /\ call[c].plan \in Plans /\ Plan(c) = call[c].plan
  BY DEF CallSteps, TakesTurn, Compares, Decides, BuildFails, Builds, Releases, Reports, Types, CallsType, Plan
<1>2. ASSUME NEW shows \in Alarms, Replies(c, shows) PROVE Asks
  BY <1>1, <1>2, RepliesFacts
<1>3. Fails(c) => Asks
  BY <1>2 DEF Fails, Alarms
<1>4. Clear("none", c) \in Jobs /\ Job("restored", "unlessVanishedAgain", Phones, c) \in Jobs
  BY ClearIsJob DEF Job, Jobs, Types, CallsType
<1>5. CASE TakesTurn(c) \/ Releases(c)
  BY <1>5 DEF TakesTurn, Releases, pushes
<1>6. CASE Compares(c)
  BY <1>2, <1>3, <1>6 DEF Compares, Acts, Alarms
<1>7. CASE Decides(c) \/ BuildFails(c)
  BY <1>1, <1>3, <1>4, <1>7 DEF Decides, BuildFails
<1>8. CASE Builds(c) \/ Reports(c)
  BY <1>1, <1>4, <1>8 DEF Builds, Reports
<1> QED
  BY <1>5, <1>6, <1>7, <1>8 DEF CallSteps

\* What a call's step does to the plans, and to the calls.
LEMMA CallWatch ==
    ASSUME Types, NEW c \in Calls, CallSteps(c)
    PROVE  /\ UNCHANGED <<sending, shown, missed, replaceable, vanished, reloads, clearing, checked>>
           /\ picked' \subseteq picked /\ restored \subseteq restored'
           /\ \A p \in Plans : HereSeen(p) => HereSeen(p)'
<1>1. UNCHANGED <<sending, shown, missed, replaceable, vanished, reloads, clearing, checked>>
  BY DEF CallSteps, TakesTurn, Compares, Decides, BuildFails, Builds, Releases, Reports, watch, life, pushes, outside
<1>2. picked' \subseteq picked /\ restored \subseteq restored'
  BY DEF CallSteps, TakesTurn, Compares, Decides, BuildFails, Builds, Releases, Reports, watch, options
<1>3. CASE Builds(c)
  BY <1>1, <1>2, <1>3 DEF Builds, HereSeen, Types, OutsideType
<1>4. CASE Decides(c)
  <2>1. UNCHANGED comexio
    BY <1>4 DEF Decides, outside
  <2>2. \A p \in Plans : seen'[p] = seen[p] \/ seen'[p] = comexio[p]
    BY <1>4 DEF Decides, Types, OutsideType
  <2> QED
    BY <1>1, <1>2, <2>1, <2>2 DEF HereSeen
<1>5. CASE ~Builds(c) /\ ~Decides(c)
  <2>1. UNCHANGED comexio /\ (seen' = seen \/ seen' = comexio)
    BY <1>5 DEF CallSteps, TakesTurn, Compares, BuildFails, Releases, Reports, outside, lists
  <2> QED
    BY <1>1, <1>2, <2>1 DEF HereSeen
<1> QED
  BY <1>3, <1>4, <1>5

LEMMA RepliesStep ==
    ASSUME Types, NEW c \in Calls, stage[c] # "idle",
           Fails(c) \/ (\E shows \in Alarms : Replies(c, shows)) \/ Idles(c)
              \/ (UNCHANGED call /\ \E place \in Stages \ {"confirming"} : Goto(c, place))
    PROVE  /\ \A d \in Calls \ {c} : call'[d] = call[d] /\ stage'[d] = stage[d]
           /\ stage'[c] # "confirming"
           /\ call'[c] = call[c] \/ (call'[c].by = "nobody" /\ ~call'[c].lasts)
<1>1. CASE Idles(c)
  BY <1>1, IdlesBy
<1>2. ASSUME UNCHANGED call, NEW place \in Stages \ {"confirming"}, stage' = [stage EXCEPT ![c] = place]
      PROVE  /\ \A d \in Calls \ {c} : call'[d] = call[d] /\ stage'[d] = stage[d]
             /\ stage'[c] # "confirming" /\ call'[c] = call[c]
  BY <1>2 DEF Types, CallsType
<1>3. ASSUME NEW shows \in Alarms, Replies(c, shows)
      PROVE  /\ \A d \in Calls \ {c} : call'[d] = call[d] /\ stage'[d] = stage[d]
             /\ stage'[c] # "confirming"
             /\ call'[c] = call[c] \/ (call'[c].by = "nobody" /\ ~call'[c].lasts)
  BY <1>2, <1>3, RepliesFacts, IdlesBy DEF Stages, Waiting
<1> QED
  BY <1>1, <1>2, <1>3 DEF Fails, Alarms, Goto

LEMMA CallStays ==
    ASSUME Types, StaysInv, NEW c \in Calls, CallSteps(c) PROVE StaysInv'
<1> DEFINE p == call[c].plan
<1>1. /\ UNCHANGED <<sending, replaceable, vanished, reloads>>
      /\ picked' \subseteq picked /\ restored \subseteq restored'
      /\ \A q \in Plans : HereSeen(q) => HereSeen(q)'
  BY CallWatch
<1>2. \A q \in Plans : PlanCalm(q)
  BY <1>1 DEF PlanCalm
<1>3. AlarmsReplace'
  BY <1>1, CallQueues, AlarmsKept DEF StaysInv
<1>4. stage[c] # "idle" /\ p \in Plans /\ Plan(c) = p
  BY DEF CallSteps, TakesTurn, Compares, Decides, BuildFails, Builds, Releases, Reports, Types, CallsType, Plan
<1>5. ASSUME \/ /\ \A d \in Calls \ {c} : call'[d] = call[d] /\ stage'[d] = stage[d]
                /\ stage'[c] # "confirming"
                /\ call'[c] = call[c] \/ (call'[c].by = "nobody" /\ ~call'[c].lasts)
      PROVE  StaysInv'
  <2>1. Apart'
    BY <1>5, ApartKept DEF StaysInv
  <2>2. \A d \in Calls : call'[d].lasts => call'[d] = call[d] /\ (stage'[d] = "confirming" => stage[d] = "confirming")
    BY <1>5
  <2>3. Lasting' /\ UnreplacedRest'
    BY <1>1, <1>2, <2>2, CalmForAll DEF StaysInv
  <2> QED
    BY <1>3, <2>1, <2>3 DEF StaysInv
<1>6. CASE TakesTurn(c) \/ Releases(c) \/ BuildFails(c)
  BY <1>4, <1>5, <1>6, RepliesStep DEF TakesTurn, Releases, BuildFails, Stages, Waiting
<1>7. CASE Compares(c)
  BY <1>4, <1>5, <1>7, RepliesStep DEF Compares, Acts, Stages, Waiting, Alarms
<1>8. CASE Decides(c)
  BY <1>4, <1>5, <1>8, RepliesStep DEF Decides, Stages, Waiting
<1>9. CASE Builds(c)
  <2>1. PICK copy \in BOOLEAN :
           /\ call' = [call EXCEPT ![c].copy = copy, ![c].lasts = TRUE]
           /\ comexio' = IF copy THEN comexio ELSE [comexio EXCEPT ![p] = "here"]
           /\ seen' = IF copy THEN seen ELSE [seen EXCEPT ![p] = "here"]
    BY <1>4, <1>9 DEF Builds
  <2>2. /\ stage'[c] \in {"moving", "built"} /\ \A d \in Calls \ {c} : call'[d] = call[d] /\ stage'[d] = stage[d]
        /\ call'[c].plan = p /\ call'[c].by = call[c].by /\ call'[c].reload = call[c].reload /\ call'[c].copy = copy
    BY <1>9, <2>1 DEF Builds, Goto, Types, CallsType, Tasks
  <2>3. Lasts(c)'
    BY <1>4, <2>1, <2>2 DEF Lasts, HereSeen, Types, OutsideType
  <2>4. Apart'
    BY <2>2, ApartKept DEF StaysInv
  <2>5. \A d \in Calls : call'[d].lasts =>
            \/ call'[d] = call[d] /\ (stage'[d] = "confirming" => stage[d] = "confirming")
            \/ Lasts(d)'
    BY <2>2, <2>3
  <2>6. Lasting' /\ UnreplacedRest'
    BY <1>1, <1>2, <2>5, CalmForAll DEF StaysInv
  <2> QED
    BY <1>3, <2>4, <2>6 DEF StaysInv
<1>10. CASE Reports(c)
  <2>1. CASE Idles(c) \/ (Goto(c, "replying") /\ UNCHANGED call)
    BY <1>4, <1>5, <2>1, RepliesStep DEF Stages, Waiting
  <2>2. CASE /\ Stays(c) /\ call[c].by = "push" /\ call' = [call EXCEPT ![c].marked = Marks(p)]
             /\ Goto(c, "confirming") /\ restored' = IF Marks(p) THEN restored \union {p} ELSE restored
    <3>1. /\ stage'[c] = "confirming" /\ \A d \in Calls \ {c} : call'[d] = call[d] /\ stage'[d] = stage[d]
          /\ call'[c].plan = p /\ call'[c].by = call[c].by /\ call'[c].reload = call[c].reload
          /\ call'[c].lasts = call[c].lasts /\ call'[c].copy = call[c].copy
      BY <2>2 DEF Goto, Types, CallsType, Tasks
    <3>2. ASSUME call[c].lasts PROVE Lasts(c)'
      <4>1. call[c].copy \/ HereSeen(p)
        BY <3>2 DEF StaysInv, Lasting, Lasts
      <4>3. UNCHANGED <<comexio, seen>>
        BY <1>10 DEF Reports, outside, lists
      <4>4. call[c].copy => p \notin picked'
        BY <1>4, <1>10 DEF Reports
      <4>5. p \in vanished' => p \in restored'
        BY <1>1, <2>2 DEF Marks
      <4>6. (Stays(c))'
        BY <1>1, <2>2, <3>1 DEF Stays
      <4> QED
        BY <1>4, <3>1, <4>1, <4>3, <4>4, <4>5, <4>6 DEF Lasts, Rests, NoReason, HereSeen
    <3>3. Apart'
      BY <2>2, <3>1, ApartKept DEF StaysInv
    <3>4. \A d \in Calls : call'[d].lasts =>
              \/ call'[d] = call[d] /\ (stage'[d] = "confirming" => stage[d] = "confirming")
              \/ Lasts(d)'
      BY <3>1, <3>2
    <3>5. Lasting' /\ UnreplacedRest'
      BY <1>1, <1>2, <3>4, CalmForAll DEF StaysInv
    <3> QED
      BY <1>3, <3>3, <3>5 DEF StaysInv
  <2> QED
    BY <1>4, <1>10, <2>1, <2>2 DEF Reports
<1> QED
  BY <1>6, <1>7, <1>8, <1>9, <1>10 DEF CallSteps

\* A push that is done gives up a confirmation only where the plan may be alarmed again.
LEMMA SentStays ==
    ASSUME Types, Lines, StaysInv, NEW p \in Plans, queue[p] # <<>>, NEW job \in Jobs, NEW notSent,
           job.owner = queue[p][1].owner, job.reload = queue[p][1].reload, job.shows = queue[p][1].shows,
           Sent(p, job, notSent), UNCHANGED <<comexio, seen, picked, reloads>>
    PROVE  StaysInv'
<1> DEFINE o == job.owner
           head == queue[p][1]
           unmarked == /\ job.reload = reloads /\ o \in Calls /\ notSent # {}
                       /\ stage[o] = "confirming" /\ call[o].marked /\ p \in restored
<1>1. JobMeant(p, head)
  BY HeadFacts DEF Lines, JobsMeant, Types
<1>2. /\ o \in Calls => call[o].plan = p /\ ((stage[o] = "confirming") = (job.shows = "restored"))
      /\ job.shows = "restored" => o \in Calls /\ call[o].reload = job.reload /\ stage[o] = "confirming"
  BY <1>1 DEF JobMeant
<1>3. /\ UNCHANGED vanished /\ restored' = IF unmarked THEN restored \ {p} ELSE restored
      /\ sending' = [sending EXCEPT ![p] = NotSending]
      /\ \A q \in Plans \ {p} : queue'[q] = queue[q]
  BY SentFacts DEF Sent, Types
<1>4. replaceable' = IF job.shows # "restored" THEN replaceable
                     ELSE IF notSent = {} /\ call[o].lasts THEN replaceable \ {p}
                     ELSE replaceable \union {p}
  BY DEF Sent
<1>5. \A c \in Calls :
          \/ call'[c] = call[c] /\ (stage'[c] = "confirming" => stage[c] = "confirming" /\ c # o)
          \/ call'[c].by = "nobody" /\ ~call'[c].lasts /\ stage'[c] = "idle"
  <2>1. CASE o \in Calls /\ stage[o] = "moving"
    <3>1. stage' = [stage EXCEPT ![o] = "built"] /\ UNCHANGED call
      BY <2>1 DEF Sent
    <3> QED
      BY <2>1, <3>1 DEF Types, CallsType
  <2>2. CASE o \in Calls /\ stage[o] # "moving"
    <3>1. Idles(o)
      BY <2>2 DEF Sent
    <3> QED
      BY <2>2, <3>1, IdlesBy
  <2>3. CASE o \notin Calls
    BY <2>3 DEF Sent
  <2> QED
    BY <2>1, <2>2, <2>3
<1>6. Apart'
  BY <1>5, ApartKept DEF StaysInv
<1>7. \A q \in Plans : (HereSeen(q) => HereSeen(q)') /\ (q # p \/ ~unmarked \/ q \notin vanished => PlanCalm(q))
  BY <1>3 DEF PlanCalm, HereSeen
<1>8. ASSUME NEW c \in Calls, call'[c].lasts PROVE CallCalm(c)
  <2>1. /\ call'[c] = call[c] /\ (stage'[c] = "confirming" => stage[c] = "confirming" /\ c # o)
        /\ Lasts(c) /\ call[c].plan \in Plans
    BY <1>5, <1>8 DEF StaysInv, Lasting, Lasts
  <2>2. ASSUME stage'[c] = "confirming", call[c].plan = p, unmarked, p \in vanished PROVE FALSE
    <3>1. call[c].reload = reloads /\ call[o].reload = reloads /\ c # o /\ call[o].plan = p
      BY <1>2, <2>1, <2>2 DEF Lasts, Stays
    <3>2. Vanishing(c) /\ Vanishing(o)
      BY <2>1, <2>2 DEF StaysInv, Apart, Vanishing
    <3> QED
      BY <2>2, <3>1, <3>2 DEF StaysInv, Apart
  <2>3. stage'[c] = "confirming" => PlanCalm(call[c].plan)
    <3> SUFFICES ASSUME stage'[c] = "confirming" PROVE PlanCalm(call[c].plan)
      OBVIOUS
    <3>1. call[c].plan # p \/ ~unmarked \/ call[c].plan \notin vanished
      BY <2>2
    <3> QED
      BY <1>7, <2>1, <3>1
  <2>4. HereSeen(call[c].plan) => HereSeen(call[c].plan)'
    BY <2>1 DEF HereSeen
  <2> QED
    BY <2>1, <2>3, <2>4 DEF CallCalm
<1>9. ASSUME NEW q \in Plans \ replaceable' PROVE (q \notin replaceable /\ PlanCalm(q)) \/ Rests(q)'
  <2>1. CASE q # p
    BY <1>4, <1>7, <1>9, <2>1
  <2>2. CASE q = p /\ job.shows # "restored"
    <3>1. ~unmarked
      BY <1>2, <2>2
    <3> QED
      BY <1>4, <1>7, <1>9, <2>2, <3>1
  <2>3. CASE q = p /\ job.shows = "restored"
    <3>1. notSent = {} /\ call[o].lasts /\ o \in Calls /\ stage[o] = "confirming" /\ call[o].plan = p
      BY <1>2, <1>4, <1>9, <2>3
    <3>2. Rests(p)
      BY <3>1 DEF StaysInv, Lasting, Lasts
    <3> QED
      BY <1>3, <2>3, <3>1, <3>2 DEF Rests, NoReason, HereSeen
  <2> QED
    BY <2>1, <2>2, <2>3
<1>10. Lasting' /\ UnreplacedRest'
  BY <1>8, <1>9, CalmStep DEF StaysInv
<1>11. AlarmsReplace'
  <2> SUFFICES ASSUME NEW q \in Plans, sending'[q].left # {}, queue'[q][1].shows \in Alarms PROVE q \in replaceable'
    BY DEF AlarmsReplace
  <2>1. q # p
    BY <1>3 DEF NotSending, Types, PushesType
  <2>2. sending'[q] = sending[q] /\ queue'[q] = queue[q]
    BY <1>3, <2>1 DEF Types, PushesType
  <2> QED
    BY <1>4, <2>1, <2>2 DEF StaysInv, AlarmsReplace
<1> QED
  BY <1>6, <1>10, <1>11 DEF StaysInv

\* An alarm is sent only where the plan may be alarmed.
LEMMA DueAlarm ==
    ASSUME Types, Lines, StaysInv, NEW p \in Plans, queue[p] # <<>>, StillDue(p, queue[p][1]),
           queue[p][1].shows \in Alarms
    PROVE  p \in replaceable
<1>1. JobMeant(p, queue[p][1])
  BY HeadFacts DEF Lines, JobsMeant, Types
<1>2. p \in vanished \ restored
  BY <1>1 DEF JobMeant, StillDue, Alarms
<1> QED
  BY <1>2 DEF StaysInv, UnreplacedRest, Rests

LEMMA PushStays ==
    ASSUME Types, Lines, StaysInv, NEW p \in Plans, Begins(p) \/ Sends(p) PROVE StaysInv'
<1>1. queue[p] # <<>> /\ UNCHANGED <<comexio, seen, picked, reloads>>
  BY DEF Begins, Sends, Delivers, Types, PushesType, life, lists, options
<1>2. queue[p][1] = Head(queue[p]) /\ queue[p][1] \in Jobs /\ [queue[p][1] EXCEPT !.to = {}] \in Jobs
  BY <1>1, HeadFacts DEF Types, Jobs
<1>3. \/ /\ UNCHANGED <<watch, check, stage, call, queue, replaceable>>
         /\ \A q \in Plans \ {p} : sending'[q] = sending[q]
         /\ sending[p].left # {} \/ StillDue(p, queue[p][1])
      \/ \E job \in Jobs : \E notSent :
            /\ job.owner = queue[p][1].owner /\ job.reload = queue[p][1].reload /\ job.shows = queue[p][1].shows
            /\ Sent(p, job, notSent)
  <2>1. CASE Begins(p) /\ StillDue(p, queue[p][1])
    BY <1>2, <2>1 DEF Begins, Types, PushesType
  <2>2. CASE Begins(p) /\ ~StillDue(p, queue[p][1])
    BY <1>2, <2>2 DEF Begins, Jobs
  <2>3. CASE Sends(p)
    <3>1. PICK ph \in Phones, arrives \in BOOLEAN, answered \in BOOLEAN : Delivers(p, ph, arrives, answered)
      BY <2>3 DEF Sends
    <3> QED
      BY <1>2, <3>1 DEF Delivers, Types, PushesType
  <2> QED
    BY <2>1, <2>2, <2>3
<1>4. CASE /\ UNCHANGED <<watch, check, stage, call, queue, replaceable>>
           /\ \A q \in Plans \ {p} : sending'[q] = sending[q]
           /\ sending[p].left # {} \/ StillDue(p, queue[p][1])
  <2>1. Apart'
    BY <1>4, ApartKept DEF StaysInv
  <2>2. Lasting' /\ UnreplacedRest'
    BY <1>1, <1>4, PlansCalm, CalmForAll DEF StaysInv, watch
  <2>3. AlarmsReplace'
    BY <1>1, <1>4, DueAlarm DEF StaysInv, AlarmsReplace
  <2> QED
    BY <2>1, <2>2, <2>3 DEF StaysInv
<1>5. CASE \E job \in Jobs : \E notSent :
            /\ job.owner = queue[p][1].owner /\ job.reload = queue[p][1].reload /\ job.shows = queue[p][1].shows
            /\ Sent(p, job, notSent)
  BY <1>1, <1>5, SentStays
<1> QED
  BY <1>3, <1>4, <1>5

LEMMA StaysNext == ASSUME Types, Lines, Phases, StaysInv, [VanishedNext]_vanishedVars PROVE StaysInv'
<1>1. CASE UNCHANGED vanishedVars
  <2>1. UNCHANGED <<comexio, seen, picked, vanished, restored, reloads, stage, call, replaceable, sending, queue>>
    BY <1>1 DEF vanishedVars, outside, lists, options, watch, life, calls, pushes
  <2> QED
    BY <2>1, ApartKept, PlansCalm, CalmForAll, AlarmsKept DEF StaysInv
<1> QED
  BY <1>1, UserStays, WatchStays, CallStays, PushStays DEF VanishedNext

\* Only a push changes what a phone shows to an alarm.
LEMMA ShownByAlarm ==
    ASSUME Types, StaysInv, [VanishedNext]_vanishedVars, NEW p \in Plans, NEW ph \in Phones,
           shown[p][ph] = "restored", shown'[p][ph] \in Alarms
    PROVE  p \in replaceable
<1>1. shown'[p][ph] # shown[p][ph] /\ shown'[p][ph] # "nothing"
  BY DEF Alarms
<1>2. ASSUME NEW q \in Plans, Sends(q) PROVE p \in replaceable
  <2>1. PICK to \in Phones, arrives \in BOOLEAN, answered \in BOOLEAN : Delivers(q, to, arrives, answered)
    BY <1>2 DEF Sends
  <2>2. p = q /\ sending[q].left # {} /\ Head(queue[q]).shows \in Alarms
    BY <1>1, <2>1 DEF Delivers, Alarms, Types, PushesType
  <2>3. queue[q] # <<>> /\ Head(queue[q]) = queue[q][1]
    BY <2>2, HeadFacts DEF Types, PushesType
  <2> QED
    BY <2>2, <2>3 DEF StaysInv, AlarmsReplace
<1>3. ASSUME NEW q \in Plans, NEW kinds, Pressed(q, kinds) PROVE FALSE
  BY <1>1, <1>3 DEF Pressed, Types, PushesType
<1>4. \A q \in Plans : \A kinds : ~Pressed(q, kinds)
  BY <1>3
<1>5. UNCHANGED shown \/ \E q \in Plans : Sends(q)
  <2>1. ASSUME NEW q \in Plans, User(q) \/ BackUp(q) \/ Begins(q) PROVE UNCHANGED shown
    <3>1. ~TapRestore(q) /\ ~TapStopWatching(q)
      BY <1>4 DEF TapRestore, TapStopWatching
    <3> QED
      BY <2>1, <3>1 DEF User, Lost, Changed, Becomes, Repairs, CardRestores, BackUp, Begins, pushes
  <2>2. ASSUME NEW c \in Calls, CallSteps(c) PROVE UNCHANGED shown
    BY <2>2, CallWatch
  <2>3. CASE CheckSteps \/ Poll \/ Reload \/ UNCHANGED vanishedVars
    BY <2>3 DEF CheckSteps, CheckStarts, CheckSyncs, VanishedCheckEnds, CheckFollows, CheckAlarms, CheckClears, Poll, Reload,
       vanishedVars, pushes
  <2> QED
    BY <2>1, <2>2, <2>3 DEF VanishedNext
<1> QED
  BY <1>1, <1>2, <1>5

\* No alarm and no refusal to restore replaces the confirmation of a restored plan
\* on any phone, whatever pushes, checks and restores overtake each other, unless
\* the plan was lost again since or a phone failed on the confirmation
\* (_no_longer_due, async_push_restored).
THEOREM VanishedConfirmationStays == VanishedSpec => ConfirmationStays
<1> DEFINE AllInv == Types /\ Lines /\ Phases /\ StaysInv
<1>1. VanishedInit => AllInv
  BY TypesInit, LinesInit, StaysInit
<1>2. AllInv /\ [VanishedNext]_vanishedVars => AllInv'
  BY TypesNext, LinesNext, StaysNext
<1>3. AllInv /\ [VanishedNext]_vanishedVars =>
          [\A p \in Plans, ph \in Phones :
              shown[p][ph] = "restored" /\ shown'[p][ph] \in {"offer", "stopOnly"} => p \in replaceable]_vanishedVars
  BY ShownByAlarm DEF Alarms
<1> QED
  BY <1>1, <1>2, <1>3, PTL DEF VanishedSpec, ConfirmationStays

-----------------------------------------------------------------------------
(* No button is left behind: whatever could leave one is followed, in the same *)
(* line, by a push that takes it off, or the check has yet to take it off.     *)

Begun(p) == sending[p].left # {}
\* A push that takes the buttons off a phone, unless it fails there for good.
Erases(p, ph, job, begun) ==
    /\ job.reload = reloads
    /\ \/ job.shows = "clear" /\ (begun => ph \in sending[p].left)
       \/ /\ job.shows = "restored" /\ call[job.owner].marked
          /\ begun => ph \in sending[p].left \union sending[p].failed
       \/ job.shows = "pending" /\ begun /\ checked
Eraser(p, ph, kinds, i) ==
    queue[p][i].shows \in kinds /\ Erases(p, ph, queue[p][i], i = 1 /\ Begun(p))
ErasedBy(p, ph, kinds) == \E i \in 1..Len(queue[p]) : Eraser(p, ph, kinds, i)
LaterBy(p, ph, kinds) == \E i \in 2..Len(queue[p]) : Eraser(p, ph, kinds, i)
AnyPush == {"clear", "restored", "pending"}

\* A phone that shows buttons nothing was noted about, or is about to.
Risk(p, ph) == shown[p][ph] \in Buttons /\ <<p, ph>> \notin missed
Alarming(p, kinds) == Begun(p) /\ queue[p][1].shows \in kinds /\ queue[p][1].reload = reloads

Covered(p, ph) == Risk(p, ph) \/ Alarming(p, Alarms) => p \in clearing \/ ErasedBy(p, ph, AnyPush)
Confirmed(p, ph) == Risk(p, ph) \/ Alarming(p, Buttons) => ErasedBy(p, ph, {"restored"})
ButtonsInv ==
    /\ \A p \in Plans \ vanished, ph \in Phones : Covered(p, ph)
    /\ \A p \in restored, ph \in Phones : Confirmed(p, ph)

LEMMA ButtonsInit == ASSUME VanishedInit PROVE ButtonsInv
<1>1. ASSUME NEW p \in Plans, NEW ph \in Phones PROVE ~Risk(p, ph) /\ ~Begun(p)
  BY DEF VanishedInit, Risk, Begun, Buttons, NotSending
<1> QED
  BY <1>1 DEF ButtonsInv, Covered, Confirmed, Alarming, VanishedInit

\* A push that is begun is at the head of its line; one that is not waits in it.
LEMMA BegunFacts ==
    ASSUME Types, NEW p \in Plans, Begun(p) PROVE queue[p] # <<>> /\ 1 \in 1..Len(queue[p]) /\ queue[p][1] = Head(queue[p])
<1>1. queue[p] # <<>>
  BY DEF Begun, Types, PushesType
<1> QED
  BY <1>1, HeadFacts DEF Types

\* An owner of a push in line waits, so nothing of it is touched.
LEMMA ErasesKept ==
    ASSUME NEW p, NEW ph, NEW x, NEW b \in BOOLEAN, Erases(p, ph, x, b), UNCHANGED reloads, checked => checked',
           b => sending'[p] = sending[p],
           x.shows = "restored" => call'[x.owner].marked = call[x.owner].marked
    PROVE  Erases(p, ph, x, b)'
BY DEF Erases

\* Others only join the line.
LinesGrow ==
    /\ UNCHANGED <<sending, reloads>> /\ (checked => checked') /\ CallersStay
    /\ UNCHANGED queue \/ \E p \in Plans, job \in Jobs : Queued(p, job)

LEMMA GrowFacts ==
    ASSUME Types, LinesGrow, NEW p \in Plans
    PROVE  /\ Len(queue[p]) \in Nat /\ 1..Len(queue[p]) \subseteq 1..Len(queue'[p])
           /\ \A i \in 1..Len(queue[p]) : queue'[p][i] = queue[p][i]
<1>1. Len(queue[p]) \in Nat
  BY LenProperties DEF Types, PushesType
<1>2. CASE UNCHANGED queue
  BY <1>1, <1>2
<1>3. ASSUME NEW q \in Plans, NEW job \in Jobs, Queued(q, job)
      PROVE  /\ 1..Len(queue[p]) \subseteq 1..Len(queue'[p])
             /\ \A i \in 1..Len(queue[p]) : queue'[p][i] = queue[p][i]
  BY <1>1, <1>3, QueuedFacts DEF Types
<1> QED
  BY <1>1, <1>2, <1>3 DEF LinesGrow

LEMMA GrowErased ==
    ASSUME Types, Lines, LinesGrow, NEW p \in Plans, NEW ph, NEW kinds, ErasedBy(p, ph, kinds) PROVE ErasedBy(p, ph, kinds)'
<1>1. PICK i \in 1..Len(queue[p]) : Eraser(p, ph, kinds, i)
  BY DEF ErasedBy
<1>2. PICK x : x = queue[p][i]
  OBVIOUS
<1>3. PICK b \in BOOLEAN : b = (i = 1 /\ Begun(p))
  BY DEF Begun
<1>4. x.shows \in kinds /\ Erases(p, ph, x, b)
  BY <1>1, <1>2, <1>3 DEF Eraser
<1>5. JobMeant(p, x)
  BY <1>2 DEF Lines, JobsMeant
<1>6. x.shows = "restored" => call'[x.owner].marked = call[x.owner].marked
  BY <1>5 DEF JobMeant, LinesGrow, CallersStay, StillWaits
<1>7. Erases(p, ph, x, b)'
  BY <1>4, <1>6, ErasesKept DEF LinesGrow
<1>8. i \in 1..Len(queue'[p]) /\ queue'[p][i] = x
  BY <1>2, GrowFacts
<1>9. b = (i = 1 /\ Begun(p))'
  BY <1>3 DEF Begun, LinesGrow
<1>10. Eraser(p, ph, kinds, i)'
  BY <1>4, <1>7, <1>8, <1>9 DEF Eraser
<1> QED
  BY <1>8, <1>10 DEF ErasedBy

LEMMA GrowAlarming ==
    ASSUME Types, LinesGrow, NEW p \in Plans, NEW kinds, Alarming(p, kinds)' PROVE Alarming(p, kinds)
<1>1. Begun(p)
  BY DEF Alarming, Begun, LinesGrow
<1>2. queue'[p][1] = queue[p][1]
  BY <1>1, BegunFacts, GrowFacts
<1> QED
  BY <1>1, <1>2 DEF Alarming, LinesGrow

\* Nothing new is shown.
NothingShown == \A p \in Plans, ph \in Phones : Risk(p, ph)' => Risk(p, ph)

LEMMA QuietButtons ==
    ASSUME Types, Lines, ButtonsInv, LinesGrow, NothingShown,
           \A p \in Plans \ vanished' : p \in vanished => p \in clearing',
           \A p \in Plans \ vanished', ph \in Phones : p \in clearing \ vanished =>
               p \in clearing' \/ Covered(p, ph)', restored' \subseteq Plans,
           \A p \in restored', ph \in Phones : p \notin restored => ErasedBy(p, ph, {"restored"})'
    PROVE  ButtonsInv'
<1>1. ASSUME NEW p \in Plans, p \notin vanished', NEW ph \in Phones PROVE Covered(p, ph)'
  <2>1. CASE p \in vanished
    BY <1>1, <2>1 DEF Covered
  <2>2. CASE p \notin vanished
    BY <1>1, <2>2, GrowErased, GrowAlarming DEF ButtonsInv, Covered, NothingShown
  <2> QED
    BY <2>1, <2>2
<1>2. ASSUME NEW p \in restored', p \in Plans, NEW ph \in Phones PROVE Confirmed(p, ph)'
  BY <1>2, GrowErased, GrowAlarming DEF ButtonsInv, Confirmed, NothingShown
<1> QED
  BY <1>1, <1>2 DEF ButtonsInv

\* The steps that send nothing.
LEMMA CallOthers ==
    ASSUME Types, NEW c \in Calls, CallSteps(c)
    PROVE  /\ \A d \in Calls \ {c} : call'[d] = call[d] /\ stage'[d] = stage[d]
           /\ stage[c] \notin Waiting \union {"idle"}
<1>1. stage[c] \notin Waiting \union {"idle"}
  BY DEF CallSteps, TakesTurn, Compares, Decides, BuildFails, Builds, Releases, Reports, Waiting
<1>2. ASSUME Idles(c) \/ (UNCHANGED call /\ \E place : Goto(c, place))
      PROVE  \A d \in Calls \ {c} : call'[d] = call[d] /\ stage'[d] = stage[d]
  BY <1>2 DEF Idles, Goto, Types, CallsType
<1>3. ASSUME NEW shows, Replies(c, shows) PROVE Idles(c) \/ (UNCHANGED call /\ \E place : Goto(c, place))
  BY <1>3 DEF Replies
<1>4. ASSUME TakesTurn(c) \/ Compares(c) \/ Decides(c) \/ BuildFails(c) \/ Releases(c)
      PROVE  Idles(c) \/ (UNCHANGED call /\ \E place : Goto(c, place))
  BY <1>3, <1>4 DEF TakesTurn, Compares, Acts, Fails, Decides, BuildFails, Releases
<1>5. CASE Builds(c)
  BY <1>1, <1>5 DEF Builds, Goto, Types, CallsType
<1>6. CASE Reports(c)
  BY <1>1, <1>2, <1>6 DEF Reports, Goto, Types, CallsType
<1> QED
  BY <1>1, <1>2, <1>4, <1>5, <1>6 DEF CallSteps

LEMMA UserQuiet ==
    ASSUME Types, NEW p \in Plans, User(p) \/ BackUp(p)
    PROVE  /\ LinesGrow /\ NothingShown /\ UNCHANGED <<vanished, restored, clearing, checked>>
<1>1. UNCHANGED <<vanished, restored, clearing, checked, sending, missed, reloads>>
  BY DEF User, BackUp, Lost, Changed, Becomes, TapRestore, TapStopWatching, Pressed, Repairs, CardRestores, watch, life, pushes
<1>2. CallersStay
  <2>1. CASE Lost(p)
    BY <2>1 DEF Lost, Becomes, CallersStay, StillWaits, Types, CallsType, Tasks
  <2>2. CASE UNCHANGED <<stage, call>>
    BY <2>2 DEF CallersStay, StillWaits
  <2>3. CASE CardRestores(p)
    BY <2>3, FreeIsIdle DEF CardRestores, CallersStay, StillWaits, Waiting, Types, CallsType
  <2>4. (\E by : StartsRestore(p, by)) => CallersStay
    BY StartsStay
  <2> QED
    BY <2>1, <2>2, <2>3, <2>4 DEF User, BackUp, Changed, Becomes, TapRestore, TapStopWatching, TapAnswered, Repairs, calls
<1>3. UNCHANGED queue \/ \E job \in Jobs : Queued(p, job)
  <2>1. TapAnswered(p) => \E job \in Jobs : Queued(p, job)
    BY AnswerMeant
  <2> QED
    BY <2>1 DEF User, BackUp, Lost, Changed, Becomes, TapRestore, TapStopWatching, Repairs, CardRestores, pushes
<1>4. \A q \in Plans, ph \in Phones : shown'[q][ph] \in {shown[q][ph], "nothing"}
  <2>1. ASSUME NEW kinds, Pressed(p, kinds)
        PROVE  \A q \in Plans, ph \in Phones : shown'[q][ph] \in {shown[q][ph], "nothing"}
    BY <2>1 DEF Pressed, Types, PushesType
  <2>2. CASE UNCHANGED shown
    BY <2>2
  <2> QED
    BY <2>1, <2>2 DEF User, BackUp, Lost, Changed, Becomes, TapRestore, TapStopWatching, Repairs, CardRestores, pushes
<1>5. NothingShown
  BY <1>1, <1>4 DEF NothingShown, Risk, Buttons
<1> QED
  BY <1>1, <1>2, <1>3, <1>5 DEF LinesGrow

LEMMA CallQuiet ==
    ASSUME Types, NEW c \in Calls, CallSteps(c) PROVE LinesGrow /\ NothingShown
<1>1. CallersStay
  BY CallOthers DEF CallersStay, StillWaits
<1>2. UNCHANGED <<sending, shown, missed, reloads, checked>>
  BY CallWatch
<1> QED
  BY <1>1, <1>2, CallQueues DEF LinesGrow, NothingShown, Risk

LEMMA CheckQuiet ==
    ASSUME Types, CheckSteps \/ Poll \/ UNCHANGED vanishedVars PROVE LinesGrow /\ NothingShown
<1>1. UNCHANGED <<stage, call, sending, shown, missed, reloads>> /\ (checked => checked')
  <2>1. CASE \E over \in BOOLEAN : CheckSyncs(over)
    BY <2>1 DEF CheckSyncs, calls, life, pushes
  <2>2. CASE CheckStarts \/ VanishedCheckEnds \/ Poll \/ UNCHANGED vanishedVars
    BY <2>2 DEF CheckStarts, VanishedCheckEnds, Poll, vanishedVars, watch, calls, life, pushes
  <2>3. CASE \E p \in Plans : CheckFollows(p) \/ CheckAlarms(p) \/ CheckClears(p)
    BY <2>3 DEF CheckFollows, CheckAlarms, CheckClears, watch, calls, life, pushes
  <2> QED
    BY <2>1, <2>2, <2>3 DEF CheckSteps
<1>2. UNCHANGED queue \/ \E p \in Plans, job \in Jobs : Queued(p, job)
  <2>1. CASE UNCHANGED vanishedVars
    BY <2>1 DEF vanishedVars, pushes
  <2> QED
    BY <2>1, CheckQueues
<1>3. CallersStay /\ NothingShown
  BY <1>1 DEF CallersStay, StillWaits, NothingShown, Risk
<1> QED
  BY <1>1, <1>2, <1>3 DEF LinesGrow

\* Every step that sends nothing.
LEMMA SameWatchButtons ==
    ASSUME Types, Lines, ButtonsInv, LinesGrow, NothingShown, UNCHANGED <<vanished, clearing, restored>> PROVE ButtonsInv'
BY QuietButtons DEF Types, WatchType

LEMMA NewEraser ==
    ASSUME Types, LinesGrow, NEW p \in Plans, NEW job \in Jobs, Queued(p, job), NEW ph, NEW kinds, job.shows \in kinds,
           job.reload = reloads, job.shows = "clear" \/ (job.shows = "restored" /\ call'[job.owner].marked)
    PROVE  ErasedBy(p, ph, kinds)'
<1> DEFINE n == Len(queue[p]) + 1
<1>1. /\ Len(queue[p]) \in Nat /\ Len(queue'[p]) = n /\ queue'[p][n] = job /\ n \in 1..Len(queue'[p])
  BY QueuedFacts DEF Types
<1>2. (n = 1 /\ Begun(p)') = FALSE
  <2>1. n = 1 => queue[p] = <<>>
    BY <1>1, EmptySeq DEF Types, PushesType
  <2> QED
    BY <2>1 DEF LinesGrow, Begun, Types, PushesType
<1>3. Erases(p, ph, job, FALSE)'
  BY DEF Erases, LinesGrow
<1>4. PICK m \in 1..Len(queue'[p]) : m = n
  BY <1>1
<1>5. Eraser(p, ph, kinds, m)'
  BY <1>1, <1>2, <1>3, <1>4 DEF Eraser
<1> QED
  BY <1>5 DEF ErasedBy

LEMMA CallButtons ==
    ASSUME Types, Lines, Phases, ButtonsInv, NEW c \in Calls, CallSteps(c) PROVE ButtonsInv'
<1> DEFINE p == call[c].plan
<1>1. LinesGrow /\ NothingShown /\ UNCHANGED <<vanished, clearing>>
  BY CallQuiet, CallWatch
<1>2. p \in Plans /\ Plan(c) = p
  BY CallOthers DEF Types, CallsType, Plan
<1>3. CASE UNCHANGED restored
  BY <1>1, <1>3, SameWatchButtons
<1>4. CASE restored' # restored
  <2>1. Reports(c)
    BY <1>4 DEF CallSteps, TakesTurn, Compares, Decides, BuildFails, Builds, Releases, watch
  <2>2. /\ Marks(p) /\ restored' = restored \union {p} /\ call' = [call EXCEPT ![c].marked = Marks(p)]
        /\ Queued(p, Job("restored", "unlessVanishedAgain", Phones, c))
    BY <1>2, <1>4, <2>1 DEF Reports
  <2>3. PICK job \in Jobs : job = Job("restored", "unlessVanishedAgain", Phones, c)
    BY DEF Job, Jobs, Types, CallsType
  <2>4. /\ Queued(p, job) /\ job.shows = "restored" /\ job.reload = reloads /\ job.owner = c
    BY <2>2, <2>3 DEF Job
  <2>5. call'[job.owner].marked
    BY <2>2, <2>4 DEF Types, CallsType, Tasks
  <2>6. PICK q \in Plans : q = p
    BY <1>2
  <2>7. \A ph \in Phones : ErasedBy(q, ph, {"restored"})'
    BY <1>1, <2>4, <2>5, <2>6, NewEraser
  <2>8. restored' = restored \union {q} /\ restored' \subseteq Plans
    BY <2>2, <2>6 DEF Types, WatchType
  <2> QED
    BY <1>1, <2>7, <2>8, QuietButtons
<1> QED
  BY <1>3, <1>4

LEMMA CheckButtons ==
    ASSUME Types, Lines, Phases, ButtonsInv, CheckSteps \/ Poll \/ UNCHANGED vanishedVars PROVE ButtonsInv'
<1>1. LinesGrow /\ NothingShown
  BY CheckQuiet
<1>2. CASE UNCHANGED <<vanished, clearing, restored>>
  BY <1>1, <1>2, SameWatchButtons
<1>3. ASSUME NEW over \in BOOLEAN, CheckSyncs(over) PROVE ButtonsInv'
  <2>1. /\ check.at = "judging" /\ UNCHANGED restored /\ clearing' = vanished \ vanished'
    BY <1>3 DEF CheckSyncs
  <2>2. clearing = {}
    BY <2>1 DEF Phases
  <2> QED
    BY <1>1, <2>1, <2>2, QuietButtons DEF Types, WatchType
<1>4. ASSUME NEW q \in Plans, CheckClears(q) PROVE ButtonsInv'
  <2>1. /\ UNCHANGED vanished /\ q \in clearing /\ clearing' = clearing \ {q} /\ restored' \subseteq restored
    BY <1>4 DEF CheckClears
  <2>2. CASE q \in restored
    <3>1. \A ph \in Phones : Confirmed(q, ph)
      BY <2>2 DEF ButtonsInv
    <3>2. \A ph \in Phones : ErasedBy(q, ph, {"restored"}) => ErasedBy(q, ph, AnyPush)
      BY DEF ErasedBy, Eraser, AnyPush
    <3>3. ASSUME NEW ph \in Phones PROVE Covered(q, ph)'
      <4>1. Risk(q, ph)' => Risk(q, ph)
        BY <1>1 DEF NothingShown
      <4>2. Alarming(q, Alarms)' => Alarming(q, Buttons)
        <5>1. Alarming(q, Alarms)' => Alarming(q, Alarms)
          BY <1>1, GrowAlarming
        <5> QED
          BY <5>1 DEF Alarming, Alarms, Buttons
      <4>3. ErasedBy(q, ph, AnyPush) => ErasedBy(q, ph, AnyPush)'
        BY <1>1, GrowErased
      <4> QED
        BY <3>1, <3>2, <4>1, <4>2, <4>3 DEF Covered, Confirmed
    <3> QED
      BY <1>1, <2>1, <3>3, QuietButtons DEF Types, WatchType
  <2>3. CASE q \notin restored
    <3>1. PICK job \in Jobs : job = Clear("none", "check")
      BY ClearIsJob
    <3>2. Queued(q, job) /\ job.shows = "clear" /\ job.reload = reloads
      BY <1>4, <2>3, <3>1 DEF CheckClears, Clear, Job
    <3>3. ASSUME NEW ph \in Phones PROVE Covered(q, ph)'
      BY <1>1, <3>2, NewEraser DEF AnyPush, Covered
    <3> QED
      BY <1>1, <2>1, <3>3, QuietButtons DEF Types, WatchType
  <2> QED
    BY <2>2, <2>3
<1>5. CASE CheckStarts \/ VanishedCheckEnds \/ Poll \/ UNCHANGED vanishedVars
  BY <1>2, <1>5 DEF CheckStarts, VanishedCheckEnds, Poll, vanishedVars, watch
<1>6. CASE \E q \in Plans : CheckFollows(q) \/ CheckAlarms(q)
  BY <1>2, <1>6 DEF CheckFollows, CheckAlarms, watch
<1> QED
  BY <1>3, <1>4, <1>5, <1>6 DEF CheckSteps

\* A reload forgets every button, and no push of the watchdog before it goes on.
LEMMA ReloadButtons == ASSUME Types, Lines, Reload PROVE ButtonsInv'
<1>1. /\ UNCHANGED <<shown, queue, sending>> /\ restored' = {} /\ reloads' = reloads + 1 /\ reloads \in Nat
      /\ missed' = missed \union {x \in Plans \X Phones : shown[x[1]][x[2]] \in Buttons}
  BY DEF Reload, Types, CallsType
<1>2. ASSUME NEW p \in Plans, NEW ph \in Phones PROVE ~Risk(p, ph)' /\ ~Alarming(p, Alarms)'
  <2>1. ~Risk(p, ph)'
    BY <1>1 DEF Risk
  <2>2. Begun(p) => queue[p][1].reload # reloads'
    <3> SUFFICES ASSUME Begun(p) PROVE queue[p][1].reload # reloads'
      OBVIOUS
    <3>1. 1 \in 1..Len(queue[p])
      BY BegunFacts
    <3>2. queue[p][1].reload \in Nat /\ queue[p][1].reload <= reloads
      BY <3>1, JobFields DEF Types, Lines, JobsMeant, JobMeant
    <3> QED
      BY <1>1, <3>2
  <2> QED
    BY <1>1, <2>1, <2>2 DEF Alarming, Begun
<1> QED
  BY <1>1, <1>2 DEF ButtonsInv, Covered

-----------------------------------------------------------------------------
\* A push is judged, sent or done: the others of its line, and the other lines.
MarksStay(p) ==
    \A q \in Plans : \A i \in 1..Len(queue[q]) :
        queue[q][i].shows = "restored" /\ ~(q = p /\ i = 1)
            => call'[queue[q][i].owner].marked = call[queue[q][i].owner].marked

LEMMA SentMarks ==
    ASSUME Types, Lines, NEW p \in Plans, queue[p] # <<>>, NEW job \in Jobs, NEW notSent,
           job.owner = queue[p][1].owner, job.reload = queue[p][1].reload, Sent(p, job, notSent)
    PROVE  MarksStay(p)
<1> SUFFICES ASSUME NEW q \in Plans, NEW i \in 1..Len(queue[q]), queue[q][i].shows = "restored", ~(q = p /\ i = 1)
             PROVE  call'[queue[q][i].owner].marked = call[queue[q][i].owner].marked
  BY DEF MarksStay
<1>1. JobMeant(q, queue[q][i]) /\ 1 \in 1..Len(queue[p])
  BY HeadFacts DEF Types, Lines, JobsMeant
<1>2. queue[q][i].owner \in Calls
  BY <1>1 DEF JobMeant
<1>3. job.owner # queue[q][i].owner
  BY <1>1, <1>2 DEF Lines, AwaitedOnce, Awaited
<1>4. call'[queue[q][i].owner] = call[queue[q][i].owner]
  BY <1>2, <1>3 DEF Sent, Idles, Types, CallsType
<1> QED
  BY <1>4

\* A push that takes the buttons off moves up in its line.
LEMMA EraserMoves ==
    ASSUME NEW q \in Plans, NEW i \in 1..Len(queue[q]), NEW k \in 1..Len(queue'[q]), NEW x, x = queue[q][i], queue'[q][k] = x,
           NEW ph, NEW kinds, Eraser(q, ph, kinds, i), UNCHANGED <<reloads, checked>>,
           x.shows = "restored" => call'[x.owner].marked = call[x.owner].marked,
           NEW b \in BOOLEAN, b = (i = 1 /\ Begun(q)), b = (k = 1 /\ Begun(q)'), b => sending'[q] = sending[q]
    PROVE  ErasedBy(q, ph, kinds)'
<1>1. x.shows \in kinds /\ Erases(q, ph, x, b)
  BY DEF Eraser
<1>2. Erases(q, ph, x, b)'
  BY <1>1, ErasesKept
<1>3. Eraser(q, ph, kinds, k)'
  BY <1>1, <1>2 DEF Eraser
<1> QED
  BY <1>3 DEF ErasedBy

LEMMA OtherLines ==
    ASSUME Types, NEW p \in Plans, MarksStay(p), UNCHANGED <<reloads, checked>>, NEW q \in Plans, q # p,
           queue'[q] = queue[q], sending'[q] = sending[q], NEW ph, NEW kinds
    PROVE  /\ ErasedBy(q, ph, kinds) => ErasedBy(q, ph, kinds)'
           /\ Alarming(q, kinds)' => Alarming(q, kinds)
<1>1. ASSUME ErasedBy(q, ph, kinds) PROVE ErasedBy(q, ph, kinds)'
  <2>1. PICK i \in 1..Len(queue[q]) : Eraser(q, ph, kinds, i)
    BY <1>1 DEF ErasedBy
  <2>2. PICK x : x = queue[q][i]
    OBVIOUS
  <2>3. PICK b \in BOOLEAN : b = (i = 1 /\ Begun(q))
    BY DEF Begun
  <2>4. x.shows = "restored" => call'[x.owner].marked = call[x.owner].marked
    BY <2>2 DEF MarksStay
  <2>5. PICK k \in 1..Len(queue'[q]) : k = i
    BY DEF Types
  <2>6. b = (k = 1 /\ Begun(q)')
    BY <2>3, <2>5 DEF Begun
  <2> QED
    BY <2>1, <2>2, <2>3, <2>4, <2>5, <2>6, EraserMoves
<1>2. Alarming(q, kinds)' => Alarming(q, kinds)
  BY DEF Alarming, Begun
<1> QED
  BY <1>1, <1>2

\* What is behind the head of the line moves up, and the follow-up clears.
LEMMA SentErased ==
    ASSUME Types, Lines, NEW p \in Plans, queue[p] # <<>>, NEW job \in Jobs, NEW notSent,
           job.owner = queue[p][1].owner, job.reload = queue[p][1].reload, Sent(p, job, notSent),
           UNCHANGED reloads, NEW ph, NEW kinds
    PROVE  /\ ~Begun(p)'
           /\ LaterBy(p, ph, kinds) => ErasedBy(p, ph, kinds)'
           /\ Follow(p, job, notSent) # <<>> => ErasedBy(p, ph, AnyPush)'
<1> DEFINE n == Len(queue[p])
<1>1. /\ n \in Nat \ {0}
      /\ \A i \in 1..n - 1 : queue'[p][i] = queue[p][i + 1]
      /\ \/ Follow(p, job, notSent) = <<>> /\ Len(queue'[p]) = n - 1
         \/ /\ Len(queue'[p]) = n
            /\ queue'[p][n] \in {Clear("none", "nobody"), Clear("unlessVanished", "nobody")}
  BY SentFacts DEF Types
<1>2. UNCHANGED <<checked, reloads>> /\ sending'[p].left = {}
  BY DEF Sent, NotSending, Types, PushesType
<1>3. ~Begun(p)'
  BY <1>2 DEF Begun
<1>4. ASSUME LaterBy(p, ph, kinds) PROVE ErasedBy(p, ph, kinds)'
  <2>1. PICK i \in 2..n : Eraser(p, ph, kinds, i)
    BY <1>4 DEF LaterBy
  <2>2. i \in 1..n /\ i # 1
    BY <1>1
  <2>3. PICK x : x = queue[p][i]
    OBVIOUS
  <2>4. PICK k \in 1..Len(queue'[p]) : k = i - 1
    BY <1>1
  <2>5. queue'[p][k] = x
    BY <1>1, <2>3, <2>4
  <2>6. MarksStay(p)
    BY SentMarks
  <2>7. x.shows = "restored" => call'[x.owner].marked = call[x.owner].marked
    BY <2>2, <2>3, <2>6 DEF MarksStay
  <2>8. PICK b \in BOOLEAN : b = FALSE
    OBVIOUS
  <2>9. b = (i = 1 /\ Begun(p)) /\ b = (k = 1 /\ Begun(p)') /\ ~b
    BY <1>3, <2>2, <2>8
  <2> QED
    BY <1>2, <2>1, <2>2, <2>3, <2>5, <2>7, <2>9, EraserMoves
<1>5. ASSUME Follow(p, job, notSent) # <<>> PROVE ErasedBy(p, ph, AnyPush)'
  <2>1. PICK k \in 1..Len(queue'[p]) : k = n
    BY <1>1, <1>5
  <2>2. PICK x : x = queue'[p][k]
    OBVIOUS
  <2>3. x.shows = "clear" /\ x.reload = reloads
    BY <1>1, <1>5, <2>1, <2>2 DEF Clear, Job
  <2>4. Erases(p, ph, x, FALSE)'
    BY <1>2, <2>3 DEF Erases
  <2>5. Eraser(p, ph, AnyPush, k)'
    BY <1>3, <2>2, <2>3, <2>4 DEF Eraser, AnyPush
  <2> QED
    BY <2>5 DEF ErasedBy
<1> QED
  BY <1>3, <1>4, <1>5

\* Only the line of one plan moves, so only its buttons are looked at.
LEMMA OneLineMoves ==
    ASSUME Types, ButtonsInv, NEW p \in Plans, MarksStay(p), UNCHANGED <<reloads, checked, vanished, clearing>>,
           restored' \subseteq restored,
           \A q \in Plans \ {p} : queue'[q] = queue[q] /\ sending'[q] = sending[q],
           \A q \in Plans \ {p}, ph \in Phones : Risk(q, ph)' => Risk(q, ph),
           \A ph \in Phones : p \notin vanished => Covered(p, ph)',
           \A ph \in Phones : p \in restored' => Confirmed(p, ph)'
    PROVE  ButtonsInv'
<1>1. ASSUME NEW q \in Plans, q # p, NEW ph \in Phones
      PROVE  /\ q \notin vanished => Covered(q, ph)'
             /\ q \in restored' => Confirmed(q, ph)'
  <2>1. \A kinds : /\ ErasedBy(q, ph, kinds) => ErasedBy(q, ph, kinds)'
                   /\ Alarming(q, kinds)' => Alarming(q, kinds)
    BY <1>1, OtherLines
  <2>2. q \notin vanished => Covered(q, ph)
    BY DEF ButtonsInv
  <2>3. q \in restored' => Confirmed(q, ph)
    BY DEF ButtonsInv
  <2> QED
    BY <1>1, <2>1, <2>2, <2>3 DEF Covered, Confirmed
<1>2. restored' \subseteq Plans
  BY DEF Types, WatchType
<1> QED
  BY <1>1, <1>2 DEF ButtonsInv

\* A push that takes the buttons off is the head of the line or behind it.
LEMMA HeadOrLater ==
    ASSUME Types, NEW p \in Plans, NEW ph, NEW kinds, ErasedBy(p, ph, kinds)
    PROVE  LaterBy(p, ph, kinds) \/ Eraser(p, ph, kinds, 1)
<1>1. PICK i \in 1..Len(queue[p]) : Eraser(p, ph, kinds, i)
  BY DEF ErasedBy
<1>2. Len(queue[p]) \in Nat
  BY LenProperties DEF Types, PushesType
<1> QED
  BY <1>1, <1>2 DEF LaterBy

LEMMA DropsButtons ==
    ASSUME Types, Lines, Phases, ButtonsInv, NEW p \in Plans, Begins(p), ~StillDue(p, queue[p][1]) PROVE ButtonsInv'
<1>1. /\ queue[p] # <<>> /\ ~Begun(p) /\ UNCHANGED <<reloads, shown, missed>>
      /\ queue[p][1] = Head(queue[p]) /\ queue[p][1] \in Jobs /\ 1 \in 1..Len(queue[p])
  BY HeadFacts DEF Begins, Begun, life, Types
<1>2. PICK h \in Jobs : h = queue[p][1]
  BY <1>1
<1>3. PICK job \in Jobs : job = [h EXCEPT !.to = {}]
  BY DEF Jobs
<1>4. job.owner = queue[p][1].owner /\ job.reload = queue[p][1].reload /\ Sent(p, job, {})
  BY <1>1, <1>2, <1>3 DEF Begins, Jobs
<1>5. /\ UNCHANGED <<checked, vanished, clearing, restored>>
      /\ \A q \in Plans \ {p} : queue'[q] = queue[q] /\ sending'[q] = sending[q]
  BY <1>4 DEF Sent, Types, PushesType
<1>6. JobMeant(p, h)
  BY <1>1, <1>2 DEF Lines, JobsMeant
<1>7. \A q \in Plans, ph \in Phones : Risk(q, ph)' = Risk(q, ph)
  BY <1>1 DEF Risk
<1>8. \A ph, kinds : /\ ~Begun(p)' /\ (LaterBy(p, ph, kinds) => ErasedBy(p, ph, kinds)')
  BY <1>1, <1>4, SentErased
<1>9. ASSUME NEW ph, NEW kinds, Eraser(p, ph, kinds, 1) PROVE p \in vanished /\ (h.shows = "restored" => p \notin restored)
  <2>1. Erases(p, ph, h, FALSE)
    BY <1>1, <1>2, <1>9 DEF Eraser
  <2> QED
    BY <1>2, <1>6, <2>1 DEF Erases, JobMeant, StillDue
<1>10. ASSUME NEW ph \in Phones PROVE p \notin vanished => Covered(p, ph)'
  BY <1>5, <1>7, <1>8, <1>9, HeadOrLater DEF ButtonsInv, Covered, Alarming
<1>11. ASSUME NEW ph \in Phones PROVE p \in restored' => Confirmed(p, ph)'
  <2>1. Eraser(p, ph, {"restored"}, 1) => h.shows = "restored"
    BY <1>2 DEF Eraser
  <2> QED
    BY <1>5, <1>7, <1>8, <1>9, <2>1, HeadOrLater DEF ButtonsInv, Confirmed, Alarming
<1>12. MarksStay(p)
  BY <1>1, <1>4, SentMarks
<1> QED
  BY <1>1, <1>5, <1>7, <1>10, <1>11, <1>12, OneLineMoves

LEMMA BeginsButtons ==
    ASSUME Types, Lines, Phases, ButtonsInv, NEW p \in Plans, Begins(p), StillDue(p, queue[p][1]) PROVE ButtonsInv'
<1>1. /\ queue[p] # <<>> /\ ~Begun(p) /\ UNCHANGED <<reloads, shown, missed>>
      /\ queue[p][1] = Head(queue[p]) /\ queue[p][1] \in Jobs /\ 1 \in 1..Len(queue[p])
  BY HeadFacts DEF Begins, Begun, life, Types
<1>2. PICK h \in Jobs : h = queue[p][1]
  BY <1>1
<1>3. /\ UNCHANGED <<queue, call, checked, vanished, clearing, restored>>
      /\ sending' = [sending EXCEPT ![p] = [left |-> h.to, failed |-> {}]]
  BY <1>1, <1>2 DEF Begins, watch
<1>4. sending'[p].left = h.to /\ \A q \in Plans \ {p} : queue'[q] = queue[q] /\ sending'[q] = sending[q]
  BY <1>3 DEF Types, PushesType
<1>5. JobMeant(p, h)
  BY <1>1, <1>2 DEF Lines, JobsMeant
<1>6. \A q \in Plans, ph \in Phones : Risk(q, ph)' = Risk(q, ph)
  BY <1>1 DEF Risk
<1>7. MarksStay(p)
  BY <1>3 DEF MarksStay
<1>8. ASSUME NEW ph \in Phones, NEW kinds, ErasedBy(p, ph, kinds) PROVE ErasedBy(p, ph, kinds)'
  <2>1. PICK i \in 1..Len(queue[p]) : Eraser(p, ph, kinds, i)
    BY <1>8 DEF ErasedBy
  <2>2. PICK x : x = queue[p][i]
    OBVIOUS
  <2>3. x.shows \in kinds /\ Erases(p, ph, x, FALSE)
    BY <1>1, <2>1, <2>2 DEF Eraser
  <2>4. PICK b \in BOOLEAN : b = (i = 1 /\ Begun(p)')
    BY DEF Begun
  <2>5. b => ph \in sending'[p].left
    <3> SUFFICES ASSUME b PROVE ph \in sending'[p].left
      OBVIOUS
    <3>1. x = h
      BY <1>2, <2>2, <2>4
    <3>2. h.to = Phones
      BY <1>5, <2>3, <3>1, VanishedAssumption DEF Erases, JobMeant
    <3> QED
      BY <1>4, <3>2
  <2>6. Erases(p, ph, x, b)'
    BY <1>1, <1>3, <2>3, <2>5 DEF Erases
  <2>7. Eraser(p, ph, kinds, i)'
    BY <1>3, <2>2, <2>3, <2>4, <2>6 DEF Eraser
  <2> QED
    BY <1>3, <2>7 DEF ErasedBy
<1>9. Alarming(p, Alarms)' => p \in vanished /\ p \notin restored
  BY <1>1, <1>2, <1>3, <1>5 DEF Alarming, StillDue, JobMeant
<1>10. Alarming(p, Buttons)' => p \notin restored
  <2>1. Alarming(p, Buttons)' => Alarming(p, Alarms)' \/ h.shows = "pending"
    BY <1>2, <1>3 DEF Alarming, Alarms, Buttons
  <2>2. h.shows = "pending" => ~checked
    BY <1>2, <1>5 DEF JobMeant, StillDue
  <2>3. ~checked => restored = {}
    BY DEF Phases
  <2> QED
    BY <1>9, <2>1, <2>2, <2>3
<1>11. ASSUME NEW ph \in Phones PROVE p \notin vanished => Covered(p, ph)'
  BY <1>3, <1>6, <1>8, <1>9 DEF ButtonsInv, Covered
<1>12. ASSUME NEW ph \in Phones PROVE p \in restored' => Confirmed(p, ph)'
  BY <1>3, <1>6, <1>8, <1>10 DEF ButtonsInv, Confirmed
<1> QED
  BY <1>1, <1>3, <1>4, <1>6, <1>7, <1>11, <1>12, OneLineMoves

\* A notify service answers: what the phone shows then, and what is noted.
LEMMA DeliveredRisk ==
    ASSUME Types, NEW p \in Plans, NEW ph \in Phones, NEW arrives \in BOOLEAN, NEW answered \in BOOLEAN,
           arrives \/ ~answered, Delivers(p, ph, arrives, answered)
    PROVE  /\ \A q \in Plans, x \in Phones : ~(q = p /\ x = ph) => Risk(q, x)' = Risk(q, x)
           /\ Risk(p, ph)' => /\ queue[p][1].shows # "clear"
                              /\ queue[p][1].shows = "restored" => ~answered /\ Risk(p, ph)
                              /\ \/ Risk(p, ph)
                                 \/ /\ queue[p][1].shows \in Buttons /\ queue[p][1].reload = reloads
                                    /\ queue[p][1].shows = "pending" => checked
<1>1. queue[p] # <<>>
  BY DEF Delivers, Types, PushesType
<1>2. PICK h \in Jobs : h = queue[p][1] /\ h = Head(queue[p])
  BY <1>1, HeadFacts DEF Types
<1>3. h.shows \in Buttons \union {"restored", "clear"}
  BY DEF Jobs
<1> DEFINE now == IF h.shows = "clear" THEN "nothing" ELSE h.shows
<1>4. shown' = IF arrives THEN [shown EXCEPT ![p][ph] = now] ELSE shown
  BY <1>2 DEF Delivers
<1>5. missed' = IF ~arrives /\ h.shows # "clear" THEN missed
                ELSE IF arrives /\ h.reload = reloads /\ (h.shows = "pending" => checked)
                     THEN missed \ {<<p, ph>>} ELSE missed \union {<<p, ph>>}
  BY <1>2 DEF Delivers
<1>6. shown'[p][ph] = IF arrives THEN now ELSE shown[p][ph]
  BY <1>4 DEF Types, PushesType
<1>7. \A q \in Plans, x \in Phones : ~(q = p /\ x = ph) => shown'[q][x] = shown[q][x]
  BY <1>4 DEF Types, PushesType
<1>8. \A q \in Plans, x \in Phones : ~(q = p /\ x = ph) => (<<q, x>> \in missed' <=> <<q, x>> \in missed)
  BY <1>5
<1>9. ASSUME Risk(p, ph)'
      PROVE  /\ h.shows # "clear" /\ (h.shows = "restored" => ~answered /\ Risk(p, ph))
             /\ Risk(p, ph) \/ (h.shows \in Buttons /\ h.reload = reloads /\ (h.shows = "pending" => checked))
  <2>1. shown'[p][ph] \in Buttons /\ <<p, ph>> \notin missed'
    BY <1>9 DEF Risk
  <2>2. CASE arrives
    <3>1. now \in Buttons
      BY <1>6, <2>1, <2>2
    <3>2. h.shows \in Buttons
      BY <1>3, <3>1 DEF Buttons
    <3>3. h.reload = reloads /\ (h.shows = "pending" => checked)
      BY <1>5, <2>1, <2>2
    <3> QED
      BY <3>2, <3>3 DEF Buttons
  <2>3. CASE ~arrives
    <3>1. h.shows # "clear" /\ <<p, ph>> \notin missed
      BY <1>5, <2>1, <2>3
    <3>2. Risk(p, ph)
      BY <1>6, <2>1, <2>3, <3>1 DEF Risk
    <3> QED
      BY <2>3, <3>1, <3>2
  <2> QED
    BY <2>2, <2>3
<1> QED
  BY <1>2, <1>7, <1>8, <1>9 DEF Risk

LEMMA AnswersButtons ==
    ASSUME Types, Lines, Phases, ButtonsInv, NEW p \in Plans, NEW ph \in Phones,
           NEW arrives \in BOOLEAN, NEW answered \in BOOLEAN, arrives \/ ~answered,
           Delivers(p, ph, arrives, answered), sending[p].left \ {ph} # {}
    PROVE  ButtonsInv'
<1> DEFINE left == sending[p].left \ {ph}
           notSent == IF answered THEN sending[p].failed ELSE sending[p].failed \union {ph}
<1>1. /\ queue[p] # <<>> /\ Begun(p) /\ ph \in sending[p].left /\ UNCHANGED reloads
  BY DEF Delivers, Types, PushesType, Begun, life
<1>2. PICK h \in Jobs : h = queue[p][1]
  BY <1>1, HeadFacts DEF Types
<1>3. /\ UNCHANGED <<queue, call, checked, vanished, clearing, restored>>
      /\ sending' = [sending EXCEPT ![p] = [left |-> left, failed |-> notSent]]
  BY DEF Delivers, watch
<1>4. /\ sending'[p].left = left /\ sending'[p].failed = notSent /\ Begun(p)'
      /\ \A q \in Plans \ {p} : queue'[q] = queue[q] /\ sending'[q] = sending[q]
  BY <1>3 DEF Types, PushesType, Begun
<1>5. /\ \A q \in Plans, x \in Phones : ~(q = p /\ x = ph) => Risk(q, x)' = Risk(q, x)
      /\ Risk(p, ph)' => /\ h.shows # "clear" /\ (h.shows = "restored" => ~answered /\ Risk(p, ph))
                         /\ Risk(p, ph) \/ (/\ h.shows \in Buttons /\ h.reload = reloads
                                            /\ h.shows = "pending" => checked)
  BY <1>2, DeliveredRisk
<1>6. MarksStay(p)
  BY <1>3 DEF MarksStay
<1>7. \A kinds : Alarming(p, kinds)' = Alarming(p, kinds)
  BY <1>1, <1>3, <1>4 DEF Alarming
<1>8. ASSUME NEW x \in Phones, NEW kinds, ErasedBy(p, x, kinds),
             x = ph => h.shows # "clear" /\ (h.shows = "restored" => ~answered)
      PROVE  ErasedBy(p, x, kinds)'
  <2>1. PICK i \in 1..Len(queue[p]) : Eraser(p, x, kinds, i)
    BY <1>8 DEF ErasedBy
  <2>2. PICK y : y = queue[p][i]
    OBVIOUS
  <2>3. PICK b \in BOOLEAN : b = (i = 1)
    OBVIOUS
  <2>4. y.shows \in kinds /\ Erases(p, x, y, b)
    BY <1>1, <2>1, <2>2, <2>3 DEF Eraser
  <2>5. b => y = h
    BY <1>2, <2>2, <2>3
  <2>6. Erases(p, x, y, b)'
    BY <1>1, <1>3, <1>4, <1>8, <2>4, <2>5 DEF Erases
  <2>7. Eraser(p, x, kinds, i)'
    BY <1>3, <1>4, <2>2, <2>3, <2>4, <2>6 DEF Eraser
  <2> QED
    BY <1>3, <2>7 DEF ErasedBy
<1>9. h.shows \in Buttons /\ h.reload = reloads =>
          /\ Alarming(p, Buttons)
          /\ h.shows # "pending" => Alarming(p, Alarms)
          /\ h.shows = "pending" /\ checked => \A x : ErasedBy(p, x, AnyPush)
  <2>1. h.shows \in Buttons /\ h.shows # "pending" => h.shows \in Alarms
    BY DEF Buttons, Alarms
  <2>2. 1 \in 1..Len(queue[p])
    BY <1>1, HeadFacts DEF Types
  <2> QED
    BY <1>1, <1>2, <2>1, <2>2 DEF Alarming, ErasedBy, Eraser, Erases, AnyPush
<1>10. h.shows \in {"clear", "restored"} => \A kinds \in {Alarms, Buttons} : ~Alarming(p, kinds)
  BY <1>2 DEF Alarming, Alarms, Buttons
<1>11. ASSUME NEW x \in Phones PROVE p \notin vanished => Covered(p, x)'
  <2>1. p \notin vanished => Covered(p, x)
    BY DEF ButtonsInv
  <2>2. CASE x = ph /\ h.shows \in {"clear", "restored"} /\ ~Risk(p, x)'
    BY <1>7, <1>10, <2>2 DEF Covered
  <2>3. CASE ~(x = ph /\ h.shows \in {"clear", "restored"} /\ ~Risk(p, x)')
    <3>1. ErasedBy(p, x, AnyPush) => ErasedBy(p, x, AnyPush)'
      BY <1>5, <1>8, <2>3
    <3>2. Risk(p, x)' => Risk(p, x) \/ Alarming(p, Alarms) \/ ErasedBy(p, x, AnyPush)
      BY <1>5, <1>9
    <3> QED
      BY <1>3, <1>7, <2>1, <3>1, <3>2 DEF Covered
  <2> QED
    BY <2>2, <2>3
<1>12. ASSUME NEW x \in Phones PROVE p \in restored' => Confirmed(p, x)'
  <2>1. p \in restored => Confirmed(p, x)
    BY DEF ButtonsInv
  <2>2. CASE x = ph /\ h.shows \in {"clear", "restored"} /\ ~Risk(p, x)'
    BY <1>7, <1>10, <2>2 DEF Confirmed
  <2>3. CASE ~(x = ph /\ h.shows \in {"clear", "restored"} /\ ~Risk(p, x)')
    <3>1. ErasedBy(p, x, {"restored"}) => ErasedBy(p, x, {"restored"})'
      BY <1>5, <1>8, <2>3
    <3>2. Risk(p, x)' => Risk(p, x) \/ Alarming(p, Buttons)
      BY <1>5, <1>9
    <3> QED
      BY <1>3, <1>7, <2>1, <3>1, <3>2 DEF Confirmed
  <2> QED
    BY <2>2, <2>3
<1> QED
  BY <1>1, <1>3, <1>4, <1>5, <1>6, <1>11, <1>12, OneLineMoves

\* The last notify service answers.  A head that would have taken the buttons off
\* did so, left a note, or is followed by the clear or by the check.
LEMMA LastButtons ==
    ASSUME Types, Lines, Phases, ButtonsInv, NEW p \in Plans, NEW ph \in Phones,
           NEW arrives \in BOOLEAN, NEW answered \in BOOLEAN, arrives \/ ~answered,
           Delivers(p, ph, arrives, answered), sending[p].left \ {ph} = {}
    PROVE  ButtonsInv'
<1>1. /\ queue[p] # <<>> /\ Begun(p) /\ sending[p].left = {ph} /\ UNCHANGED reloads
  BY DEF Delivers, Types, PushesType, Begun, life
<1>2. PICK h \in Jobs : h = queue[p][1] /\ h = Head(queue[p]) /\ 1 \in 1..Len(queue[p])
  BY <1>1, HeadFacts DEF Types
<1>3. PICK notSent : notSent = IF answered THEN sending[p].failed ELSE sending[p].failed \union {ph}
  OBVIOUS
<1>4. Sent(p, h, notSent)
  BY <1>2, <1>3 DEF Delivers
<1>5. UNCHANGED <<checked, vanished, clearing>> /\ restored' \subseteq restored
  BY <1>4 DEF Sent
<1>6. JobMeant(p, h)
  BY <1>2 DEF Lines, JobsMeant
<1>7. /\ \A q \in Plans, x \in Phones : ~(q = p /\ x = ph) => Risk(q, x)' = Risk(q, x)
      /\ Risk(p, ph)' => /\ h.shows # "clear" /\ (h.shows = "restored" => ~answered /\ Risk(p, ph))
                         /\ Risk(p, ph) \/ (/\ h.shows \in Buttons /\ h.reload = reloads
                                            /\ h.shows = "pending" => checked)
  BY <1>2, DeliveredRisk
<1>8. MarksStay(p)
  BY <1>1, <1>2, <1>4, SentMarks
<1>9. \A x, kinds : /\ ~Begun(p)' /\ (LaterBy(p, x, kinds) => ErasedBy(p, x, kinds)')
                    /\ Follow(p, h, notSent) # <<>> => ErasedBy(p, x, AnyPush)'
  BY <1>1, <1>2, <1>4, SentErased
<1>10. ASSUME NEW x \in Phones, Risk(p, x)', NEW kinds, Eraser(p, x, kinds, 1)
       PROVE  \/ h.shows = "restored" /\ h.reload = reloads /\ call[h.owner].marked /\ x \in notSent
              \/ h.shows = "pending" /\ h.reload = reloads /\ checked /\ kinds # {"restored"}
  <2>1. h.shows \in kinds /\ Erases(p, x, h, TRUE)
    BY <1>1, <1>2, <1>10 DEF Eraser
  <2>2. h.shows = "clear" => x # ph
    BY <1>7, <1>10
  <2>3. h.shows = "restored" /\ x = ph => ~answered
    BY <1>7, <1>10
  <2> QED
    BY <1>1, <1>3, <2>1, <2>2, <2>3 DEF Erases
<1>11. h.shows = "restored" => h.owner \in Calls /\ stage[h.owner] = "confirming"
  BY <1>6 DEF JobMeant
<1>12. h.shows = "pending" => h.owner = "pending" /\ h.owner \notin Calls
  BY <1>6, VanishedAssumption DEF JobMeant
<1>13. h.shows = "restored" /\ h.reload = reloads /\ call[h.owner].marked /\ notSent # {} =>
          /\ p \in restored => restored' = restored \ {p}
          /\ p \notin restored \union vanished => Follow(p, h, notSent) # <<>>
  BY <1>4, <1>11 DEF Sent, Follow, FollowUp
<1>14. h.shows = "pending" /\ h.reload = reloads /\ checked /\ p \notin vanished \union restored =>
          Follow(p, h, notSent) # <<>>
  BY <1>12 DEF Follow, FollowUp
<1>15. ASSUME NEW x \in Phones, Risk(p, x)'
       PROVE  \/ Risk(p, x)
              \/ Alarming(p, Buttons) /\ (h.shows = "pending" => checked)
  BY <1>1, <1>2, <1>7, <1>15 DEF Alarming
<1>16. Alarming(p, Buttons) => Alarming(p, Alarms) \/ (h.shows = "pending" /\ h.reload = reloads)
  BY <1>2 DEF Alarming, Buttons, Alarms
<1>17. ASSUME NEW x \in Phones, Risk(p, x)', p \in restored'
       PROVE  ErasedBy(p, x, {"restored"})'
  <2>1. p \in restored /\ Confirmed(p, x)
    BY <1>5, <1>17 DEF ButtonsInv
  <2>2. ErasedBy(p, x, {"restored"})
    BY <1>15, <1>17, <2>1 DEF Confirmed
  <2>3. ~Eraser(p, x, {"restored"}, 1)
    BY <1>10, <1>13, <1>17, <2>1
  <2> QED
    BY <1>9, <2>2, <2>3, HeadOrLater
<1>18. ASSUME NEW x \in Phones, Risk(p, x)', p \notin vanished
       PROVE  p \in clearing' \/ ErasedBy(p, x, AnyPush)'
  <2>1. p \in restored => p \in clearing
    BY <1>18 DEF Phases
  <2>2. p \in clearing => p \in clearing'
    BY <1>5
  <2>3. CASE h.shows = "pending" /\ h.reload = reloads /\ checked
    BY <1>9, <1>14, <1>18, <2>1, <2>2, <2>3
  <2>4. CASE h.shows = "restored" /\ h.reload = reloads /\ call[h.owner].marked /\ x \in notSent
    BY <1>9, <1>13, <1>18, <2>1, <2>2, <2>4
  <2>5. CASE /\ ~(h.shows = "pending" /\ h.reload = reloads /\ checked)
             /\ ~(h.shows = "restored" /\ h.reload = reloads /\ call[h.owner].marked /\ x \in notSent)
    <3>1. Risk(p, x) \/ Alarming(p, Alarms)
      BY <1>15, <1>16, <1>18, <2>5
    <3>2. p \in clearing \/ ErasedBy(p, x, AnyPush)
      BY <1>18, <3>1 DEF ButtonsInv, Covered
    <3>3. ~Eraser(p, x, AnyPush, 1)
      BY <1>10, <1>18, <2>5
    <3> QED
      BY <1>9, <2>2, <3>2, <3>3, HeadOrLater
  <2> QED
    BY <2>3, <2>4, <2>5
<1>19. ASSUME NEW x \in Phones PROVE p \notin vanished => Covered(p, x)'
  BY <1>9, <1>18 DEF Covered, Alarming
<1>20. ASSUME NEW x \in Phones PROVE p \in restored' => Confirmed(p, x)'
  BY <1>9, <1>17 DEF Confirmed, Alarming
<1>21. \A q \in Plans \ {p} : queue'[q] = queue[q] /\ sending'[q] = sending[q]
  BY <1>4 DEF Sent, Types, PushesType
<1> QED
  BY <1>1, <1>5, <1>7, <1>8, <1>19, <1>20, <1>21, OneLineMoves

LEMMA ButtonsNext ==
    ASSUME Types, Lines, Phases, ButtonsInv, [VanishedNext]_vanishedVars PROVE ButtonsInv'
<1>1. ASSUME NEW p \in Plans, User(p) \/ BackUp(p) PROVE ButtonsInv'
  BY <1>1, UserQuiet, SameWatchButtons
<1>2. ASSUME NEW p \in Plans, Begins(p) PROVE ButtonsInv'
  BY <1>2, DropsButtons, BeginsButtons
<1>3. ASSUME NEW p \in Plans, Sends(p) PROVE ButtonsInv'
  BY <1>3, AnswersButtons, LastButtons DEF Sends
<1>4. ASSUME NEW c \in Calls, CallSteps(c) PROVE ButtonsInv'
  BY <1>4, CallButtons
<1>5. CASE CheckSteps \/ Poll \/ UNCHANGED vanishedVars
  BY <1>5, CheckButtons
<1>6. CASE Reload
  BY <1>6, ReloadButtons
<1> QED
  BY <1>1, <1>2, <1>3, <1>4, <1>5, <1>6 DEF VanishedNext

\* Once all is settled, no line and no clear is left that a button could wait for.
THEOREM VanishedNoStaleButtons == VanishedSpec => []NoStaleButtons
<1> DEFINE I == Types /\ Lines /\ Phases /\ ButtonsInv
<1>1. VanishedInit => I
  BY TypesInit, LinesInit, ButtonsInit
<1>2. I /\ [VanishedNext]_vanishedVars => I'
  BY TypesNext, LinesNext, ButtonsNext
<1>3. I => NoStaleButtons
  <2> SUFFICES ASSUME I, Settled, NEW p \in Plans \ vanished, NEW ph \in Phones, shown[p][ph] \in Buttons
               PROVE  <<p, ph>> \in missed
    BY DEF NoStaleButtons
  <2>1. queue[p] = <<>> /\ clearing = {}
    BY DEF Settled
  <2>2. ~ErasedBy(p, ph, AnyPush)
    BY <2>1, EmptySeq DEF ErasedBy
  <2>3. ~Risk(p, ph)
    BY <2>1, <2>2 DEF ButtonsInv, Covered
  <2> QED
    BY <2>3 DEF Risk
<1> QED
  BY <1>1, <1>2, <1>3, PTL DEF VanishedSpec

=============================================================================
