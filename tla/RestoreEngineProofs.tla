-------------------------- MODULE RestoreEngineProofs --------------------------
(* What a restore overwrites, tells of the plan's state and takes along, for any *)
(* backups, plans and faults. What makes it inductive: which plan a phase works  *)
(* on, that this plan was meant, and from which phase on it runs or not.         *)
EXTENDS RestoreEngine, TLAPS

-----------------------------------------------------------------------------
(* Phases                                                                      *)

Early == {"align", "stop", "positions", "check", "run"}
Late == {"recreate", "verify", "configs", "write", "promote"}
Building == {"place", "configure", "remove", "wire", "rules", "start"}
Following == {"move", "repoint", "report"}
Both == {"settings", "save"}

OfInPlace == Early \union {"settle"} \union Late
OfAnew == {"create"} \union Building \union Following
Working == phase \notin {"asked", "done"}

PlanFields == {"name", "els", "wires", "paper", "running"}
TaskFields == DOMAIN Nothing

\* The fields the proofs speak of.
LEMMA Fields ==
    /\ DOMAIN NoPlan = PlanFields
    /\ {"target", "other", "wasActive", "runOk", "stopOk", "started", "backups", "refs"} \subseteq TaskFields
BY DEF NoPlan, PlanFields, TaskFields, Nothing

-----------------------------------------------------------------------------
(* The invariant                                                               *)

Shapes ==
    /\ DOMAIN plans = {"old", "new"} /\ plans = [d \in {"old", "new"} |-> plans[d]]
    /\ DOMAIN plans["old"] = PlanFields /\ DOMAIN plans["new"] = PlanFields
    /\ DOMAIN mine = TaskFields /\ mine.target \in {"old", "new"}
    /\ call.mode \in {"plain", "confirm", "force", "copy"}

\* A phase of a restore in place works on the old ID, one of a new plan on the new one.
Places ==
    /\ phase \in {"asked", "done"} \union OfInPlace \union OfAnew \union Both
    /\ phase \in OfInPlace => ~Built
    /\ phase \in OfAnew => Built

\* A restore works on the old ID only if its plan has the backup's name or the caller insists.
Meant ==
    Working /\ ~Built => call.mode # "copy" /\ (call.mode = "force" \/ plans["old"].name = Own)

Running ==
    /\ phase \in Early => ~mine.runOk
    /\ ~Built /\ phase \in {"settle"} \union Late \union Both => (~LeaveStopped /\ mine.runOk => Target.running)
    /\ ~Built /\ phase \in Late \union Both => (LeaveStopped /\ mine.stopOk => ~Target.running)
    /\ Built /\ phase \in Building \union Both => ~Target.running /\ mine.started = "no"
    /\ phase = "create" => mine.started = "no"
    /\ phase \in Following => /\ ~call.autoStart => ~Target.running
                              /\ mine.started = "runs" => Target.running
                              /\ mine.started # "left stopped"

\* Nothing has moved before its turn, and the task notes what was filed and repointed where.
Moved ==
    /\ call.mode = "copy" => store = {"old"} /\ refs = "old" /\ phase \notin {"move", "repoint"}
    /\ phase \notin {"repoint", "report", "done"} => store = {"old"}
    /\ phase \notin {"report", "done"} => refs = "old"
    /\ phase \in {"repoint", "report"} /\ call.mode # "copy" =>
          mine.backups \in {"moved", "failed"} /\ store = FiledUnder(mine.backups, mine.other)
    /\ phase = "report" /\ call.mode # "copy" =>
          mine.refs \in {"moved", "failed"} /\ refs = IF mine.refs # "moved" THEN "old" ELSE "new"

NothingTold(n) == n.is # "result" /\ n.status = "none"
Told == (phase # "done" => NothingTold(notice)) /\ RunsAsTold /\ FollowsTogether

IInv == Shapes /\ Places /\ Meant /\ Running /\ Moved /\ Told

LEMMA InitIInv == ASSUME Init PROVE IInv
<1>1. PICK p \in LivePlans \union {NoPlan} :
         plans = [d \in {"old", "new"} |-> IF d = "old" THEN p ELSE NoPlan]
  BY DEF Init
<1>2. DOMAIN p = PlanFields
  BY Fields, RestoreAssumption
<1>3. mine = Nothing /\ phase = "asked" /\ notice = Silent /\ store = {"old"} /\ refs = "old"
  BY DEF Init
<1>4. call.mode \in {"plain", "confirm", "force", "copy"}
  BY DEF Init
<1>5. Nothing.target = "old" /\ Silent.is = "none" /\ Silent.status = "none"
  BY DEF Nothing, Silent
<1>6. Shapes
  BY <1>1, <1>2, <1>3, <1>4, <1>5, Fields DEF Shapes, TaskFields
<1>7. Places /\ Meant /\ Running /\ Moved
  BY <1>3 DEF Places, Meant, Running, Moved, Working, Nothing, OfInPlace, OfAnew, Early, Late, Building, Following, Both
<1>8. Told
  BY <1>3, <1>5 DEF Told, NothingTold, RunsAsTold, FollowsTogether
<1> QED
  BY <1>6, <1>7, <1>8 DEF IInv

-----------------------------------------------------------------------------
(* Steps                                                                       *)

\* What the call decided at first stays.
KeepsCall(m) ==
    DOMAIN m = TaskFields /\ m.target = mine.target /\ m.other = mine.other /\ m.wasActive = mine.wasActive
Keeps(m) ==
    /\ KeepsCall(m) /\ m.runOk = mine.runOk /\ m.stopOk = mine.stopOk
    /\ m.started = mine.started /\ m.backups = mine.backups /\ m.refs = mine.refs

\* The plan a restore makes of the one it works on.
Remade(p) == DOMAIN p = PlanFields /\ (~Built => p.name \in {Target.name, Own})
Touches == UNCHANGED plans \/ \E p : Becomes(p) /\ Remade(p)
RunsAlike == plans'[mine.target].running = Target.running

\* The plan it works on, and the other one, after a write.
LEMMA AfterBecomes ==
    ASSUME Shapes, NEW p, Becomes(p)
    PROVE  /\ DOMAIN plans' = {"old", "new"} /\ plans' = [d \in {"old", "new"} |-> plans'[d]]
           /\ plans'[mine.target] = p
           /\ \A d \in {"old", "new"} : d # mine.target => plans'[d] = plans[d]
BY DEF Shapes, Becomes

LEMMA ShapesNext ==
    ASSUME Shapes, KeepsCall(mine'), UNCHANGED call, Touches
    PROVE  Shapes' /\ (Built' <=> Built) /\ (LeaveStopped' <=> LeaveStopped)
<1>1. mine'.target = mine.target /\ mine'.wasActive = mine.wasActive /\ DOMAIN mine' = TaskFields
  BY DEF KeepsCall
<1>2. CASE UNCHANGED plans
  BY <1>1, <1>2 DEF Shapes, Built, LeaveStopped
<1>3. ASSUME NEW p, Becomes(p), Remade(p) PROVE Shapes'
  BY <1>1, <1>3, AfterBecomes DEF Shapes, Remade
<1> QED
  BY <1>1, <1>2, <1>3 DEF Touches, Built, LeaveStopped

LEMMA MeantNext ==
    ASSUME Shapes, Meant, Working, KeepsCall(mine'), UNCHANGED call, Touches PROVE Meant'
<1>1. mine'.target = mine.target
  BY DEF KeepsCall
<1>2. CASE UNCHANGED plans
  BY <1>1, <1>2 DEF Meant, Working, Built
<1>3. ASSUME NEW p, Becomes(p), Remade(p) PROVE Meant'
  <2> SUFFICES ASSUME ~Built PROVE call.mode # "copy" /\ (call.mode = "force" \/ plans'["old"].name = Own)
    BY <1>1 DEF Meant, Built
  <2>1. mine.target = "old" /\ Target = plans["old"] /\ plans'["old"] = p
    BY <1>3, AfterBecomes DEF Shapes, Built, Target
  <2> QED
    BY <1>3, <2>1 DEF Remade, Meant
<1> QED
  BY <1>2, <1>3 DEF Touches

\* A phase within the same part of the same kind of restore, or its end.
NextPhase ==
    \/ phase' = "done"
    \/ ~Built /\ phase' \in OfInPlace \union Both
    \/ Built /\ phase' \in OfAnew \union Both

LEMMA GoesOn ==
    ASSUME IInv, Working, KeepsCall(mine'), UNCHANGED call, Touches, NextPhase, Running', Moved', Told'
    PROVE  IInv'
<1>1. Shapes' /\ (Built' <=> Built) /\ Meant'
  BY ShapesNext, MeantNext DEF IInv
<1>2. Places'
  BY <1>1 DEF NextPhase, Places, OfInPlace, OfAnew, Early, Late, Building, Following, Both
<1> QED
  BY <1>1, <1>2 DEF IInv

SamePart ==
    \/ phase' \in {phase, "done"}
    \/ phase \in Early /\ phase' \in Early
    \/ ~Built /\ phase \in Late \union Both /\ phase' \in Late \union Both
    \/ Built /\ phase \in Building \union Both /\ phase' \in Building \union Both

\* A step of the restore that starts and stops nothing and tells no result.
LEMMA Quiet ==
    ASSUME IInv, Working, Keeps(mine'), UNCHANGED <<home, call>>, Touches, SamePart,
           phase \in Early \/ RunsAlike, NothingTold(notice')
    PROVE  IInv'
<1>1. KeepsCall(mine') /\ mine'.target = mine.target
  BY DEF Keeps, KeepsCall
<1>2. (Built' <=> Built) /\ (LeaveStopped' <=> LeaveStopped)
  BY <1>1, ShapesNext DEF IInv
<1>3. NextPhase
  BY DEF SamePart, NextPhase, IInv, Places, Working, OfInPlace, OfAnew
<1>4. Running'
  <2>1. phase \in Early => phase' \in Early \union {"done"}
    BY DEF SamePart, Early, Late, Building, Both
  <2>2. CASE phase \in Early
    BY <2>1, <2>2 DEF IInv, Running, Keeps, Early, Late, Building, Following, Both
  <2>3. CASE RunsAlike
    <3>1. Target'.running = Target.running
      BY <1>1, <2>3 DEF RunsAlike, Target
    <3>2. phase' = "done" => Running'
      BY DEF Running, Early, Late, Building, Following, Both
    <3>3. CASE phase' = phase
      BY <1>2, <3>1, <3>3 DEF IInv, Running, Keeps
    <3>4. CASE ~Built /\ phase \in Late \union Both /\ phase' \in Late \union Both
      BY <1>2, <3>1, <3>4 DEF IInv, Running, Keeps, Early, Late, Both, Following
    <3>5. CASE Built /\ phase \in Building \union Both /\ phase' \in Building \union Both
      BY <1>2, <3>1, <3>5 DEF IInv, Running, Keeps, Early, Building, Both, Following
    <3> QED
      BY <2>1, <2>2, <3>2, <3>3, <3>4, <3>5 DEF SamePart
  <2> QED
    BY <2>2, <2>3
<1>5. Moved'
  <2>1. phase' \in {"move", "repoint", "report"} => phase' = phase
    BY DEF SamePart, Early, Late, Building, Both
  <2>2. /\ phase' \notin {"repoint", "report", "done"} => phase \notin {"repoint", "report", "done"}
        /\ phase' \notin {"report", "done"} => phase \notin {"report", "done"}
    BY DEF SamePart, Early, Late, Building, Both, Working
  <2>3. mine'.backups = mine.backups /\ mine'.refs = mine.refs /\ mine'.other = mine.other
    BY DEF Keeps, KeepsCall
  <2> QED
    BY <2>1, <2>2, <2>3 DEF IInv, Moved, home
<1>6. Told'
  BY <1>5 DEF Told, NothingTold, RunsAsTold, FollowsTogether, Moved, home
<1> QED
  BY <1>1, <1>3, <1>4, <1>5, <1>6, GoesOn
-----------------------------------------------------------------------------
(* Writes to the plan                                                          *)

LEMMA TargetFields == ASSUME Shapes PROVE DOMAIN Target = PlanFields
BY DEF Shapes, Target

\* A write of elements or wires.
LEMMA Writes ==
    ASSUME Shapes, NEW p, Becomes(p), DOMAIN p = PlanFields, p.name = Target.name, p.running = Target.running
    PROVE  Touches /\ RunsAlike
BY AfterBecomes DEF Touches, Remade, RunsAlike, Target

LEMMA WritesElements ==
    ASSUME Shapes, NEW v, Becomes([Target EXCEPT !.els = v]) PROVE Touches /\ RunsAlike
BY Writes, TargetFields DEF PlanFields

LEMMA WritesWires ==
    ASSUME Shapes, NEW v, Becomes([Target EXCEPT !.wires = v]) PROVE Touches /\ RunsAlike
BY Writes, TargetFields DEF PlanFields

LEMMA WritesNothing == ASSUME UNCHANGED plans PROVE Touches /\ RunsAlike
BY DEF Touches, RunsAlike, Target

\* A stop, a start, or what run_fup makes of the plan.
LEMMA WritesRun ==
    ASSUME Shapes, NEW p, DOMAIN p = PlanFields, p.name = Target.name, NEW run, Becomes([p EXCEPT !.running = run])
    PROVE  Touches /\ plans'[mine.target].running = run
<1> DEFINE q == [p EXCEPT !.running = run]
<1>1. DOMAIN q = PlanFields /\ q.name = Target.name /\ q.running = run
  BY DEF PlanFields
<1> HIDE DEF q
<1>2. Becomes(q)
  BY DEF q
<1> QED
  BY <1>1, <1>2, AfterBecomes DEF Touches, Remade

LEMMA Stops ==
    ASSUME Shapes, Becomes(Stopped(Target)) PROVE Touches /\ plans'[mine.target].running = FALSE
BY WritesRun, TargetFields DEF Stopped

\* The notices that end a call without a result.
LEMMA EndsQuietly == ASSUME NEW what \in {"refused", "failed", "aborted", "progress"}, Tells(what) PROVE NothingTold(notice')
BY DEF Tells, Silent, NothingTold

LEMMA SameKept == ASSUME Shapes, mine' = mine PROVE Keeps(mine')
BY DEF Shapes, Keeps, KeepsCall

LEMMA FailsQuietly == ASSUME IInv, Working, Fails PROVE IInv'
<1>1. Touches /\ RunsAlike /\ Keeps(mine') /\ NothingTold(notice') /\ UNCHANGED <<home, call>>
  BY WritesNothing, SameKept, EndsQuietly DEF Fails, Ends, IInv
<1>2. SamePart
  BY DEF Fails, Ends, SamePart
<1> QED
  BY <1>1, <1>2, Quiet

LEMMA AbortedQuietly == ASSUME IInv, Aborted PROVE IInv'
<1>1. Touches /\ RunsAlike /\ Keeps(mine') /\ NothingTold(notice') /\ UNCHANGED <<home, call>>
  BY WritesNothing, SameKept, EndsQuietly DEF Aborted, Ends, IInv
<1>2. SamePart /\ Working
  BY DEF Aborted, Ends, SamePart, Working
<1> QED
  BY <1>1, <1>2, Quiet

LEMMA PollQuietly == ASSUME IInv, Poll PROVE IInv'
<1>1. Touches /\ RunsAlike /\ Keeps(mine') /\ UNCHANGED <<home, call, notice>>
  BY WritesNothing, SameKept DEF Poll, IInv
<1>2. SamePart /\ Working
  BY DEF Poll, SamePart, Working
<1>3. NothingTold(notice')
  BY <1>1, <1>2 DEF IInv, Told, Working
<1> QED
  BY <1>1, <1>2, <1>3, Quiet

\* The notice stays the progress one while a restore works.
LEMMA StillWorking == ASSUME IInv, Working, UNCHANGED notice PROVE NothingTold(notice')
BY DEF IInv, Told, Working

-----------------------------------------------------------------------------
(* The decision                                                                *)

LEMMA RefuseKeeps == ASSUME IInv, Refuse PROVE IInv'
<1>1. phase' = "done" /\ NothingTold(notice') /\ UNCHANGED <<plans, home, call, mine>>
  BY EndsQuietly DEF Refuse, Ends
<1> QED
  BY <1>1 DEF IInv, Shapes, Places, Meant, Running, Moved, Told, Working, Built, Early, Late, Building, Following,
     Both, OfInPlace, OfAnew, NothingTold, RunsAsTold, FollowsTogether, home, Target, LeaveStopped

LEMMA DecideInPlaceKeeps == ASSUME IInv, DecideInPlace PROVE IInv'
<1>1. PICK live : /\ live = plans["old"]
                  /\ \/ call.mode # "copy" /\ ~Conflict(live)
                     \/ call.mode = "force" /\ live # NoPlan
                  /\ Goes("align", [Nothing EXCEPT !.other = Conflict(live), !.wasActive = live.running])
  BY DEF DecideInPlace, Listed
<1>2. mine' = [Nothing EXCEPT !.other = Conflict(live), !.wasActive = live.running] /\ phase' = "align"
  BY <1>1 DEF Goes
<1>3. DOMAIN mine' = TaskFields /\ mine'.target = "old"
  BY <1>2 DEF TaskFields, Nothing
<1>4. UNCHANGED <<plans, home, call>> /\ NothingTold(notice') /\ phase = "asked"
  BY EndsQuietly DEF DecideInPlace, Decides
<1>5. Shapes' /\ Places' /\ Meant'
  BY <1>1, <1>2, <1>3, <1>4 DEF IInv, Shapes, Places, Meant, Built, Conflict, OfInPlace, OfAnew, Early, Late,
     Building, Following, Both
<1>6. Running'
  BY <1>2, <1>3 DEF Running, Nothing, Early, Late, Building, Following, Both
<1>7. Moved' /\ Told'
  BY <1>2, <1>3, <1>4 DEF IInv, Moved, Told, NothingTold, RunsAsTold, FollowsTogether, home
<1> QED
  BY <1>5, <1>6, <1>7 DEF IInv

LEMMA DecideAnewKeeps == ASSUME IInv, DecideNew \/ DecideCopy PROVE IInv'
<1>1. DOMAIN mine' = TaskFields /\ mine'.target = "new" /\ mine'.started = "no" /\ phase' = "create"
  <2>1. CASE DecideNew
    <3>1. PICK live : Goes("create", [Nothing EXCEPT !.target = "new", !.other = live # NoPlan])
      BY <2>1 DEF DecideNew
    <3> QED
      BY <3>1 DEF Goes, TaskFields, Nothing
  <2>2. CASE DecideCopy
    BY <2>2 DEF DecideCopy, Goes, TaskFields, Nothing
  <2> QED
    BY <2>1, <2>2
<1>2. UNCHANGED <<plans, home, call>> /\ NothingTold(notice') /\ phase = "asked"
  BY EndsQuietly DEF DecideNew, DecideCopy, Decides
<1>3. Shapes' /\ Places' /\ Meant'
  BY <1>1, <1>2 DEF IInv, Shapes, Places, Meant, Built, OfInPlace, OfAnew, Early, Late, Building, Following, Both
<1>4. Running'
  BY <1>1 DEF Running, Early, Late, Building, Following, Both, Built
<1>5. Moved' /\ Told'
  BY <1>1, <1>2 DEF IInv, Moved, Told, NothingTold, RunsAsTold, FollowsTogether, home
<1> QED
  BY <1>3, <1>4, <1>5 DEF IInv

-----------------------------------------------------------------------------
(* In place                                                                    *)

\* What a step that notes other things in its task keeps of it.
LEMMA NotedAlign == ASSUME Shapes, Align PROVE Keeps(mine')
BY Fields DEF Align, Goes, Keeps, KeepsCall, Shapes

LEMMA AlignKeeps == ASSUME IInv, Align PROVE IInv'
<1>1. phase = "align" /\ phase' = "stop" /\ UNCHANGED <<home, call, notice>> /\ Shapes
  BY DEF Align, Goes, IInv
<1>2. Touches
  <2>1. ASSUME NEW paper, Becomes([Target EXCEPT !.name = Own, !.paper = paper]) PROVE Touches
    <3>1. DOMAIN [Target EXCEPT !.name = Own, !.paper = paper] = PlanFields
      BY <1>1, TargetFields
    <3>2. [Target EXCEPT !.name = Own, !.paper = paper].name = Own
      BY <1>1, TargetFields DEF PlanFields
    <3> QED
      BY <2>1, <3>1, <3>2 DEF Touches, Remade
  <2> QED
    BY <2>1, WritesNothing DEF Align
<1>3. Working /\ SamePart /\ phase \in Early
  BY <1>1 DEF Working, SamePart, Early
<1> QED
  BY <1>1, <1>2, <1>3, NotedAlign, StillWorking, Quiet

LEMMA StopFirstKeeps == ASSUME IInv, StopFirst PROVE IInv'
<1>1. phase = "stop" /\ phase' = "positions" /\ mine' = mine /\ UNCHANGED <<home, call, notice>> /\ Shapes
  BY DEF StopFirst, Goes, IInv
<1>2. Touches
  BY <1>1, Stops, WritesNothing DEF StopFirst
<1>3. Working /\ SamePart /\ phase \in Early
  BY <1>1 DEF Working, SamePart, Early
<1> QED
  BY <1>1, <1>2, <1>3, SameKept, StillWorking, Quiet

LEMMA PositionsKeeps == ASSUME IInv, Positions PROVE IInv'
<1>1. phase = "positions" /\ Shapes /\ Working /\ phase \in Early
  BY DEF Positions, IInv, Working, Early
<1>2. CASE Fails
  BY <1>1, <1>2, FailsQuietly
<1>3. CASE ~Fails
  <2>1. phase' = "check" /\ Keeps(mine') /\ UNCHANGED <<home, call, notice>>
    BY <1>1, <1>3, Fields DEF Positions, Goes, Keeps, KeepsCall, Shapes
  <2>2. Touches
    BY <1>1, <1>3, WritesElements, WritesNothing DEF Positions
  <2>3. SamePart
    BY <1>1, <2>1 DEF SamePart, Early
  <2> QED
    BY <1>1, <2>1, <2>2, <2>3, StillWorking, Quiet
<1> QED
  BY <1>2, <1>3

LEMMA CheckCommentsKeeps == ASSUME IInv, CheckComments PROVE IInv'
<1>1. phase = "check" /\ phase' = "run" /\ UNCHANGED <<plans, home, call, notice>> /\ Shapes
  BY DEF CheckComments, Goes, IInv
<1>2. Keeps(mine')
  BY <1>1, Fields DEF CheckComments, Goes, Keeps, KeepsCall, Shapes
<1>3. Working /\ SamePart /\ phase \in Early
  BY <1>1 DEF Working, SamePart, Early
<1> QED
  BY <1>1, <1>2, <1>3, WritesNothing, StillWorking, Quiet

\* run_fup changes what is in the plan, and starts it whenever it answers that it did.
LEMMA RunFupKeeps == ASSUME IInv, RunFup PROVE IInv'
<1>1. phase = "run" /\ phase' = "settle" /\ UNCHANGED <<home, call, notice>> /\ Shapes /\ Working
  BY DEF RunFup, Goes, IInv, Working
<1>2. KeepsCall(mine') /\ mine'.target = mine.target
  BY <1>1, Fields DEF RunFup, Goes, KeepsCall, Shapes
<1>3. ~Built /\ NextPhase
  BY <1>1 DEF IInv, Places, OfInPlace, Early, NextPhase
<1>4. Touches /\ (mine'.runOk => plans'[mine.target].running)
  <2>1. ASSUME NEW f, NEW run, NEW ok \in BOOLEAN, ok => run,
               Becomes([Applied(Target, Payload, f) EXCEPT !.running = run]), Goes("settle", [mine EXCEPT !.runOk = ok])
        PROVE  Touches /\ (mine'.runOk => plans'[mine.target].running)
    <3>1. DOMAIN Applied(Target, Payload, f) = PlanFields /\ Applied(Target, Payload, f).name = Target.name
      BY <1>1, TargetFields DEF Applied, PlanFields
    <3>2. Touches /\ plans'[mine.target].running = run
      BY <1>1, <2>1, <3>1, WritesRun
    <3>3. mine'.runOk = ok
      BY <1>1, <2>1, Fields DEF Goes, Shapes
    <3> QED
      BY <2>1, <3>2, <3>3
  <2>2. CASE UNCHANGED plans /\ Goes("settle", mine)
    <3>1. ~mine'.runOk
      BY <1>1, <2>2 DEF Goes, IInv, Running, Early
    <3> QED
      BY <2>2, <3>1, WritesNothing
  <2> QED
    BY <2>1, <2>2 DEF RunFup
<1>5. (Built' <=> Built) /\ Target'.running = plans'[mine.target].running
  BY <1>1, <1>2, <1>4, ShapesNext DEF Target
<1>6. Running'
  BY <1>1, <1>3, <1>4, <1>5 DEF Running, Early, Late, Building, Following, Both
<1>7. Moved' /\ Told'
  BY <1>1 DEF IInv, Moved, Told, NothingTold, RunsAsTold, FollowsTogether, home, Working
<1> QED
  BY <1>1, <1>2, <1>3, <1>4, <1>6, <1>7, GoesOn

\* A plan that shall be stopped is, unless the stop failed.
LEMMA StopAfterKeeps == ASSUME IInv, StopAfter PROVE IInv'
<1>1. phase = "settle" /\ phase' = "recreate" /\ UNCHANGED <<home, call, notice>> /\ Shapes /\ Working
  BY DEF StopAfter, Goes, IInv, Working
<1>2. KeepsCall(mine') /\ mine'.target = mine.target /\ mine'.runOk = mine.runOk
  BY <1>1, Fields DEF StopAfter, Goes, KeepsCall, Shapes
<1>3. ~Built /\ NextPhase
  BY <1>1 DEF IInv, Places, OfInPlace, Late, NextPhase
<1>4. /\ Touches
      /\ ~LeaveStopped => RunsAlike
      /\ LeaveStopped /\ mine'.stopOk => ~plans'[mine.target].running
  <2>1. CASE ~LeaveStopped /\ UNCHANGED plans
    BY <2>1, WritesNothing
  <2>2. CASE LeaveStopped /\ Becomes(Stopped(Target))
    BY <1>1, <2>2, Stops
  <2>3. CASE /\ LeaveStopped /\ plans' \in {plans, [plans EXCEPT ![mine.target] = Stopped(@)]}
             /\ Goes("recreate", [mine EXCEPT !.stopOk = FALSE])
    <3>1. UNCHANGED plans \/ Becomes(Stopped(Target))
      BY <2>3 DEF Becomes, Target
    <3>2. Touches
      BY <1>1, <3>1, Stops, WritesNothing
    <3>3. ~mine'.stopOk
      BY <1>1, <2>3, Fields DEF Goes, Shapes
    <3> QED
      BY <2>3, <3>2, <3>3
  <2> QED
    BY <2>1, <2>2, <2>3 DEF StopAfter
<1>5. (Built' <=> Built) /\ (LeaveStopped' <=> LeaveStopped) /\ Target'.running = plans'[mine.target].running
  BY <1>1, <1>2, <1>4, ShapesNext DEF Target
<1>6. ~LeaveStopped /\ mine.runOk => Target.running
  BY <1>1, <1>3 DEF IInv, Running
<1>7. Running'
  BY <1>1, <1>2, <1>3, <1>4, <1>5, <1>6 DEF Running, RunsAlike, Early, Late, Building, Following, Both
<1>8. Moved' /\ Told'
  BY <1>1 DEF IInv, Moved, Told, NothingTold, RunsAsTold, FollowsTogether, home, Working
<1> QED
  BY <1>1, <1>2, <1>3, <1>4, <1>7, <1>8, GoesOn

\* What follows run_fup changes elements and their settings.
LEMMA LateQuietly ==
    ASSUME IInv, Working, Keeps(mine'), UNCHANGED <<home, call, notice>>, Touches, RunsAlike,
           phase \in Late \union Both, phase' \in Late \union Both, ~Built
    PROVE  IInv'
BY StillWorking, Quiet DEF SamePart

LEMMA RecreateKeeps == ASSUME IInv, Recreate PROVE IInv'
<1>1. phase = "recreate" /\ phase' \in {"recreate", "verify"} /\ UNCHANGED <<home, call, notice>> /\ Shapes
  BY DEF Recreate, Goes, IInv
<1>2. Keeps(mine')
  BY <1>1, Fields DEF Recreate, Goes, Keeps, KeepsCall, Shapes
<1>3. Touches /\ RunsAlike
  BY <1>1, WritesElements, WritesNothing DEF Recreate
<1>4. Working /\ ~Built /\ phase \in Late \union Both /\ phase' \in Late \union Both
  BY <1>1 DEF IInv, Places, OfInPlace, Working, Late
<1> QED
  BY <1>1, <1>2, <1>3, <1>4, LateQuietly

LEMMA VerifyKeeps == ASSUME IInv, Verify PROVE IInv'
<1>1. phase = "verify" /\ phase' = "settings" /\ UNCHANGED <<plans, home, call, notice>> /\ Shapes
  BY DEF Verify, Goes, IInv
<1>2. Keeps(mine')
  BY <1>1, Fields DEF Verify, Goes, Keeps, KeepsCall, Shapes
<1>3. Working /\ ~Built /\ phase \in Late \union Both /\ phase' \in Late \union Both
  BY <1>1 DEF IInv, Places, OfInPlace, Working, Late, Both
<1> QED
  BY <1>1, <1>2, <1>3, WritesNothing, LateQuietly

LEMMA ReadModulesKeeps == ASSUME IInv, ReadModules PROVE IInv'
<1>1. phase = "configs" /\ phase' \in {"promote", "write"} /\ UNCHANGED <<plans, home, call, notice>> /\ Shapes
  BY DEF ReadModules, Goes, IInv
<1>2. Keeps(mine')
  BY <1>1, Fields DEF ReadModules, Goes, Keeps, KeepsCall, Shapes
<1>3. Working /\ ~Built /\ phase \in Late \union Both /\ phase' \in Late \union Both
  BY <1>1 DEF IInv, Places, OfInPlace, Working, Late
<1> QED
  BY <1>1, <1>2, <1>3, WritesNothing, LateQuietly

\* A config written to an element, as a write of elements.
LEMMA WritesConfig ==
    ASSUME Shapes, NEW i, NEW conf, Becomes(Configured(Target, i, conf)) PROVE Touches /\ RunsAlike
BY WritesElements DEF Configured

LEMMA WritesSettings ==
    ASSUME Shapes, NEW i, NEW settings, Becomes(Set(Target, i, settings)) PROVE Touches /\ RunsAlike
BY WritesElements DEF Set

LEMMA WriteModuleKeeps == ASSUME IInv, WriteModule PROVE IInv'
<1>1. phase = "write" /\ phase' = "write" /\ UNCHANGED <<home, call, notice>> /\ Shapes
  BY DEF WriteModule, Goes, IInv
<1>2. Keeps(mine')
  BY <1>1, Fields DEF WriteModule, Goes, Keeps, KeepsCall, Shapes
<1>3. Touches /\ RunsAlike
  BY <1>1, WritesConfig, WritesNothing DEF WriteModule
<1>4. Working /\ ~Built /\ phase \in Late \union Both /\ phase' \in Late \union Both
  BY <1>1 DEF IInv, Places, OfInPlace, Working, Late
<1> QED
  BY <1>1, <1>2, <1>3, <1>4, LateQuietly

LEMMA ModulesWrittenKeeps == ASSUME IInv, ModulesWritten PROVE IInv'
<1>1. phase = "write" /\ phase' = "promote" /\ UNCHANGED <<plans, home, call, notice>> /\ Shapes
  BY DEF ModulesWritten, Goes, IInv
<1>2. Keeps(mine')
  BY <1>1, Fields DEF ModulesWritten, Goes, Keeps, KeepsCall, Shapes
<1>3. Working /\ ~Built /\ phase \in Late \union Both /\ phase' \in Late \union Both
  BY <1>1 DEF IInv, Places, OfInPlace, Working, Late
<1> QED
  BY <1>1, <1>2, <1>3, WritesNothing, LateQuietly

\* The result tells what stop and run_fup came to.
LEMMA PromoteKeeps == ASSUME IInv, Promote PROVE IInv'
<1>1. phase = "promote" /\ phase' = "done" /\ UNCHANGED <<plans, home, call, mine>> /\ ~Built /\ Working
  BY DEF Promote, IInv, Places, OfInPlace, Late, Working
<1>2. PICK status : notice' = [Silent EXCEPT !.is = "result", !.status = status, !.run = RunLabel]
  BY DEF Promote
<1>3. notice'.run = RunLabel
  BY <1>2 DEF Silent
<1>4. /\ ~LeaveStopped /\ mine.runOk => Target.running
      /\ LeaveStopped /\ mine.stopOk => ~Target.running
  BY <1>1 DEF IInv, Running, Late
<1>5. RunsAsTold'
  <2>1. RunLabel = "runs" /\ mine.wasActive => ~LeaveStopped /\ mine.runOk
    BY DEF RunLabel, LeaveStopped
  <2>2. RunLabel = "left stopped" => LeaveStopped /\ mine.stopOk
    BY DEF RunLabel, LeaveStopped
  <2>3. LeaveStopped /\ RunLabel # "stop failed" => mine.stopOk
    BY DEF RunLabel
  <2>4. (Built' <=> Built) /\ (LeaveStopped' <=> LeaveStopped) /\ Target' = Target /\ mine' = mine
    BY <1>1 DEF Built, LeaveStopped, Target
  <2> QED
    BY <1>1, <1>3, <1>4, <2>1, <2>2, <2>3, <2>4 DEF RunsAsTold
<1>6. Moved' /\ FollowsTogether'
  BY <1>1 DEF IInv, Moved, FollowsTogether, home, Built
<1>7. Shapes' /\ Places' /\ Meant' /\ Running'
  BY <1>1 DEF IInv, Shapes, Places, Meant, Running, Working, Early, Late, Building, Following, Both, OfInPlace,
     OfAnew
<1> QED
  BY <1>1, <1>5, <1>6, <1>7 DEF IInv, Told

-----------------------------------------------------------------------------
(* Block settings, of either kind of restore                                   *)

LEMMA MatchSettingsKeeps == ASSUME IInv, MatchSettings PROVE IInv'
<1>1. phase = "settings" /\ phase' = "save" /\ UNCHANGED <<plans, home, call, notice>> /\ Shapes
  BY DEF MatchSettings, Goes, IInv
<1>2. Keeps(mine')
  BY <1>1, Fields DEF MatchSettings, Goes, Keeps, KeepsCall, Shapes
<1>3. Working /\ SamePart
  BY <1>1 DEF Working, SamePart, Both
<1> QED
  BY <1>1, <1>2, <1>3, WritesNothing, StillWorking, Quiet

LEMMA SaveSettingsKeeps == ASSUME IInv, SaveSettings PROVE IInv'
<1>1. phase = "save" /\ Shapes /\ Working
  BY DEF SaveSettings, IInv, Working
<1>2. CASE Fails
  BY <1>1, <1>2, FailsQuietly
<1>3. CASE ~Fails
  <2>1. phase' = "save" /\ Keeps(mine') /\ UNCHANGED <<home, call, notice>>
    BY <1>1, <1>3, Fields DEF SaveSettings, Goes, Keeps, KeepsCall, Shapes
  <2>2. Touches /\ RunsAlike
    BY <1>1, <1>3, WritesSettings, WritesNothing DEF SaveSettings
  <2>3. SamePart
    BY <1>1, <2>1 DEF SamePart
  <2> QED
    BY <1>1, <2>1, <2>2, <2>3, StillWorking, Quiet
<1> QED
  BY <1>2, <1>3

LEMMA SettingsSavedKeeps == ASSUME IInv, SettingsSaved PROVE IInv'
<1>1. phase = "save" /\ phase' = (IF Built THEN "rules" ELSE "configs") /\ mine' = mine
      /\ UNCHANGED <<plans, home, call, notice>> /\ Shapes
  BY DEF SettingsSaved, Goes, IInv
<1>2. Working /\ SamePart
  BY <1>1 DEF Working, SamePart, Both, Building, Late
<1> QED
  BY <1>1, <1>2, SameKept, WritesNothing, StillWorking, Quiet

-----------------------------------------------------------------------------
(* As a new plan or a copy                                                     *)

LEMMA BuildsQuietly ==
    ASSUME IInv, Working, Keeps(mine'), UNCHANGED <<home, call, notice>>, Touches, RunsAlike,
           phase \in Building, phase' \in Building \union Both
    PROVE  IInv'
<1>1. Built
  BY DEF IInv, Places, OfAnew
<1> QED
  BY <1>1, StillWorking, Quiet DEF SamePart

\* The new plan is empty and does not run.
LEMMA CreateKeeps == ASSUME IInv, Create PROVE IInv'
<1>1. phase = "create" /\ UNCHANGED <<home, call>> /\ Shapes /\ Working /\ Built
  BY DEF Create, IInv, Working, Places, OfAnew
<1>2. ASSUME Becomes(Empty) PROVE Touches /\ plans'[mine.target].running = FALSE
  <2>1. DOMAIN Empty = PlanFields /\ Empty.running = FALSE
    BY DEF Empty, PlanFields
  <2> QED
    BY <1>1, <1>2, <2>1, AfterBecomes DEF Touches, Remade
<1>3. Touches
  BY <1>2, WritesNothing DEF Create
<1>4. CASE phase' = "done"
  <2>1. mine' = mine /\ NothingTold(notice')
    BY <1>4, EndsQuietly DEF Create, Goes, Ends
  <2>2. Keeps(mine') /\ KeepsCall(mine')
    BY <1>1, <2>1, SameKept DEF Keeps
  <2>3. Running' /\ Moved'
    BY <1>1, <1>4 DEF IInv, Running, Moved, Early, Late, Building, Following, Both, home
  <2>4. Told'
    BY <2>1, <2>3, <1>4 DEF Told, NothingTold, RunsAsTold, FollowsTogether, Moved
  <2>5. NextPhase
    BY <1>4 DEF NextPhase
  <2> QED
    BY <1>1, <1>3, <2>2, <2>3, <2>4, <2>5, GoesOn
<1>5. CASE phase' # "done"
  <2>1. Becomes(Empty) /\ phase' = "place" /\ UNCHANGED notice /\ mine' = [mine EXCEPT !.todo = DOMAIN Snapshot]
    BY <1>5 DEF Create, Goes, Ends
  <2>2. KeepsCall(mine') /\ mine'.target = mine.target /\ mine'.started = "no"
    BY <1>1, <2>1, Fields DEF KeepsCall, Shapes, IInv, Running
  <2>3. (Built' <=> Built) /\ Target'.running = FALSE
    BY <1>1, <1>2, <2>1, <2>2, ShapesNext DEF Target
  <2>4. Running' /\ NextPhase
    BY <1>1, <2>1, <2>2, <2>3 DEF Running, NextPhase, Early, Late, Building, Following, Both, OfAnew
  <2>5. Moved' /\ Told'
    BY <1>1, <2>1 DEF IInv, Moved, Told, NothingTold, RunsAsTold, FollowsTogether, home, Working
  <2> QED
    BY <1>1, <1>3, <2>2, <2>4, <2>5, GoesOn
<1> QED
  BY <1>4, <1>5

LEMMA PlaceNextKeeps == ASSUME IInv, PlaceNext PROVE IInv'
<1>1. phase = "place" /\ Shapes /\ Working
  BY DEF PlaceNext, IInv, Working
<1>2. CASE Fails
  BY <1>1, <1>2, FailsQuietly
<1>3. CASE ~Fails
  <2>1. phase' \in {"place", "configure"} /\ UNCHANGED <<home, call, notice>>
    BY <1>3 DEF PlaceNext, Goes
  <2>2. Keeps(mine')
    <3>1. ASSUME NEW id PROVE Keeps(Done(mine, id)) /\ Keeps([mine EXCEPT !.spare = id])
      BY <1>1, Fields DEF Done, Keeps, KeepsCall, Shapes
    <3>2. ASSUME NEW ok PROVE Keeps([Skipped(mine) EXCEPT !.confsOk = ok])
      BY <1>1, Fields DEF Skipped, Keeps, KeepsCall, Shapes
    <3> QED
      BY <1>3, <3>1, <3>2 DEF PlaceNext, Goes
  <2>3. Touches /\ RunsAlike
    BY <1>1, <1>3, WritesElements, WritesNothing DEF PlaceNext
  <2>4. phase \in Building /\ phase' \in Building \union Both
    BY <1>1, <2>1 DEF Building
  <2> QED
    BY <1>1, <2>1, <2>2, <2>3, <2>4, BuildsQuietly
<1> QED
  BY <1>2, <1>3

LEMMA ConfigureKeeps == ASSUME IInv, Configure PROVE IInv'
<1>1. phase = "configure" /\ phase' \in {"place", "remove"} /\ UNCHANGED <<home, call, notice>> /\ Shapes /\ Working
  BY DEF Configure, Goes, IInv, Working
<1>2. Keeps(mine')
  BY <1>1, Fields DEF Configure, Goes, Done, Keeps, KeepsCall, Shapes
<1>3. Touches /\ RunsAlike
  BY <1>1, WritesConfig, WritesNothing DEF Configure
<1>4. phase \in Building /\ phase' \in Building \union Both
  BY <1>1 DEF Building
<1> QED
  BY <1>1, <1>2, <1>3, <1>4, BuildsQuietly

LEMMA RemoveKeeps == ASSUME IInv, Remove PROVE IInv'
<1>1. phase = "remove" /\ UNCHANGED <<home, call>> /\ Shapes /\ Working
  BY DEF Remove, IInv, Working
<1>2. Touches /\ RunsAlike
  BY <1>1, WritesElements, WritesNothing DEF Remove
<1>3. Keeps(mine')
  BY <1>1, Fields DEF Remove, Goes, Ends, Skipped, Keeps, KeepsCall, Shapes
<1>4. phase' \in {"done", "place"} /\ NothingTold(notice')
  BY <1>1, EndsQuietly, StillWorking DEF Remove, Ends, Goes
<1>5. SamePart
  <2>1. Built
    BY <1>1 DEF IInv, Places, OfAnew, Building
  <2> QED
    BY <1>1, <1>4, <2>1 DEF SamePart, Building
<1> QED
  BY <1>1, <1>2, <1>3, <1>4, <1>5, Quiet

LEMMA ElementsPlacedKeeps == ASSUME IInv, ElementsPlaced PROVE IInv'
<1>1. phase = "place" /\ phase' = "wire" /\ UNCHANGED <<plans, home, call, notice>> /\ Shapes
  BY DEF ElementsPlaced, Goes, IInv
<1>2. Keeps(mine')
  BY <1>1, Fields DEF ElementsPlaced, Goes, Keeps, KeepsCall, Shapes
<1>3. Working /\ phase \in Building /\ phase' \in Building \union Both
  BY <1>1 DEF Working, Building
<1> QED
  BY <1>1, <1>2, <1>3, WritesNothing, BuildsQuietly

LEMMA WireNextKeeps == ASSUME IInv, WireNext PROVE IInv'
<1>1. phase = "wire" /\ Shapes /\ Working
  BY DEF WireNext, IInv, Working
<1>2. CASE Fails
  BY <1>1, <1>2, FailsQuietly
<1>3. CASE ~Fails
  <2>1. phase' = "wire" /\ Keeps(mine') /\ UNCHANGED <<home, call, notice>>
    BY <1>1, <1>3, Fields DEF WireNext, Goes, Keeps, KeepsCall, Shapes
  <2>2. Touches /\ RunsAlike
    BY <1>1, <1>3, WritesWires, WritesNothing DEF WireNext
  <2>3. phase \in Building /\ phase' \in Building \union Both
    BY <1>1, <2>1 DEF Building
  <2> QED
    BY <1>1, <2>1, <2>2, <2>3, BuildsQuietly
<1> QED
  BY <1>2, <1>3

LEMMA WiredKeeps == ASSUME IInv, Wired PROVE IInv'
<1>1. phase = "wire" /\ phase' = "settings" /\ mine' = mine /\ UNCHANGED <<plans, home, call, notice>> /\ Shapes
  BY DEF Wired, Goes, IInv
<1>2. Working /\ phase \in Building /\ phase' \in Building \union Both
  BY <1>1 DEF Working, Building, Both
<1> QED
  BY <1>1, <1>2, SameKept, WritesNothing, BuildsQuietly

LEMMA CheckRulesKeeps == ASSUME IInv, CheckRules PROVE IInv'
<1>1. phase = "rules" /\ phase' = "start" /\ UNCHANGED <<plans, home, call, notice>> /\ Shapes
  BY DEF CheckRules, Goes, IInv
<1>2. Keeps(mine')
  BY <1>1, Fields DEF CheckRules, Goes, Keeps, KeepsCall, Shapes
<1>3. Working /\ phase \in Building /\ phase' \in Building \union Both
  BY <1>1 DEF Working, Building
<1> QED
  BY <1>1, <1>2, <1>3, WritesNothing, BuildsQuietly

\* A start that is told as such started the plan, and nothing else did unless it was asked for.
LEMMA StartKeeps == ASSUME IInv, Start PROVE IInv'
<1>1. phase = "start" /\ UNCHANGED <<home, call, notice>> /\ Shapes /\ Working /\ Built
  BY DEF Start, IInv, Working, Places, OfAnew, Building
<1>2. phase' = (IF call.mode = "copy" THEN "report" ELSE "move")
  BY DEF Start, Goes
<1>3. KeepsCall(mine') /\ mine'.target = mine.target
  BY <1>1, Fields DEF Start, Goes, KeepsCall, Shapes
<1>4. ~Target.running /\ mine.started = "no"
  BY <1>1 DEF IInv, Running, Building, Following
<1>5. ASSUME NEW run, Becomes([Target EXCEPT !.running = run])
      PROVE  Touches /\ plans'[mine.target].running = run
  BY <1>1, <1>5, WritesRun, TargetFields
<1>6. Touches
  BY <1>5, WritesNothing DEF Start
<1>7. /\ ~call.autoStart => ~plans'[mine.target].running
      /\ mine'.started = "runs" => plans'[mine.target].running
      /\ mine'.started # "left stopped"
  <2>1. CASE ~call.autoStart /\ UNCHANGED plans /\ mine' = mine
    BY <1>4, <2>1 DEF Target
  <2>2. CASE call.autoStart /\ Becomes([Target EXCEPT !.running = TRUE])
    <3>1. mine' = [mine EXCEPT !.started = "runs"] \/ mine' = mine \/ mine'.started \in {"inactive", "failed"}
      BY <1>1, Fields DEF Start, Goes, Shapes
    <3>2. mine'.started # "left stopped"
      BY <1>1, <1>4, <3>1, Fields DEF Shapes
    <3> QED
      BY <1>5, <2>2, <3>2
  <2>3. CASE call.autoStart /\ \E what \in {"inactive", "failed"} : mine' = [mine EXCEPT !.started = what]
    BY <1>1, <2>3, Fields DEF Shapes
  <2> QED
    BY <2>1, <2>2, <2>3 DEF Start, Goes
<1>8. (Built' <=> Built) /\ Target'.running = plans'[mine.target].running
  BY <1>1, <1>3, <1>6, ShapesNext DEF IInv, Target
<1>10. Running' /\ NextPhase
  BY <1>1, <1>2, <1>7, <1>8 DEF Running, NextPhase, Early, Late, Building, Following, Both, OfAnew
<1>11. Moved'
  BY <1>1, <1>2 DEF IInv, Moved, home
<1>12. Told'
  BY <1>1, <1>2, <1>11 DEF IInv, Told, NothingTold, RunsAsTold, FollowsTogether, Moved, home, Working
<1> QED
  BY <1>1, <1>3, <1>6, <1>10, <1>11, <1>12, GoesOn

\* Backups and references: the task notes of each whether it followed.
LEMMA MoveBackupsKeeps == ASSUME IInv, MoveBackups PROVE IInv'
<1>1. phase = "move" /\ phase' = "repoint" /\ UNCHANGED <<plans, refs, call, notice>> /\ Shapes /\ Working /\ Built
  BY DEF MoveBackups, Goes, IInv, Working, Places, OfAnew, Following
<1>2. KeepsCall(mine') /\ mine'.target = mine.target /\ mine'.started = mine.started
  BY <1>1, Fields DEF MoveBackups, Goes, KeepsCall, Shapes
<1>3. store = {"old"} /\ refs = "old"
  BY <1>1 DEF IInv, Moved
<1>9. mine'.backups \in {"moved", "failed"} /\ store' = FiledUnder(mine'.backups, mine'.other)
  <2>1. CASE store' = (IF mine.other THEN store \ {"old"} ELSE {"new"}) /\ mine' = [mine EXCEPT !.backups = "moved"]
    <3>1. mine'.backups = "moved" /\ mine'.other = mine.other
      BY <1>1, <2>1, Fields DEF Shapes
    <3> QED
      BY <1>3, <2>1, <3>1 DEF FiledUnder
  <2>2. CASE store' = store /\ mine' = [mine EXCEPT !.backups = "failed"]
    <3>1. mine'.backups = "failed"
      BY <1>1, <2>2, Fields DEF Shapes
    <3> QED
      BY <1>3, <2>2, <3>1 DEF FiledUnder
  <2> QED
    BY <2>1, <2>2 DEF MoveBackups, Goes
<1>4. call.mode # "copy"
  BY <1>1 DEF IInv, Moved
<1>5. Touches /\ (Built' <=> Built) /\ Target' = Target
  BY <1>1, <1>2, WritesNothing DEF Built, Target
<1>6. Running' /\ NextPhase
  BY <1>1, <1>2, <1>5 DEF IInv, Running, NextPhase, Early, Late, Building, Following, Both, OfAnew
<1>7. Moved'
  BY <1>1, <1>3, <1>4, <1>9 DEF Moved
<1>8. Told'
  BY <1>1, <1>4 DEF IInv, Told, NothingTold, RunsAsTold, FollowsTogether, Working
<1> QED
  BY <1>1, <1>2, <1>5, <1>6, <1>7, <1>8, GoesOn

LEMMA RepointKeeps == ASSUME IInv, Repoint PROVE IInv'
<1>1. phase = "repoint" /\ phase' = "report" /\ UNCHANGED <<plans, store, call, notice>> /\ Shapes /\ Working /\ Built
  BY DEF Repoint, Goes, IInv, Working, Places, OfAnew, Following
<1>2. KeepsCall(mine') /\ mine'.target = mine.target /\ mine'.started = mine.started /\ mine'.backups = mine.backups
  BY <1>1, Fields DEF Repoint, Goes, KeepsCall, Shapes
<1>3. mine'.refs \in {"moved", "failed"} /\ refs' = IF mine'.refs # "moved" THEN "old" ELSE "new"
  BY <1>1, Fields DEF Repoint, Goes, Shapes, IInv, Moved
<1>4. call.mode # "copy"
  BY <1>1 DEF IInv, Moved
<1>5. Touches /\ (Built' <=> Built) /\ Target' = Target
  BY <1>1, <1>2, WritesNothing DEF Built, Target
<1>6. Running' /\ NextPhase
  BY <1>1, <1>2, <1>5 DEF IInv, Running, NextPhase, Early, Late, Building, Following, Both, OfAnew
<1>7. Moved'
  BY <1>1, <1>2, <1>3, <1>4 DEF IInv, Moved, KeepsCall
<1>8. Told'
  BY <1>1, <1>4 DEF IInv, Told, NothingTold, RunsAsTold, FollowsTogether, Working
<1> QED
  BY <1>1, <1>2, <1>5, <1>6, <1>7, <1>8, GoesOn

\* The result tells OK only if both followed.
LEMMA ReportKeeps == ASSUME IInv, Report PROVE IInv'
<1>1. phase = "report" /\ phase' = "done" /\ UNCHANGED <<plans, home, call, mine>> /\ Built
  BY DEF Report, IInv, Places, OfAnew, Following
<1>2. /\ notice'.status = NewPlanStatus
      /\ notice'.run = IF call.autoStart THEN mine.started ELSE "left stopped"
  BY DEF Report
<1>3. NewPlanStatus = "OK" => "failed" \notin {mine.backups, mine.refs}
  BY DEF NewPlanStatus
<1>4. (~call.autoStart => ~Target.running) /\ (mine.started = "runs" => Target.running)
  BY <1>1 DEF IInv, Running, Following
<1>5. mine.started # "left stopped"
  BY <1>1 DEF IInv, Running, Following
<1>6. Built' /\ Target' = Target /\ call' = call /\ mine' = mine /\ store' = store /\ refs' = refs
  BY <1>1 DEF Built, Target, home
<1>7. RunsAsTold'
  BY <1>2, <1>4, <1>5, <1>6 DEF RunsAsTold
<1>8. Moved' /\ FollowsTogether'
  <2>1. call.mode = "copy" => store = {"old"} /\ refs = "old"
    BY DEF IInv, Moved
  <2>2. notice'.backups = mine.backups /\ notice'.refs = mine.refs
    BY DEF Report
  <2>3. ASSUME call.mode # "copy"
        PROVE  /\ store = FiledUnder(mine.backups, mine.other)
               /\ refs = (IF mine.refs # "moved" THEN "old" ELSE "new")
               /\ {mine.backups, mine.refs} \subseteq {"moved", "failed"}
    BY <1>1, <2>3 DEF IInv, Moved
  <2> QED
    BY <1>1, <1>2, <1>3, <1>6, <2>1, <2>2, <2>3 DEF Moved, FollowsTogether, FiledUnder
<1>9. Shapes' /\ Places' /\ Meant' /\ Running'
  BY <1>1 DEF IInv, Shapes, Places, Meant, Running, Working, Early, Late, Building, Following, Both, OfInPlace,
     OfAnew
<1> QED
  BY <1>1, <1>7, <1>8, <1>9 DEF IInv, Told

-----------------------------------------------------------------------------
(* Theorems                                                                    *)

LEMMA NextIInv == ASSUME IInv, [Next]_vars PROVE IInv'
<1>1. CASE InPlace
  BY <1>1, DecideInPlaceKeeps, AlignKeeps, StopFirstKeeps, PositionsKeeps, CheckCommentsKeeps, RunFupKeeps,
     StopAfterKeeps, RecreateKeeps, VerifyKeeps, ReadModulesKeeps, WriteModuleKeeps, ModulesWrittenKeeps,
     PromoteKeeps DEF InPlace
<1>2. CASE Anew
  BY <1>2, DecideAnewKeeps, CreateKeeps, PlaceNextKeeps, ConfigureKeeps, RemoveKeeps, ElementsPlacedKeeps,
     WireNextKeeps, WiredKeeps, CheckRulesKeeps, StartKeeps, MoveBackupsKeeps, RepointKeeps, ReportKeeps DEF Anew
<1>3. CASE UNCHANGED vars
  <2>1. UNCHANGED <<plans, store, refs, call, phase, mine, notice>>
    BY <1>3 DEF vars, home
  <2>2. Target' = Target /\ (Built' <=> Built) /\ (LeaveStopped' <=> LeaveStopped)
    BY <2>1 DEF Target, Built, LeaveStopped
  <2>3. Shapes' /\ Places' /\ Moved'
    BY <2>1, <2>2 DEF IInv, Shapes, Places, Moved
  <2>5. Meant' /\ Running'
    BY <2>1, <2>2 DEF IInv, Meant, Running, Working
  <2>4. Told'
    BY <2>1, <2>2 DEF IInv, Told, NothingTold, RunsAsTold, FollowsTogether
  <2> QED
    BY <2>3, <2>4, <2>5 DEF IInv
<1> QED
  BY <1>1, <1>2, <1>3, RefuseKeeps, MatchSettingsKeeps, SaveSettingsKeeps, SettingsSavedKeeps, AbortedQuietly,
     PollQuietly DEF Next, Restore

LEMMA Invariant == Spec => []IInv
BY InitIInv, NextIInv, PTL DEF Spec

\* The result of a restore tells whether its plan runs, and a plan that was stopped or shall be stays
\* stopped unless the result says that the stop failed.
THEOREM RunsAsToldHolds == Spec => []RunsAsTold
<1>1. IInv => RunsAsTold
  BY DEF IInv, Told
<1> QED
  BY <1>1, Invariant, PTL

\* The backups and references are where the result of a restore as a new plan tells, with the plan if it
\* is OK; a copy takes none.
THEOREM Follows == Spec => []FollowsTogether
<1>1. IInv => FollowsTogether
  BY DEF IInv, Told
<1> QED
  BY <1>1, Invariant, PTL

\* A restore writes to the plan it works on only.
LEMMA OldStays == ASSUME Shapes, Built, NEW p, Becomes(p) PROVE plans'["old"] = plans["old"]
BY AfterBecomes DEF Shapes, Built

LEMMA Overwrites ==
    ASSUME IInv, [Next]_vars, plans'["old"] # plans["old"]
    PROVE  call.mode # "copy" /\ (~Conflict(plans["old"]) \/ call.mode = "force")
<1>1. ASSUME Built PROVE UNCHANGED plans \/ \E p : Becomes(p)
  <2>1. CASE InPlace
    <3>1. CASE StopAfter
      <4>1. phase = "settle"
        BY <3>1 DEF StopAfter
      <4> QED
        BY <1>1, <4>1 DEF IInv, Places, OfInPlace
    <3> QED
      BY <2>1, <3>1 DEF InPlace, DecideInPlace, Decides, Align, StopFirst, Positions, CheckComments, RunFup, Recreate,
         Verify, ReadModules, WriteModule, ModulesWritten, Promote, Fails
  <2>2. CASE Anew
    BY <2>2 DEF Anew, DecideNew, DecideCopy, Decides, Create, PlaceNext, Configure, Remove, ElementsPlaced, WireNext,
       Wired, CheckRules, Start, MoveBackups, Repoint, Report, Fails
  <2> QED
    BY <2>1, <2>2 DEF Next, Restore, Refuse, MatchSettings, SaveSettings, SettingsSaved, Fails, Aborted, Poll, vars
<1>2. ~Built
  BY <1>1, OldStays DEF IInv
<1>3. Working
  <2>1. CASE phase = "done"
    BY <2>1 DEF Next, Restore, Refuse, InPlace, Anew, DecideInPlace, DecideNew, DecideCopy, Decides, Align, StopFirst,
       Positions, CheckComments, RunFup, StopAfter, Recreate, Verify, ReadModules, WriteModule, ModulesWritten, Promote,
       Create, PlaceNext, Configure, Remove, ElementsPlaced, WireNext, Wired, CheckRules, Start, MoveBackups, Repoint,
       Report, MatchSettings, SaveSettings, SettingsSaved, Aborted, Poll, vars
  <2>2. CASE phase = "asked"
    BY <2>2 DEF Next, Restore, Refuse, InPlace, Anew, DecideInPlace, DecideNew, DecideCopy, Decides, Align, StopFirst,
       Positions, CheckComments, RunFup, StopAfter, Recreate, Verify, ReadModules, WriteModule, ModulesWritten, Promote,
       Create, PlaceNext, Configure, Remove, ElementsPlaced, WireNext, Wired, CheckRules, Start, MoveBackups, Repoint,
       Report, MatchSettings, SaveSettings, SettingsSaved, Aborted, Poll, vars
  <2> QED
    BY <2>1, <2>2 DEF Working
<1>4. plans["old"].name = Own => plans["old"] # NoPlan
  BY DEF NoPlan, Own
<1> QED
  BY <1>2, <1>3, <1>4 DEF IInv, Meant, Conflict

\* No restore changes a plan of another name than its backup's unless the caller insisted, and a copy
\* changes none.
THEOREM OverwritesMeant == Spec => OverwritesOnlyMeant
<1>1. ASSUME IInv, [Next]_vars
      PROVE  [plans'["old"] # plans["old"] =>
                 call.mode # "copy" /\ (~Conflict(plans["old"]) \/ call.mode = "force")]_vars
  BY <1>1, Overwrites
<1> QED
  BY <1>1, Invariant, PTL DEF Spec, OverwritesOnlyMeant


=============================================================================
