---------------------------- MODULE RestoreEngine ----------------------------
(* A restore of services/backup.py, request by request, from the call that      *)
(* holds the restore lock to the notice that tells its result: in place onto    *)
(* the plan that holds the backup's ID, as a new plan, or as a copy.            *)
(*                                                                             *)
(* What keeps restores, syncs and plan edits apart is PlanCoordination; the     *)
(* history an in-place restore adds to and promotes in is BackupCycle.          *)
EXTENDS Naturals, FiniteSets, TLC

CONSTANTS
    Backups,      \* the snapshots, a sequence of [els, wires, paper, setsIn, confsIn, fits]
    LivePlans,    \* what the backup's ID may hold besides nothing
    Ids, RunIds,  \* element ids Comexio hands out, and those of them run_fup does
    Unread,
    MaxFaults     \* bound on refused, lost and failed requests

\* Papers a plan can be set to; a backup or plan may also state another ("odd") or none.
Settable == {"A3", "A4"}
Own == "own"      \* the name of the plan the backup is of; "copy" the name of a copy
Module == {"scene", "quantum"}
\* What an ID holds that no plan has.
NoPlan == [name |-> "none", els |-> <<>>, wires |-> {}, paper |-> "none", running |-> FALSE]

ASSUME RestoreAssumption ==
    /\ MaxFaults \in Nat /\ Ids \subseteq Nat /\ RunIds \subseteq Ids
    /\ \A p \in LivePlans : DOMAIN p = DOMAIN NoPlan /\ p # NoPlan
    /\ \A b \in DOMAIN Backups : LET s == Backups[b]
                               IN DOMAIN s.els \subseteq Ids /\ \A w \in s.wires : w.to \subseteq DOMAIN s.els

VARIABLES
    plans,     \* what the IDs "old" (the backup's) and "new" (the next free one) hold in Comexio
    cached,    \* api.fub_data["old"], as of the last poll or fetch
    table,     \* api.block_settings: element id -> settings, or Unread
    store,     \* the IDs the plan's backups are filed under
    refs,      \* the ID the cluster map and the watchdog pick of the plan's name point at
    call,      \* the call: [backup, mode, autoStart]
    phase,     \* the step it takes next
    mine,      \* what it has done and found, see Nothing
    notice,    \* the notification it shows: [is, status, run, backups, refs]
    faults

vars == <<plans, cached, table, store, refs, call, phase, mine, notice, faults>>
home == <<store, refs>>

Backup == Backups[call.backup]
Snapshot == Backup.els
Comments(els) == {i \in DOMAIN els : els[i].kind = "comment"}
Modules(els) == {i \in DOMAIN els : els[i].kind \in Module}
NoSettings == <<>>

Target == plans[mine.target]
Becomes(p) == plans' = [plans EXCEPT ![mine.target] = p]
Settings(ps) == [i \in UNION {DOMAIN ps[d].els : d \in {e \in DOMAIN ps : ps[e] # NoPlan}} |->
                   LET d == CHOOSE e \in DOMAIN ps : ps[e] # NoPlan /\ i \in DOMAIN ps[e].els
                   IN ps[d].els[i].set]
First(S) == CHOOSE i \in S : \A j \in S : i <= j

Faulty == faults < MaxFaults /\ faults' = faults + 1
Fine == UNCHANGED faults

-----------------------------------------------------------------------------
(* Elements of two plans that stand for each other.                            *)

Block(e) == <<e.kind, e.ref>>
Place(e) == <<e.kind, e.ref, e.at>>

\* The hash ignores element ids and comments; blocks are told apart by their place.
Logic(p) == LET shown == DOMAIN p.els \ Comments(p.els)
                look(i) == Place(p.els[i])
            IN [blocks |-> [l \in {look(i) : i \in shown} |-> Cardinality({i \in shown : look(i) = l})],
                wires |-> {[from |-> look(w.from), to |-> {look(t) : t \in w.to}] : w \in p.wires}]

\* Mutant of Matched: elements are taken for each other by their id alone.
MatchedById(els, live) ==
    [i \in {j \in DOMAIN els \cap DOMAIN live : Block(live[j]) = Block(els[j])} |-> i]

\* Snapshot element -> the live element a restore takes for it: the one at its place, or,
\* when none is there, the one with its id.
Matched(els, live) ==
    LET there(i) == {j \in DOMAIN live : Place(live[j]) = Place(els[i])}
        placed == {i \in DOMAIN els : i \in there(i) \/ Cardinality(there(i)) = 1}
        by == [i \in placed |-> IF i \in there(i) THEN i ELSE CHOOSE j \in there(i) : TRUE]
        sole == {i \in placed : \A j \in placed \ {i} : by[j] # by[i]}
        same == {i \in DOMAIN els \cap DOMAIN live :
                   /\ there(i) = {} /\ Block(live[i]) = Block(els[i])
                   /\ \A j \in sole : by[j] # i}
    IN [i \in sole \union same |-> IF i \in sole THEN by[i] ELSE i]

\* What run_fup makes of a plan: elements it knows stay, the others get the ids f gives them.
Known(p, els) == {i \in DOMAIN els \cap DOMAIN p.els : Block(els[i]) = Block(p.els[i])}
Numberings(p, els) ==
    {f \in [DOMAIN els -> RunIds] : /\ \A i \in Known(p, els) : f[i] = i
                                 /\ \A i, j \in DOMAIN els : f[i] = f[j] => i = j}
Fresh(e) == [e EXCEPT !.set = NoSettings, !.conf = "default", !.rules = "default"]
Applied(p, els, f) ==
    LET of(j) == CHOOSE i \in DOMAIN els : f[i] = j
    IN [p EXCEPT !.els = [j \in {f[i] : i \in DOMAIN els} |->
                            IF of(j) \in Known(p, els) THEN p.els[j] ELSE Fresh(els[of(j)])],
                 !.wires = {[from |-> f[w.from], to |-> {f[t] : t \in w.to}] : w \in Backup.wires}]
Stopped(p) == [p EXCEPT !.running = FALSE]
Set(p, i, settings) == [p EXCEPT !.els[i].set = settings @@ @]
Configured(p, i, conf) == [p EXCEPT !.els[i].conf = conf]
FreeId == First(Ids \ UNION {DOMAIN plans[d].els : d \in {e \in DOMAIN plans : plans[e] # NoPlan}})

-----------------------------------------------------------------------------
(* The call.                                                                   *)

Nothing == [target |-> "old", other |-> FALSE, wasActive |-> FALSE, paper |-> "ok",
            posOk |-> FALSE, runOk |-> FALSE, stopOk |-> TRUE, missing |-> {}, got |-> NoPlan,
            map |-> <<>>, todo |-> {}, wired |-> {}, warned |-> FALSE, setsOk |-> TRUE, blind |-> FALSE,
            restored |-> {}, confsOk |-> TRUE, tables |-> FALSE, spare |-> 0, raised |-> FALSE, started |-> "no",
            backups |-> "kept", refs |-> "kept"]
Silent == [is |-> "none", status |-> "none", run |-> "none", backups |-> "kept", refs |-> "kept"]
Tells(what) == notice' = [Silent EXCEPT !.is = what]

Conflict(p) == ~(p # NoPlan /\ p.name = Own)

Goes(next, m) == phase' = next /\ mine' = m
Ends(what) == phase' = "done" /\ Tells(what)

Init ==
    /\ \E p \in LivePlans \union {NoPlan} :
         plans = [d \in {"old", "new"} |-> IF d = "old" THEN p ELSE NoPlan]
    /\ cached \in {plans["old"]} \union IF Conflict(plans["old"]) THEN LivePlans ELSE {}
    /\ table = Settings(plans)
    /\ store = {"old"} /\ refs = "old"
    /\ call \in [backup : DOMAIN Backups, mode : {"plain", "confirm", "force", "copy"}, autoStart : BOOLEAN]
    /\ phase = "asked" /\ mine = Nothing /\ notice = Silent /\ faults = 0

\* Mutant of Listed: whose plan the ID is, as of the last poll.
ListedAtPoll == IF plans["old"] = NoPlan THEN NoPlan ELSE [plans["old"] EXCEPT !.name = cached.name]

\* The plan at the backup's ID, from a list fetched for this call.
Listed == plans["old"]

\* The backup or its blocks do not fit, no login, no readable plan list, or a conflict unconfirmed.
Refuse ==
    /\ phase = "asked"
    /\ \/ Fine /\ ~Backup.fits
       \/ Fine /\ call.mode = "plain" /\ Conflict(Listed)
       \/ Faulty /\ call.mode # "copy"
    /\ Ends("refused")
    /\ UNCHANGED <<plans, cached, table, home, call, mine>>

Decides == /\ phase = "asked" /\ Backup.fits /\ Tells("progress") /\ UNCHANGED <<plans, home, call>>

\* Onto the plan of the backup's name, or onto the one that holds its ID now.
DecideInPlace ==
    /\ Decides /\ Fine
    /\ LET live == Listed
       IN /\ \/ call.mode # "copy" /\ ~Conflict(live)
             \/ call.mode = "force" /\ live # NoPlan
          /\ Goes("align", [Nothing EXCEPT !.other = Conflict(live), !.wasActive = live.running])
          /\ cached' = live
    /\ table' = Settings(plans)

\* As a new plan; the fetched entry is cached here too.
DecideNew ==
    /\ Decides /\ Fine
    /\ LET live == Listed
       IN /\ Conflict(live) /\ (call.mode = "confirm" \/ (call.mode = "force" /\ live = NoPlan))
          /\ Goes("create", [Nothing EXCEPT !.target = "new", !.other = live # NoPlan])
          /\ cached' = IF live = NoPlan THEN cached ELSE live
    /\ table' = Settings(plans)

\* A copy needs no plan list; its failed fetch only drops the block settings.
DecideCopy ==
    /\ Decides /\ call.mode = "copy"
    /\ Goes("create", [Nothing EXCEPT !.target = "new"])
    /\ \/ Fine /\ table' = Settings(plans)
       \/ Faulty /\ table' = Unread
    /\ UNCHANGED cached

\* A transport error or an error nothing expects, or a cancelled call.
Fails == Faulty /\ Ends("failed") /\ UNCHANGED <<plans, cached, table, home, call, mine>>
Aborted ==
    /\ phase \notin {"asked", "done"} /\ faults < MaxFaults /\ faults' = faults + 1
    /\ Ends("aborted") /\ UNCHANGED <<plans, cached, table, home, call, mine>>

-----------------------------------------------------------------------------
(* In place: the restore aligns, stops, moves, runs, stops, verifies and writes *)
(* what Comexio keeps outside the plan.                                         *)

\* Name and paper of the backup, with the plan's own paper when the backup's cannot be set.
Align ==
    LET paper == IF Backup.paper \in Settable THEN Backup.paper ELSE cached.paper
        changed == (paper \in Settable /\ paper # cached.paper) \/ cached.name # Own
        kept == Backup.paper = "odd" /\ Backup.paper # cached.paper
    IN /\ phase = "align"
       /\ \/ /\ Fine /\ (changed => paper \in Settable)
             /\ Becomes([Target EXCEPT !.name = Own, !.paper = paper])
             /\ cached' = [cached EXCEPT !.name = Own, !.paper = paper]
             /\ Goes("stop", [mine EXCEPT !.paper = IF kept THEN "kept" ELSE "ok"])
          \/ /\ IF changed /\ paper \notin Settable THEN Fine ELSE changed /\ Faulty
             /\ Goes("stop", [mine EXCEPT !.paper = "failed"])
             /\ UNCHANGED <<plans, cached>>
       /\ UNCHANGED <<table, home, call, notice>>

\* The answer of the first stop is not looked at.
StopFirst ==
    /\ phase = "stop"
    /\ \/ Fine /\ Becomes(Stopped(Target))
       \/ Faulty /\ UNCHANGED plans
    /\ Goes("positions", mine)
    /\ UNCHANGED <<cached, table, home, call, notice>>

Positions ==
    /\ phase = "positions"
    /\ \/ /\ Fine
          /\ Becomes([Target EXCEPT !.els = [i \in DOMAIN @ |->
                IF i \in Known(Target, Snapshot) THEN [@[i] EXCEPT !.at = Snapshot[i].at] ELSE @[i]]])
          /\ Goes("check", [mine EXCEPT !.posOk = TRUE])
          /\ UNCHANGED <<cached, table, home, call, notice>>
       \/ /\ Faulty
          /\ Goes("check", mine)
          /\ UNCHANGED <<plans, cached, table, home, call, notice>>
       \/ Fails

\* A comment the plan lost would make Comexio refuse the whole payload.
CheckComments ==
    /\ phase = "check"
    /\ \/ Fine /\ Goes("run", [mine EXCEPT !.missing = Comments(Snapshot) \ DOMAIN Target.els])
       \/ Faulty /\ Goes("run", mine)
    /\ UNCHANGED <<plans, cached, table, home, call, notice>>

\* Comexio may apply a payload it refuses to run, and an answer may be lost either way.
Payload == [i \in DOMAIN Snapshot \ mine.missing |-> Snapshot[i]]
RunFup ==
    LET applied == {Applied(Target, Payload, f) : f \in Numberings(Target, Payload)}
        unknown == DOMAIN Payload \ Known(Target, Payload)
    IN /\ phase = "run"
       /\ \/ /\ Fine /\ unknown \cap Comments(Payload) = {}
             /\ \E p \in applied, run, ok \in BOOLEAN :
                  /\ ok => run
                  /\ Becomes([p EXCEPT !.running = run])
                  /\ Goes("settle", [mine EXCEPT !.runOk = ok])
          \/ /\ IF unknown # {} THEN Fine ELSE Faulty
             /\ Goes("settle", mine) /\ UNCHANGED plans
       /\ UNCHANGED <<cached, table, home, call, notice>>

LeaveStopped == ~mine.wasActive \/ ~call.autoStart

\* Mutant of StopAfter: only a run_fup that was confirmed is taken back.
StopAfterConfirmed ==
    /\ phase = "settle"
    /\ \/ Fine /\ ~(LeaveStopped /\ mine.runOk) /\ UNCHANGED plans /\ Goes("recreate", mine)
       \/ Fine /\ LeaveStopped /\ mine.runOk /\ Becomes(Stopped(Target)) /\ Goes("recreate", mine)
       \/ /\ Faulty /\ LeaveStopped /\ mine.runOk /\ UNCHANGED plans
          /\ Goes("recreate", [mine EXCEPT !.stopOk = FALSE])
    /\ UNCHANGED <<cached, table, home, call, notice>>

\* Whatever run_fup answered: a plan that was stopped, or shall be, is stopped again.
StopAfter ==
    /\ phase = "settle"
    /\ \/ Fine /\ ~LeaveStopped /\ UNCHANGED plans /\ Goes("recreate", mine)
       \/ Fine /\ LeaveStopped /\ Becomes(Stopped(Target)) /\ Goes("recreate", mine)
       \/ /\ Faulty /\ LeaveStopped /\ plans' \in {plans, [plans EXCEPT ![mine.target] = Stopped(@)]}
          /\ Goes("recreate", [mine EXCEPT !.stopOk = FALSE])
    /\ UNCHANGED <<cached, table, home, call, notice>>

Recreate ==
    /\ phase = "recreate"
    /\ IF mine.missing = {} THEN Fine /\ Goes("verify", mine) /\ UNCHANGED plans
       ELSE LET i == First(mine.missing)
            IN /\ Goes("recreate", [mine EXCEPT !.missing = @ \ {i}])
               /\ \/ Fine /\ Becomes([Target EXCEPT !.els = (FreeId :> Snapshot[i]) @@ @])
                  \/ Faulty /\ UNCHANGED plans
    /\ UNCHANGED <<cached, table, home, call, notice>>

Verify ==
    /\ phase = "verify"
    /\ \/ /\ Fine
          /\ Goes("settings", [mine EXCEPT !.got = Target, !.map = Matched(Snapshot, Target.els)])
       \/ Faulty /\ Goes("settings", mine)
    /\ UNCHANGED <<plans, cached, table, home, call, notice>>

\* The block settings the backup has; a plan built anew has no others.
Wanted == IF Backup.setsIn THEN {i \in DOMAIN Snapshot : Snapshot[i].set # NoSettings} ELSE {}
Built == mine.target = "new"
Cached(i) == IF table = Unread \/ i \notin DOMAIN table THEN {} ELSE DOMAIN table[i]
Kept == {i \in DOMAIN mine.map : Cached(mine.map[i]) \ DOMAIN Snapshot[i].set # {}}

MatchSettings ==
    /\ phase = "settings"
    /\ Goes("save", [mine EXCEPT !.todo = Wanted \cap DOMAIN mine.map,
                        !.setsOk = Wanted \subseteq DOMAIN mine.map /\ (Built \/ ~Backup.setsIn \/ Kept = {}),
                        !.blind = table = Unread])
    /\ Fine /\ UNCHANGED <<plans, cached, table, home, call, notice>>

SaveSettings ==
    /\ phase = "save" /\ mine.todo # {}
    /\ LET i == First(mine.todo)
           to == mine.map[i]
           rest == [mine EXCEPT !.todo = @ \ {i}]
       IN \/ /\ Fine
             /\ Becomes(Set(Target, to, Snapshot[i].set))
             /\ table' = IF table = Unread THEN Unread
                         ELSE (to :> (Snapshot[i].set @@ IF to \in DOMAIN table THEN table[to] ELSE NoSettings)) @@ table
             /\ Goes("save", rest)
             /\ UNCHANGED <<cached, home, call, notice>>
          \/ /\ Faulty
             /\ Goes("save", [rest EXCEPT !.setsOk = FALSE])
             /\ UNCHANGED <<plans, cached, table, home, call, notice>>
          \/ Fails

SettingsSaved ==
    /\ phase = "save" /\ mine.todo = {} /\ Fine
    /\ Goes(IF Built THEN "rules" ELSE "configs", mine)
    /\ UNCHANGED <<plans, cached, table, home, call, notice>>

\* The config page, reloaded; a failed reload drops the block settings, too.
Reloads(read) == IF read THEN Fine /\ table' = Settings(plans) ELSE Faulty /\ table' = Unread

\* Scenes never saved have no stored config; every Quantum module has one.
Stored == IF Backup.confsIn
          THEN {i \in Modules(Snapshot) : Snapshot[i].kind = "quantum" \/ Snapshot[i].conf # "default"}
          ELSE {}
Unsaved == IF Backup.confsIn THEN Modules(Snapshot) \ Stored ELSE {}
Complete == Backup.confsIn \/ Modules(Snapshot) = {}

ReadModules ==
    /\ phase = "configs"
    /\ IF Stored \union Unsaved = {} \/ mine.got = NoPlan
       THEN /\ Goes("promote", [mine EXCEPT !.confsOk = Complete /\ Stored \union Unsaved = {}])
            /\ Fine /\ UNCHANGED table
       ELSE \E read \in BOOLEAN :
            /\ Goes("write", [mine EXCEPT !.tables = read, !.todo = Stored \cap DOMAIN mine.map,
                                          !.confsOk = Stored \subseteq DOMAIN mine.map])
            /\ Reloads(read)
    /\ UNCHANGED <<plans, cached, home, call, notice>>

\* A scene takes any config; a Quantum module needs the tables, cannot go back to its defaults, and
\* is left alone when the live one is of another type, as it may be here.
WriteModule ==
    /\ phase = "write" /\ mine.todo # {}
    /\ LET i == First(mine.todo)
           to == mine.map[i]
           rest == [mine EXCEPT !.todo = @ \ {i}]
           asIs == Snapshot[i].conf = "default"
           quantum == Snapshot[i].kind = "quantum"
           hopeless == quantum /\ (~mine.tables \/ (asIs /\ Target.els[to].conf # "default"))
       IN \/ /\ Fine /\ ~hopeless
             /\ Becomes(Configured(Target, to, Snapshot[i].conf))
             /\ Goes("write", [rest EXCEPT !.restored = @ \union {i}])
          \/ /\ IF quantum THEN Fine ELSE ~asIs /\ Faulty
             /\ Goes("write", [rest EXCEPT !.confsOk = FALSE]) /\ UNCHANGED plans
          \/ /\ ~hopeless /\ ~asIs /\ Faulty
             /\ Goes("write", [mine EXCEPT !.todo = {}, !.confsOk = FALSE]) /\ UNCHANGED plans
    /\ UNCHANGED <<cached, table, home, call, notice>>

\* Rules and never saved scenes are only compared.
ModulesWritten ==
    /\ phase = "write" /\ mine.todo = {}
    /\ LET differ == {i \in mine.restored : Snapshot[i].kind = "quantum"
                                  /\ Target.els[mine.map[i]].rules # Snapshot[i].rules}
           saved == {i \in Unsaved \cap DOMAIN mine.map : ~mine.tables \/ Target.els[mine.map[i]].conf # "default"}
       IN Goes("promote", [mine EXCEPT !.confsOk = @ /\ differ = {} /\ saved = {}])
    /\ IF mine.restored = {} THEN Fine /\ UNCHANGED table ELSE \E read \in BOOLEAN : Reloads(read)
    /\ UNCHANGED <<plans, cached, home, call, notice>>

\* The content is judged by the hash; onto another plan, by the counts alone.
Counts(p) == <<Cardinality(DOMAIN p.els), Cardinality(p.wires)>>
ContentOk == /\ mine.got # NoPlan
             /\ IF mine.other THEN Counts(mine.got) = Counts([els |-> Snapshot, wires |-> Backup.wires])
                ELSE Logic(mine.got) = Logic([els |-> Snapshot, wires |-> Backup.wires])
InPlaceStatus ==
    IF mine.got = NoPlan THEN "FAILED"
    ELSE IF ContentOk /\ mine.paper = "ok" /\ mine.setsOk /\ mine.confsOk THEN "OK"
    ELSE IF \/ mine.runOk \/ mine.posOk \/ mine.paper # "failed"
            \/ Counts(mine.got) = Counts([els |-> Snapshot, wires |-> Backup.wires]) THEN "PARTIAL"
    ELSE "FAILED"
RunLabel == IF LeaveStopped /\ ~mine.stopOk THEN "stop failed"
            ELSE IF ~call.autoStart THEN "left stopped"
            ELSE IF mine.runOk THEN "runs" ELSE IF mine.wasActive THEN "check" ELSE "inactive"

\* Promoting the snapshot in the history is the last step; its failure is told.
Promote ==
    /\ phase = "promote" /\ phase' = "done"
    /\ \E status \in {InPlaceStatus} \union (IF InPlaceStatus = "OK" /\ ~mine.other THEN {"PARTIAL"} ELSE {}) :
         /\ IF status = InPlaceStatus THEN Fine ELSE Faulty
         /\ notice' = [Silent EXCEPT !.is = "result", !.status = status, !.run = RunLabel]
    /\ UNCHANGED <<plans, cached, table, home, call, mine>>

-----------------------------------------------------------------------------
(* As a new plan or a copy: created, rebuilt element by element and wire by     *)
(* wire, started, and, unless a copy, followed by backups and references.       *)

NewName == IF call.mode = "copy" THEN "copy" ELSE Own
Empty == [name |-> NewName, els |-> NoSettings, wires |-> {}, running |-> FALSE,
          paper |-> IF Backup.paper \in Settable THEN Backup.paper ELSE "A3"]

\* Comexio may create the plan without naming its ID; then it stays empty and unrestored.
Create ==
    /\ phase = "create"
    /\ LET taken == \E d \in DOMAIN plans : plans[d] # NoPlan /\ plans[d].name = NewName
       IN \/ /\ Fine /\ ~taken
             /\ Becomes(Empty) /\ Goes("place", [mine EXCEPT !.todo = DOMAIN Snapshot])
             /\ UNCHANGED notice
          \/ Faulty /\ ~taken /\ Becomes(Empty) /\ Ends("failed") /\ UNCHANGED mine
          \/ (IF taken THEN Fine ELSE Faulty) /\ Ends("failed") /\ UNCHANGED <<plans, mine>>
    /\ UNCHANGED <<cached, table, home, call>>

Skipped(m) == [m EXCEPT !.todo = @ \ {First(@)}, !.warned = TRUE]
Done(m, id) == [m EXCEPT !.todo = @ \ {First(@)}, !.map = (First(m.todo) :> id) @@ @, !.spare = 0]

\* A module block with a stored config is not done before it carries it.
PlaceNext ==
    /\ phase = "place" /\ mine.todo # {}
    /\ LET i == First(mine.todo)
           e == Snapshot[i]
           unnamed == e.kind = "quantum" /\ i \notin Stored
       IN \/ /\ Fine /\ ~unnamed
             /\ Becomes([Target EXCEPT !.els = (FreeId :> Fresh(e)) @@ @])
             /\ IF i \in Stored THEN Goes("configure", [mine EXCEPT !.spare = FreeId])
                ELSE Goes("place", Done(mine, FreeId))
             /\ UNCHANGED <<cached, table, home, call, notice>>
          \/ /\ IF unnamed THEN Fine ELSE Faulty
             /\ Goes("place", [Skipped(mine) EXCEPT !.confsOk = @ /\ ~unnamed])
             /\ UNCHANGED <<plans, cached, table, home, call, notice>>
          \/ e.kind # "comment" /\ ~unnamed /\ Fails

\* A module whose config is not saved would act with Comexio's defaults: it is removed again.
Configure ==
    /\ phase = "configure"
    /\ LET i == First(mine.todo)
       IN \/ /\ Fine /\ Becomes(Configured(Target, mine.spare, Snapshot[i].conf))
             /\ Goes("place", [Done(mine, mine.spare) EXCEPT !.restored = @ \union {i}])
          \/ /\ Faulty /\ UNCHANGED plans
             /\ \E raised \in BOOLEAN : /\ raised => Snapshot[i].conf # "default"
                                        /\ Goes("remove", [mine EXCEPT !.raised = raised, !.confsOk = FALSE])
    /\ UNCHANGED <<cached, table, home, call, notice>>

Remove ==
    /\ phase = "remove"
    /\ \/ Fine /\ Becomes([Target EXCEPT !.els = [j \in DOMAIN @ \ {mine.spare} |-> @[j]]])
       \/ Faulty /\ UNCHANGED plans
    /\ IF mine.raised THEN Ends("failed") /\ UNCHANGED mine
       ELSE Goes("place", [Skipped(mine) EXCEPT !.spare = 0]) /\ UNCHANGED notice
    /\ UNCHANGED <<cached, table, home, call>>

ElementsPlaced ==
    /\ phase = "place" /\ mine.todo = {} /\ Fine
    /\ Goes("wire", [mine EXCEPT !.todo = Backup.wires])
    /\ UNCHANGED <<plans, cached, table, home, call, notice>>

\* One request per source, with all its sinks that were placed.
WireNext ==
    /\ phase = "wire" /\ mine.todo # {}
    /\ LET w == CHOOSE v \in mine.todo : TRUE
           sinks == w.to \cap DOMAIN mine.map
           idle == w.from \notin DOMAIN mine.map \/ sinks = {}
           rest == [mine EXCEPT !.todo = @ \ {w}]
       IN \/ /\ Fine /\ ~idle
             /\ Becomes([Target EXCEPT !.wires = @ \union
                            {[from |-> mine.map[w.from], to |-> {mine.map[t] : t \in sinks}]}])
             /\ Goes("wire", [rest EXCEPT !.wired = @ \union {w}, !.warned = @ \/ sinks # w.to])
             /\ UNCHANGED <<cached, table, home, call, notice>>
          \/ /\ IF idle THEN Fine ELSE Faulty
             /\ Goes("wire", [rest EXCEPT !.warned = TRUE])
             /\ UNCHANGED <<plans, cached, table, home, call, notice>>
          \/ ~idle /\ Fails

Wired ==
    /\ phase = "wire" /\ mine.todo = {} /\ Fine /\ Goes("settings", mine)
    /\ UNCHANGED <<plans, cached, table, home, call, notice>>

\* Comexio has no request for a module's rules: they are compared after a reload.
CheckRules ==
    LET modules == {i \in mine.restored : Snapshot[i].kind = "quantum"}
    IN /\ phase = "rules"
       /\ IF modules = {} THEN Fine /\ Goes("start", mine) /\ UNCHANGED table
          ELSE \E read \in BOOLEAN :
            /\ Reloads(read)
            /\ Goes("start", [mine EXCEPT !.confsOk = @ /\ read /\
                    \A i \in modules : Target.els[mine.map[i]].rules = Snapshot[i].rules])
       /\ UNCHANGED <<plans, cached, home, call, notice>>

\* A start that fails leaves the plan restored; a refused or lost one may have started it.
Start ==
    /\ phase = "start"
    /\ LET next == IF call.mode = "copy" THEN "report" ELSE "move"
           runs(run) == Becomes([Target EXCEPT !.running = run])
       IN \/ ~call.autoStart /\ Fine /\ UNCHANGED plans /\ Goes(next, mine)
          \/ call.autoStart /\ Fine /\ runs(TRUE) /\ Goes(next, [mine EXCEPT !.started = "runs"])
          \/ /\ call.autoStart /\ \E run \in BOOLEAN : runs(run)
             /\ \/ Fine /\ Goes(next, [mine EXCEPT !.started = "inactive"])
                \/ Faulty /\ Goes(next, [mine EXCEPT !.started = "failed"])
    /\ UNCHANGED <<cached, table, home, call, notice>>

\* Mutant of MoveBackups: moved and removed are swapped.
MovesSwapped ==
    /\ phase = "move"
    /\ \/ /\ Fine
          /\ store' = IF mine.other THEN {"new"} ELSE store \ {"old"}
          /\ Goes("repoint", [mine EXCEPT !.backups = "moved"])
       \/ Faulty /\ Goes("repoint", [mine EXCEPT !.backups = "failed"]) /\ UNCHANGED store
    /\ UNCHANGED <<plans, cached, table, refs, call, notice>>

\* The backups follow the plan to its new ID, or are removed when another plan holds the old one.
MoveBackups ==
    /\ phase = "move"
    /\ \/ /\ Fine
          /\ store' = IF mine.other THEN store \ {"old"} ELSE {"new"}
          /\ Goes("repoint", [mine EXCEPT !.backups = "moved"])
       \/ Faulty /\ Goes("repoint", [mine EXCEPT !.backups = "failed"]) /\ UNCHANGED store
    /\ UNCHANGED <<plans, cached, table, refs, call, notice>>

Repoint ==
    /\ phase = "repoint"
    /\ \/ Fine /\ refs' = "new" /\ Goes("report", [mine EXCEPT !.refs = "moved"])
       \/ Faulty /\ Goes("report", [mine EXCEPT !.refs = "failed"]) /\ UNCHANGED refs
    /\ UNCHANGED <<plans, cached, table, store, call, notice>>

NewPlanStatus ==
    IF /\ DOMAIN mine.map = DOMAIN Snapshot /\ mine.wired = Backup.wires /\ ~mine.warned
       /\ mine.setsOk /\ mine.confsOk /\ Complete /\ mine.restored = Stored
       /\ "failed" \notin {mine.backups, mine.refs}
    THEN "OK" ELSE "PARTIAL"

Report ==
    /\ phase = "report" /\ phase' = "done" /\ Fine
    /\ notice' = [is |-> "result", status |-> NewPlanStatus, backups |-> mine.backups, refs |-> mine.refs,
                  run |-> IF call.autoStart THEN mine.started ELSE "left stopped"]
    /\ UNCHANGED <<plans, cached, table, home, call, mine>>

-----------------------------------------------------------------------------
\* A poll meanwhile refreshes what HA knows, or fails and drops the block settings.
Poll ==
    /\ phase \notin {"asked", "done"}
    /\ \/ Fine /\ table' = Settings(plans) /\ cached' = plans["old"]
       \/ Faulty /\ table' = Unread /\ UNCHANGED cached
    /\ UNCHANGED <<plans, home, call, phase, mine, notice>>

InPlace == \/ DecideInPlace \/ Align \/ StopFirst \/ Positions \/ CheckComments \/ RunFup \/ StopAfter
           \/ Recreate \/ Verify \/ ReadModules \/ WriteModule \/ ModulesWritten \/ Promote
Anew == \/ DecideNew \/ DecideCopy \/ Create \/ PlaceNext \/ Configure \/ Remove \/ ElementsPlaced
        \/ WireNext \/ Wired \/ CheckRules \/ Start \/ MoveBackups \/ Repoint \/ Report
Restore == Refuse \/ InPlace \/ Anew \/ MatchSettings \/ SaveSettings \/ SettingsSaved
Next == Restore \/ Aborted \/ Poll
Spec == Init /\ [][Next]_vars

-----------------------------------------------------------------------------
(* Properties.                                                                 *)

\* A restore that tells OK left the plan with the blocks, wires, block settings and module
\* configs of the backup. Not told apart: onto another plan, a run_fup that did not confirm
\* (the counts alone are compared), and block settings left over when a poll dropped the table.
Carries(p) ==
    LET shown == DOMAIN Snapshot \ Comments(Snapshot)
        agrees(i, e) == /\ e.kind = Snapshot[i].kind
                        /\ Snapshot[i].kind \in Module \/ e.ref = Snapshot[i].ref
                        /\ Backup.setsIn => e.set = Snapshot[i].set
                        /\ i \in Modules(Snapshot) => e.conf = Snapshot[i].conf /\ e.rules = Snapshot[i].rules
    IN \E f \in [shown -> DOMAIN p.els \ Comments(p.els)] :
         /\ \A i, j \in shown : f[i] = f[j] => i = j
         /\ \A i \in shown : agrees(i, p.els[f[i]])
         /\ p.wires = {[from |-> f[w.from], to |-> {f[t] : t \in w.to}] : w \in Backup.wires}
OkMeansRestored ==
    notice.status = "OK" /\ (~Built => mine.runOk \/ ~mine.other) /\ ~mine.blind => Carries(Target)

\* The result tells whether the plan runs, and a plan that was stopped, or that the caller
\* wanted stopped, does not run after a restore in place unless the result says so. (Of a plan
\* that was stopped, "runs" only says that run_fup was confirmed.)
RunsAsTold ==
    notice.is = "result" =>
      /\ notice.run = "runs" /\ (Built \/ mine.wasActive) => Target.running
      /\ notice.run = "left stopped" => ~Target.running
      /\ ~Built /\ LeaveStopped /\ notice.run # "stop failed" => ~Target.running

\* No restore changes a plan of another name than its backup's unless the caller confirmed
\* force_override, however old HA's own list of the plans is.
OverwritesOnlyMeant ==
    [][plans'["old"] # plans["old"] => call.mode # "copy" /\ (~Conflict(plans["old"]) \/ call.mode = "force")]_vars

\* Where the backups are after a move told as that.
FiledUnder(move, other) == IF move # "moved" THEN {"old"} ELSE IF other THEN {} ELSE {"new"}

\* The result of a restore as a new plan tells where the backups and references are, and is OK
\* only if both followed: the new ID has the backups, unless another plan holds the old one; then
\* they are removed rather than left beside that plan's. A copy takes nothing, however it ends.
FollowsTogether ==
    /\ notice.is = "result" /\ Built /\ call.mode # "copy" =>
         /\ store = FiledUnder(notice.backups, mine.other)
         /\ refs = IF notice.refs # "moved" THEN "old" ELSE "new"
         /\ notice.status = "OK" => notice.backups = "moved" /\ notice.refs = "moved"
    /\ call.mode = "copy" => store = {"old"} /\ refs = "old"

\* BACKUPS.md:76-77 of the backups of a deleted plan: "They are what you need to bring the plan back,
\* so the integration never deletes them on its own". So while the plan is not fully back, some stay.
BackupsStay == notice.is = "result" /\ notice.status # "OK" => store # {}
=============================================================================
