------------------------------ MODULE WebIoSync ------------------------------
(* The sync engine (button.py and the audit half of coordinator.py) for one    *)
(* Web-IO class, the markers': HA's sources, Comexio's Web-IO commands, the     *)
(* managed function plan that wires the two, and a plan of the user's own.      *)
(*                                                                             *)
(* A poll audits what Comexio and the last bulk load of the plans showed; a     *)
(* sync works that audit off request by request while users go on in Studio.    *)
(* A command's id is also its webIoId; element ids are the plan's own.          *)
EXTENDS Naturals, Sequences, FiniteSets, SequencesExt, FiniteSetsExt

CONSTANTS
    Sources,       \* marker ids
    Titles,        \* marker titles
    FirstTitle,    \* the title a marker begins with
    Kinds,         \* {"digital", "analog"}
    Gone,          \* "deleted", "no such thing", "not read yet"
    Actions,       \* the sync actions pressed: "full_sync", "delete_orphans", ...
    WriteTime, DeleteTime, RecreateTime,   \* SYNC_DURATION_*
    Setups,        \* the states behaviours begin in: "new", "wired"
    Edits,         \* the kinds of change users make in Studio and in the options
    MaxEdits, MaxSyncs, MaxFaults     \* bounds

Source == [title : Titles, kind : Kinds]
Command == [of : Sources, title : Titles, kind : Kinds]
Element == [type : {"src", "web"}, ref : Nat]
Plan == [elem : Seq(Element \cup {Gone}), wire : SUBSET (Nat \X Nat), logic : SUBSET Nat]

ASSUME SyncAssumption ==
    /\ Actions \subseteq {"full_sync", "delete_orphans", "create_missing", "update_types",
                          "update_renames", "function_plan_add_missing", "cleanup_entities"}
    /\ FirstTitle \in Titles /\ Kinds \subseteq {"digital", "analog"} /\ "digital" \in Kinds
    /\ Setups \subseteq {"new", "wired"}
    /\ {WriteTime, DeleteTime, RecreateTime, MaxEdits, MaxSyncs, MaxFaults} \subseteq Nat
    /\ Sources \subseteq Nat /\ IsFiniteSet(Sources) /\ Gone \notin Source \cup Command \cup Element \cup Plan

VARIABLES
    \* Comexio
    source,      \* marker -> [title, kind], or Gone
    command,     \* sequence by command id of [of, title, kind], Gone once deleted
    device,      \* the class's device exists
    class,       \* the Web-IO class exists
    plan,        \* the managed plan [elem, wire, logic], or Gone
    runs,        \* whether the managed plan runs
    own,         \* ids of the commands in a plan of the user's own, or Gone
    \* Home Assistant
    ignored,     \* markers on the ignore list
    data,        \* what the last poll read: [source, command]
    audit,       \* last_audit_results
    snap,        \* the managed plan in function_plan_plans, Gone while not loaded
    loading,     \* a backup cycle is about to bulk-load the plans
    listed,      \* api.fub_data: [runs |-> the Active flag, own |-> the user's plan is listed]
    \* the sync
    pc,          \* the request it sends next, "idle" when none runs
    ctx,         \* the press and its _SyncContext, see NoContext
    cancel,      \* cancel_sync
    \* history
    edits, syncs, faults,   \* used up so far
    quiet,       \* nothing changed since the data the audit compares were read
    before,      \* how the plan ran at the press; Gone if HA knew otherwise or a user switched it
    excused      \* ids a plan may hold of a deleted command: by a user's doing, or placed after the check

webio == <<command, device, class>>
managed == <<plan, runs>>
comexio == <<source, webio, managed, own>>
ha == <<ignored, data, audit, snap, loading>>
users == <<source, own, ignored, cancel, edits, syncs, quiet, before, excused>>
vars == <<comexio, ha, listed, pc, ctx, cancel, edits, syncs, faults, quiet, before, excused>>

-----------------------------------------------------------------------------
(* Plans.                                                                      *)

EmptyPlan == [elem |-> <<>>, wire |-> {}, logic |-> {}]
Elements(p) == IF p = Gone THEN {} ELSE {e \in 1..Len(p.elem) : p.elem[e] # Gone}
OfType(p, type) == {e \in Elements(p) : p.elem[e].type = type}
Find(p, type, ref) == {e \in OfType(p, type) : p.elem[e].ref = ref}
Held(p) == {p.elem[e].ref : e \in OfType(p, "web")}
OwnIds == IF own = Gone THEN {} ELSE own

Feeds(p, e) == {w[2] : w \in {v \in p.wire : v[1] = e}}
FedBy(p, e) == {w[1] : w \in {v \in p.wire : v[2] = e}}
Connected(p, e) == e \in p.logic \/ \E w \in p.wire : e \in {w[1], w[2]}

Without(p, gone) ==
    [elem |-> [e \in 1..Len(p.elem) |-> IF e \in gone THEN Gone ELSE p.elem[e]],
     wire |-> {w \in p.wire : w[1] \notin gone /\ w[2] \notin gone},
     logic |-> p.logic \ gone]

Placed(p, type, ref) == [p EXCEPT !.elem = Append(@, [type |-> type, ref |-> ref])]
Newest(p) == Len(p.elem)

-----------------------------------------------------------------------------
(* Commands, and the audit of them.                                            *)

\* The command a task writes.
Saved(item) == [of |-> item.of, title |-> item.to.title, kind |-> item.to.kind]
Present(cmds) == {c \in 1..Len(cmds) : cmds[c] # Gone}
Wanted(read, ign) == {x \in Sources : read.source[x] # Gone /\ x \notin ign}
Serving(cmds, x) == {c \in Present(cmds) : cmds[c].of = x}
Named(read, x) == {c \in Serving(read.command, x) : read.command[c].title = read.source[x].title}

\* A perfect name match first; otherwise the first command stands for the source.
BestMatch(read, x) ==
    IF Named(read, x) # {} THEN Min(Named(read, x)) ELSE Min(Serving(read.command, x))

WiredPair(p, x, c) == \E e \in Find(p, "src", x), f \in Find(p, "web", c) : <<e, f>> \in p.wire

EmptyAudit == [missing |-> {}, rename |-> {}, type |-> {}, orphan |-> {}, gap |-> {},
               dangling |-> {}, cleanup |-> {}]

Dangling(p) ==
    {x \in Sources : Find(p, "src", x) # {} /\ \A e \in Find(p, "src", x) : ~Connected(p, e)}

\* Ignored markers there are that the managed plan still wires.
IgnoredLinked(read, ign, p) == {x \in ign : read.source[x] # Gone /\ Find(p, "src", x) # {}}

Compare(read, ign, p) ==
    LET wanted == Wanted(read, ign)
        best(x) == BestMatch(read, x)
        served == {x \in wanted : Serving(read.command, x) # {}}
        item(x) == [id |-> best(x), of |-> x, to |-> read.source[x]]
        misnamed == {x \in served : read.command[best(x)].title # read.source[x].title}
    IN [missing |-> {[of |-> x, to |-> read.source[x]] : x \in wanted \ served},
        rename |-> {item(x) : x \in misnamed},
        type |-> {item(x) : x \in {y \in served \ misnamed : read.command[best(y)].kind # read.source[y].kind}},
        orphan |-> {c \in Present(read.command) :
                       LET x == read.command[c].of IN x \notin wanted \/ c # best(x)},
        gap |-> IF p = Gone THEN {} ELSE {x \in served \ misnamed : ~WiredPair(p, x, best(x))},
        dangling |-> IF p = Gone THEN {} ELSE Dangling(p),
        cleanup |-> IF p = Gone THEN {} ELSE IgnoredLinked(read, ign, p)]

Read == [source |-> source, command |-> command]

-----------------------------------------------------------------------------
(* What happens outside a sync.                                                *)

NoTasks == [rename |-> {}, delete |-> {}, create |-> {}, type |-> {}]
NoContext ==
    [action |-> "full_sync",   \* what was pressed
     dev |-> FALSE,            \* whether the lookup at the start found the device
     task |-> NoTasks,         \* tasks still to run
     dangling |-> {},          \* markers whose left-over elements are to go
     toWire |-> {},            \* markers to wire
     kept |-> {},              \* ids of orphans that stay
     ownListed |-> FALSE,      \* the list of plans the check read names the user's
     cleaned |-> {},           \* markers a cleanup works on
     unwired |-> {},           \* ids a cleanup took out of the plan
     cut |-> {},               \* elements the plan edit under way deletes
     after |-> "done",         \* where the sync goes on after that edit, or after a sort
     resort |-> "no",          \* how the plan ran before it was touched: "ran", "stood"
     ran |-> FALSE,            \* how it ran before the edit under way stopped it
     fresh |-> FALSE,          \* the wiring pass created the plan
     added |-> FALSE,          \* it wired a pair
     left |-> {},              \* markers it has still to wire
     read |-> Gone,            \* the config it read
     plan |-> EmptyPlan,       \* the plan it read
     failed |-> FALSE]         \* failed_writes names something, or the sync was aborted

\* The markers by their ids.
Orders == {o \in [1..Cardinality(Sources) -> Sources] : \A i, j \in DOMAIN o : i < j => o[i] < o[j]}
InitialSource == [title |-> FirstTitle, kind |-> "digital"]
WiredPlan(order) ==
    [elem |-> [e \in 1..2 * Cardinality(Sources) |->
                 IF e % 2 = 1 THEN [type |-> "src", ref |-> order[(e + 1) \div 2]]
                              ELSE [type |-> "web", ref |-> e \div 2]],
     wire |-> {<<2 * i - 1, 2 * i>> : i \in DOMAIN order},
     logic |-> {}]

\* A new Comexio, or one an earlier sync has wired.
Begins(wired, order) ==
    /\ source = [x \in Sources |-> InitialSource]
    /\ command = IF wired THEN [c \in DOMAIN order |-> Saved([of |-> order[c], to |-> InitialSource])] ELSE <<>>
    /\ device = wired /\ class = wired /\ runs = wired
    /\ plan = IF wired THEN WiredPlan(order) ELSE Gone
    /\ own = Gone /\ ignored = {}
    /\ data = [source |-> source, command |-> command]
    /\ audit = EmptyAudit
    /\ snap = IF wired THEN WiredPlan(order) ELSE EmptyPlan
    /\ loading = FALSE
    /\ listed = [runs |-> runs, own |-> FALSE]
    /\ pc = "idle" /\ ctx = NoContext /\ cancel = FALSE
    /\ edits = 0 /\ syncs = 0 /\ faults = 0
    /\ quiet = TRUE /\ before = Gone /\ excused = {}
Init == \E setup \in Setups, order \in Orders : Begins(setup = "wired", order)

\* A full poll: it reads Comexio and audits it against the plans of the last bulk load.
Audits(plans) ==
    LET known == {x \in ignored : source[x] # Gone} IN
    /\ data' = Read
    /\ ignored' = known
    /\ listed' = [runs |-> runs, own |-> own # Gone]
    /\ snap' = plans
    /\ IF ~device /\ Wanted(Read, known) # {}
         THEN audit' = EmptyAudit /\ loading' = FALSE
         ELSE audit' = Compare(Read, known, plans) /\ loading' = TRUE
    /\ quiet' = (plans # Gone /\ plans = IF plan = Gone THEN EmptyPlan ELSE plan)

Poll ==
    /\ pc = "idle"
    /\ Audits(snap)
    /\ UNCHANGED <<comexio, pc, ctx, cancel, edits, syncs, faults, before, excused>>

\* The backup cycle's bulk load after a poll; it may still be under way when a sync starts.
LoadsPlans ==
    /\ loading
    /\ loading' = FALSE
    /\ snap' = IF plan = Gone THEN EmptyPlan ELSE plan
    /\ UNCHANGED <<comexio, ignored, data, audit, listed, pc, ctx, cancel, edits, syncs, faults, quiet, before, excused>>

\* A change in Comexio Studio.
Edit(kind) ==
    /\ kind \in Edits /\ edits < MaxEdits
    /\ edits' = edits + 1 /\ quiet' = FALSE
    /\ UNCHANGED <<device, class, data, audit, snap, loading, listed, pc, ctx, cancel, syncs, faults>>

EditsMarker ==
    /\ Edit("marker")
    /\ \E x \in Sources, now \in [title : Titles, kind : Kinds] \cup {Gone} :
          source[x] # now /\ source' = [source EXCEPT ![x] = now]
    /\ UNCHANGED <<command, plan, runs, own, ignored, before, excused>>

CopiesCommand ==
    /\ Edit("copy") /\ device
    /\ \E c \in Present(command), title \in Titles :
          command' = Append(command, [command[c] EXCEPT !.title = title])
    /\ UNCHANGED <<source, plan, runs, own, ignored, before, excused>>

DeletesCommand ==
    /\ Edit("delete")
    /\ \E c \in Present(command) : command' = [command EXCEPT ![c] = Gone] /\ excused' = excused \cup {c}
    /\ UNCHANGED <<source, plan, runs, own, ignored, before>>

\* The check reads the list of plans, then the plans: what is placed behind it goes unseen.
CheckIsPast ==
    \/ pc \in {"tasks", "delete"}
    \/ pc \in {"bulk", "deletable"} /\ ~ctx.ownListed

UsesCommand ==
    /\ Edit("use")
    /\ \E c \in Present(command) :
          /\ c \notin OwnIds
          /\ own' = OwnIds \cup {c}
          /\ excused' = IF CheckIsPast THEN excused \cup {c} ELSE excused
    /\ UNCHANGED <<source, command, plan, runs, ignored, before>>

EditsPlan ==
    /\ Edit("plan") /\ plan # Gone
    /\ \/ \E e \in Elements(plan) \ plan.logic : plan' = [plan EXCEPT !.logic = @ \cup {e}]
       \/ \E e \in Elements(plan) : plan' = Without(plan, {e})
       \/ \E e \in OfType(plan, "src"), f \in OfType(plan, "web") :
             <<e, f>> \notin plan.wire /\ plan' = [plan EXCEPT !.wire = @ \cup {<<e, f>>}]
       \/ \E w \in plan.wire : plan' = [plan EXCEPT !.wire = @ \ {w}]
    /\ UNCHANGED <<source, command, runs, own, ignored, before, excused>>

SwitchesPlan ==
    /\ Edit("switch") /\ plan # Gone
    /\ runs' = ~runs
    /\ before' = Gone
    /\ UNCHANGED <<source, command, plan, own, ignored, excused>>

\* A change of the ignore list reloads the integration; during a sync its last step does.
Ignores ==
    /\ "ignore" \in Edits /\ edits < MaxEdits
    /\ edits' = edits + 1 /\ quiet' = FALSE
    /\ \E x \in Sources : ignored' = IF x \in ignored THEN ignored \ {x} ELSE ignored \cup {x}
    /\ IF pc = "idle" THEN audit' = EmptyAudit /\ snap' = Gone /\ loading' = FALSE
                      ELSE UNCHANGED <<audit, snap, loading>>
    /\ UNCHANGED <<comexio, data, listed, pc, ctx, cancel, syncs, faults, before, excused>>

-----------------------------------------------------------------------------
(* The start of a sync, and its choice for the class.                          *)

Press(a) ==
    /\ pc = "idle" /\ syncs < MaxSyncs
    /\ syncs' = syncs + 1
    /\ pc' = "device"
    /\ ctx' = [NoContext EXCEPT !.action = a]
    /\ cancel' = FALSE
    /\ before' = IF plan # Gone /\ runs = listed.runs THEN runs ELSE Gone
    /\ UNCHANGED <<comexio, ha, listed, edits, faults, quiet, excused>>

Cancel ==
    /\ "cancel" \in Edits /\ edits < MaxEdits /\ pc \notin {"idle", "done"} /\ ~cancel
    /\ cancel' = TRUE /\ edits' = edits + 1
    /\ UNCHANGED <<comexio, ha, listed, pc, ctx, syncs, faults, quiet, before, excused>>

\* A request is answered, or it fails: refused, timed out, carried out with its answer lost.
Answered == UNCHANGED faults
Fails == faults < MaxFaults /\ faults' = faults + 1
Reported == [ctx EXCEPT !.failed = TRUE]

\* A step of the sync at `at`; the step itself says what becomes of webio, managed and listed.
Step(at) ==
    /\ pc = at
    /\ UNCHANGED <<users, data, audit, snap, loading>>
Quietly == UNCHANGED <<webio, managed, listed>>
Aborts == Fails /\ pc' = "done" /\ ctx' = Reported

TasksOf(a, found) ==
    [rename |-> IF a \in {"full_sync", "update_renames"} THEN found.rename ELSE {},
     delete |-> IF a \in {"full_sync", "delete_orphans"} THEN found.orphan ELSE {},
     create |-> IF a \in {"full_sync", "create_missing"} THEN found.missing ELSE {},
     type |-> IF a \in {"full_sync", "update_types"} THEN found.type ELSE {}]

\* The device lookup; the sync then works the stored audit off.
LooksUpDevice ==
    /\ Step("device") /\ Quietly
    /\ \/ Aborts
       \/ LET a == ctx.action
              cleaned == IF a = "cleanup_entities" THEN audit.cleanup \cap ignored ELSE {}
          IN /\ Answered
             /\ ctx' = [ctx EXCEPT !.dev = device,
                                   !.task = TasksOf(a, audit),
                                   !.dangling = IF a \in {"full_sync", "delete_orphans"} THEN audit.dangling ELSE {},
                                   !.toWire = IF a \in {"full_sync", "function_plan_add_missing"} THEN audit.gap ELSE {},
                                   !.cleaned = cleaned]
             /\ pc' = CASE a = "cleanup_entities" -> IF cleaned = {} THEN "done" ELSE "find"
                        [] a = "function_plan_add_missing" -> "wire"
                        [] OTHER -> "class"

Writes(tasks) == Cardinality(tasks.rename) + Cardinality(tasks.create) + Cardinality(tasks.type)
Eta(tasks) ==
    LET n == Writes(tasks) + Cardinality(tasks.delete)
    IN Writes(tasks) * WriteTime + Cardinality(tasks.delete) * DeleteTime
       + IF n > 1 THEN (3 * (n - 1)) \div 2 ELSE 0

TemplateEmpty == Wanted(data, ignored) = {}
FastTrack == ~TemplateEmpty /\ Eta(ctx.task) > RecreateTime

DecidesAction ==
    /\ Step("class") /\ Quietly /\ Answered
    /\ pc' = CASE cancel -> "wire"
               [] ~cancel /\ ~ctx.dev -> IF TemplateEmpty THEN "wire" ELSE "class?"
               [] ~cancel /\ ctx.dev -> IF FastTrack THEN "delete device" ELSE "unwire"
    /\ UNCHANGED ctx

\* Fast-Track: Comexio refuses to delete a device while a plan uses one of its commands.
DeletesDevice ==
    LET used == (Held(plan) \cup OwnIds) \cap Present(command) # {}
        gone == /\ device' = FALSE /\ command' = [c \in DOMAIN command |-> Gone]
                /\ UNCHANGED <<class, managed, listed>>
    IN /\ Step("delete device")
       /\ \/ used /\ Quietly /\ Answered /\ pc' = "unwire"
          \/ ~used /\ gone /\ Answered /\ pc' = "device?"
          \/ ~used /\ gone /\ Fails /\ pc' = "unwire"
          \/ Quietly /\ Fails /\ pc' = "unwire"
       /\ UNCHANGED ctx

ConfirmsDeviceGone ==
    /\ Step("device?") /\ Quietly
    /\ \/ Answered /\ pc' = IF device THEN "unwire" ELSE "class?"
       \/ Fails /\ pc' = "unwire"
    /\ UNCHANGED ctx

-----------------------------------------------------------------------------
(* Recreating the class: any failure aborts the sync.                          *)

Template == {[of |-> x, to |-> data.source[x]] : x \in Wanted(data, ignored)}

LooksUpClass ==
    /\ Step("class?") /\ Quietly
    /\ \/ Aborts
       \/ /\ Answered
          /\ ctx' = [ctx EXCEPT !.task = [NoTasks EXCEPT !.create = Template]]
          /\ pc' = IF class THEN "delete class" ELSE "upload"

\* The delete and the lookup that confirms it.
DeletesClass ==
    /\ Step("delete class")
    /\ class' \in {class, FALSE}
    /\ \/ Aborts
       \/ Answered /\ ~class' /\ pc' = "upload" /\ UNCHANGED ctx
    /\ UNCHANGED <<command, device, managed, listed>>

Uploads ==
    /\ Step("upload")
    /\ class' \in {class, TRUE}
    /\ \/ Aborts
       \/ Answered /\ class' /\ pc' = "create device" /\ UNCHANGED ctx
    /\ UNCHANGED <<command, device, managed, listed>>

Created(items) == [i \in 1..Cardinality(items) |-> Saved(SetToSeq(items)[i])]

\* The new device carries the class's commands; everything in it has still to be wired.
CreatesDevice ==
    LET items == ctx.task.create
        created == device' = TRUE /\ command' = command \o Created(items)
    IN /\ Step("create device")
       /\ \/ Aborts /\ (created \/ UNCHANGED <<device, command>>)
          \/ /\ Answered /\ created /\ pc' = "wire"
             /\ ctx' = [ctx EXCEPT !.task = NoTasks, !.toWire = @ \cup Wanted(data, ignored)]
       /\ UNCHANGED <<class, managed, listed>>

-----------------------------------------------------------------------------
(* Removing elements from the managed plan. Which ones is chosen from a load of *)
(* the plan: the snapshot of the last bulk load if there is one.               *)

\* The wires of a source element: the web elements it alone feeds, and whether it has others.
OwnWebs(p, e) == {f \in Feeds(p, e) : /\ f \notin p.logic /\ p.elem[f].type = "web"
                                      /\ FedBy(p, f) = {e} /\ Feeds(p, f) = {}}
WiredOtherwise(p, e) == e \in p.logic \/ FedBy(p, e) # {} \/ Feeds(p, e) # OwnWebs(p, e)

\* Mutated: the source goes with its web element.
SharedNever(p, e, c) == FALSE
Shared(p, e, c) == WiredOtherwise(p, e) \/ \E f \in OwnWebs(p, e) : p.elem[f].ref # c

\* A web element that takes part in plan logic stays, and so does a source that feeds more than it.
Unwiring(p, c) ==
    UNION {IF f \in p.logic \/ Feeds(p, f) # {} \/ Cardinality(FedBy(p, f)) > 1 THEN {}
             ELSE {f} \cup {e \in FedBy(p, f) : ~Shared(p, e, c)} : f \in Find(p, "web", c)}
Unwirings(p, cmds) == UNION {Unwiring(p, c) : c \in cmds}

LeftOvers(p, refs) == {e \in OfType(p, "src") : p.elem[e].ref \in refs /\ ~Connected(p, e)}

SourcesOf(p, refs) == {e \in OfType(p, "src") : p.elem[e].ref \in refs}
CleanedUp(p, refs) ==
    LET srcs == SourcesOf(p, refs)
    IN (UNION {OwnWebs(p, e) : e \in srcs}) \cup {e \in srcs : ~WiredOtherwise(p, e)}

\* The plan the removals choose from.
CheckData == IF snap # Gone THEN snap ELSE plan

\* Deletes these elements, then goes on at `after`.
Cuts(elems, after) ==
    \/ /\ Answered
       /\ ctx' = [ctx EXCEPT !.cut = elems, !.after = after]
       /\ pc' = IF elems = {} THEN after ELSE "stop"
    \/ /\ snap = Gone /\ Fails
       /\ ctx' = [Reported EXCEPT !.after = after] /\ pc' = after

Unwires ==
    LET D == ctx.task.delete IN
    /\ Step("unwire") /\ Quietly
    /\ IF D = {} \/ cancel THEN Answered /\ pc' = "dangling" /\ UNCHANGED ctx
         ELSE Cuts(Unwirings(CheckData, D), "dangling")

CleansLeftOvers ==
    /\ Step("dangling") /\ Quietly
    /\ IF ctx.dangling = {} \/ cancel THEN Answered /\ pc' = "sort" /\ UNCHANGED ctx
         ELSE Cuts(LeftOvers(CheckData, ctx.dangling), "sort")

NothingCut == [Reported EXCEPT !.unwired = {}]

\* A plan found stopped is worked on all the same, and stays stopped.
StopsPlan ==
    /\ Step("stop")
    /\ \/ Answered /\ runs' = FALSE /\ ctx' = [ctx EXCEPT !.ran = runs] /\ pc' = "erase"
       \/ Fails /\ runs' \in {runs, FALSE} /\ ctx' = NothingCut /\ pc' = ctx.after
    /\ UNCHANGED <<webio, plan, listed>>

Cleaning == ctx.action = "cleanup_entities"

\* Mutated: the second removal's answer counts.
TouchedLast ==
    IF Cleaning THEN ctx ELSE [ctx EXCEPT !.resort = IF ctx.ran THEN "ran" ELSE "stood"]

\* A plan both removals touch keeps the first one's answer to whether it ran.
Touched ==
    IF Cleaning THEN ctx
      ELSE [ctx EXCEPT !.resort = IF @ # "no" THEN @ ELSE IF ctx.ran THEN "ran" ELSE "stood"]

ErasesElements ==
    /\ Step("erase")
    /\ \/ Answered /\ plan' = Without(plan, ctx.cut) /\ ctx' = Touched
       \/ Fails /\ plan' \in {plan, Without(plan, ctx.cut)} /\ ctx' = NothingCut
    /\ pc' = IF ctx.ran THEN "restart" ELSE ctx.after
    /\ UNCHANGED <<webio, runs, listed>>

Started == runs' = TRUE /\ listed' = [listed EXCEPT !.runs = TRUE]

RestartsPlan ==
    /\ Step("restart")
    /\ \/ Answered /\ Started /\ UNCHANGED ctx
       \/ /\ Fails /\ runs' \in {runs, TRUE} /\ UNCHANGED listed
          /\ ctx' = IF ctx.resort = "no" THEN Reported ELSE ctx
    /\ pc' = ctx.after
    /\ UNCHANGED <<webio, plan>>

\* The sort of a plan that lost elements or gained pairs: loaded, stopped if it ran, saved, run again.
Ran == IF ctx.added THEN ctx.ran ELSE ctx.resort = "ran"
AfterSort == IF ctx.added THEN "done" ELSE "check"

SortsPlan ==
    LET sorted == Answered /\ UNCHANGED ctx
        stop == IF Ran THEN runs' = FALSE /\ listed' = [listed EXCEPT !.runs = FALSE]
                       ELSE UNCHANGED <<runs, listed>>
        again == IF Ran THEN "rerun" ELSE AfterSort
    IN /\ Step("sort")
       /\ \/ ~ctx.added /\ ctx.resort = "no" /\ sorted /\ UNCHANGED <<runs, listed>> /\ pc' = "check"
          \/ /\ ctx.added \/ ctx.resort # "no"
             /\ \/ Elements(plan) # {} /\ stop /\ sorted /\ pc' = IF Ran THEN "run" ELSE AfterSort
                \/ Elements(plan) = {} /\ UNCHANGED <<runs, listed>> /\ Answered /\ ctx' = Reported /\ pc' = again
                \/ (stop \/ UNCHANGED <<runs, listed>>) /\ Fails /\ ctx' = Reported /\ pc' = again
       /\ UNCHANGED <<webio, plan>>

RunsSorted ==
    /\ Step("run")
    /\ \/ Answered /\ Started /\ pc' = AfterSort
       \/ Fails /\ runs' \in {runs, TRUE} /\ UNCHANGED listed /\ pc' = "rerun"
    /\ UNCHANGED <<webio, plan, ctx>>

\* The last attempt to start the plan again: after this one it is reported.
RunsAgain ==
    /\ Step("rerun")
    /\ \/ Answered /\ Started /\ UNCHANGED ctx
       \/ Fails /\ runs' \in {runs, TRUE} /\ UNCHANGED listed /\ ctx' = Reported
    /\ pc' = IF ctx.added \/ ctx.resort # "no" THEN AfterSort ELSE "done"
    /\ UNCHANGED <<webio, plan>>

-----------------------------------------------------------------------------
(* Which commands may go: those no plan holds an element of.                   *)

\* Mutated: the list of the last poll is used.
ChecksListed(at, wanted, bulk, after) ==
    /\ Step(at) /\ Quietly /\ Answered
    /\ pc' = IF wanted = {} THEN after ELSE bulk
    /\ ctx' = [ctx EXCEPT !.ownListed = listed.own]

\* The list of plans is read first, then the plans on it.
Checks(at, wanted, bulk, after) ==
    /\ Step(at)
    /\ \/ wanted = {} /\ Answered /\ pc' = after /\ UNCHANGED <<ctx, listed>>
       \/ /\ wanted # {} /\ Answered /\ pc' = bulk
          /\ listed' = [runs |-> runs, own |-> own # Gone]
          /\ ctx' = [ctx EXCEPT !.ownListed = own # Gone]
       \/ wanted # {} /\ Fails /\ pc' = after /\ ctx' = [Reported EXCEPT !.kept = wanted] /\ UNCHANGED listed
    /\ UNCHANGED <<webio, managed>>

PlacedIds == Held(plan) \cup (IF ctx.ownListed THEN OwnIds ELSE {})

\* A plan that cannot be read keeps every command.
ReadsPlans(at, wanted, after) ==
    /\ Step(at) /\ Quietly
    /\ \/ Answered /\ ctx' = [ctx EXCEPT !.kept = wanted \cap PlacedIds]
       \/ Fails /\ ctx' = [Reported EXCEPT !.kept = wanted]
    /\ pc' = after

ListsPlans == Checks("check", IF cancel THEN {} ELSE ctx.task.delete, "bulk", "tasks")
ChecksOrphans == ReadsPlans("bulk", ctx.task.delete, "tasks")

-----------------------------------------------------------------------------
(* The delta tasks, one after the other: renames, deletions, new commands, types. *)

\* What a write leaves behind; one to a command or device that is gone is refused.
Writing(effect, possible, done) ==
    \/ possible /\ Answered /\ command' = effect /\ ctx' = done
    \/ ~possible /\ Answered /\ UNCHANGED command /\ ctx' = [done EXCEPT !.failed = TRUE, !.toWire = ctx.toWire]
    \/ /\ Fails /\ command' \in {command} \cup (IF possible THEN {effect} ELSE {})
       /\ ctx' = [done EXCEPT !.failed = TRUE, !.toWire = ctx.toWire]

Saves(field) ==
    \E item \in ctx.task[field] :
        Writing([command EXCEPT ![item.id] = Saved(item)], device /\ command[item.id] # Gone,
                [ctx EXCEPT !.task[field] = @ \ {item}])

Deletes ==
    \E c \in ctx.task.delete :
        LET done == [ctx EXCEPT !.task.delete = @ \ {c}] IN
        IF c \in ctx.kept THEN Answered /\ UNCHANGED command /\ ctx' = [done EXCEPT !.failed = TRUE]
          ELSE Writing([command EXCEPT ![c] = Gone], device /\ command[c] # Gone, done)

\* Mutated: the new command is not handed on to the wiring.
CreatesUnwired ==
    \E item \in ctx.task.create :
        Writing(Append(command, Saved(item)), device, [ctx EXCEPT !.task.create = @ \ {item}])

Creates ==
    \E item \in ctx.task.create :
        Writing(Append(command, Saved(item)), device,
                [ctx EXCEPT !.task.create = @ \ {item}, !.toWire = @ \cup {item.of}])

RunsTask ==
    LET task == ctx.task IN
    /\ Step("tasks")
    /\ \/ (cancel \/ task = NoTasks) /\ pc' = "wire" /\ Answered /\ UNCHANGED <<command, ctx>>
       \/ /\ ~cancel /\ UNCHANGED pc
          /\ \/ task.rename # {} /\ Saves("rename")
             \/ task.rename = {} /\ task.delete # {} /\ Deletes
             \/ task.rename = {} /\ task.delete = {} /\ task.create # {} /\ Creates
             \/ task.rename = {} /\ task.delete = {} /\ task.create = {} /\ Saves("type")
    /\ UNCHANGED <<device, class, managed, listed>>

-----------------------------------------------------------------------------
(* Wiring the new pairs and the gaps into the managed plan.                    *)

\* The plan the pairs go to, made if there is none; how it ran is the list's word.
FindsPlan ==
    LET stops(fresh) == ctx' = [ctx EXCEPT !.fresh = fresh, !.ran = fresh \/ listed.runs,
                                             !.left = ctx.toWire, !.resort = "no"]
    IN /\ Step("wire")
       /\ \/ (cancel \/ ctx.toWire = {}) /\ Answered /\ pc' = "done" /\ UNCHANGED <<plan, ctx>>
          \/ ~cancel /\ ctx.toWire # {} /\ plan # Gone /\ Answered /\ stops(FALSE) /\ pc' = "wire stop" /\ UNCHANGED plan
          \/ ~cancel /\ ctx.toWire # {} /\ plan = Gone /\ Answered /\ stops(TRUE) /\ pc' = "wire stop" /\ plan' = EmptyPlan
          \/ /\ ~cancel /\ ctx.toWire # {} /\ plan = Gone /\ Fails /\ plan' \in {plan, EmptyPlan}
             /\ ctx' = Reported /\ pc' = "done"
       /\ UNCHANGED <<webio, runs, listed>>

\* Whatever the stop is answered, the pairs are written.
StopsToWire ==
    /\ Step("wire stop")
    /\ \/ Answered /\ runs' = FALSE /\ listed' = [listed EXCEPT !.runs = FALSE]
       \/ Fails /\ runs' \in {runs, FALSE} /\ UNCHANGED listed
    /\ pc' = "wire read"
    /\ UNCHANGED <<webio, plan, ctx>>

\* A config that cannot be read ends the sync; the plan is started first if the stop left it stopped.
ReadsConfig ==
    /\ Step("wire read")
    /\ \/ /\ Answered /\ ctx' = [ctx EXCEPT !.read = Read]
          /\ listed' = [runs |-> runs, own |-> own # Gone] /\ pc' = "wire load"
       \/ /\ Fails /\ ctx' = Reported /\ UNCHANGED listed
          /\ pc' = IF ctx.ran /\ ~listed.runs THEN "rerun" ELSE "done"
    /\ UNCHANGED <<webio, managed>>

\* A load that fails reads as a plan without elements.
ReadsPlan ==
    /\ Step("wire load") /\ Quietly
    /\ \/ Answered /\ ctx' = [ctx EXCEPT !.plan = plan]
       \/ Fails /\ ctx' = [ctx EXCEPT !.plan = EmptyPlan]
    /\ pc' = "pairs"

\* A connection is saved with every sink: those the load showed, and the new one.
Joined(p, e, f) ==
    [p EXCEPT !.wire = {w \in @ : w[1] # e} \cup {<<e, g>> : g \in Feeds(ctx.plan, e) \cap Elements(p)} \cup {<<e, f>>}]

\* The config read has the marker, and a command of its name.
Pairable(x) == ctx.read.source[x] # Gone /\ Named(ctx.read, x) # {}

\* A missing Web-IO element is placed without a wire; its source may have others already.
PlacedBare(c) == Placed(plan, "web", c)

\* One pair: elements the load showed are used, missing ones are placed, the wire comes last.
Pairing(x) ==
    LET c == Min(Named(ctx.read, x))
        srcs == Find(ctx.plan, "src", x)
        webs == Find(ctx.plan, "web", c)
        half == IF srcs = {} THEN Placed(plan, "src", x) ELSE IF webs = {} THEN PlacedBare(c) ELSE plan
        all == IF srcs = {} /\ webs = {} THEN Placed(half, "web", c) ELSE half
        e == IF srcs = {} THEN Newest(half) ELSE Max(srcs)
        f == IF webs = {} THEN Newest(all) ELSE Max(webs)
    IN [wired |-> {<<e, f>>, <<f, e>>} \cap ctx.plan.wire # {},
        half |-> half,
        possible |-> {e, f} \subseteq Elements(all),
        whole |-> Joined(all, e, f)]

PlacesPair ==
    LET x == Min(ctx.left)
        pair == Pairing(x)
        done == [ctx EXCEPT !.left = @ \ {x}]
        added == [done EXCEPT !.added = TRUE]
        failed == [done EXCEPT !.failed = TRUE]
    IN /\ Step("pairs") /\ ctx.left # {}
       /\ \/ ~Pairable(x) /\ Answered /\ ctx' = failed /\ UNCHANGED plan
          \/ /\ Pairable(x)
             /\ \/ pair.wired /\ Answered /\ ctx' = done /\ UNCHANGED plan
                \/ ~pair.wired /\ pair.possible /\ Answered /\ ctx' = added /\ plan' = pair.whole
                \/ ~pair.wired /\ ~pair.possible /\ Answered /\ ctx' = failed /\ plan' = pair.half
                \/ /\ ~pair.wired /\ Fails /\ ctx' = failed
                   /\ plan' \in {plan, pair.half} \cup (IF pair.possible THEN {pair.whole} ELSE {})
       /\ UNCHANGED <<webio, runs, listed, pc>>

\* A plan that got pairs is sorted and runs again as it did; a new one is started.
PairsDone ==
    /\ Step("pairs") /\ ctx.left = {} /\ Quietly /\ Answered
    /\ ctx' = [ctx EXCEPT !.added = @ /\ ~ctx.fresh]
    /\ pc' = IF ctx.added /\ ~ctx.fresh THEN "sort"
             ELSE IF ctx.ran THEN "rerun" ELSE "done"

-----------------------------------------------------------------------------
(* The clean-up of ignored markers.                                            *)

FindsIgnored ==
    /\ Step("find") /\ Quietly
    /\ \/ Answered /\ UNCHANGED ctx
          /\ pc' = IF SourcesOf(CheckData, ctx.cleaned) = {} THEN "clean check" ELSE "clean load"
       \/ snap = Gone /\ Fails /\ ctx' = Reported /\ pc' = "clean check"

\* Unlike an unwiring, it chooses from a fresh load.
LoadsForCleanup ==
    /\ Step("clean load") /\ Quietly
    /\ \/ LET cut == CleanedUp(plan, ctx.cleaned)
              webs == cut \cap OfType(plan, "web")
          IN /\ Answered
             /\ ctx' = [ctx EXCEPT !.cut = cut, !.unwired = {plan.elem[e].ref : e \in webs}, !.after = "clean check"]
             /\ pc' = IF cut = {} THEN "clean check" ELSE "stop"
       \/ Fails /\ ctx' = Reported /\ pc' = "clean check"

\* The commands it unwired, and those of these markers no plan ever held.
Cleanable == {c \in Present(data.command) : c \in ctx.unwired \/ data.command[c].of \in ctx.cleaned}

ListsPlansForCleanup == Checks("clean check", Cleanable, "deletable", "done")
ChecksCleanable == ReadsPlans("deletable", Cleanable, "delete")

\* A cancellation does not stop these.
DeletesCleaned ==
    LET left == Cleanable \ ctx.kept IN
    /\ Step("delete")
    /\ \/ left = {} /\ Answered /\ pc' = "done" /\ UNCHANGED <<command, ctx>>
       \/ \E c \in left : /\ UNCHANGED pc
                          /\ Writing([command EXCEPT ![c] = Gone], device /\ command[c] # Gone,
                                     [ctx EXCEPT !.kept = @ \cup {c}])
    /\ UNCHANGED <<device, class, managed, listed>>

-----------------------------------------------------------------------------
(* The end of a sync: the integration reloads, and its first poll audits anew.  *)

Finishes ==
    /\ pc = "done"
    /\ pc' = "idle"
    /\ ctx' = NoContext
    /\ cancel' = FALSE
    /\ Audits(Gone)
    /\ UNCHANGED <<comexio, edits, syncs, faults, before, excused>>

\* The parts of a sync, as the functions that run them one after the other.
Recreates ==
    \/ DeletesDevice \/ ConfirmsDeviceGone \/ LooksUpClass \/ DeletesClass \/ Uploads \/ CreatesDevice
Debris == Unwires \/ CleansLeftOvers \/ StopsPlan \/ ErasesElements \/ RestartsPlan
Delta == Debris \/ SortsPlan \/ RunsSorted \/ RunsAgain \/ ListsPlans \/ ChecksOrphans \/ RunsTask
\* The class is made anew, or brought up to date after its debris is cleared away.
SyncsClass == DecidesAction \/ Recreates \/ Delta
WiresPlan == StopsToWire \/ ReadsConfig \/ ReadsPlan \/ PlacesPair \/ PairsDone
Wires == FindsPlan \/ WiresPlan
CleansIgnored ==
    FindsIgnored \/ LoadsForCleanup \/ ListsPlansForCleanup \/ ChecksCleanable \/ DeletesCleaned
Sync == LooksUpDevice \/ SyncsClass \/ Wires \/ CleansIgnored \/ Finishes

User ==
    \/ EditsMarker \/ CopiesCommand \/ DeletesCommand \/ UsesCommand \/ EditsPlan \/ SwitchesPlan
    \/ Ignores \/ Cancel
    \/ \E a \in Actions : Press(a)

Next == Poll \/ LoadsPlans \/ User \/ Sync
Spec == Init /\ [][Next]_vars
-----------------------------------------------------------------------------
(* Properties.                                                                 *)

\* A sync deletes no command a plan has an element of, in the managed plan or the user's own, so
\* no plan is left with an element of a deleted command: excused are only what a user deleted, and
\* what a user placed behind the plans' check (_orphans_kept, deletable_source_command_ids).
UsedCommandsStay ==
    \A c \in Held(plan) \cup OwnIds : command[c] = Gone => c \in excused

\* A sync that reports no failure and that nobody interfered with has worked its audit off: another
\* audit finds nothing to create, rename, retype or delete, and no gap but for the markers whose
\* command this sync renamed. The left-overs the audit found are gone, unless the class was made
\* anew, which clears none; a source that two deleted commands shared is a new left-over.
MadeAnew == Present(data.command) \cap Present(command) = {}
SettledBy(found, renamed) ==
    /\ found.missing = {} /\ found.rename = {} /\ found.type = {} /\ found.orphan = {}
    /\ found.gap \subseteq renamed
    /\ MadeAnew \/ found.dangling \cap audit.dangling = {}
SyncSettles ==
    [][pc = "done" /\ ctx.action = "full_sync" /\ ~ctx.failed /\ ~cancel /\ quiet
         => SettledBy(Compare(Read, ignored, plan), {item.of : item \in audit.rename})]_vars

\* A sync leaves the managed plan as it found it, running or stopped, or reports a failure.
PlanRunsAsBefore == [][pc = "done" /\ ~ctx.failed /\ before # Gone => runs = before]_vars

Erasing == pc = "erase" /\ pc' # "erase"

\* What a sync removes from the managed plan of a snapshot that is still true takes no element of a
\* user's logic and no wire that feeds one, and never cuts a wanted marker off its command.
KeepsPlanLogic ==
    [][Erasing /\ quiet =>
         /\ plan.logic \subseteq plan'.logic
         /\ \A x \in Wanted(data, ignored) : Serving(data.command, x) # {} =>
               LET c == BestMatch(data, x) IN WiredPair(plan, x, c) => WiredPair(plan', x, c)]_vars

=============================================================================
