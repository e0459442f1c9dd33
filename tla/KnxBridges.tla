------------------------------ MODULE KnxBridges ------------------------------
(* KNX objects ("K"), which Comexio can only be told to write through a bridge   *)
(* marker of their own: the KNX and trigger stages of a sync (button.py, api.py)  *)
(* and the clean-up that takes it all back (coordinator.async_uninstall_cleanup). *)
(*                                                                               *)
(* Per K a sync wires three legs: K -> HA's Web-IO, marker -> K (the bridge), and *)
(* K -> a loopback command that writes K's value back to the marker. A K with a   *)
(* [TRIG] suffix has its bridge marker in the trigger plan too. How a sync makes  *)
(* HA's Web-IO and stops, sorts and starts plans is WebIoSync's; each K here lies *)
(* in a cluster plan of its own, which is named k, as are the records below.      *)
EXTENDS Naturals, Sequences, FiniteSets, SequencesExt, FiniteSetsExt

CONSTANTS
    Ks,          \* ids of the KNX objects, none of them 0
    Trigger,     \* the trigger plan
    Block,       \* MARKER_KNX_BRIDGE_BLOCK_SIZE
    Factory,     \* markers a Comexio is delivered with, all titled
    None,        \* "no such plan", "not in the cache"
    Setups,      \* the states behaviours begin in: "new", "kept", "wired"
    StudioEdits,       \* the kinds of change users make in Studio
    MaxEdits, MaxOps, MaxFaults     \* bounds

ASSUME BridgeAssumption ==
    /\ Ks \subseteq Nat \ {0} /\ Ks # {} /\ IsFiniteSet(Ks) /\ Trigger \notin Ks
    /\ {Block, Factory} \subseteq Nat \ {0}
    /\ Setups \subseteq {"new", "kept", "wired"}
    /\ {MaxEdits, MaxOps, MaxFaults} \subseteq Nat
    /\ None \notin [elem : SUBSET Nat, bridge : SUBSET Nat, sink : SUBSET Nat]
    /\ None \notin [elem : SUBSET Nat, pair : SUBSET Nat]

Plans == Ks \cup {Trigger}

VARIABLES
    \* Comexio
    knx,        \* K -> "plain" or "trig", the suffix of its title
    marker,     \* sequence by id of [title, factory, set]: set is a default or store of the user's
    plan,       \* K -> [elem, bridge, sink], or None: markers placed, those wired to K, Web-IOs K feeds
    trig,       \* the trigger plan [elem, pair], or None: markers placed, those with a whole Flanke loop
    own,        \* markers in a plan of the user's own
    command,    \* sequence by id of <<k, m>>: the loopback commands, "K k's value to marker m"
    listed,     \* ids of the commands Comexio's pages list yet
    device, class,   \* the loopback Web-IO's
    \* Home Assistant
    web,        \* HA's Web-IO of the KNX class exists
    creds,      \* API user and password are configured
    others,     \* the plan map names a plan of another class
    mapped,     \* plans in the plan map
    planCache,      \* function_plan_plans: plan -> what was loaded, or None
    loading,    \* no bulk load since the integration was loaded
    stage,         \* the step it does next, "idle" when neither a sync nor a clean-up runs
    ctx,        \* what that sync or clean-up holds, see NoContext
    cancel,     \* cancel_sync
    \* history
    edits, ops, failures,     \* used up so far
    quiet,      \* no edit since the plans that are cached were loaded
    late,       \* markers a user placed or titled since the plans and titles in use were read
    unsure      \* an upload of the loopback class was not answered, or its device not made

plans == <<plan, trig>>
loopback == <<command, listed, device, class>>
memory == <<mapped, planCache, loading>>
users == <<knx, own, creds, others, cancel, edits, ops, quiet>>
bridgesVars == <<knx, marker, plans, own, loopback, web, creds, others, memory, stage, ctx, cancel,
          edits, ops, failures, quiet, late, unsure>>

-----------------------------------------------------------------------------
(* Markers and their titles.                                                   *)

Blank == <<>>
BridgeTitle(k, kind) == <<k, kind>>
Stripped(title) == <<title[1], "stripped">>
IsBridge(title) == Len(title) = 2 /\ title[2] # "stripped"
Titled(title) == [title |-> title, factory |-> FALSE, set |-> FALSE]

Ids(ms) == 1..Len(ms)
Bridges(ms) == {m \in Ids(ms) : IsBridge(ms[m].title)}
Taken(title, m) == title # Blank /\ \E n \in Ids(marker) \ {m} : marker[n].title = title
Plain(ms) == {m \in Ids(ms) : ms[m].title = <<"trig">>}

InPlan(p) == IF p = None THEN {} ELSE p.elem
Placed == own \cup InPlan(trig) \cup UNION {InPlan(plan[k]) : k \in Ks}
\* Where a plan stands, whichever it is.
At(p) == IF p = Trigger THEN trig ELSE plan[p]
Existing == {p \in Plans : At(p) # None}

\* The block's first id: that of the lowest bridge there is, or above the factory's titled markers.
BlockStart(ms) ==
    LET above == {m \in Ids(ms) : ms[m].factory /\ ms[m].title # Blank} \cup {0} IN
    IF Bridges(ms) # {} THEN (Min(Bridges(ms)) \div Block) * Block
                        ELSE ((Max(above) \div Block) + 1) * Block

\* The end of the blank or bridge markers without a gap from the block's start on.
RunEnd(ms, from) ==
    LET ours == {m \in Ids(ms) : ms[m].title = Blank} \cup Bridges(ms)
        ends == {e \in from..(Len(ms) + 1) : from..(e - 1) \subseteq ours}
    IN Max(ends \cup {from + Block})

\* Markers that may be given out: blank ones of the run, and bridges of no K of this batch.
Reusable(ms, titles) ==
    LET from == BlockStart(ms) IN
    {m \in Ids(ms) : \/ ms[m].title = Blank /\ from <= m /\ m < RunEnd(ms, from)
                     \/ IsBridge(ms[m].title) /\ from <= m /\ ms[m].title \notin titles}

-----------------------------------------------------------------------------
(* What an audit sees.                                                         *)

EmptyPlan == [elem |-> {}, bridge |-> {}, sink |-> {}]
EmptyTrigger == [elem |-> {}, pair |-> {}]

Loaded(c) ==
    /\ ~loading \/ others \/ \E p \in Plans : c[p] # None
    /\ \A p \in mapped \cap Existing : c[p] # None

\* K -> its bridge marker, from the wires of the cached plans.
BridgeMap(c) == {b \in (mapped \cap Ks) \X Ids(marker) : c[b[1]] # None /\ b[2] \in c[b[1]].bridge}
Bridged(c) == {b[1] : b \in BridgeMap(c)}

\* A K whose only Web-IO is HA's lacks the loopback; which Web-IOs they are is not looked at.
LoopbackMissing(c) == {b \in BridgeMap(c) : Cardinality(c[b[1]].sink) = 1}

\* The Ks without a read path, as far as the last poll could tell.
ReadWired == {k \in Ks : planCache[k] # None /\ 0 \in planCache[k].sink}
ReadMissing == IF ~web THEN Ks ELSE IF loading THEN {} ELSE Ks \ ReadWired

-----------------------------------------------------------------------------
(* What users do, and the backup cycle's bulk load.                            *)

NoContext ==
    [op |-> "sync",        \* or the clean-up's scope: "knx", "full"
     kind |-> <<>>,        \* the Ks' suffixes the audit read
     read |-> {},          \* Ks to wire to HA's Web-IO
     gaps |-> FALSE,       \* the poll could tell them
     miss |-> {},          \* Ks without a bridge
     loop |-> {},          \* <<k, m>>: bridges without a loopback
     applies |-> FALSE,    \* there is a plan to audit
     snap |-> FALSE,       \* the audit's config and plans are as good as new ones
     left |-> {},          \* clusters, or plans to delete, to go
     k |-> 0,              \* the cluster at hand, 0 while all are prepared
     batch |-> {},         \* Ks that still want a marker
     ms |-> <<>>,          \* the markers the config showed
     free |-> {},          \* markers to give out
     alloc |-> <<>>,       \* K -> the marker prepared for it, or 0
     m |-> 0,              \* the marker of the cluster's K, 0 for none
     pre |-> {},           \* commands that went up with the class
     fresh |-> FALSE,      \* this leg made the class
     pairs |-> {},         \* markers to pair in the trigger plan
     drops |-> <<>>,       \* sets of markers to take out of it
     used |-> {},          \* markers in plans a clean-up keeps
     waits |-> FALSE,      \* the trigger plan still holds KNX pairs
     failed |-> FALSE]     \* something failed or was skipped, and the summary says so

Suffix == [k \in Ks |-> IF k = Max(Ks) THEN "trig" ELSE "plain"]
\* The Ks in some order, in which an earlier sync saw to them.
Order == SetToSeq(Ks)
Rank(k) == CHOOSE i \in 1..Len(Order) : Order[i] = k
FactoryMarkers == [m \in 1..Factory |-> [title |-> IF m = 1 THEN <<"trig">> ELSE <<"own">>, factory |-> TRUE, set |-> TRUE]]
FirstBridge == BlockStart(FactoryMarkers)
Given == [m \in 1..(FirstBridge - 1 - Factory) |-> Titled(Blank)]
BridgeOf(k) == FirstBridge - 1 + Rank(k)

\* A Comexio as delivered, one whose clean-up left a marker the user's plan holds, or one that was
\* synced, but perhaps for a loopback device that could not be made.
MarkersOfSetup(setup) ==
    CASE setup = "new" -> FactoryMarkers
      [] setup = "kept" -> Append(FactoryMarkers, Titled(Stripped(BridgeTitle(Min(Ks), "plain"))))
      [] setup = "wired" -> FactoryMarkers \o Given \o [i \in 1..Len(Order) |-> Titled(BridgeTitle(Order[i], Suffix[Order[i]]))]

BridgesInit ==
    /\ \E setup \in Setups :
          LET wired == setup = "wired" IN
          /\ creds \in {TRUE, setup = "kept"} /\ others \in {setup = "kept", setup # "wired"}
          /\ marker = MarkersOfSetup(setup)
          /\ own = IF setup = "kept" THEN {Factory + 1} ELSE {}
          /\ class = (wired /\ creds) /\ device \in {FALSE, class} /\ unsure = (class # device)
          /\ knx \in {Suffix} \cup (IF device THEN {[k \in Ks |-> "plain"]} ELSE {})
          /\ plan = [k \in Ks |-> IF ~wired THEN None
                       ELSE [elem |-> {BridgeOf(k)}, bridge |-> {BridgeOf(k)},
                             sink |-> {0} \cup (IF device THEN {Rank(k)} ELSE {})]]
          /\ trig = IF ~wired THEN None
                    ELSE LET paired == {1} \cup {BridgeOf(k) : k \in {l \in Ks : Suffix[l] = "trig"}}
                         IN [elem |-> paired, pair |-> paired]
          /\ command = IF class THEN [i \in 1..Len(Order) |-> <<Order[i], BridgeOf(Order[i])>>] ELSE <<>>
          /\ web = wired /\ mapped = IF wired THEN Plans ELSE {}
    /\ listed = Ids(command)
    /\ planCache = [p \in Plans |-> None] /\ loading = TRUE
    /\ stage = "idle" /\ ctx = NoContext /\ cancel = FALSE
    /\ edits = 0 /\ ops = 0 /\ failures = 0
    /\ quiet = TRUE /\ late = {}

\* A bound: nothing is done once the last sync or clean-up is over.
Going == stage # "idle" \/ ops < MaxOps

\* Left out during a clean-up, which has no use for the cache and ends with it empty.
BulkLoads ==
    /\ loading /\ Going /\ ctx.op = "sync"
    /\ loading' = FALSE
    /\ planCache' = [p \in Plans |-> At(p)]
    /\ UNCHANGED <<knx, marker, plans, own, loopback, web, creds, others, mapped, stage, ctx, cancel,
                   edits, ops, failures, quiet, late, unsure>>

Edit(kind) ==
    /\ kind \in StudioEdits /\ edits < MaxEdits /\ Going
    /\ edits' = edits + 1 /\ quiet' = FALSE
    /\ UNCHANGED <<loopback, web, creds, others, memory, stage, ctx, cancel, ops, failures, unsure>>

RetitlesKnx ==
    /\ Edit("retitle")
    /\ \E k \in Ks : knx' = [knx EXCEPT ![k] = IF @ = "plain" THEN "trig" ELSE "plain"]
    /\ UNCHANGED <<marker, plans, own, late>>

\* A marker, named or not yet, is put to a use of the user's own.
UsesMarker ==
    /\ Edit("use")
    /\ \E m \in Ids(marker) \ own :
          /\ own' = own \cup {m}
          /\ marker' = [marker EXCEPT ![m].set = TRUE]
          /\ late' = late \cup {m}
    /\ UNCHANGED <<knx, plans>>

NamesMarker ==
    /\ Edit("name")
    /\ \E m \in Ids(marker) :
          /\ marker[m].title = Blank
          /\ marker' = [marker EXCEPT ![m].title = <<"named">>]
          /\ late' = late \cup {m}
    /\ UNCHANGED <<knx, plans, own>>

MakesMarker ==
    /\ Edit("make")
    /\ marker' = Append(marker, Titled(<<"made">>))
    /\ UNCHANGED <<knx, plans, own, late>>

\* A bridge loses its wire, or its marker is taken out of the plan.
Unbridges ==
    /\ Edit("unwire")
    /\ \E k \in Ks : /\ plan[k] # None
                     /\ \E m \in plan[k].bridge, gone \in SUBSET {"element"} :
                           plan' = [plan EXCEPT ![k].bridge = @ \ {m},
                                                ![k].elem = IF gone = {} THEN @ ELSE @ \ {m}]
    /\ UNCHANGED <<knx, marker, trig, own, late>>

Unpairs ==
    /\ Edit("unwire") /\ trig # None
    /\ \E m \in trig.pair : trig' = [trig EXCEPT !.pair = @ \ {m}]
    /\ UNCHANGED <<knx, marker, plan, own, late>>

DeletesPlan ==
    /\ Edit("delete")
    /\ \/ \E k \in Ks : plan[k] # None /\ plan' = [plan EXCEPT ![k] = None] /\ UNCHANGED trig
       \/ trig # None /\ trig' = None /\ UNCHANGED plan
    /\ UNCHANGED <<knx, marker, own, late>>

Cancels ==
    /\ "cancel" \in StudioEdits /\ edits < MaxEdits /\ stage # "idle" /\ ctx.op = "sync" /\ ~cancel
    /\ cancel' = TRUE /\ edits' = edits + 1
    /\ UNCHANGED <<knx, marker, plans, own, loopback, web, creds, others, memory, stage, ctx,
                   ops, failures, quiet, late, unsure>>

-----------------------------------------------------------------------------
(* A sync's audit, and the cluster plans.                                      *)

\* A request is answered, or it fails: refused, timed out, carried out with its answer lost.
Answered == UNCHANGED failures
Fails == failures < MaxFaults /\ failures' = failures + 1
Reported == [ctx EXCEPT !.failed = TRUE]

\* A step at `at`: each says what becomes of marker, plans, loopback, memory, web, late and unsure.
Step(at) == stage = at /\ UNCHANGED users

\* The press; the sync's own class stage sees to HA's Web-IO before these stages begin.
Press ==
    /\ stage = "idle" /\ ops < MaxOps
    /\ ops' = ops + 1 /\ stage' = "audit" /\ cancel' = FALSE /\ web' = TRUE
    /\ ctx' = [NoContext EXCEPT !.read = ReadMissing, !.gaps = ~web \/ ~loading,
                                !.kind = knx, !.alloc = [k \in Ks |-> 0]]
    /\ UNCHANGED <<knx, marker, plans, own, loopback, creds, others, memory, edits, failures, quiet, late, unsure>>

\* What a refetch leaves in the cache when the plans `failed` could not be loaded.
Refetched(wanted, failed) == [p \in Plans |-> IF p \in wanted \ failed THEN At(p) ELSE planCache[p]]

\* Works on what was found; with nothing to do the sync goes on to the trigger stage.
Finds(found) ==
    LET todo == found.read \cup found.miss \cup {b[1] : b \in found.loop} IN
    /\ ctx' = [found EXCEPT !.left = todo, !.snap = @ /\ todo = {}]
    /\ stage' = IF todo = {} THEN "triggers" ELSE "clusters"

\* async_fresh_knx_audits: with credentials every plan is loaded anew, else only what is missing.
Audits ==
    LET wanted == IF creds THEN mapped \cap Existing ELSE {p \in mapped \cap Existing : planCache[p] = None}
        known == [ctx EXCEPT !.applies = TRUE, !.kind = knx]
    IN /\ Step("audit") /\ UNCHANGED <<marker, plans, loopback, web, mapped, loading, late, unsure>>
       /\ \/ cancel /\ Answered /\ stage' = "done" /\ UNCHANGED <<planCache, ctx>>
          \/ ~cancel /\ mapped = {} /\ ~others /\ Answered /\ Finds(ctx) /\ UNCHANGED planCache
          \/ /\ ~cancel /\ (mapped # {} \/ others)
             /\ \/ Fails /\ Finds([ctx EXCEPT !.failed = TRUE, !.applies = TRUE]) /\ UNCHANGED planCache
                \/ \E failed \in SUBSET wanted :
                      /\ IF failed = {} THEN Answered ELSE Cardinality(failed) = 1 /\ Fails
                      /\ planCache' = Refetched(wanted, failed)
                      /\ LET all == Loaded(planCache')
                             fresh == creds /\ failed = {}
                         IN Finds([known EXCEPT
                                    !.miss = IF all THEN Ks \ Bridged(planCache') ELSE {},
                                    !.loop = IF fresh /\ all THEN LoopbackMissing(planCache') ELSE {},
                                    !.snap = fresh /\ all,
                                    !.failed = ~all \/ (creds /\ failed # {})])

\* What a plan leaves that could not be made, or that Comexio does not show to be empty and HA
\* therefore tries to delete again.
LeftBehind(made) == {None, made}

\* Cluster plans there are by name are taken, others made; those that cannot be are reported.
ResolvesClusters ==
    /\ Step("clusters") /\ UNCHANGED <<marker, trig, loopback, web, loading, late, unsure>>
    /\ \E failed \in SUBSET {k \in ctx.left : plan[k] = None} :
          /\ IF failed = {} THEN Answered ELSE Cardinality(failed) = 1 /\ Fails
          /\ LET made == {k \in ctx.left \ failed : plan[k] = None} IN
             /\ \E left \in LeftBehind(EmptyPlan) :
                   plan' = [k \in Ks |-> IF k \in made THEN EmptyPlan ELSE IF k \in failed THEN left ELSE plan[k]]
             /\ planCache' = [p \in Plans |-> IF p \in made THEN EmptyPlan ELSE planCache[p]]
          /\ mapped' = mapped \cup (ctx.left \ failed)
          /\ ctx' = [ctx EXCEPT !.left = @ \ failed, !.failed = @ \/ failed # {}, !.batch = ctx.miss]
          /\ stage' = IF ctx.left = failed THEN "triggers"
                   ELSE IF ctx.miss # {} THEN "fill" ELSE "upload"

-----------------------------------------------------------------------------
(* Bridge markers: for all Ks before the first plan, else for the K at hand.   *)

Titles(ks) == {BridgeTitle(k, ctx.kind[k]) : k \in ks}
\* Mutant of Reserved: a marker prepared for one K may be given to another.
NoneReserved == {}
Reserved == {ctx.alloc[k] : k \in Ks} \ {0}
\* Mutant of FreeMarkers: markers are given out by their titles alone.
FreeOfTitlesOnly == Reusable(ctx.ms, Titles(ctx.batch)) \ Reserved
FreeMarkers == Reusable(ctx.ms, Titles(ctx.batch)) \ (Placed \cup Reserved)
Upfront == ctx.k = 0

\* A batch that cannot be prepared: up front the plans make up for it, in a plan it is an error.
NoBatch == [ctx EXCEPT !.batch = {}, !.failed = @ \/ ~Upfront]
AfterBatch == IF Upfront THEN "upload" ELSE "loopback"

\* The config is read, and blank markers fill the ids up to the block, one request each.
FillsGap ==
    LET from == BlockStart(marker)
        gap(n) == marker \o [i \in 1..n |-> Titled(Blank)]
        wanted == IF Len(marker) >= from - 1 THEN 0 ELSE from - 1 - Len(marker)
    IN /\ Step("fill") /\ UNCHANGED <<plans, loopback, web, memory, unsure>>
       /\ \/ /\ Answered /\ marker' = gap(wanted) /\ late' = {}
             /\ ctx' = [ctx EXCEPT !.ms = marker] /\ stage' = "free"
          \/ /\ Fails /\ (\E n \in 0..wanted : marker' = gap(n)) /\ UNCHANGED late
             /\ ctx' = NoBatch /\ stage' \in {AfterBatch} \cup (IF Upfront THEN {} ELSE {"done"})

\* Where markers are placed; without that knowledge none is given out again.
FindsFree ==
    /\ Step("free") /\ UNCHANGED <<marker, plans, loopback, web, memory, unsure>>
    /\ stage' = "obtain"
    /\ \/ /\ Answered /\ late' = late \ Placed
          /\ ctx' = [ctx EXCEPT !.free = FreeMarkers]
       \/ Fails /\ ctx' = [ctx EXCEPT !.free = {}] /\ UNCHANGED late

\* A rename resets default and store.
Renamed(ms, m, title) == [ms EXCEPT ![m] = [@ EXCEPT !.title = title, !.set = FALSE]]

Obtained(k, m) ==
    [ctx EXCEPT !.batch = @ \ {k}, !.free = @ \ {m},
                !.alloc = IF Upfront THEN [@ EXCEPT ![k] = m] ELSE @,
                !.m = IF Upfront THEN @ ELSE m]
ObtainedNone(k, m) == [ctx EXCEPT !.batch = @ \ {k}, !.free = @ \ {m}, !.failed = @ \/ ~Upfront]

\* One K: the marker prepared, else one of its title, else the lowest free one, else a new one.
Obtains ==
    LET k == Min(ctx.batch)
        title == BridgeTitle(k, ctx.kind[k])
        same == {m \in Ids(ctx.ms) : ctx.ms[m].title = title}
        new == Len(marker) + 1
        m == IF ctx.free # {} THEN Min(ctx.free) ELSE new
        made == IF ctx.free # {} THEN marker ELSE Append(marker, Titled(Blank))
    IN /\ Step("obtain") /\ ctx.batch # {}
       /\ UNCHANGED <<plans, loopback, web, memory, late, unsure, stage>>
       /\ \/ ctx.alloc[k] # 0 /\ Answered /\ ctx' = Obtained(k, ctx.alloc[k]) /\ UNCHANGED marker
          \/ ctx.alloc[k] = 0 /\ same # {} /\ Answered /\ ctx' = Obtained(k, Min(same)) /\ UNCHANGED marker
          \/ /\ ctx.alloc[k] = 0 /\ same = {}
             /\ \/ Answered /\ marker' = Renamed(made, m, title) /\ ctx' = Obtained(k, m)
                \/ Fails /\ ctx' = ObtainedNone(k, m) /\ marker' \in {marker, made, Renamed(made, m, title)}

HasBatch ==
    /\ Step("obtain") /\ ctx.batch = {} /\ Answered
    /\ stage' = IF Upfront THEN "upload" ELSE IF ctx.m = 0 THEN "loopback" ELSE "bridge"
    /\ ctx' = [ctx EXCEPT !.ms = <<>>, !.free = {}]
    /\ UNCHANGED <<marker, plans, loopback, web, memory, late, unsure>>

-----------------------------------------------------------------------------
(* The loopback Web-IO: its class goes up with all commands known, or they are  *)
(* saved one by one. Comexio lists what is new with a delay. In which order    *)
(* commands go up with the class is left open.                                 *)

Names(ids) == {command[c] : c \in ids}

\* The class and device, if it takes making them; a device without its class is left alone.
Absent == ~class /\ ~device
Uploaded(bridges) ==
    LET all == command \o SetToSeq(bridges)
    IN class' = TRUE /\ command' = all /\ listed' \in {listed, Ids(all)}
OnlyDevice == device' = TRUE /\ UNCHANGED <<class, command, listed>>
Made(bridges) == creds /\ Absent /\ Answered /\ Uploaded(bridges) /\ device' = TRUE /\ UNCHANGED unsure
There == creds /\ class /\ Answered /\ OnlyDevice /\ UNCHANGED unsure
NotEnsured(bridges) ==
    \/ (~creds \/ (device /\ ~class)) /\ Answered /\ UNCHANGED <<loopback, unsure>>
    \/ /\ creds /\ Fails /\ unsure' = TRUE
       /\ \/ UNCHANGED loopback
          \/ Absent /\ Uploaded(bridges) /\ device' \in BOOLEAN
          \/ class /\ ~device /\ OnlyDevice

\* Up front: whatever fails is left to the plans.
Prestages ==
    LET bridges == ctx.loop \cup {<<k, ctx.alloc[k]>> : k \in {l \in Ks : ctx.alloc[l] # 0}} IN
    /\ Step("upload") /\ UNCHANGED <<marker, plans, web, memory, late>> /\ stage' = "plan"
    /\ \/ bridges = {} /\ Answered /\ UNCHANGED <<loopback, unsure, ctx>>
       \/ bridges # {} /\ Made(bridges) /\ ctx' = [ctx EXCEPT !.pre = bridges]
       \/ bridges # {} /\ (There \/ NotEnsured(bridges)) /\ UNCHANGED ctx

-----------------------------------------------------------------------------
(* One cluster plan after the other.                                           *)

\* A leg that fails is reported; a connection that breaks off ends the sync.
LegFails(next) == Fails /\ ctx' = Reported /\ stage' \in {next, "done"}
LegRefused(next) == Answered /\ ctx' = Reported /\ stage' = next

\* A plan no longer listed, or renamed, is left alone. Whatever the stop is answered, the legs follow.
TakesPlan ==
    LET k == Min(ctx.left)
        goes == [ctx EXCEPT !.left = @ \ {k}, !.k = k, !.m = 0, !.fresh = FALSE, !.free = {},
                            !.batch = {k} \cap ctx.miss]
    IN /\ Step("plan") /\ Answered /\ UNCHANGED <<marker, plans, loopback, web, memory, late, unsure>>
       /\ \/ cancel /\ stage' = "done" /\ UNCHANGED ctx
          \/ /\ ~cancel /\ ctx.left = {} /\ stage' = "triggers"
             /\ ctx' = [ctx EXCEPT !.k = 0, !.m = 0, !.alloc = <<>>, !.loop = {}, !.pre = {}, !.fresh = FALSE]
          \/ /\ ~cancel /\ ctx.left # {} /\ stage' = "read path" /\ ctx' = goes
          \/ /\ ~cancel /\ ctx.left # {} /\ plan[k] = None /\ UNCHANGED stage
             /\ ctx' = [goes EXCEPT !.k = ctx.k, !.failed = TRUE]

\* Leg 1: K -> HA's Web-IO, besides what K feeds already.
WiresReadPath ==
    LET k == ctx.k
        next == IF ctx.batch # {} THEN "fill" ELSE "loopback"
        wired == [plan EXCEPT ![k].sink = @ \cup {0}]
    IN /\ Step("read path") /\ UNCHANGED <<marker, trig, loopback, web, memory, late, unsure>>
       /\ \/ k \notin ctx.read /\ Answered /\ stage' = next /\ UNCHANGED <<plan, ctx>>
          \/ k \in ctx.read /\ plan[k] # None /\ Answered /\ plan' = wired /\ stage' = next /\ UNCHANGED ctx
          \/ k \in ctx.read /\ plan[k] = None /\ LegRefused(next) /\ UNCHANGED plan
          \/ k \in ctx.read /\ LegFails(next) /\ plan' \in {plan} \cup (IF plan[k] = None THEN {} ELSE {wired})

\* Leg 2: marker -> K; elements there are used, missing ones placed, the wire comes last.
WiresBridge ==
    LET k == ctx.k
        placed == [plan EXCEPT ![k].elem = @ \cup {ctx.m}]
        wired == [placed EXCEPT ![k].bridge = @ \cup {ctx.m}]
        lost == [ctx EXCEPT !.failed = TRUE, !.m = 0]
    IN /\ Step("bridge") /\ UNCHANGED <<marker, trig, loopback, web, memory, late, unsure>>
       /\ \/ plan[k] # None /\ Answered /\ plan' = wired /\ stage' = "loopback"
             /\ ctx' = IF ctx.m \in plan[k].bridge THEN [ctx EXCEPT !.m = 0] ELSE ctx
          \/ plan[k] = None /\ Answered /\ ctx' = lost /\ stage' = "loopback" /\ UNCHANGED plan
          \/ /\ Fails /\ ctx' = lost /\ stage' \in {"loopback", "done"}
             /\ plan' \in {plan} \cup (IF plan[k] = None THEN {} ELSE {placed, wired})

\* Leg 3 is for the bridge just wired, and for one the audit found without a loopback.
\* Mutant of Looping: a bridge that was just wired gets no loopback.
LoopingAuditedOnly == {b \in ctx.loop : b[1] = ctx.k}
Looping == (IF ctx.m = 0 THEN {} ELSE {<<ctx.k, ctx.m>>}) \cup {b \in ctx.loop : b[1] = ctx.k}
Loop == CHOOSE b \in Looping : TRUE

EnsuresLoopback ==
    /\ Step("loopback") /\ UNCHANGED <<marker, plans, web, memory, late>>
    /\ \/ Looping = {} /\ Answered /\ stage' = "plan" /\ UNCHANGED <<loopback, ctx, unsure>>
       \/ Looping # {} /\ Made(Looping) /\ ctx' = [ctx EXCEPT !.fresh = TRUE] /\ stage' = "command"
       \/ Looping # {} /\ There /\ stage' = "command" /\ UNCHANGED ctx
       \/ Looping # {} /\ NotEnsured(Looping) /\ ctx' = Reported /\ stage' \in {"plan", "done"}

\* Not saved again: what is listed, what went up with the class.
\* Mutant of KnownCommand: only the pages say what there is.
KnownByPagesOnly(b) == b \in Names(listed) \/ ctx.fresh
KnownCommand(b) == b \in Names(listed) \/ b \in ctx.pre \/ ctx.fresh
SavesCommand ==
    LET saved == Append(command, Loop) IN
    /\ Step("command") /\ UNCHANGED <<marker, plans, device, class, web, memory, late, unsure>>
    /\ \/ KnownCommand(Loop) /\ Answered /\ stage' = "fan out" /\ UNCHANGED <<command, listed, ctx>>
       \/ /\ ~KnownCommand(Loop) /\ Answered /\ command' = saved /\ listed' \in {listed, Ids(saved)}
          /\ stage' = "fan out" /\ UNCHANGED ctx
       \/ /\ LegFails("plan") /\ UNCHANGED listed
          /\ command' \in {command} \cup (IF KnownCommand(Loop) THEN {} ELSE {saved})

\* K feeds the command besides what it feeds, and it must feed something.
Feedable(k) == plan[k] # None /\ plan[k].sink # {}
Fed(k, c) == [plan EXCEPT ![k].sink = @ \cup {c}]

\* Comexio is given time to list the command.
FansOut ==
    LET ids == {c \in Ids(command) : command[c] = Loop}
        ready == Feedable(ctx.k) /\ ids # {}
    IN /\ Step("fan out") /\ UNCHANGED <<marker, trig, command, device, class, web, memory, late, unsure>>
       /\ \/ ready /\ Answered /\ (\E c \in ids : plan' = Fed(ctx.k, c)) /\ listed' = Ids(command)
             /\ stage' = "plan" /\ UNCHANGED ctx
          \/ ~ready /\ LegRefused("plan") /\ listed' = Ids(command) /\ UNCHANGED plan
          \/ LegFails("plan") /\ plan' \in {plan} \cup (IF ready THEN {Fed(ctx.k, c) : c \in ids} ELSE {}) /\ UNCHANGED listed

-----------------------------------------------------------------------------
(* The trigger pairs of plain markers and, by their bridge markers, of Ks.      *)

TrigKs == {k \in Ks : ctx.kind[k] = "trig"}

\* A K's marker: its bridge, by the cached wires, else a marker of its title's suffix.
MarkersOf(k, c, ms) ==
    LET wired == {b[2] : b \in {x \in BridgeMap(c) : x[1] = k}} IN
    IF wired # {} THEN wired ELSE {m \in Bridges(ms) : ms[m].title[1] = k}

\* Missing and left-over pairs, by the trigger plan in the cache; K's are known by the bridge map.
Pairing(c, ms, known, base) ==
    LET t == IF known THEN c[Trigger] ELSE EmptyTrigger
        bridged == {b[2] : b \in BridgeMap(c)}
        unpaired == {k \in TrigKs : ~\E b \in BridgeMap(c) : b[1] = k /\ b[2] \in t.pair}
        found == {k \in unpaired : MarkersOf(k, c, ms) # {}}
        leftKs == {b[2] : b \in {x \in BridgeMap(c) : x[2] \in t.elem /\ x[1] \notin TrigKs}}
    IN [base EXCEPT !.pairs = (Plain(ms) \ t.pair) \cup {Min(MarkersOf(k, c, ms)) : k \in found},
                    !.drops = IF known THEN <<t.elem \ (Plain(ms) \cup bridged), leftKs>> ELSE <<>>,
                    !.failed = @ \/ found # unpaired]

\* async_fresh_trigger_audit: every plan anew, unless the KNX stage's audit is still good.
AuditsTriggers ==
    LET wanted == mapped \cap Existing
        known == Trigger \in mapped /\ Trigger \in Existing
    IN /\ Step("triggers") /\ UNCHANGED <<marker, plans, loopback, web, mapped, loading, late, unsure>>
       /\ \/ cancel /\ Answered /\ stage' = "done" /\ UNCHANGED <<planCache, ctx>>
          \/ ~cancel /\ ctx.snap /\ Answered /\ stage' = "trigger plan" /\ UNCHANGED planCache
             /\ ctx' = Pairing(planCache, marker, known, ctx)
          \/ /\ ~cancel /\ ~ctx.snap /\ Answered /\ planCache' = Refetched(wanted, {})
             /\ stage' = "trigger plan"
             /\ ctx' = Pairing(planCache', marker, known, [ctx EXCEPT !.kind = knx])
          \/ /\ ~cancel /\ ~ctx.snap /\ Fails /\ ctx' = Reported /\ stage' = "done"
             /\ planCache' \in {planCache} \cup {Refetched(wanted, {p}) : p \in wanted}

\* Nothing to pair makes no plan.
ResolvesTrigger ==
    /\ Step("trigger plan") /\ UNCHANGED <<marker, plan, loopback, web, loading, late, unsure>>
    /\ \/ ctx.pairs = {} /\ Answered /\ stage' = "drop" /\ UNCHANGED <<trig, mapped, planCache, ctx>>
       \/ /\ ctx.pairs # {} /\ Answered /\ stage' = "pair" /\ UNCHANGED ctx
          /\ trig' = IF trig = None THEN EmptyTrigger ELSE trig
          /\ planCache' = IF trig = None THEN [planCache EXCEPT ![Trigger] = EmptyTrigger] ELSE planCache
          /\ mapped' = mapped \cup {Trigger}
       \/ /\ ctx.pairs # {} /\ trig = None /\ Fails /\ trig' \in LeftBehind(EmptyTrigger)
          /\ ctx' = [Reported EXCEPT !.pairs = {}] /\ stage' = "drop" /\ UNCHANGED <<mapped, planCache>>

\* A pair that fails takes its new Flanke along; the marker's element stays.
AddsPair ==
    LET m == Min(ctx.pairs)
        placed == [trig EXCEPT !.elem = @ \cup {m}]
        paired == [placed EXCEPT !.pair = @ \cup {m}]
        next == [ctx EXCEPT !.pairs = @ \ {m}]
    IN /\ Step("pair") /\ UNCHANGED <<marker, plan, loopback, web, memory, late, unsure>>
       /\ \/ ctx.pairs = {} /\ Answered /\ stage' = "drop" /\ UNCHANGED <<trig, ctx>>
          \/ ctx.pairs # {} /\ trig # None /\ Answered /\ trig' = paired /\ ctx' = next /\ UNCHANGED stage
          \/ /\ ctx.pairs # {} /\ trig = None /\ Answered /\ UNCHANGED <<trig, stage>>
             /\ ctx' = [next EXCEPT !.failed = TRUE]
          \/ /\ ctx.pairs # {} /\ Fails /\ trig' \in {trig} \cup (IF trig = None THEN {} ELSE {placed, paired})
             /\ \/ ctx' = [next EXCEPT !.failed = TRUE] /\ UNCHANGED stage
                \/ ctx' = Reported /\ stage' = "done"

\* The markers' left-over pairs go first, then the Ks', each from a load of its own.
Unpaired(ms) == [trig EXCEPT !.elem = @ \ ms, !.pair = @ \ ms]
DropsPairs ==
    LET ms == Head(ctx.drops)
        next == [ctx EXCEPT !.drops = Tail(@)]
    IN /\ Step("drop") /\ UNCHANGED <<marker, plan, loopback, web, memory, late, unsure>>
       /\ \/ ctx.drops = <<>> /\ Answered /\ stage' = "done" /\ UNCHANGED <<trig, ctx>>
          \/ ctx.drops # <<>> /\ ms = {} /\ Answered /\ ctx' = next /\ UNCHANGED <<trig, stage>>
          \/ /\ ctx.drops # <<>> /\ ms # {} /\ UNCHANGED stage
             /\ \/ trig # None /\ Answered /\ trig' = Unpaired(ms) /\ ctx' = next
                \/ trig = None /\ Answered /\ UNCHANGED trig /\ ctx' = [next EXCEPT !.failed = TRUE]
                \/ trig # None /\ Fails /\ trig' \in {trig, Unpaired(ms)} /\ ctx' = [next EXCEPT !.failed = TRUE]

-----------------------------------------------------------------------------
(* The clean-up of everything KNX, or of everything.                           *)

CleanUp(scope) ==
    /\ stage = "idle" /\ ops < MaxOps
    /\ ops' = ops + 1 /\ stage' = "clean triggers"
    /\ ctx' = [NoContext EXCEPT !.op = scope, !.left = mapped \cap Ks]
    /\ UNCHANGED <<knx, marker, plans, own, loopback, web, creds, others, memory, cancel, edits,
                   failures, quiet, late, unsure>>

\* In the trigger plan a marker is a K's by its title alone.
KnxPairs == InPlan(trig) \cap Bridges(marker)
\* ... and any other is a plain marker's.
OtherPairs == InPlan(trig) \ KnxPairs

\* Mutant of Stuck: the markers are reset although their pairs stay.
StuckAndReset == Reported
\* The Ks' bridge markers wait for another run when their pairs stay.
Stuck == [Reported EXCEPT !.waits = TRUE]

\* A plan with KNX pairs only goes as a whole, one without is kept.
DecidesTriggers ==
    LET decides(whole, cut) ==
            /\ ctx' = [ctx EXCEPT !.left = @ \cup whole]
            /\ stage' = IF cut THEN "clean pairs" ELSE "clean plans"
    IN /\ Step("clean triggers") /\ UNCHANGED <<marker, plans, loopback, web, memory, late, unsure>>
       /\ \/ Trigger \notin mapped /\ Answered /\ decides({}, FALSE)
          \/ Trigger \in mapped /\ ctx.op = "full" /\ Answered /\ decides({Trigger}, FALSE)
          \/ /\ Trigger \in mapped /\ ctx.op = "knx" /\ trig # None /\ Answered
             /\ decides(IF OtherPairs = {} THEN {Trigger} ELSE {}, OtherPairs # {} /\ KnxPairs # {})
          \/ /\ Trigger \in mapped /\ ctx.op = "knx" /\ (IF trig = None THEN Answered ELSE Fails)
             /\ ctx' = Stuck /\ stage' = "clean plans"

RemovesPairs ==
    LET gone == KnxPairs
    IN /\ Step("clean pairs") /\ UNCHANGED <<marker, plan, loopback, web, memory, late, unsure>>
       /\ stage' = "clean plans"
       /\ \/ trig # None /\ gone # {} /\ Answered /\ trig' = Unpaired(gone) /\ UNCHANGED ctx
          \/ (trig = None \/ gone = {}) /\ Answered /\ ctx' = Stuck /\ UNCHANGED trig
          \/ trig # None /\ Fails /\ ctx' = Stuck /\ trig' \in {trig, Unpaired(gone)}

\* Each plan on its own; one that stays, stays in the map for another try.
Removed(p) == IF p = Trigger THEN trig' = None /\ UNCHANGED plan
                             ELSE plan' = [plan EXCEPT ![p] = None] /\ UNCHANGED trig
DeletesPlans ==
    /\ Step("clean plans") /\ UNCHANGED <<marker, loopback, web, planCache, loading, late, unsure>>
    /\ \/ ctx.left = {} /\ Answered /\ stage' = "clean web" /\ UNCHANGED <<plans, mapped, ctx>>
       \/ \E p \in ctx.left :
             LET goes == [ctx EXCEPT !.left = @ \ {p}]
                 stays == [goes EXCEPT !.failed = TRUE, !.waits = @ \/ p = Trigger]
             IN /\ UNCHANGED stage
                /\ \/ At(p) # None /\ Answered /\ Removed(p) /\ ctx' = goes /\ mapped' = mapped \ {p}
                   \/ At(p) = None /\ Answered /\ UNCHANGED plans
                      /\ \/ ctx' = goes /\ mapped' = mapped \ {p}
                         \/ ctx' = stays /\ UNCHANGED mapped
                   \/ At(p) # None /\ Fails /\ ctx' = stays /\ UNCHANGED mapped
                      /\ (UNCHANGED plans \/ Removed(p))

\* HA's Web-IO, then the loopback's; Comexio keeps a device a plan still uses.
InUse(ids) == \E k \in Ks : plan[k] # None /\ plan[k].sink \cap ids # {}
DeletesWebIo ==
    /\ Step("clean web") /\ UNCHANGED <<marker, plans, memory, late, unsure>>
    /\ stage' = IF ctx.waits THEN "done" ELSE "clean read"
    /\ \/ ~InUse(Ids(command)) /\ Answered /\ web' = (web /\ InUse({0}))
          /\ device' = FALSE /\ class' = FALSE /\ command' = <<>> /\ listed' = {} /\ UNCHANGED ctx
       \/ InUse(Ids(command)) /\ Answered /\ web' = (web /\ InUse({0})) /\ UNCHANGED loopback /\ ctx' = Reported
       \/ /\ Fails /\ ctx' = Reported /\ web' \in {web, web /\ InUse({0})}
          /\ \/ UNCHANGED loopback
             \/ ~InUse(Ids(command)) /\ device' = FALSE /\ UNCHANGED <<class, command, listed>>

\* Which bridges are in use, the trigger plan's placements apart; unread plans end it here.
ReadsBridges ==
    /\ Step("clean read") /\ UNCHANGED <<marker, plans, loopback, web, memory, unsure>>
    /\ \/ /\ Answered /\ late' = {} /\ stage' = "clean marker"
          /\ ctx' = [ctx EXCEPT !.batch = Bridges(marker), !.ms = marker,
                                !.used = own \cup UNION {InPlan(plan[k]) : k \in Ks}]
       \/ Fails /\ ctx' = Reported /\ stage' = "done" /\ UNCHANGED late

\* An unused one is blanked, one in use becomes a plain marker with the settings read.
Reset(m) ==
    IF m \in ctx.used THEN [ctx.ms[m] EXCEPT !.title = Stripped(@)] ELSE [ctx.ms[m] EXCEPT !.title = Blank, !.set = FALSE]
ResetsMarker ==
    LET m == Min(ctx.batch)
        next == [ctx EXCEPT !.batch = @ \ {m}]
        reset == [marker EXCEPT ![m] = Reset(m)]
        refused == Taken(Reset(m).title, m)
    IN /\ Step("clean marker") /\ UNCHANGED <<plans, loopback, web, memory, late, unsure>>
       /\ \/ ctx.batch = {} /\ Answered /\ stage' = "done" /\ UNCHANGED <<marker, ctx>>
          \/ ctx.batch # {} /\ ~refused /\ Answered /\ marker' = reset /\ ctx' = next /\ UNCHANGED stage
          \/ /\ ctx.batch # {} /\ refused /\ Answered /\ UNCHANGED <<marker, stage>>
             /\ ctx' = [next EXCEPT !.failed = TRUE]
          \/ /\ ctx.batch # {} /\ Fails /\ marker' \in {marker} \cup (IF refused THEN {} ELSE {reset})
             /\ \/ ctx' = [next EXCEPT !.failed = TRUE] /\ UNCHANGED stage
                \/ ctx' = Reported /\ stage' = "done"

-----------------------------------------------------------------------------
\* Either ends with the integration loaded anew; what was new is long listed by then.
Finishes ==
    /\ stage = "done"
    /\ stage' = "idle" /\ ctx' = NoContext /\ cancel' = FALSE
    /\ planCache' = [p \in Plans |-> None] /\ loading' = TRUE /\ quiet' = TRUE
    /\ listed' = Ids(command) /\ late' = {}
    /\ UNCHANGED <<knx, marker, plans, own, command, device, class, web, creds, others, mapped,
                   edits, ops, failures, unsure>>

WiresTriggers == AuditsTriggers \/ ResolvesTrigger \/ AddsPair \/ DropsPairs
Sync ==
    \/ Press \/ Audits \/ ResolvesClusters \/ FillsGap \/ FindsFree \/ Obtains \/ HasBatch \/ Prestages
    \/ TakesPlan \/ WiresReadPath \/ WiresBridge \/ EnsuresLoopback \/ SavesCommand \/ FansOut
    \/ WiresTriggers
Cleaning ==
    \/ \E scope \in {"knx", "full"} : CleanUp(scope)
    \/ DecidesTriggers \/ RemovesPairs \/ DeletesPlans \/ DeletesWebIo \/ ReadsBridges \/ ResetsMarker
User ==
    \/ RetitlesKnx \/ UsesMarker \/ NamesMarker \/ MakesMarker \/ Unbridges \/ Unpairs \/ DeletesPlan \/ Cancels

BridgesNext == BulkLoads \/ User \/ Sync \/ Cleaning \/ Finishes
BridgesSpec == BridgesInit /\ [][BridgesNext]_bridgesVars

-----------------------------------------------------------------------------
(* Properties.                                                                 *)

\* No K gets two bridges and no marker bridges two Ks, whatever is allocated up front, again in a
\* plan, or a second time by a later sync: else one object's value goes to another's bus address.
OneBridgeEach ==
    \A k \in Ks : plan[k] # None =>
        /\ Cardinality(plan[k].bridge) <= 1
        /\ \A l \in Ks \ {k} : plan[l] # None => plan[k].bridge \cap plan[l].bridge = {}

Retitled == {m \in Ids(marker) : marker'[m] # marker[m]}
Syncing == stage # "idle" /\ ctx.op = "sync"
Cleans == stage # "idle" /\ ctx.op # "sync"

\* A sync gives out no marker that stands in a plan, its own plans, the trigger plan or a user's,
\* and none a user named, but what a user placed or named behind its look at titles and plans.
UsedMarkersKept ==
    [][Syncing /\ edits' = edits => \A m \in Retitled : m \in late \/
         (m \notin Placed /\ (marker[m].title = Blank \/ IsBridge(marker[m].title)))]_bridgesVars

\* A full sync that reports nothing and was not interfered with leaves every K with its three legs,
\* and the trigger plan with exactly the pairs the titles ask for: no second press is needed, but
\* for the loopback of a K that had its bridge and only now gets its read path.
Complete(k) ==
    /\ plan[k] # None /\ plan[k].bridge # {} /\ (ctx.gaps => 0 \in plan[k].sink)
    /\ creds /\ k \notin ctx.read \ ctx.miss /\ plan[k].sink # {} => Cardinality(plan[k].sink) > 1
BridgesOf(ks) == UNION {plan[k].bridge : k \in ks}
KnxSettles ==
    [][stage = "done" /\ Syncing /\ ctx.applies /\ ~ctx.failed /\ ~cancel /\ quiet =>
         LET due == Plain(marker) \cup BridgesOf({k \in Ks : knx[k] = "trig"}) IN
         /\ \A k \in Ks : Complete(k)
         /\ InPlan(trig) = due /\ (trig # None => trig.pair = due)]_bridgesVars

\* One loopback command per K and marker, however slowly Comexio lists what went up with the class:
\* unsure is only an upload whose answer or device was lost.
NoDuplicateCommand == \A c, d \in Ids(command) : c # d /\ command[c] = command[d] => unsure

\* A clean-up blanks no marker a user's plan holds and keeps its settings, unless it was put there
\* behind the check, and leaves the titles by which the trigger plan's KNX pairs are told while it
\* still has them, so that another run finds these.
CleanUpSpares ==
    [][Cleans /\ edits' = edits => \A m \in Retitled :
         /\ m \notin InPlan(trig)
         /\ m \in own \ late => marker'[m].title # Blank /\ marker'[m].set = marker[m].set]_bridgesVars
=============================================================================
