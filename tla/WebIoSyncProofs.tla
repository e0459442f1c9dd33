---------------------------- MODULE WebIoSyncProofs ----------------------------
(***************************************************************************)
(* Which commands a sync deletes, how it leaves the managed plan running,  *)
(* what it takes out of it, and what it leaves to the next sync. All four  *)
(* follow from what the sync has read by the time it asks: what it may     *)
(* still delete is held by no plan, as a plan gains uses only from users   *)
(* behind the check and from a wiring pass that read the command anew; each*)
(* helper that stops the plan hands on how it ran; what is cut was chosen  *)
(* from a plan that the managed one is what is left of, for commands that  *)
(* stand for no wanted marker; and what is still wanted is, up to the end, *)
(* among the tasks and the markers left to wire.                           *)
(***************************************************************************)
EXTENDS WebIoSync, FiniteSetTheorems, WellFoundedInduction, TLAPS

-----------------------------------------------------------------------------
(* Types.                                                                      *)

\* A command to be written to an id.
Items == [id : Nat, of : Sources, to : Source]
IsPlan(p) == p = Gone \/ p \in Plan
\* Commands to be created.
Wishes == {W \in SUBSET [of : Sources, to : Source] : IsFiniteSet(W)}
Reading == [source : [Sources -> Source \cup {Gone}], command : Seq(Command \cup {Gone})]

TaskType == [rename : SUBSET Items, delete : SUBSET Nat,
             create : Wishes, type : SUBSET Items]
AuditType == [missing : Wishes, rename : SUBSET Items, type : SUBSET Items,
              orphan : SUBSET Nat, gap : SUBSET Sources, dangling : SUBSET Sources,
              cleanup : SUBSET Sources]

Early == {"device", "class", "delete device", "device?", "class?", "delete class", "upload",
          "create device"}
Cutting == {"stop", "erase", "restart"}
Placing == {"wire stop", "wire read", "wire load", "pairs"}
Requests == {"idle", "done", "unwire", "dangling", "sort", "run", "rerun", "check", "bulk", "tasks",
             "wire", "find", "clean load", "clean check", "deletable", "delete"}
            \cup Early \cup Cutting \cup Placing

ContextType ==
    [action : Actions \cup {"full_sync"}, dev : BOOLEAN, task : TaskType, dangling : SUBSET Sources,
     toWire : SUBSET Sources, kept : SUBSET Nat, ownListed : BOOLEAN, cleaned : SUBSET Sources,
     unwired : SUBSET Nat, cut : SUBSET Nat, after : {"dangling", "sort", "clean check", "done"},
     resort : {"no", "ran", "stood"}, ran : BOOLEAN, fresh : BOOLEAN, added : BOOLEAN,
     left : SUBSET Sources, read : Reading \cup {Gone}, plan : Plan, failed : BOOLEAN]

ContextFields ==
    {"action", "dev", "task", "dangling", "toWire", "kept", "ownListed", "cleaned", "unwired", "cut", "after",
     "resort", "ran", "fresh", "added", "left", "read", "plan", "failed"}

ComexioTypes ==
    /\ source \in [Sources -> Source \cup {Gone}]
    /\ command \in Seq(Command \cup {Gone})
    /\ device \in BOOLEAN /\ class \in BOOLEAN
    /\ IsPlan(plan) /\ runs \in BOOLEAN
    /\ own = Gone \/ own \subseteq Nat
HaTypes ==
    /\ ignored \subseteq Sources
    /\ data \in Reading /\ audit \in AuditType
    /\ IsPlan(snap) /\ loading \in BOOLEAN
    /\ listed \in [runs : BOOLEAN, own : BOOLEAN]
SyncTypes ==
    /\ pc \in Requests /\ ctx \in ContextType /\ cancel \in BOOLEAN
    /\ quiet \in BOOLEAN /\ before \in BOOLEAN \cup {Gone} /\ excused \subseteq Nat
Types == ComexioTypes /\ HaTypes /\ SyncTypes

-----------------------------------------------------------------------------
(* Which plan there is.                                                        *)

InUse == Held(plan) \cup OwnIds

PlanThere ==
    /\ pc \in Cutting \cup Placing => plan # Gone
    /\ plan = Gone => snap \in {Gone, EmptyPlan}
    /\ before # Gone => plan # Gone

-----------------------------------------------------------------------------
(* Commands in use.                                                            *)

\* Plans hold ids of commands there are or were.
UsedAreKnown == InUse \subseteq DOMAIN command

\* From the check on, what the sync may still delete is held by no plan, or excused.
OwnUnseen == pc \in {"bulk", "deletable"} /\ ~ctx.ownListed => OwnIds \subseteq excused
OrphansFree == pc = "tasks" /\ ~cancel => (ctx.task.delete \ ctx.kept) \cap InUse \subseteq excused
CleanableFree == pc = "delete" => (Cleanable \ ctx.kept) \cap InUse \subseteq excused

\* The commands a wiring pass read are there still, but for those a user deletes meanwhile.
ReadStill ==
    pc \in {"wire load", "pairs"} =>
        /\ ctx.read \in Reading
        /\ \A c \in Present(ctx.read.command) : c \in Present(command) \/ (c \in DOMAIN command /\ c \in excused)

CommandsInv ==
    UsedAreKnown /\ UsedCommandsStay /\ OwnUnseen /\ OrphansFree /\ CleanableFree /\ ReadStill

-----------------------------------------------------------------------------
(* How the plan runs.                                                          *)

\* Pairs are added by the wiring pass alone; a clean-up sorts nothing.
Passes ==
    /\ ctx.added => pc \in {"pairs", "sort", "run", "rerun", "done"}
    /\ pc \in Early => ctx.resort = "no"
    /\ pc \in {"find", "clean load"} => Cleaning
    /\ Cleaning => ctx.resort = "no"
    /\ pc \in Cutting => ctx.after # "done" /\ (ctx.after = "clean check" => Cleaning)

\* What the sync remembers of how the plan ran, as long as it is not known to have failed.
Untouched ==
    pc \in Early \cup {"check", "bulk", "tasks", "wire", "find", "clean load", "clean check",
                       "deletable", "delete"} =>
        runs = before /\ listed.runs = before
BetweenCuts ==
    pc \in {"unwire", "dangling", "stop"} \/ (pc = "sort" /\ ~ctx.added) =>
        /\ listed.runs = before
        /\ ctx.resort = "no" => runs = before
        /\ ctx.resort = "ran" => before
        /\ ctx.resort = "stood" => ~before /\ ~runs
Stopped ==
    /\ pc = "erase" =>
        /\ listed.runs = before /\ ~runs
        /\ ctx.resort = "no" => ctx.ran = before
        /\ ctx.resort = "ran" => before
        /\ ctx.resort = "stood" => ~before /\ ~ctx.ran
    /\ pc = "restart" => listed.runs = before /\ before /\ ~runs /\ ctx.resort # "stood"
    /\ pc \in {"run", "rerun"} => before
Wiring ==
    /\ pc = "wire stop" => runs = before /\ ctx.ran = before /\ ~ctx.fresh
    /\ pc \in {"wire read", "wire load", "pairs"} \/ (pc = "sort" /\ ctx.added) =>
          ctx.ran = before /\ (runs => before) /\ ~ctx.fresh
Running == Untouched /\ BetweenCuts /\ Stopped /\ Wiring /\ (pc = "done" => runs = before)

RunsInv == Passes /\ (before # Gone /\ ~ctx.failed => Running)

IInv == Types /\ PlanThere /\ CommandsInv /\ RunsInv

-----------------------------------------------------------------------------
(* Numbers, sets and plans.                                                    *)

LEMMA Smallest ==
  ASSUME NEW S \in SUBSET Nat, S # {}
  PROVE  \E x \in S : \A y \in S : x <= y
<1>1. \E x \in S : \A y \in S : ~(<<y, x>> \in OpToRel(<, Nat))
  BY NatLessThanWellFounded, WFMin
<1>2. ASSUME NEW x \in S, NEW y \in S, ~(<<y, x>> \in OpToRel(<, Nat))
      PROVE  x <= y
  <2>1. x \in Nat /\ y \in Nat
    OBVIOUS
  <2>2. <<y, x>> \in Nat \X Nat /\ <<y, x>>[1] = y /\ <<y, x>>[2] = x
    BY <2>1
  <2>3. ~(y < x)
    BY <1>2, <2>2 DEF OpToRel
  <2> QED
    BY <2>1, <2>3
<1> QED
  BY <1>1, <1>2

LEMMA MinIn ==
  ASSUME NEW S \in SUBSET Nat, S # {}
  PROVE  Min(S) \in S
BY Smallest DEF Min

LEMMA MaxIn ==
  ASSUME NEW n \in Nat, NEW S \in SUBSET (0 .. n), S # {}
  PROVE  Max(S) \in S
<1> DEFINE mirror == {n - x : x \in S}
<1>1. mirror \in SUBSET Nat /\ mirror # {}
  <2>1. \A x \in S : x \in 0 .. n /\ n - x \in Nat
    OBVIOUS
  <2> QED
    BY <2>1
<1> HIDE DEF mirror
<1>3. \E x \in mirror : \A y \in mirror : x <= y
  BY <1>1, Smallest
<1>4. PICK z \in S : \A y \in S : n - z <= n - y
  BY <1>3 DEF mirror
<1>5. \A y \in S : z >= y
  BY <1>4
<1> QED
  BY <1>5 DEF Max

LEMMA ChangedEntry ==
  ASSUME NEW S, NEW s \in Seq(S), NEW c, NEW x \in S
  PROVE  /\ [s EXCEPT ![c] = x] \in Seq(S)
         /\ DOMAIN [s EXCEPT ![c] = x] = DOMAIN s
<1>1. Len(s) \in Nat /\ s \in [1 .. Len(s) -> S]
  OBVIOUS
<1>2. [s EXCEPT ![c] = x] \in [1 .. Len(s) -> S]
  BY <1>1
<1> QED
  BY <1>1, <1>2

LEMMA EmptyPlanIsPlan == EmptyPlan \in Plan /\ EmptyPlan # Gone /\ Held(EmptyPlan) = {}
<1>1. EmptyPlan \in Plan
  BY DEF EmptyPlan, Plan
<1>2. EmptyPlan # Gone
  BY <1>1, SyncAssumption
<1> QED
  BY <1>1, <1>2 DEF EmptyPlan, Held, OfType, Elements

LEMMA ElementsBelow ==
  ASSUME NEW p, IsPlan(p)
  PROVE  Elements(p) \subseteq Nat /\ (p # Gone => Elements(p) \subseteq 1 .. Len(p.elem) /\ Len(p.elem) \in Nat)
BY DEF IsPlan, Plan, Elements

LEMMA HeldIds ==
  ASSUME NEW p, IsPlan(p)
  PROVE  Held(p) \subseteq Nat
BY DEF IsPlan, Plan, Held, OfType, Elements, Element

LEMMA WithoutIsPlan ==
  ASSUME NEW p \in Plan, NEW gone
  PROVE  /\ Without(p, gone) \in Plan
         /\ Held(Without(p, gone)) \subseteq Held(p)
<1>1. Without(p, gone) \in Plan
  BY DEF Without, Plan
<1>2. Without(p, gone) # Gone /\ p # Gone
  BY <1>1, SyncAssumption
<1>3. ASSUME NEW e \in OfType(Without(p, gone), "web")
      PROVE  e \in OfType(p, "web") /\ Without(p, gone).elem[e] = p.elem[e]
  BY <1>2 DEF Without, Plan, OfType, Elements
<1> QED
  BY <1>1, <1>3 DEF Held

LEMMA PlacedIsPlan ==
  ASSUME NEW p \in Plan, NEW type \in {"src", "web"}, NEW ref \in Nat
  PROVE  /\ Placed(p, type, ref) \in Plan
         /\ Newest(Placed(p, type, ref)) \in Nat
         /\ Held(Placed(p, type, ref)) \subseteq Held(p) \cup (IF type = "web" THEN {ref} ELSE {})
<1> DEFINE new == [type |-> type, ref |-> ref]
<1>1. new \in Element
  BY DEF Element
<1>2. Placed(p, type, ref) \in Plan /\ Placed(p, type, ref).elem = Append(p.elem, new)
  <2>1. Append(p.elem, new) \in Seq(Element \cup {Gone})
    BY <1>1 DEF Plan
  <2>2. Placed(p, type, ref) = [p EXCEPT !.elem = Append(p.elem, new)]
    BY DEF Placed
  <2> QED
    BY <2>1, <2>2 DEF Plan
<1>3. Placed(p, type, ref) # Gone /\ p # Gone
  BY <1>2, SyncAssumption
<1>4. Newest(Placed(p, type, ref)) \in Nat
  BY <1>2 DEF Newest, Plan
<1>5. ASSUME NEW e \in OfType(Placed(p, type, ref), "web")
      PROVE  \/ e \in OfType(p, "web") /\ Placed(p, type, ref).elem[e] = p.elem[e]
             \/ type = "web" /\ Placed(p, type, ref).elem[e].ref = ref
  <2>1. e \in 1 .. Len(Append(p.elem, new)) /\ Append(p.elem, new)[e] # Gone
        /\ Append(p.elem, new)[e].type = "web"
    BY <1>2, <1>3 DEF OfType, Elements
  <2>2. CASE e = Len(p.elem) + 1
    BY <1>2, <2>1, <2>2 DEF Plan
  <2>3. CASE e # Len(p.elem) + 1
    BY <1>1, <1>2, <1>3, <2>1, <2>3 DEF Plan, OfType, Elements
  <2> QED
    BY <2>2, <2>3
<1> QED
  BY <1>2, <1>4, <1>5 DEF Held

-----------------------------------------------------------------------------
(* Audits.                                                                     *)

LEMMA PresentIds ==
  ASSUME NEW cmds \in Seq(Command \cup {Gone})
  PROVE  /\ Present(cmds) \in SUBSET Nat /\ Present(cmds) \subseteq DOMAIN cmds
         /\ \A c \in Present(cmds) : cmds[c] \in Command
BY DEF Present

LEMMA BestMatchIs ==
  ASSUME NEW read \in Reading, NEW x, Serving(read.command, x) # {}
  PROVE  BestMatch(read, x) \in Nat
<1>1. Serving(read.command, x) \in SUBSET Nat /\ Named(read, x) \in SUBSET Nat
  BY PresentIds DEF Reading, Serving, Named
<1> QED
  BY <1>1, MinIn DEF BestMatch

LEMMA WishesFinite ==
  ASSUME NEW read \in Reading, NEW S \in SUBSET Sources, \A x \in S : read.source[x] \in Source
  PROVE  {[of |-> x, to |-> read.source[x]] : x \in S} \in Wishes
<1> DEFINE wish(x) == [of |-> x, to |-> read.source[x]]
           T == {wish(x) : x \in S}
           f == [x \in S |-> wish(x)]
<1>1. f \in Surjection(S, T)
  BY DEF Surjection
<1>2. IsFiniteSet(S)
  BY SyncAssumption, FS_Subset
<1>3. IsFiniteSet(T)
  <2> HIDE DEF f, T
  <2> QED
    BY <1>1, <1>2, FS_Surjection
<1>4. T \in SUBSET [of : Sources, to : Source]
  OBVIOUS
<1> QED
  BY <1>3, <1>4 DEF Wishes

LEMMA CompareIsAudit ==
  ASSUME NEW read \in Reading, NEW ign \in SUBSET Sources, NEW p
  PROVE  Compare(read, ign, p) \in AuditType
<1> DEFINE wanted == Wanted(read, ign)
           served == {x \in wanted : Serving(read.command, x) # {}}
           misnamed == {x \in served : read.command[BestMatch(read, x)].title # read.source[x].title}
           item(x) == [id |-> BestMatch(read, x), of |-> x, to |-> read.source[x]]
           missing == {[of |-> x, to |-> read.source[x]] : x \in wanted \ served}
           rename == {item(x) : x \in misnamed}
           type == {item(x) : x \in {y \in served \ misnamed :
                                       read.command[BestMatch(read, y)].kind # read.source[y].kind}}
           orphan == {c \in Present(read.command) :
                        LET x == read.command[c].of IN x \notin wanted \/ c # BestMatch(read, x)}
           gap == IF p = Gone THEN {} ELSE {x \in served \ misnamed : ~WiredPair(p, x, BestMatch(read, x))}
           dangling == IF p = Gone THEN {} ELSE Dangling(p)
           cleanup == IF p = Gone THEN {} ELSE IgnoredLinked(read, ign, p)
<1>1. \A x \in wanted : x \in Sources /\ read.source[x] \in Source
  BY DEF Wanted, Reading
<1>2. \A x \in served : item(x) \in Items
  BY <1>1, BestMatchIs DEF Items
<1>3. missing \in Wishes
  <2>1. wanted \ served \in SUBSET Sources /\ \A x \in wanted \ served : read.source[x] \in Source
    BY <1>1
  <2> HIDE DEF wanted, served
  <2> QED
    BY <2>1, WishesFinite
<1>4. rename \in SUBSET Items /\ type \in SUBSET Items
  <2> HIDE DEF item
  <2>1. misnamed \subseteq served /\ served \ misnamed \subseteq served
    OBVIOUS
  <2> HIDE DEF misnamed, served
  <2> QED
    BY <1>2, <2>1
<1>5. orphan \in SUBSET Nat
  BY PresentIds DEF Reading
<1>6. gap \in SUBSET Sources
  BY <1>1
<1>7. dangling \in SUBSET Sources /\ cleanup \in SUBSET Sources
  BY DEF Dangling, IgnoredLinked
<1>8. Compare(read, ign, p) = [missing |-> missing, rename |-> rename, type |-> type, orphan |-> orphan,
                              gap |-> gap, dangling |-> dangling, cleanup |-> cleanup]
  BY DEF Compare
<1> HIDE DEF missing, rename, type, orphan, gap, dangling, cleanup
<1> QED
  BY <1>3, <1>4, <1>5, <1>6, <1>7, <1>8 DEF AuditType

LEMMA NoWishes == {} \in Wishes
BY FS_EmptySet DEF Wishes

LEMMA EmptyAuditIsAudit == EmptyAudit \in AuditType
BY NoWishes DEF EmptyAudit, AuditType

LEMMA ReadIsReading ==
  ASSUME ComexioTypes
  PROVE  Read \in Reading
BY DEF ComexioTypes, Read, Reading

LEMMA NoContextIsContext == NoContext \in ContextType /\ NoTasks \in TaskType
<1>1. NoTasks \in TaskType
  BY NoWishes DEF NoTasks, TaskType
<1> QED
  BY <1>1, EmptyPlanIsPlan DEF NoContext, ContextType

-----------------------------------------------------------------------------
(* Initial states.                                                             *)

LEMMA WiredPlanIsPlan ==
  ASSUME NEW order \in Orders
  PROVE  /\ Cardinality(Sources) \in Nat /\ DOMAIN order = 1 .. Cardinality(Sources)
         /\ \A i \in 1 .. Cardinality(Sources) : order[i] \in Sources
         /\ WiredPlan(order) \in Plan
         /\ Held(WiredPlan(order)) \subseteq 1 .. Cardinality(Sources)
<1> DEFINE n == Cardinality(Sources)
<1>1. n \in Nat
  BY SyncAssumption, FS_CardinalityType
<1>2. DOMAIN order = 1 .. n /\ \A i \in 1 .. n : order[i] \in Sources
  BY DEF Orders
<1> HIDE DEF n
<1> DEFINE at(e) == IF e % 2 = 1 THEN [type |-> "src", ref |-> order[(e + 1) \div 2]]
                                 ELSE [type |-> "web", ref |-> e \div 2]
           elem == [e \in 1 .. 2 * n |-> at(e)]
           wire == {<<2 * i - 1, 2 * i>> : i \in DOMAIN order}
<1>3. ASSUME NEW e \in 1 .. 2 * n
      PROVE  at(e) \in Element /\ (at(e).type = "web" => at(e).ref \in 1 .. n)
  <2>1. CASE e % 2 = 1
    <3>1. (e + 1) \div 2 \in 1 .. n
      BY <1>1, <2>1
    <3>2. order[(e + 1) \div 2] \in Nat
      BY <1>2, <3>1, SyncAssumption
    <3> QED
      BY <2>1, <3>2 DEF Element
  <2>2. CASE e % 2 # 1
    <3>1. e \div 2 \in 1 .. n
      BY <1>1, <2>2
    <3> QED
      BY <1>1, <2>2, <3>1 DEF Element
  <2> QED
    BY <2>1, <2>2
<1> HIDE DEF at
<1>4. elem \in Seq(Element \cup {Gone}) /\ Len(elem) = 2 * n
  <2>1. elem \in [1 .. 2 * n -> Element \cup {Gone}] /\ 2 * n \in Nat
    BY <1>1, <1>3
  <2> QED
    BY <2>1
<1>5. wire \in SUBSET (Nat \X Nat)
  BY <1>1, <1>2
<1>6. WiredPlan(order) = [elem |-> elem, wire |-> wire, logic |-> {}]
  BY DEF WiredPlan, at, n
<1> HIDE DEF elem, wire
<1>7. WiredPlan(order) \in Plan
  BY <1>4, <1>5, <1>6 DEF Plan
<1>8. Held(WiredPlan(order)) \subseteq 1 .. n
  <2>1. WiredPlan(order).elem = elem
    BY <1>6
  <2>2. \A e \in 1 .. Len(elem) : elem[e] = at(e)
    BY <1>4 DEF elem
  <2> QED
    BY <1>3, <1>4, <2>1, <2>2 DEF Held, OfType, Elements
<1> QED
  BY <1>1, <1>2, <1>7, <1>8 DEF n

LEMMA InitHolds == Init => IInv
<1> SUFFICES ASSUME NEW wired \in BOOLEAN, NEW order \in Orders, Begins(wired, order)
             PROVE  IInv
  BY DEF Init
<1> DEFINE n == Cardinality(Sources)
<1>1. /\ n \in Nat /\ DOMAIN order = 1 .. n
      /\ \A i \in 1 .. n : order[i] \in Sources
      /\ WiredPlan(order) \in Plan /\ WiredPlan(order) # Gone
      /\ Held(WiredPlan(order)) \subseteq 1 .. n
  BY WiredPlanIsPlan, SyncAssumption
<1> HIDE DEF n
<1>2. InitialSource \in Source
  BY SyncAssumption DEF InitialSource, Source
<1>3. /\ command \in Seq(Command \cup {Gone})
      /\ wired => DOMAIN command = 1 .. n /\ \A c \in 1 .. n : command[c] \in Command
  <2>1. CASE wired
    <3>1. command = [c \in 1 .. n |-> Saved([of |-> order[c], to |-> InitialSource])]
      BY <1>1, <2>1 DEF Begins
    <3>2. \A c \in 1 .. n : Saved([of |-> order[c], to |-> InitialSource]) \in Command
      BY <1>1, <1>2 DEF Saved, Command, Source
    <3>3. command \in [1 .. n -> Command]
      BY <3>1, <3>2
    <3> QED
      BY <1>1, <3>3
  <2>2. CASE ~wired
    BY <2>2 DEF Begins
  <2> QED
    BY <2>1, <2>2
<1>4. ComexioTypes
  BY <1>1, <1>2, <1>3 DEF Begins, ComexioTypes, IsPlan
<1>5. HaTypes
  BY <1>1, <1>2, <1>3, <1>4, EmptyPlanIsPlan, EmptyAuditIsAudit DEF Begins, HaTypes, IsPlan,
     ComexioTypes, Reading
<1>6. SyncTypes
  BY NoContextIsContext DEF Begins, SyncTypes, Requests
<1>7. pc = "idle" /\ ctx = NoContext /\ before = Gone
  BY DEF Begins
<1>8. PlanThere
  BY <1>1, <1>7 DEF PlanThere, Begins, Cutting, Placing
<1>9. UsedAreKnown /\ UsedCommandsStay
  <2>1. OwnIds = {}
    BY DEF OwnIds, Begins
  <2>2. CASE wired
    <3>1. Held(plan) \subseteq 1 .. n
      BY <1>1, <2>2 DEF Begins
    <3> QED
      BY <1>3, <2>1, <2>2, <3>1, SyncAssumption DEF UsedAreKnown, UsedCommandsStay, InUse
  <2>3. CASE ~wired
    <3>1. Held(plan) = {}
      BY <2>3 DEF Begins, Held, OfType, Elements
    <3> QED
      BY <2>1, <3>1 DEF UsedAreKnown, UsedCommandsStay, InUse
  <2> QED
    BY <2>2, <2>3
<1>10. CommandsInv
  BY <1>7, <1>9 DEF CommandsInv, OwnUnseen, OrphansFree, CleanableFree, ReadStill
<1>11. RunsInv
  BY <1>7 DEF RunsInv, Passes, NoContext, Cutting
<1> QED
  BY <1>4, <1>5, <1>6, <1>8, <1>10, <1>11 DEF IInv, Types

-----------------------------------------------------------------------------
(* Types are kept.                                                             *)

LEMMA AuditsTypes ==
  ASSUME Types, NEW plans, IsPlan(plans), Audits(plans), UNCHANGED comexio
  PROVE  ComexioTypes' /\ HaTypes' /\ quiet' \in BOOLEAN
<1> DEFINE known == {x \in ignored : source[x] # Gone}
<1>1. ComexioTypes'
  BY DEF Types, ComexioTypes, comexio, webio, managed, IsPlan
<1>2. Read \in Reading
  BY ReadIsReading DEF Types
<1>3. known \in SUBSET Sources
  BY DEF Types, HaTypes
<1> HIDE DEF known
<1>4. audit' \in AuditType /\ loading' \in BOOLEAN
  BY <1>2, <1>3, CompareIsAudit, EmptyAuditIsAudit DEF Audits, known
<1>5. data' = Read /\ ignored' = known /\ snap' = plans /\ listed' = [runs |-> runs, own |-> own # Gone]
  BY DEF Audits, known
<1>6. HaTypes'
  BY <1>2, <1>3, <1>4, <1>5 DEF HaTypes, Types, ComexioTypes, IsPlan
<1> QED
  BY <1>1, <1>6 DEF Audits

LEMMA PollTypes == ASSUME Types, Poll PROVE Types'
<1>1. ComexioTypes' /\ HaTypes' /\ quiet' \in BOOLEAN
  BY AuditsTypes DEF Poll, Types, HaTypes
<1> QED
  BY <1>1 DEF Poll, Types, SyncTypes

LEMMA FinishesTypes == ASSUME Types, Finishes PROVE Types'
<1>1. IsPlan(Gone)
  BY DEF IsPlan
<1>2. ComexioTypes' /\ HaTypes' /\ quiet' \in BOOLEAN
  BY <1>1, AuditsTypes DEF Finishes
<1> QED
  BY <1>2, NoContextIsContext DEF Finishes, Types, SyncTypes, Requests

LEMMA LoadsPlansTypes == ASSUME Types, LoadsPlans PROVE Types'
BY EmptyPlanIsPlan DEF LoadsPlans, Types, ComexioTypes, HaTypes, SyncTypes, IsPlan,
   comexio, webio, managed

LEMMA EditsPlanIsPlan ==
  ASSUME plan \in Plan, EditsPlan
  PROVE  plan' \in Plan /\ Held(plan') \subseteq Held(plan)
<1>1. plan # Gone
  BY SyncAssumption
<1>2. CASE \E e \in Elements(plan) : plan' = Without(plan, {e})
  BY <1>2, WithoutIsPlan
<1>3. CASE plan' \in Plan /\ plan'.elem = plan.elem
  BY <1>1, <1>3 DEF Held, OfType, Elements
<1>4. ASSUME NEW e \in Elements(plan), plan' = [plan EXCEPT !.logic = @ \cup {e}]
      PROVE  plan' \in Plan /\ plan'.elem = plan.elem
  <2>1. e \in Nat
    BY <1>1 DEF Elements, Plan
  <2> QED
    BY <1>4, <2>1 DEF Plan
<1>5. ASSUME NEW e \in OfType(plan, "src"), NEW f \in OfType(plan, "web"), plan' = [plan EXCEPT !.wire = @ \cup {<<e, f>>}]
      PROVE  plan' \in Plan /\ plan'.elem = plan.elem
  <2>1. e \in Nat /\ f \in Nat
    BY <1>1 DEF OfType, Elements, Plan
  <2> QED
    BY <1>5, <2>1 DEF Plan
<1>6. ASSUME NEW w \in plan.wire, plan' = [plan EXCEPT !.wire = @ \ {w}]
      PROVE  plan' \in Plan /\ plan'.elem = plan.elem
  BY <1>6 DEF Plan
<1> QED
  BY <1>2, <1>3, <1>4, <1>5, <1>6 DEF EditsPlan

LEMMA EditTypes == ASSUME Types, NEW kind, Edit(kind) PROVE
  /\ device' \in BOOLEAN /\ class' \in BOOLEAN /\ data' \in Reading /\ audit' \in AuditType
  /\ (IsPlan(snap))' /\ loading' \in BOOLEAN /\ listed' \in [runs : BOOLEAN, own : BOOLEAN]
  /\ pc' \in Requests /\ ctx' \in ContextType /\ cancel' \in BOOLEAN /\ quiet' \in BOOLEAN
BY DEF Edit, Types, ComexioTypes, HaTypes, SyncTypes, IsPlan

LEMMA UserTypes == ASSUME Types, User PROVE Types'
<1>1. CASE EditsMarker
  <2>1. source' \in [Sources -> Source \cup {Gone}]
    BY <1>1 DEF EditsMarker, Types, ComexioTypes, Source
  <2> QED
    BY <1>1, <2>1, EditTypes DEF EditsMarker, Types, ComexioTypes, HaTypes, SyncTypes, IsPlan
<1>2. CASE CopiesCommand
  <2>1. PICK c \in Present(command), title \in Titles :
            command' = Append(command, [command[c] EXCEPT !.title = title])
    BY <1>2 DEF CopiesCommand
  <2>2. command \in Seq(Command \cup {Gone}) /\ command[c] \in Command
    BY PresentIds DEF Types, ComexioTypes
  <2>3. [command[c] EXCEPT !.title = title] \in Command
    BY <2>2 DEF Command
  <2>4. command' \in Seq(Command \cup {Gone})
    BY <2>1, <2>2, <2>3
  <2> QED
    BY <1>2, <2>4, EditTypes DEF CopiesCommand, Types, ComexioTypes, HaTypes, SyncTypes, IsPlan
<1>3. CASE DeletesCommand
  <2>1. PICK c \in Present(command) : command' = [command EXCEPT ![c] = Gone] /\ excused' = excused \cup {c}
    BY <1>3 DEF DeletesCommand
  <2>2. command \in Seq(Command \cup {Gone}) /\ c \in Nat
    BY PresentIds DEF Types, ComexioTypes
  <2>3. command' \in Seq(Command \cup {Gone})
    BY <2>1, <2>2, ChangedEntry
  <2> QED
    BY <1>3, <2>1, <2>2, <2>3, EditTypes DEF DeletesCommand, Types, ComexioTypes, HaTypes, SyncTypes,
       IsPlan
<1>4. CASE UsesCommand
  <2>1. Present(command) \subseteq Nat
    BY PresentIds DEF Types, ComexioTypes
  <2>2. OwnIds \subseteq Nat
    BY DEF OwnIds, Types, ComexioTypes
  <2>3. own' \subseteq Nat /\ excused' \subseteq Nat
    BY <1>4, <2>1, <2>2 DEF UsesCommand, Types, SyncTypes
  <2> QED
    BY <1>4, <2>3, EditTypes DEF UsesCommand, Types, ComexioTypes, HaTypes, SyncTypes, IsPlan
<1>5. CASE EditsPlan
  <2>1. plan' \in Plan
    BY <1>5, EditsPlanIsPlan DEF EditsPlan, Types, ComexioTypes, IsPlan
  <2> QED
    BY <1>5, <2>1, EditTypes DEF EditsPlan, Types, ComexioTypes, HaTypes, SyncTypes, IsPlan
<1>6. CASE SwitchesPlan
  BY <1>6, EditTypes DEF SwitchesPlan, Types, ComexioTypes, HaTypes, SyncTypes, IsPlan
<1>7. CASE Ignores
  <2>1. ignored' \in SUBSET Sources
    BY <1>7 DEF Ignores, Types, HaTypes
  <2>2. audit' \in AuditType /\ (IsPlan(snap))' /\ loading' \in BOOLEAN
    BY <1>7, EmptyAuditIsAudit DEF Ignores, Types, HaTypes, IsPlan
  <2> QED
    BY <1>7, <2>1, <2>2 DEF Ignores, Types, ComexioTypes, HaTypes, SyncTypes, IsPlan, comexio, webio,
       managed
<1>8. CASE Cancel
  BY <1>8 DEF Cancel, Types, ComexioTypes, HaTypes, SyncTypes, IsPlan, comexio, webio, managed, ha
<1>9. ASSUME NEW a \in Actions, Press(a) PROVE Types'
  <2>1. ctx' \in ContextType
    BY <1>9, NoContextIsContext DEF Press, ContextType
  <2> QED
    BY <1>9, <2>1 DEF Press, Types, ComexioTypes, HaTypes, SyncTypes, IsPlan, comexio, webio, managed,
       ha,
       Requests, Early
<1> QED
  BY <1>1, <1>2, <1>3, <1>4, <1>5, <1>6, <1>7, <1>8, <1>9 DEF User

\* What a step of the sync leaves alone.
LEMMA StepTypes ==
  ASSUME Types, NEW at, Step(at)
  PROVE  /\ source' \in [Sources -> Source \cup {Gone}] /\ (own' = Gone \/ own' \subseteq Nat)
         /\ ignored' \subseteq Sources /\ data' \in Reading /\ audit' \in AuditType
         /\ IsPlan(snap') /\ loading' \in BOOLEAN
         /\ cancel' \in BOOLEAN /\ quiet' \in BOOLEAN /\ before' \in BOOLEAN \cup {Gone}
         /\ excused' \subseteq Nat
         /\ (listed' \in [runs : BOOLEAN, own : BOOLEAN] => HaTypes')
BY DEF Step, users, Types, ComexioTypes, HaTypes, SyncTypes

\* A step that changes nothing but what the sync holds.
LEMMA QuietTypes ==
  ASSUME Types, NEW at, Step(at), Quietly, pc' \in Requests, ctx' \in ContextType
  PROVE  Types'
<1>1. listed' \in [runs : BOOLEAN, own : BOOLEAN]
  BY DEF Quietly, Types, HaTypes
<1> QED
  BY <1>1, StepTypes DEF Quietly, webio, managed, Types, ComexioTypes, SyncTypes, IsPlan

LEMMA ReportedIsContext == ASSUME ctx \in ContextType PROVE Reported \in ContextType
BY DEF Reported, ContextType

LEMMA LooksUpDeviceTypes == ASSUME Types, LooksUpDevice PROVE Types'
<1>1. ctx \in ContextType /\ audit \in AuditType /\ ignored \subseteq Sources
  BY DEF Types, SyncTypes, HaTypes
<1>2. CASE Aborts
  BY <1>1, <1>2, ReportedIsContext, QuietTypes DEF Aborts, LooksUpDevice, Requests
<1>3. CASE ~Aborts
  <2> DEFINE a == ctx.action
             cleaned == IF a = "cleanup_entities" THEN audit.cleanup \cap ignored ELSE {}
             dangling == IF a \in {"full_sync", "delete_orphans"} THEN audit.dangling ELSE {}
             toWire == IF a \in {"full_sync", "function_plan_add_missing"} THEN audit.gap ELSE {}
  <2>1. TasksOf(a, audit) \in TaskType
    BY <1>1, NoWishes DEF TasksOf, AuditType, TaskType
  <2>2. cleaned \in SUBSET Sources /\ dangling \in SUBSET Sources /\ toWire \in SUBSET Sources
    BY <1>1 DEF AuditType
  <2>3. /\ ctx' = [ctx EXCEPT !.dev = device, !.task = TasksOf(a, audit), !.dangling = dangling,
                             !.toWire = toWire, !.cleaned = cleaned]
        /\ pc' = CASE a = "cleanup_entities" -> IF cleaned = {} THEN "done" ELSE "find"
                   [] a = "function_plan_add_missing" -> "wire"
                   [] OTHER -> "class"
    BY <1>3 DEF LooksUpDevice
  <2>4. device \in BOOLEAN
    BY DEF Types, ComexioTypes
  <2> HIDE DEF cleaned, dangling, toWire
  <2>5. ctx' \in ContextType
    BY <1>1, <2>1, <2>2, <2>3, <2>4 DEF ContextType
  <2>6. pc' \in Requests
    BY <2>3 DEF Requests, Early
  <2> QED
    BY <2>5, <2>6, QuietTypes DEF LooksUpDevice
<1> QED
  BY <1>2, <1>3

LEMMA CreatedCommands ==
  ASSUME NEW cmds \in Seq(Command \cup {Gone}), NEW items \in Wishes
  PROVE  /\ cmds \o Created(items) \in Seq(Command \cup {Gone})
         /\ DOMAIN cmds \subseteq DOMAIN (cmds \o Created(items))
         /\ \A c \in DOMAIN cmds : (cmds \o Created(items))[c] = cmds[c]
<1> DEFINE n == Cardinality(items)
           order == SetToSeq(items)
<1>1. n \in Nat /\ ExistsBijection(1 .. n, items)
  BY FS_CardinalityType DEF Wishes
<1>2. \E f \in [1 .. n -> items] : IsInjective(f)
  BY <1>1 DEF ExistsBijection, Bijection, Injection, IsInjective
<1>3. order \in [1 .. n -> items]
  BY <1>2 DEF SetToSeq
<1>4. \A i \in 1 .. n : order[i] \in [of : Sources, to : Source]
  BY <1>3 DEF Wishes
<1> HIDE DEF order, n
<1>5. \A i \in 1 .. n : Saved(order[i]) \in Command
  BY <1>4 DEF Saved, Source, Command
<1>6. Created(items) = [i \in 1 .. n |-> Saved(order[i])]
  BY DEF Created, n, order
<1>7. Created(items) \in Seq(Command \cup {Gone})
  <2>1. Created(items) \in [1 .. n -> Command \cup {Gone}]
    BY <1>5, <1>6
  <2> QED
    BY <1>1, <2>1
<1> HIDE DEF Created
<1> QED
  BY <1>7

LEMMA RecreatesTypes == ASSUME Types, DecidesAction \/ Recreates PROVE Types'
<1>1. ctx \in ContextType /\ command \in Seq(Command \cup {Gone}) /\ data \in Reading
  BY DEF Types, SyncTypes, ComexioTypes, HaTypes
<1>2. CASE DecidesAction
  BY <1>1, <1>2, QuietTypes DEF DecidesAction, Requests, Early
<1>3. CASE DeletesDevice
  <2>1. command' \in Seq(Command \cup {Gone}) /\ device' \in BOOLEAN
    <3>1. [c \in DOMAIN command |-> Gone] \in Seq(Command \cup {Gone})
      BY <1>1
    <3> QED
      BY <1>3, <3>1 DEF DeletesDevice, Quietly, webio, Types, ComexioTypes
  <2>2. pc' \in Requests
    BY <1>3 DEF DeletesDevice, Requests, Early
  <2>3. class' = class /\ plan' = plan /\ runs' = runs /\ listed' = listed /\ ctx' = ctx
    BY <1>3 DEF DeletesDevice, Quietly, webio, managed
  <2> QED
    BY <1>3, <2>1, <2>2, <2>3, StepTypes DEF DeletesDevice, Types, ComexioTypes, HaTypes, SyncTypes,
       IsPlan
<1>4. CASE ConfirmsDeviceGone
  BY <1>1, <1>4, QuietTypes DEF ConfirmsDeviceGone, Requests, Early
<1>5. CASE LooksUpClass
  <2>1. Template \in Wishes
    <3>1. Wanted(data, ignored) \in SUBSET Sources
          /\ \A x \in Wanted(data, ignored) : data.source[x] \in Source
      BY <1>1 DEF Wanted, Reading
    <3> QED
      BY <1>1, <3>1, WishesFinite DEF Template
  <2>2. [NoTasks EXCEPT !.create = Template] \in TaskType
    BY <2>1, NoContextIsContext DEF TaskType
  <2>3. CASE Aborts
    BY <1>1, <1>5, <2>3, QuietTypes, ReportedIsContext DEF LooksUpClass, Aborts, Requests
  <2>4. CASE ctx' = [ctx EXCEPT !.task = [NoTasks EXCEPT !.create = Template]]
             /\ pc' = IF class THEN "delete class" ELSE "upload"
    <3>1. ctx' \in ContextType
      BY <1>1, <2>2, <2>4 DEF ContextType
    <3> QED
      BY <1>5, <2>4, <3>1, QuietTypes DEF LooksUpClass, Requests, Early
  <2> QED
    BY <1>5, <2>3, <2>4 DEF LooksUpClass
<1>6. CASE DeletesClass
  BY <1>1, <1>6, StepTypes, ReportedIsContext
     DEF DeletesClass, Aborts, managed, Types, ComexioTypes, HaTypes, SyncTypes, IsPlan, Requests, Early
<1>7. CASE Uploads
  BY <1>1, <1>7, StepTypes, ReportedIsContext
     DEF Uploads, Aborts, managed, Types, ComexioTypes, HaTypes, SyncTypes, IsPlan, Requests, Early
<1>8. CASE CreatesDevice
  <2>1. \A x \in Wanted(data, ignored) : x \in Sources
    BY DEF Wanted
  <2>2. [ctx EXCEPT !.task = NoTasks, !.toWire = @ \cup Wanted(data, ignored)] \in ContextType
    BY <1>1, <2>1, NoContextIsContext DEF ContextType
  <2>3. ctx' \in ContextType /\ pc' \in Requests
    BY <1>8, <1>1, <2>2, ReportedIsContext DEF CreatesDevice, Aborts, Requests
  <2>4. command \o Created(ctx.task.create) \in Seq(Command \cup {Gone})
    BY <1>1, CreatedCommands DEF ContextType, TaskType
  <2>5. command' \in Seq(Command \cup {Gone}) /\ device' \in BOOLEAN
    BY <1>1, <1>8, <2>4 DEF CreatesDevice, Types, ComexioTypes
  <2> QED
    BY <1>8, <2>3, <2>5, StepTypes
       DEF CreatesDevice, managed, Types, ComexioTypes, HaTypes, SyncTypes, IsPlan
<1> QED
  BY <1>2, <1>3, <1>4, <1>5, <1>6, <1>7, <1>8 DEF Recreates

LEMMA WireEnds ==
  ASSUME NEW p \in Plan, NEW e
  PROVE  Feeds(p, e) \subseteq Nat /\ FedBy(p, e) \subseteq Nat
BY DEF Plan, Feeds, FedBy

\* What may be cut out of a plan are elements by their numbers; of no plan, nothing.
LEMMA CutsAreElements ==
  ASSUME NEW p, IsPlan(p), NEW ids, NEW refs
  PROVE  /\ Unwirings(p, ids) \in SUBSET Nat /\ LeftOvers(p, refs) \in SUBSET Nat
         /\ CleanedUp(p, refs) \in SUBSET Nat
         /\ p \in {Gone, EmptyPlan} => /\ Unwirings(p, ids) = {} /\ LeftOvers(p, refs) = {}
                                       /\ CleanedUp(p, refs) = {}
<1>1. CASE p \in {Gone, EmptyPlan}
  <2>1. Elements(p) = {}
    BY <1>1 DEF Elements, EmptyPlan
  <2>2. \A type, ref : Find(p, type, ref) = {} /\ OfType(p, type) = {}
    BY <2>1 DEF Find, OfType
  <2>3. \A c \in ids : Unwiring(p, c) = {}
    BY <2>2 DEF Unwiring
  <2>4. Unwirings(p, ids) = {}
    BY <2>3 DEF Unwirings
  <2>5. SourcesOf(p, refs) = {} /\ LeftOvers(p, refs) = {}
    BY <2>2 DEF SourcesOf, LeftOvers
  <2>6. CleanedUp(p, refs) = {}
    BY <2>5 DEF CleanedUp
  <2> QED
    BY <2>4, <2>5, <2>6
<1>2. CASE p \in Plan /\ p \notin {Gone, EmptyPlan}
  <2>1. \A type, ref : Find(p, type, ref) \subseteq Nat /\ OfType(p, type) \subseteq Nat
    BY <1>2, ElementsBelow DEF Find, OfType
  <2>2. \A e : Feeds(p, e) \subseteq Nat /\ FedBy(p, e) \subseteq Nat
    BY <1>2, WireEnds
  <2>3. ASSUME NEW c PROVE Unwiring(p, c) \subseteq Nat
    <3>1. ASSUME NEW x \in Unwiring(p, c) PROVE x \in Nat
      <4>1. PICK f \in Find(p, "web", c) :
                x \in IF f \in p.logic \/ Feeds(p, f) # {} \/ Cardinality(FedBy(p, f)) > 1 THEN {}
                        ELSE {f} \cup {e \in FedBy(p, f) : ~Shared(p, e, c)}
        BY <3>1 DEF Unwiring
      <4>2. x = f \/ x \in FedBy(p, f)
        BY <4>1
      <4> QED
        BY <2>1, <2>2, <4>2
    <3> QED
      BY <3>1
  <2>4. Unwirings(p, ids) \subseteq Nat
    BY <2>3 DEF Unwirings
  <2>5. LeftOvers(p, refs) \subseteq Nat /\ SourcesOf(p, refs) \subseteq Nat
    BY <2>1 DEF LeftOvers, SourcesOf
  <2>6. \A e : OwnWebs(p, e) \subseteq Nat
    BY <2>2 DEF OwnWebs
  <2>7. CleanedUp(p, refs) \subseteq Nat
    <3>1. ASSUME NEW x \in CleanedUp(p, refs) PROVE x \in Nat
      <4> DEFINE webs == {OwnWebs(p, e) : e \in SourcesOf(p, refs)}
                 bare == {e \in SourcesOf(p, refs) : ~WiredOtherwise(p, e)}
      <4>0. CleanedUp(p, refs) = (UNION webs) \cup bare
        BY DEF CleanedUp
      <4>1. x \in UNION webs \/ x \in bare
        BY <3>1, <4>0
      <4> QED
        BY <2>5, <2>6, <4>1
    <3> QED
      BY <3>1
  <2> QED
    BY <1>2, <2>4, <2>5, <2>7
<1> QED
  BY <1>1, <1>2 DEF IsPlan

LEMMA CheckDataIsPlan ==
  ASSUME Types
  PROVE  IsPlan(CheckData)
BY DEF CheckData, Types, ComexioTypes, HaTypes

LEMMA CutsTypes ==
  ASSUME Types, NEW at, Step(at), Quietly, NEW elems \in SUBSET Nat,
         NEW after \in {"dangling", "sort"}, Cuts(elems, after)
  PROVE  Types'
<1>1. ctx \in ContextType
  BY DEF Types, SyncTypes
<1>2. ctx' \in ContextType
  <2>1. [ctx EXCEPT !.cut = elems, !.after = after] \in ContextType
    BY <1>1 DEF ContextType
  <2>2. [Reported EXCEPT !.after = after] \in ContextType
    BY <1>1, ReportedIsContext DEF ContextType
  <2> QED
    BY <2>1, <2>2 DEF Cuts
<1>3. pc' \in Requests
  BY DEF Cuts, Requests, Cutting
<1> QED
  BY <1>2, <1>3, QuietTypes

LEMMA TouchedIs ==
  ASSUME ctx \in ContextType
  PROVE  \/ Cleaning /\ Touched = ctx
         \/ \E r \in {"no", "ran", "stood"} :
               /\ ~Cleaning /\ Touched = [ctx EXCEPT !.resort = r]
               /\ r = IF ctx.resort # "no" THEN ctx.resort ELSE IF ctx.ran THEN "ran" ELSE "stood"
<1>1. CASE Cleaning
  BY <1>1 DEF Touched
<1>2. CASE ~Cleaning
  <2> DEFINE r == IF ctx.resort # "no" THEN ctx.resort ELSE IF ctx.ran THEN "ran" ELSE "stood"
  <2>1. r \in {"no", "ran", "stood"}
    BY DEF ContextType
  <2>2. Touched = [ctx EXCEPT !.resort = r]
    BY <1>2 DEF Touched
  <2> QED
    BY <1>2, <2>1, <2>2
<1> QED
  BY <1>1, <1>2

LEMMA DebrisTypes ==
  ASSUME Types, PlanThere, Debris
  PROVE  Types'
<1>1. ctx \in ContextType /\ runs \in BOOLEAN /\ listed \in [runs : BOOLEAN, own : BOOLEAN]
  BY DEF Types, SyncTypes, ComexioTypes, HaTypes
<1>2. ctx.task.delete \in SUBSET Nat
  BY <1>1 DEF ContextType, TaskType
<1>3. CASE Unwires
  <2>1. CASE Cuts(Unwirings(CheckData, ctx.task.delete), "dangling")
    <3>1. Unwirings(CheckData, ctx.task.delete) \in SUBSET Nat
      BY CheckDataIsPlan, CutsAreElements
    <3> HIDE DEF Unwirings, CheckData
    <3> QED
      BY <1>3, <2>1, <3>1, CutsTypes DEF Unwires
  <2>2. CASE ~Cuts(Unwirings(CheckData, ctx.task.delete), "dangling")
    BY <1>1, <1>3, <2>2, QuietTypes DEF Unwires, Requests
  <2> QED
    BY <2>1, <2>2
<1>4. CASE CleansLeftOvers
  <2>1. CASE Cuts(LeftOvers(CheckData, ctx.dangling), "sort")
    <3>1. LeftOvers(CheckData, ctx.dangling) \in SUBSET Nat
      BY CheckDataIsPlan, CutsAreElements
    <3> HIDE DEF LeftOvers, CheckData
    <3> QED
      BY <1>4, <2>1, <3>1, CutsTypes DEF CleansLeftOvers
  <2>2. CASE ~Cuts(LeftOvers(CheckData, ctx.dangling), "sort")
    BY <1>1, <1>4, <2>2, QuietTypes DEF CleansLeftOvers, Requests
  <2> QED
    BY <2>1, <2>2
<1>5. NothingCut \in ContextType
  BY <1>1, ReportedIsContext DEF NothingCut, ContextType
<1>6. ctx.after \in Requests
  BY <1>1 DEF ContextType, Requests
<1>7. CASE StopsPlan
  <2>1. [ctx EXCEPT !.ran = runs] \in ContextType
    BY <1>1 DEF ContextType
  <2>2. ctx' \in ContextType /\ pc' \in Requests /\ runs' \in BOOLEAN
    BY <1>1, <1>5, <1>6, <1>7, <2>1 DEF StopsPlan, Requests, Cutting
  <2> QED
    BY <1>1, <1>7, <2>2, StepTypes DEF StopsPlan, webio, Types, ComexioTypes, SyncTypes, IsPlan
<1>8. CASE ErasesElements
  <2>1. plan \in Plan
    BY <1>8 DEF ErasesElements, Step, PlanThere, Cutting, Types, ComexioTypes, IsPlan
  <2>2. plan' \in Plan
    BY <1>8, <2>1, WithoutIsPlan DEF ErasesElements
  <2>3. Touched \in ContextType
    <3>1. \A r \in {"no", "ran", "stood"} : [ctx EXCEPT !.resort = r] \in ContextType
      BY <1>1 DEF ContextType
    <3> QED
      BY <1>1, <3>1, TouchedIs
  <2>4. ctx' \in ContextType /\ pc' \in Requests
    BY <1>5, <1>6, <1>8, <2>3 DEF ErasesElements, Requests, Cutting
  <2> QED
    BY <1>1, <1>8, <2>2, <2>4, StepTypes DEF ErasesElements, webio, Types, ComexioTypes, SyncTypes,
       IsPlan
<1>9. CASE RestartsPlan
  <2>1. ctx' \in ContextType /\ runs' \in BOOLEAN /\ listed' \in [runs : BOOLEAN, own : BOOLEAN]
    BY <1>1, <1>9, ReportedIsContext DEF RestartsPlan, Started
  <2> QED
    BY <1>6, <1>9, <2>1, StepTypes DEF RestartsPlan, webio, Types, ComexioTypes, SyncTypes, IsPlan
<1> QED
  BY <1>3, <1>4, <1>7, <1>8, <1>9 DEF Debris

LEMMA SortTypes ==
  ASSUME Types, SortsPlan \/ RunsSorted \/ RunsAgain
  PROVE  Types'
<1>1. ctx \in ContextType /\ runs \in BOOLEAN /\ listed \in [runs : BOOLEAN, own : BOOLEAN]
  BY DEF Types, SyncTypes, ComexioTypes, HaTypes
<1>2. AfterSort \in Requests /\ Reported \in ContextType
  BY <1>1, ReportedIsContext DEF AfterSort, Requests
<1>3. /\ ctx' \in ContextType /\ runs' \in BOOLEAN /\ listed' \in [runs : BOOLEAN, own : BOOLEAN]
      /\ pc' \in Requests
  <2>1. CASE SortsPlan
    BY <1>1, <1>2, <2>1 DEF SortsPlan, Requests
  <2>2. CASE RunsSorted
    BY <1>1, <1>2, <2>2 DEF RunsSorted, Started, Requests
  <2>3. CASE RunsAgain
    BY <1>1, <1>2, <2>3 DEF RunsAgain, Started, Requests
  <2> QED
    BY <2>1, <2>2, <2>3
<1>4. \E at : Step(at)
  BY DEF SortsPlan, RunsSorted, RunsAgain
<1>5. UNCHANGED <<webio, plan>>
  BY DEF SortsPlan, RunsSorted, RunsAgain
<1> QED
  BY <1>3, <1>4, <1>5, StepTypes DEF webio, Types, ComexioTypes, SyncTypes, IsPlan

LEMMA CleanableIds == ASSUME Types PROVE Cleanable \in SUBSET Nat
BY PresentIds DEF Types, HaTypes, Reading, Cleanable

LEMMA ChecksTypes ==
  ASSUME Types, NEW at, NEW wanted \in SUBSET Nat, NEW bulk \in Requests, NEW after \in Requests,
         Checks(at, wanted, bulk, after) \/ ReadsPlans(at, wanted, after)
  PROVE  Types'
<1>1. ctx \in ContextType /\ listed \in [runs : BOOLEAN, own : BOOLEAN] /\ runs \in BOOLEAN
  BY DEF Types, SyncTypes, ComexioTypes, HaTypes
<1>2. CASE Checks(at, wanted, bulk, after)
  <2>1. [Reported EXCEPT !.kept = wanted] \in ContextType
    BY <1>1, ReportedIsContext DEF ContextType
  <2>2. /\ [ctx EXCEPT !.ownListed = own # Gone] \in ContextType
        /\ [runs |-> runs, own |-> own # Gone] \in [runs : BOOLEAN, own : BOOLEAN]
    BY <1>1 DEF ContextType
  <2>3. /\ ctx' \in {ctx, [Reported EXCEPT !.kept = wanted], [ctx EXCEPT !.ownListed = own # Gone]}
        /\ listed' \in {listed, [runs |-> runs, own |-> own # Gone]} /\ pc' \in {bulk, after}
    BY <1>2 DEF Checks
  <2>4. ctx' \in ContextType /\ pc' \in Requests /\ listed' \in [runs : BOOLEAN, own : BOOLEAN]
    BY <1>1, <2>1, <2>2, <2>3
  <2> QED
    BY <1>2, <2>4, StepTypes DEF Checks, webio, managed, Types, ComexioTypes, SyncTypes, IsPlan
<1>3. CASE ReadsPlans(at, wanted, after)
  <2>1. [Reported EXCEPT !.kept = wanted] \in ContextType
    BY <1>1, ReportedIsContext DEF ContextType
  <2>2. [ctx EXCEPT !.kept = wanted \cap PlacedIds] \in ContextType
    BY <1>1 DEF ContextType
  <2>3. ctx' \in ContextType
    BY <1>3, <2>1, <2>2 DEF ReadsPlans
  <2> QED
    BY <1>3, <2>3, QuietTypes DEF ReadsPlans
<1> QED
  BY <1>2, <1>3

LEMMA CheckTypes ==
  ASSUME Types, ListsPlans \/ ChecksOrphans \/ ListsPlansForCleanup \/ ChecksCleanable
  PROVE  Types'
<1>1. ctx.task.delete \in SUBSET Nat /\ (IF cancel THEN {} ELSE ctx.task.delete) \in SUBSET Nat
  BY DEF Types, SyncTypes, ContextType, TaskType
<1>2. Cleanable \in SUBSET Nat
  BY CleanableIds
<1>3. {"bulk", "tasks", "deletable", "done", "delete"} \subseteq Requests
  BY DEF Requests
<1> HIDE DEF Requests, Cleanable
<1> QED
  BY <1>1, <1>2, <1>3, ChecksTypes DEF ListsPlans, ChecksOrphans, ListsPlansForCleanup, ChecksCleanable

LEMMA WritingTypes ==
  ASSUME Types, NEW effect \in Seq(Command \cup {Gone}), NEW possible \in BOOLEAN, NEW done \in ContextType,
         Writing(effect, possible, done)
  PROVE  command' \in Seq(Command \cup {Gone}) /\ ctx' \in ContextType
<1>1. ctx \in ContextType /\ command \in Seq(Command \cup {Gone})
  BY DEF Types, SyncTypes, ComexioTypes
<1>2. [done EXCEPT !.failed = TRUE, !.toWire = ctx.toWire] \in ContextType
  BY <1>1 DEF ContextType
<1> QED
  BY <1>1, <1>2 DEF Writing

\* The tasks that are left once one is done.
LEMMA TasksLeft ==
  ASSUME ctx \in ContextType, NEW t
  PROVE  /\ ctx.task \in TaskType
         /\ \A field \in {"rename", "delete", "create", "type"} :
               [ctx EXCEPT !.task[field] = @ \ {t}] \in ContextType
<1>1. ctx.task \in TaskType
  BY DEF ContextType
<1>2. ctx.task.create \ {t} \in Wishes
  BY <1>1, FS_RemoveElement DEF TaskType, Wishes
<1>3. ASSUME NEW field \in {"rename", "delete", "create", "type"}
      PROVE  [ctx EXCEPT !.task[field] = @ \ {t}] \in ContextType
  <2>1. [ctx.task EXCEPT ![field] = ctx.task[field] \ {t}] \in TaskType
    BY <1>1, <1>2, <1>3 DEF TaskType
  <2>2. [ctx EXCEPT !.task[field] = @ \ {t}] = [ctx EXCEPT !.task = [ctx.task EXCEPT ![field] = ctx.task[field] \ {t}]]
    BY DEF ContextType
  <2> QED
    BY <2>1, <2>2 DEF ContextType
<1> QED
  BY <1>1, <1>3

LEMMA RunsTaskTypes == ASSUME Types, RunsTask PROVE Types'
<1>1. ctx \in ContextType /\ command \in Seq(Command \cup {Gone}) /\ device \in BOOLEAN
  BY DEF Types, SyncTypes, ComexioTypes
<1>2. ctx.task \in TaskType
  BY <1>1, TasksLeft
<1>3. ASSUME NEW field \in {"rename", "type"}, Saves(field)
      PROVE  command' \in Seq(Command \cup {Gone}) /\ ctx' \in ContextType
  <2>1. PICK item \in ctx.task[field] :
            Writing([command EXCEPT ![item.id] = Saved(item)], device /\ command[item.id] # Gone,
                    [ctx EXCEPT !.task[field] = @ \ {item}])
    BY <1>3 DEF Saves
  <2>2. item \in Items
    BY <1>2, <1>3, <2>1 DEF TaskType
  <2>3. Saved(item) \in Command
    BY <2>2 DEF Saved, Items, Source, Command
  <2>4. [command EXCEPT ![item.id] = Saved(item)] \in Seq(Command \cup {Gone})
    BY <1>1, <2>3, ChangedEntry
  <2> DEFINE done == [ctx EXCEPT !.task[field] = @ \ {item}]
             effect == [command EXCEPT ![item.id] = Saved(item)]
             possible == device /\ command[item.id] # Gone
  <2>5. done \in ContextType
    BY <1>1, <1>3, TasksLeft
  <2>6. Writing(effect, possible, done)
    BY <2>1
  <2>7. effect \in Seq(Command \cup {Gone}) /\ possible \in BOOLEAN
    BY <1>1, <2>4
  <2> HIDE DEF done, effect, possible
  <2> QED
    BY <2>5, <2>6, <2>7, WritingTypes
<1>4. ASSUME Deletes
      PROVE  command' \in Seq(Command \cup {Gone}) /\ ctx' \in ContextType
  <2>1. PICK c \in ctx.task.delete :
            LET done == [ctx EXCEPT !.task.delete = @ \ {c}] IN
            IF c \in ctx.kept THEN Answered /\ UNCHANGED command /\ ctx' = [done EXCEPT !.failed = TRUE]
              ELSE Writing([command EXCEPT ![c] = Gone], device /\ command[c] # Gone, done)
    BY <1>4 DEF Deletes
  <2> DEFINE done == [ctx EXCEPT !.task.delete = @ \ {c}]
  <2>2. done \in ContextType
    BY <1>1, TasksLeft
  <2>3. [command EXCEPT ![c] = Gone] \in Seq(Command \cup {Gone})
    BY <1>1, ChangedEntry
  <2>4. [done EXCEPT !.failed = TRUE] \in ContextType
    <3> HIDE DEF done
    <3> QED
      BY <2>2 DEF ContextType
  <2>5. CASE c \in ctx.kept
    BY <1>1, <2>1, <2>4, <2>5
  <2>6. CASE Writing([command EXCEPT ![c] = Gone], device /\ command[c] # Gone, done)
    <3> HIDE DEF done
    <3> QED
      BY <2>2, <2>3, <2>6, WritingTypes
  <2> QED
    BY <2>1, <2>5, <2>6
<1>5. ASSUME Creates
      PROVE  command' \in Seq(Command \cup {Gone}) /\ ctx' \in ContextType
  <2>1. PICK item \in ctx.task.create :
            Writing(Append(command, Saved(item)), device,
                    [ctx EXCEPT !.task.create = @ \ {item}, !.toWire = @ \cup {item.of}])
    BY <1>5 DEF Creates
  <2>2. item \in [of : Sources, to : Source]
    BY <1>2, <2>1 DEF TaskType, Wishes
  <2>3. Saved(item) \in Command
    BY <2>2 DEF Saved, Source, Command
  <2>4. Append(command, Saved(item)) \in Seq(Command \cup {Gone})
    BY <1>1, <2>3
  <2> DEFINE less == [ctx EXCEPT !.task.create = @ \ {item}]
  <2>5. less \in ContextType /\ less.toWire = ctx.toWire
    BY <1>1, TasksLeft DEF ContextType
  <2>6. [ctx EXCEPT !.task.create = @ \ {item}, !.toWire = @ \cup {item.of}] \in ContextType
    <3>1. [ctx EXCEPT !.task.create = @ \ {item}, !.toWire = @ \cup {item.of}]
            = [less EXCEPT !.toWire = ctx.toWire \cup {item.of}]
      BY <1>1 DEF ContextType
    <3> HIDE DEF less
    <3> QED
      BY <2>2, <2>5, <3>1, <1>1 DEF ContextType
  <2> QED
    BY <1>1, <2>1, <2>4, <2>6, WritingTypes
<1>6. command' \in Seq(Command \cup {Gone}) /\ ctx' \in ContextType
  BY <1>1, <1>3, <1>4, <1>5 DEF RunsTask
<1> QED
  BY <1>6, StepTypes DEF RunsTask, managed, Types, ComexioTypes, HaTypes, SyncTypes, IsPlan, Requests

\* The elements and the plan a pair goes to.
LEMMA PairingPlans ==
  ASSUME ctx \in ContextType, ctx.read \in Reading, plan \in Plan, NEW x \in Sources, Pairable(x)
  PROVE  LET c == Min(Named(ctx.read, x)) IN
         /\ c \in Present(ctx.read.command)
         /\ Pairing(x).half \in Plan /\ Pairing(x).whole \in Plan
         /\ Held(Pairing(x).half) \subseteq Held(plan) \cup {c}
         /\ Held(Pairing(x).whole) \subseteq Held(plan) \cup {c}
<1> DEFINE c == Min(Named(ctx.read, x))
           srcs == Find(ctx.plan, "src", x)
           webs == Find(ctx.plan, "web", c)
           half == IF srcs = {} THEN Placed(plan, "src", x) ELSE IF webs = {} THEN PlacedBare(c) ELSE plan
           all == IF srcs = {} /\ webs = {} THEN Placed(half, "web", c) ELSE half
           e == IF srcs = {} THEN Newest(half) ELSE Max(srcs)
           f == IF webs = {} THEN Newest(all) ELSE Max(webs)
<1>1. Named(ctx.read, x) \in SUBSET Nat /\ Named(ctx.read, x) \subseteq Present(ctx.read.command)
  BY PresentIds DEF Named, Serving, Reading
<1>2. c \in Present(ctx.read.command) /\ c \in Nat
  BY <1>1, MinIn DEF Pairable
<1> HIDE DEF c
<1>3. x \in Nat
  BY SyncAssumption
<1>4. half \in Plan /\ Held(half) \subseteq Held(plan) \cup {c} /\ (srcs = {} => Newest(half) \in Nat)
  BY <1>2, <1>3, PlacedIsPlan DEF PlacedBare
<1>5. all \in Plan /\ Held(all) \subseteq Held(plan) \cup {c} /\ (webs = {} => Newest(all) \in Nat)
  <2>1. CASE srcs = {} /\ webs = {}
    <3> HIDE DEF half
    <3> QED
      BY <1>2, <1>4, <2>1, PlacedIsPlan
  <2>2. CASE srcs # {} /\ webs = {}
    BY <1>2, <2>2, PlacedIsPlan DEF PlacedBare
  <2>3. CASE webs # {}
    BY <1>4, <2>3
  <2> QED
    BY <2>1, <2>2, <2>3
<1>6. ctx.plan \in Plan /\ ctx.plan # Gone
  BY SyncAssumption DEF ContextType
<1>7. /\ Len(ctx.plan.elem) \in Nat
      /\ srcs \in SUBSET (0 .. Len(ctx.plan.elem)) /\ webs \in SUBSET (0 .. Len(ctx.plan.elem))
  BY <1>6 DEF Plan, Find, OfType, Elements
<1> HIDE DEF srcs, webs, half, all
<1>8. e \in Nat /\ f \in Nat
  <2>1. srcs # {} => Max(srcs) \in srcs
    BY <1>7, MaxIn
  <2>2. webs # {} => Max(webs) \in webs
    BY <1>7, MaxIn
  <2>3. srcs \subseteq Nat /\ webs \subseteq Nat
    BY <1>7
  <2> QED
    BY <1>4, <1>5, <2>1, <2>2, <2>3
<1> HIDE DEF e, f
<1>9. Joined(all, e, f) \in Plan /\ Joined(all, e, f).elem = all.elem
  <2> DEFINE wire == {w \in all.wire : w[1] # e}
                     \cup {<<e, g>> : g \in Feeds(ctx.plan, e) \cap Elements(all)} \cup {<<e, f>>}
  <2>1. Feeds(ctx.plan, e) \subseteq Nat
    BY <1>6, WireEnds
  <2>2. wire \in SUBSET (Nat \X Nat)
    BY <1>5, <1>8, <2>1 DEF Plan
  <2>3. Joined(all, e, f) = [all EXCEPT !.wire = wire]
    BY DEF Joined
  <2> HIDE DEF wire
  <2> QED
    BY <1>5, <2>2, <2>3 DEF Plan
<1>10. Held(Joined(all, e, f)) \subseteq Held(all)
  <2>1. all # Gone
    BY <1>5, SyncAssumption
  <2> QED
    BY <1>9, <2>1 DEF Held, OfType, Elements
<1>11. Pairing(x).half = half /\ Pairing(x).whole = Joined(all, e, f)
  BY DEF Pairing, c, srcs, webs, half, all, e, f
<1> QED
  BY <1>2, <1>4, <1>5, <1>9, <1>10, <1>11 DEF c

\* The change a step of placing pairs makes to the managed plan.
LEMMA PlacesPairIs ==
  ASSUME Types, PlanThere, ReadStill, PlacesPair
  PROVE  LET x == Min(ctx.left) IN
         /\ plan \in Plan /\ plan' \in Plan /\ ctx' \in ContextType
         /\ Held(plan') # Held(plan) =>
               \E c \in Present(ctx.read.command) : Held(plan') \subseteq Held(plan) \cup {c}
<1> DEFINE x == Min(ctx.left)
           pair == Pairing(x)
<1>1. ctx \in ContextType /\ ctx.left \in SUBSET Sources /\ ctx.left \in SUBSET Nat /\ ctx.left # {}
  BY SyncAssumption DEF PlacesPair, Types, SyncTypes, ContextType
<1>2. x \in Sources
  BY <1>1, MinIn
<1>3. plan \in Plan /\ ctx.read \in Reading
  BY DEF PlacesPair, Step, PlanThere, Placing, ReadStill, Types, ComexioTypes, IsPlan, SyncTypes,
     ContextType
<1>4. ctx' \in ContextType
  <2> DEFINE done == [ctx EXCEPT !.left = @ \ {x}]
  <2>1. done \in ContextType
    BY <1>1 DEF ContextType
  <2>2. ctx' \in {done, [done EXCEPT !.failed = TRUE], [done EXCEPT !.added = TRUE]}
    BY DEF PlacesPair
  <2> HIDE DEF done
  <2>3. [done EXCEPT !.failed = TRUE] \in ContextType /\ [done EXCEPT !.added = TRUE] \in ContextType
    BY <2>1 DEF ContextType
  <2> QED
    BY <2>1, <2>2, <2>3
<1>5. CASE ~Pairable(x)
  BY <1>3, <1>4, <1>5 DEF PlacesPair
<1>6. CASE Pairable(x)
  <2> DEFINE c == Min(Named(ctx.read, x))
  <2>1. /\ c \in Present(ctx.read.command) /\ pair.half \in Plan /\ pair.whole \in Plan
        /\ Held(pair.half) \subseteq Held(plan) \cup {c} /\ Held(pair.whole) \subseteq Held(plan) \cup {c}
    BY <1>1, <1>2, <1>3, <1>6, PairingPlans
  <2>2. plan' \in {plan, pair.half, pair.whole}
    BY <1>6 DEF PlacesPair
  <2> HIDE DEF x, c, pair
  <2> QED
    BY <1>3, <1>4, <2>1, <2>2
<1> QED
  BY <1>5, <1>6

LEMMA WiresTypes ==
  ASSUME Types, PlanThere, ReadStill, Wires
  PROVE  Types'
<1>1. /\ ctx \in ContextType /\ runs \in BOOLEAN /\ listed \in [runs : BOOLEAN, own : BOOLEAN]
      /\ IsPlan(plan) /\ IsPlan(EmptyPlan)
  BY EmptyPlanIsPlan DEF Types, SyncTypes, ComexioTypes, HaTypes, IsPlan
<1>2. CASE FindsPlan
  <2> DEFINE stops(fresh) == [ctx EXCEPT !.fresh = fresh, !.ran = fresh \/ listed.runs,
                                         !.left = ctx.toWire, !.resort = "no"]
  <2>1. ASSUME NEW fresh \in BOOLEAN PROVE stops(fresh) \in ContextType
    BY <1>1 DEF ContextType
  <2>2. stops(TRUE) \in ContextType /\ stops(FALSE) \in ContextType
    BY <2>1
  <2>3. ctx' \in {ctx, Reported, stops(TRUE), stops(FALSE)} /\ plan' \in {plan, EmptyPlan}
    BY <1>2 DEF FindsPlan
  <2> HIDE DEF stops
  <2>4. ctx' \in ContextType /\ IsPlan(plan')
    BY <1>1, <2>2, <2>3, ReportedIsContext
  <2>5. pc' \in Requests
    BY <1>2 DEF FindsPlan, Requests, Placing
  <2> QED
    BY <1>1, <1>2, <2>4, <2>5, StepTypes DEF FindsPlan, webio, Types, ComexioTypes, SyncTypes
<1>3. CASE StopsToWire
  <2>1. runs' \in BOOLEAN /\ listed' \in [runs : BOOLEAN, own : BOOLEAN]
    BY <1>1, <1>3 DEF StopsToWire
  <2> QED
    BY <1>1, <1>3, <2>1, StepTypes DEF StopsToWire, webio, Types, ComexioTypes, SyncTypes, Requests,
       Placing
<1>4. CASE ReadsConfig
  <2>1. Read \in Reading
    BY ReadIsReading DEF Types
  <2>2. [ctx EXCEPT !.read = Read] \in ContextType /\ Reported \in ContextType
    BY <1>1, <2>1, ReportedIsContext DEF ContextType
  <2>3. ctx' \in ContextType /\ listed' \in [runs : BOOLEAN, own : BOOLEAN]
    <3>1. [runs |-> runs, own |-> own # Gone] \in [runs : BOOLEAN, own : BOOLEAN]
      BY <1>1
    <3>2. ctx' \in {[ctx EXCEPT !.read = Read], Reported} /\ listed' \in {listed, [runs |-> runs, own |-> own # Gone]}
      BY <1>4 DEF ReadsConfig
    <3> QED
      BY <1>1, <2>2, <3>1, <3>2
  <2>4. pc' \in Requests
    BY <1>4 DEF ReadsConfig, Requests, Placing
  <2> QED
    BY <1>1, <1>4, <2>3, <2>4, StepTypes DEF ReadsConfig, webio, managed, Types, ComexioTypes, SyncTypes
<1>5. CASE ReadsPlan
  <2>1. plan \in Plan
    BY <1>1, <1>5 DEF ReadsPlan, Step, PlanThere, Placing, IsPlan
  <2>2. ASSUME NEW p \in Plan PROVE [ctx EXCEPT !.plan = p] \in ContextType
    BY <1>1 DEF ContextType
  <2>3. \E p \in Plan : ctx' = [ctx EXCEPT !.plan = p]
    BY <1>5, <2>1, EmptyPlanIsPlan DEF ReadsPlan
  <2>4. ctx' \in ContextType
    BY <2>2, <2>3
  <2> QED
    BY <1>5, <2>4, QuietTypes DEF ReadsPlan, Requests, Placing
<1>6. CASE PlacesPair
  <2>1. plan' \in Plan /\ ctx' \in ContextType
    BY <1>6, PlacesPairIs
  <2> QED
    BY <1>1, <1>6, <2>1, StepTypes DEF PlacesPair, webio, Types, ComexioTypes, SyncTypes, IsPlan
<1>7. CASE PairsDone
  <2>1. ctx' \in ContextType
    BY <1>1, <1>7 DEF PairsDone, ContextType
  <2> QED
    BY <1>7, <2>1, QuietTypes DEF PairsDone, Requests
<1> QED
  BY <1>2, <1>3, <1>4, <1>5, <1>6, <1>7 DEF Wires, WiresPlan

LEMMA CleansTypes ==
  ASSUME Types, CleansIgnored
  PROVE  Types'
<1>1. ctx \in ContextType /\ command \in Seq(Command \cup {Gone}) /\ device \in BOOLEAN /\ IsPlan(plan)
  BY DEF Types, SyncTypes, ComexioTypes
<1>2. CASE FindsIgnored
  BY <1>1, <1>2, ReportedIsContext, QuietTypes DEF FindsIgnored, Requests
<1>3. CASE LoadsForCleanup
  <2> DEFINE cut == CleanedUp(plan, ctx.cleaned)
             webs == cut \cap OfType(plan, "web")
             ids == {plan.elem[e].ref : e \in webs}
  <2>1. cut \in SUBSET Nat
    BY <1>1, CutsAreElements
  <2>2. ids \in SUBSET Nat
    BY <1>1, HeldIds DEF Held
  <2> HIDE DEF cut, ids
  <2>3. [ctx EXCEPT !.cut = cut, !.unwired = ids, !.after = "clean check"] \in ContextType
    BY <1>1, <2>1, <2>2 DEF ContextType
  <2>4. ctx' \in {[ctx EXCEPT !.cut = cut, !.unwired = ids, !.after = "clean check"], Reported}
    BY <1>3 DEF LoadsForCleanup, cut, ids
  <2>5. pc' \in Requests
    BY <1>3 DEF LoadsForCleanup, Requests, Cutting
  <2> QED
    BY <1>1, <1>3, <2>3, <2>4, <2>5, ReportedIsContext, QuietTypes DEF LoadsForCleanup
<1>4. CASE ListsPlansForCleanup \/ ChecksCleanable
  BY <1>4, CheckTypes
<1>5. CASE DeletesCleaned
  <2>1. CASE \E c \in Cleanable \ ctx.kept :
               Writing([command EXCEPT ![c] = Gone], device /\ command[c] # Gone, [ctx EXCEPT !.kept = @ \cup {c}])
    <3>1. PICK c \in Cleanable :
               Writing([command EXCEPT ![c] = Gone], device /\ command[c] # Gone, [ctx EXCEPT !.kept = @ \cup {c}])
      BY <2>1
    <3>2. c \in Nat
      BY CleanableIds
    <3>3. [ctx EXCEPT !.kept = @ \cup {c}] \in ContextType
      BY <1>1, <3>2 DEF ContextType
    <3>4. [command EXCEPT ![c] = Gone] \in Seq(Command \cup {Gone})
      BY <1>1, ChangedEntry
    <3> QED
      BY <1>1, <1>5, <3>1, <3>3, <3>4, WritingTypes, StepTypes
         DEF DeletesCleaned, managed, Types, ComexioTypes, HaTypes, SyncTypes, IsPlan, Requests
  <2>2. CASE UNCHANGED <<command, ctx>>
    BY <1>1, <1>5, <2>2, StepTypes
       DEF DeletesCleaned, managed, Types, ComexioTypes, HaTypes, SyncTypes, IsPlan, Requests
  <2> QED
    BY <1>5, <2>1, <2>2 DEF DeletesCleaned
<1> QED
  BY <1>2, <1>3, <1>4, <1>5 DEF CleansIgnored

LEMMA SyncTypesKept ==
  ASSUME Types, PlanThere, ReadStill, Sync
  PROVE  Types'
BY LooksUpDeviceTypes, RecreatesTypes, DebrisTypes, SortTypes, CheckTypes, RunsTaskTypes, WiresTypes,
   CleansTypes, FinishesTypes DEF Sync, SyncsClass, Delta

LEMMA TypesStep ==
  ASSUME Types, PlanThere, ReadStill, [Next]_vars
  PROVE  Types'
<1>1. CASE UNCHANGED vars
  BY <1>1 DEF vars, comexio, webio, managed, ha, Types, ComexioTypes, HaTypes, SyncTypes, IsPlan
<1> QED
  BY <1>1, PollTypes, LoadsPlansTypes, UserTypes, SyncTypesKept DEF Next

-----------------------------------------------------------------------------
(* The managed plan stays, and where the steps lead.                           *)

LEMMA Steps == ASSUME Sync PROVE Finishes \/ \E at : Step(at)
BY DEF Sync, LooksUpDevice, SyncsClass, DecidesAction, Recreates, DeletesDevice, ConfirmsDeviceGone,
   LooksUpClass,
   DeletesClass, Uploads, CreatesDevice, Delta, Debris, Unwires, CleansLeftOvers, StopsPlan,
   ErasesElements,
   RestartsPlan, SortsPlan, RunsSorted, RunsAgain, ListsPlans, ChecksOrphans, RunsTask, Checks,
   ReadsPlans, Wires,
   FindsPlan, WiresPlan, StopsToWire, ReadsConfig, ReadsPlan, PlacesPair, PairsDone, CleansIgnored,
   FindsIgnored,
   LoadsForCleanup, ListsPlansForCleanup, ChecksCleanable, DeletesCleaned

\* Only placing a pair gives the plan an element of another command; no plan ever goes.
LEMMA PlanChanges ==
  ASSUME Types, PlanThere, ReadStill, [Next]_vars
  PROVE  /\ plan # Gone => plan' # Gone
         /\ ~PlacesPair => Held(plan') \subseteq Held(plan)
<1>1. IsPlan(plan) /\ Gone \notin Plan
  BY SyncAssumption DEF Types, ComexioTypes
<1>2. CASE plan' = plan
  BY <1>2
<1>3. CASE EditsPlan
  BY <1>1, <1>3, EditsPlanIsPlan DEF EditsPlan, IsPlan
<1>4. CASE ErasesElements
  <2>1. plan \in Plan
    BY <1>1, <1>4 DEF ErasesElements, Step, PlanThere, Cutting, IsPlan
  <2> QED
    BY <1>1, <1>4, <2>1, WithoutIsPlan DEF ErasesElements
<1>5. CASE FindsPlan
  BY <1>5, EmptyPlanIsPlan DEF FindsPlan
<1>6. CASE PlacesPair
  BY <1>1, <1>6, PlacesPairIs
<1>7. CASE UNCHANGED vars \/ Poll \/ LoadsPlans \/ Finishes
  BY <1>2, <1>7 DEF vars, comexio, managed, Poll, LoadsPlans, Finishes
<1>8. CASE User
  <2>1. EditsPlan \/ plan' = plan
    BY <1>8 DEF User, EditsMarker, CopiesCommand, DeletesCommand, UsesCommand, SwitchesPlan, Ignores,
       Cancel,
       Press, comexio, managed
  <2> QED
    BY <1>2, <1>3, <2>1
<1>9. CASE LooksUpDevice \/ SyncsClass
  <2>1. ErasesElements \/ plan' = plan
    BY <1>9 DEF LooksUpDevice, SyncsClass, DecidesAction, Recreates, DeletesDevice, ConfirmsDeviceGone,
       LooksUpClass,
       DeletesClass, Uploads, CreatesDevice, Delta, Debris, Unwires, CleansLeftOvers, StopsPlan,
       RestartsPlan,
       SortsPlan, RunsSorted, RunsAgain, ListsPlans, ChecksOrphans, RunsTask, Checks, ReadsPlans,
       Quietly, managed
  <2> QED
    BY <1>2, <1>4, <2>1
<1>10. CASE Wires \/ CleansIgnored
  <2>1. FindsPlan \/ PlacesPair \/ plan' = plan
    BY <1>10 DEF Wires, WiresPlan, StopsToWire, ReadsConfig, ReadsPlan, PairsDone, CleansIgnored,
       FindsIgnored,
       LoadsForCleanup, ListsPlansForCleanup, ChecksCleanable, DeletesCleaned, Checks, ReadsPlans,
       Quietly, managed
  <2> QED
    BY <1>2, <1>5, <1>6, <2>1
<1> QED
  BY <1>7, <1>8, <1>9, <1>10 DEF Next, Sync

\* Outside the sync's own steps it stands where it stood, until the next press.
LEMMA Outside ==
  ASSUME [Next]_vars, ~Sync
  PROVE  /\ (pc' = pc /\ ctx' = ctx) \/ (pc' = "device" /\ pc = "idle" /\ ctx'.resort = "no" /\ ~ctx'.added)
         /\ pc # "idle" => data' = data /\ (snap' = snap \/ LoadsPlans)
         /\ pc # "idle" /\ cancel => cancel'
BY DEF Next, vars, comexio, ha, Poll, LoadsPlans, User, EditsMarker, CopiesCommand, DeletesCommand,
   UsesCommand,
   EditsPlan, SwitchesPlan, Ignores, Cancel, Press, Edit, NoContext

\* The steps that lead to the requests the invariant speaks of.
LEMMA LeadsTo ==
  ASSUME Types, Sync
  PROVE  /\ pc' \in Cutting => Debris \/ LoadsForCleanup
         /\ pc' \in Placing => Wires
         /\ pc' = "bulk" => ListsPlans
         /\ pc' = "deletable" => ListsPlansForCleanup
         /\ pc' = "tasks" => ListsPlans \/ ChecksOrphans \/ RunsTask
         /\ pc' = "delete" => ChecksCleanable \/ DeletesCleaned
         /\ pc' \in {"wire load", "pairs"} => ReadsConfig \/ ReadsPlan \/ PlacesPair
<1>1. ctx.after \in {"dangling", "sort", "clean check", "done"}
  BY DEF Types, SyncTypes, ContextType
<1>2. CASE LooksUpDevice \/ DecidesAction \/ Recreates
  <2>1. pc' \in Early \cup {"wire", "find", "done", "unwire"}
    BY <1>2 DEF LooksUpDevice, DecidesAction, Recreates, DeletesDevice, ConfirmsDeviceGone,
       LooksUpClass,
       DeletesClass, Uploads, CreatesDevice, Aborts, Early
  <2> QED
    BY <2>1 DEF Early, Cutting, Placing
<1>3. CASE Debris
  <2>1. pc' \in {"stop", "erase", "restart", "dangling", "sort", "clean check", "done"}
    BY <1>1, <1>3 DEF Debris, Unwires, CleansLeftOvers, Cuts, StopsPlan, ErasesElements, RestartsPlan
  <2> QED
    BY <1>3, <2>1 DEF Placing
<1>4. CASE SortsPlan \/ RunsSorted \/ RunsAgain
  BY <1>4 DEF SortsPlan, RunsSorted, RunsAgain, AfterSort, Cutting, Placing
<1>5. CASE ListsPlans \/ ChecksOrphans \/ RunsTask
  BY <1>5 DEF ListsPlans, ChecksOrphans, Checks, ReadsPlans, RunsTask, Step, Cutting, Placing
<1>6. CASE Wires
  BY <1>6 DEF Wires, FindsPlan, WiresPlan, StopsToWire, ReadsConfig, ReadsPlan, PlacesPair, PairsDone,
     Step, Cutting
<1>7. CASE CleansIgnored
  BY <1>7 DEF CleansIgnored, FindsIgnored, LoadsForCleanup, ListsPlansForCleanup, ChecksCleanable,
     DeletesCleaned, Checks, ReadsPlans, Step, Cutting, Placing
<1>8. CASE Finishes
  BY <1>8 DEF Finishes, Cutting, Placing
<1>9. \/ LooksUpDevice \/ DecidesAction \/ Recreates \/ Debris \/ SortsPlan \/ RunsSorted \/ RunsAgain
      \/ ListsPlans \/ ChecksOrphans \/ RunsTask \/ Wires \/ CleansIgnored \/ Finishes
  BY DEF Sync, SyncsClass, Delta
<1> QED
  BY <1>2, <1>3, <1>4, <1>5, <1>6, <1>7, <1>8, <1>9, Zenon

LEMMA PlanThereStep ==
  ASSUME Types, PlanThere, ReadStill, [Next]_vars
  PROVE  PlanThere'
<1>1. plan # Gone => plan' # Gone
  BY PlanChanges
<1>2. ASSUME pc' \in Cutting \cup Placing, plan = Gone
      PROVE  plan' # Gone
  <2>1. pc \notin Cutting \cup Placing
    BY <1>2 DEF PlanThere
  <2>2. Sync
    BY <1>2, <2>1, Outside DEF Cutting, Placing
  <2>3. CheckData \in {Gone, EmptyPlan}
    BY <1>2 DEF PlanThere, CheckData
  <2>4. Unwirings(CheckData, ctx.task.delete) = {} /\ LeftOvers(CheckData, ctx.dangling) = {}
    BY <2>3, CheckDataIsPlan, CutsAreElements
  <2>5. CleanedUp(plan, ctx.cleaned) = {}
    BY <1>2, CutsAreElements DEF IsPlan
  <2>6. CASE Debris
    <3>1. Unwires \/ CleansLeftOvers
      BY <2>1, <2>6 DEF Debris, StopsPlan, ErasesElements, RestartsPlan, Step, Cutting
    <3>2. pc' \in {"dangling", "sort"}
      BY <2>4, <3>1 DEF Unwires, CleansLeftOvers, Cuts
    <3> QED
      BY <1>2, <3>2 DEF Cutting, Placing
  <2>7. CASE LoadsForCleanup
    <3>1. pc' = "clean check"
      BY <2>5, <2>7 DEF LoadsForCleanup
    <3> QED
      BY <1>2, <3>1 DEF Cutting, Placing
  <2>8. CASE Wires
    <3>1. FindsPlan
      BY <2>1, <2>8 DEF Wires, WiresPlan, StopsToWire, ReadsConfig, ReadsPlan, PlacesPair, PairsDone,
         Step, Placing
    <3> QED
      BY <1>2, <3>1, EmptyPlanIsPlan DEF FindsPlan, Cutting, Placing
  <2> QED
    BY <1>2, <2>2, <2>6, <2>7, <2>8, LeadsTo
<1>3. snap' = snap \/ snap' = Gone \/ (snap' = IF plan = Gone THEN EmptyPlan ELSE plan)
  BY Steps DEF Next, vars, ha, Poll, LoadsPlans, Finishes, Audits, User, EditsMarker, CopiesCommand,
     DeletesCommand,
     UsesCommand, EditsPlan, SwitchesPlan, Ignores, Cancel, Press, Edit, Step
<1>4. before' = before \/ before' = Gone \/ plan # Gone
  BY Steps DEF Next, vars, Poll, LoadsPlans, Finishes, User, EditsMarker, CopiesCommand, DeletesCommand,
     UsesCommand, EditsPlan, SwitchesPlan, Ignores, Cancel, Press, Edit, Step, users
<1> QED
  BY <1>1, <1>2, <1>3, <1>4 DEF PlanThere

-----------------------------------------------------------------------------
(* Commands in use stay.                                                       *)

\* The tasks only ever get fewer; what is kept is settled by then.
LEMMA RunsTaskIs ==
  ASSUME Types, RunsTask
  PROVE  /\ ctx'.task.delete \subseteq ctx.task.delete /\ ctx'.kept = ctx.kept
         /\ DOMAIN command \subseteq DOMAIN command'
         /\ \A c \in DOMAIN command : command[c] # Gone /\ command'[c] = Gone =>
               c \in ctx.task.delete \ ctx.kept /\ pc = "tasks" /\ ~cancel
<1>1. ctx \in ContextType /\ ctx.task \in TaskType /\ command \in Seq(Command \cup {Gone}) /\ pc = "tasks"
  BY DEF RunsTask, Step, Types, SyncTypes, ComexioTypes, ContextType
<1>2. CASE ctx' = ctx /\ command' = command
  BY <1>2
<1>3. ASSUME NEW field \in {"rename", "type"}, Saves(field)
      PROVE  /\ ctx'.task.delete = ctx.task.delete /\ ctx'.kept = ctx.kept
             /\ DOMAIN command' = DOMAIN command
             /\ \A c \in DOMAIN command : command[c] # Gone => command'[c] # Gone
  <2>1. PICK item \in ctx.task[field] :
            Writing([command EXCEPT ![item.id] = Saved(item)], device /\ command[item.id] # Gone,
                    [ctx EXCEPT !.task[field] = @ \ {item}])
    BY <1>3 DEF Saves
  <2> DEFINE effect == [command EXCEPT ![item.id] = Saved(item)]
             done == [ctx EXCEPT !.task[field] = @ \ {item}]
  <2>2. item \in Items
    BY <1>1, <1>3, <2>1 DEF TaskType
  <2>3. Saved(item) \in Command /\ Saved(item) # Gone
    BY <2>2, SyncAssumption DEF Saved, Items, Source, Command
  <2>4. DOMAIN effect = DOMAIN command /\ \A c \in DOMAIN command : command[c] # Gone => effect[c] # Gone
    BY <1>1, <2>3
  <2>5. done \in ContextType /\ done.task.delete = ctx.task.delete /\ done.kept = ctx.kept
    BY <1>1, <1>3, TasksLeft DEF ContextType, TaskType
  <2>6. command' \in {command, effect}
    BY <2>1 DEF Writing
  <2>7. ctx' \in {done, [done EXCEPT !.failed = TRUE, !.toWire = ctx.toWire]}
    BY <2>1 DEF Writing
  <2> HIDE DEF effect, done
  <2> QED
    BY <2>4, <2>5, <2>6, <2>7 DEF ContextType
<1>4. ASSUME Creates
      PROVE  /\ ctx'.task.delete = ctx.task.delete /\ ctx'.kept = ctx.kept
             /\ DOMAIN command \subseteq DOMAIN command'
             /\ \A c \in DOMAIN command : command'[c] = command[c]
  <2>1. PICK item \in ctx.task.create :
            Writing(Append(command, Saved(item)), device,
                    [ctx EXCEPT !.task.create = @ \ {item}, !.toWire = @ \cup {item.of}])
    BY <1>4 DEF Creates
  <2> DEFINE effect == Append(command, Saved(item))
             done == [ctx EXCEPT !.task.create = @ \ {item}, !.toWire = @ \cup {item.of}]
  <2>2. DOMAIN command \subseteq DOMAIN effect /\ \A c \in DOMAIN command : effect[c] = command[c]
    BY <1>1
  <2>3. /\ done.task.delete = ctx.task.delete /\ done.kept = ctx.kept
        /\ LET failed == [done EXCEPT !.failed = TRUE, !.toWire = ctx.toWire] IN
           failed.task.delete = ctx.task.delete /\ failed.kept = ctx.kept
    BY <1>1 DEF ContextType, TaskType
  <2>4. command' \in {command, effect}
    BY <2>1 DEF Writing
  <2>5. ctx' \in {done, [done EXCEPT !.failed = TRUE, !.toWire = ctx.toWire]}
    BY <2>1 DEF Writing
  <2> HIDE DEF effect, done
  <2> QED
    BY <2>2, <2>3, <2>4, <2>5
<1>5. ASSUME Deletes
      PROVE  /\ ctx'.task.delete \subseteq ctx.task.delete /\ ctx'.kept = ctx.kept
             /\ DOMAIN command' = DOMAIN command
             /\ \A c \in DOMAIN command : command[c] # Gone /\ command'[c] = Gone =>
                   c \in ctx.task.delete \ ctx.kept
  <2>1. PICK c \in ctx.task.delete :
            LET done == [ctx EXCEPT !.task.delete = @ \ {c}] IN
            IF c \in ctx.kept THEN Answered /\ UNCHANGED command /\ ctx' = [done EXCEPT !.failed = TRUE]
              ELSE Writing([command EXCEPT ![c] = Gone], device /\ command[c] # Gone, done)
    BY <1>5 DEF Deletes
  <2> DEFINE effect == [command EXCEPT ![c] = Gone]
             done == [ctx EXCEPT !.task.delete = @ \ {c}]
  <2>2. /\ done.task.delete = ctx.task.delete \ {c} /\ done.kept = ctx.kept
        /\ LET failed == [done EXCEPT !.failed = TRUE, !.toWire = ctx.toWire] IN
           failed.task.delete = ctx.task.delete \ {c} /\ failed.kept = ctx.kept
        /\ LET failed == [done EXCEPT !.failed = TRUE] IN
           failed.task.delete = ctx.task.delete \ {c} /\ failed.kept = ctx.kept
    BY <1>1 DEF ContextType, TaskType
  <2>3. DOMAIN effect = DOMAIN command /\ \A d \in DOMAIN command \ {c} : effect[d] = command[d]
    BY <1>1
  <2>4. ctx' \in {done, [done EXCEPT !.failed = TRUE], [done EXCEPT !.failed = TRUE, !.toWire = ctx.toWire]}
    BY <2>1 DEF Writing
  <2>5. command' = command \/ (command' = effect /\ c \notin ctx.kept)
    BY <2>1 DEF Writing
  <2> HIDE DEF effect, done
  <2> QED
    BY <2>1, <2>2, <2>3, <2>4, <2>5
<1>6. \/ ctx' = ctx /\ command' = command
      \/ ~cancel /\ (Saves("rename") \/ Saves("type") \/ Deletes \/ Creates)
  BY DEF RunsTask
<1>7. CASE Deletes /\ ~cancel
  BY <1>1, <1>5, <1>7
<1>8. CASE Creates
  BY <1>4, <1>8
<1>9. CASE Saves("rename") \/ Saves("type")
  BY <1>3, <1>9
<1> QED
  BY <1>2, <1>6, <1>7, <1>8, <1>9

\* A command goes by a user's doing, or if no plan holds it or it is excused.
LEMMA CommandsGo ==
  ASSUME Types, OrphansFree, CleanableFree, [Next]_vars
  PROVE  /\ DOMAIN command \subseteq DOMAIN command'
         /\ excused \subseteq excused'
         /\ \A c \in DOMAIN command : command[c] # Gone /\ command'[c] = Gone =>
               \/ c \in excused'
               \/ c \notin InUse /\ plan' = plan /\ own' = own /\ pc \in {"delete device", "tasks", "delete"}
<1>1. command \in Seq(Command \cup {Gone}) /\ ctx \in ContextType /\ ctx.task \in TaskType
  BY DEF Types, ComexioTypes, SyncTypes, ContextType
<1>2. excused \subseteq excused'
  BY Steps DEF Next, vars, Poll, LoadsPlans, Finishes, User, EditsMarker, CopiesCommand, DeletesCommand,
     UsesCommand, EditsPlan, SwitchesPlan, Ignores, Cancel, Press, Edit, Step, users
<1>3. CASE command' = command
  BY <1>2, <1>3
<1>4. CASE CopiesCommand
  <2>1. PICK d : command' = Append(command, d)
    BY <1>4 DEF CopiesCommand
  <2>2. DOMAIN command \subseteq DOMAIN command' /\ \A c \in DOMAIN command : command'[c] = command[c]
    BY <1>1, <2>1
  <2> QED
    BY <1>2, <2>2
<1>5. CASE DeletesCommand
  BY <1>1, <1>2, <1>5 DEF DeletesCommand
<1>6. CASE DeletesDevice
  <2>1. CASE command' = command
    BY <1>3, <2>1
  <2>2. CASE command' = [c \in DOMAIN command |-> Gone] /\ InUse \cap Present(command) = {}
    <3>1. pc = "delete device" /\ plan' = plan /\ own' = own
      BY <1>6 DEF DeletesDevice, Step, users, Quietly, managed
    <3>2. \A c \in DOMAIN command : command[c] # Gone => c \in Present(command)
      BY <1>1 DEF Present
    <3> QED
      BY <1>2, <2>2, <3>1, <3>2
  <2> QED
    BY <1>6, <2>1, <2>2 DEF DeletesDevice, InUse, Quietly, webio
<1>7. CASE CreatesDevice
  <2>1. ctx.task.create \in Wishes
    BY <1>1 DEF TaskType
  <2>2. command' = command \/ command' = command \o Created(ctx.task.create)
    BY <1>7 DEF CreatesDevice
  <2> HIDE DEF Created
  <2>3. DOMAIN command \subseteq DOMAIN command' /\ \A c \in DOMAIN command : command'[c] = command[c]
    BY <1>1, <2>1, <2>2, CreatedCommands
  <2> QED
    BY <1>2, <2>3
<1>8. CASE RunsTask
  <2>1. plan' = plan /\ own' = own
    BY <1>8 DEF RunsTask, Step, users, managed
  <2> QED
    BY <1>2, <1>8, <2>1, RunsTaskIs DEF OrphansFree
<1>9. CASE DeletesCleaned
  <2>1. plan' = plan /\ own' = own /\ pc = "delete"
    BY <1>9 DEF DeletesCleaned, Step, users, managed
  <2>2. CASE \E c \in Cleanable \ ctx.kept :
               Writing([command EXCEPT ![c] = Gone], device /\ command[c] # Gone, [ctx EXCEPT !.kept = @ \cup {c}])
    <3>1. PICK c \in Cleanable \ ctx.kept :
               Writing([command EXCEPT ![c] = Gone], device /\ command[c] # Gone, [ctx EXCEPT !.kept = @ \cup {c}])
      BY <2>2
    <3>2. command' \in {command, [command EXCEPT ![c] = Gone]}
      BY <3>1 DEF Writing
    <3>3. DOMAIN command' = DOMAIN command /\ \A d \in DOMAIN command : command'[d] = command[d] \/ d = c
      BY <1>1, <3>2
    <3> QED
      BY <1>2, <2>1, <3>1, <3>3 DEF CleanableFree
  <2> QED
    BY <1>3, <1>9, <2>2 DEF DeletesCleaned
<1>10. CASE UNCHANGED vars \/ Poll \/ LoadsPlans \/ Finishes
  BY <1>3, <1>10 DEF vars, comexio, webio, Poll, LoadsPlans, Finishes
<1>11. CASE User
  BY <1>3, <1>4, <1>5, <1>11 DEF User, EditsMarker, UsesCommand, EditsPlan, SwitchesPlan, Ignores,
     Cancel, Press,
     comexio, webio
<1>12. CASE LooksUpDevice \/ SyncsClass
  <2>1. DeletesDevice \/ CreatesDevice \/ RunsTask \/ command' = command
    BY <1>12 DEF LooksUpDevice, SyncsClass, DecidesAction, Recreates, ConfirmsDeviceGone, LooksUpClass,
       DeletesClass, Uploads, Delta, Debris, Unwires, CleansLeftOvers, StopsPlan, ErasesElements,
       RestartsPlan, SortsPlan, RunsSorted, RunsAgain, ListsPlans, ChecksOrphans, Checks, ReadsPlans,
       Quietly, webio
  <2> QED
    BY <1>3, <1>6, <1>7, <1>8, <2>1
<1>13. CASE Wires \/ CleansIgnored
  <2>1. DeletesCleaned \/ command' = command
    BY <1>13 DEF Wires, FindsPlan, WiresPlan, StopsToWire, ReadsConfig, ReadsPlan, PlacesPair,
       PairsDone, CleansIgnored,
       FindsIgnored, LoadsForCleanup, ListsPlansForCleanup, ChecksCleanable, Checks, ReadsPlans,
       Quietly, webio
  <2> QED
    BY <1>3, <1>9, <2>1
<1> QED
  BY <1>10, <1>11, <1>12, <1>13 DEF Next, Sync

\* A plan comes to hold a command there is, or one a user has deleted since the config was read.
LEMMA NewlyUsed ==
  ASSUME Types, PlanThere, ReadStill, [Next]_vars
  PROVE  \A c \in InUse' \ InUse :
            \/ c \in DOMAIN command /\ c \in excused'
            \/ /\ c \in Present(command) /\ command' = command
               /\ UsesCommand \/ PlacesPair
<1>1. CASE PlacesPair
  <2>1. own' = own /\ command' = command /\ excused' = excused
    BY <1>1 DEF PlacesPair, Step, users, webio
  <2>2. \A c \in Held(plan') \ Held(plan) : c \in Present(ctx.read.command)
    BY <1>1, PlacesPairIs
  <2>3. pc = "pairs"
    BY <1>1 DEF PlacesPair, Step
  <2> QED
    BY <1>1, <2>1, <2>2, <2>3 DEF ReadStill, InUse, OwnIds
<1>2. CASE UsesCommand
  <2>1. PICK c \in Present(command) : own' = OwnIds \cup {c}
    BY <1>2 DEF UsesCommand
  <2>2. OwnIds' \subseteq OwnIds \cup {c}
    BY <2>1 DEF OwnIds
  <2>3. Held(plan') = Held(plan) /\ command' = command
    BY <1>2 DEF UsesCommand
  <2> QED
    BY <1>2, <2>2, <2>3 DEF InUse
<1>3. CASE ~PlacesPair /\ ~UsesCommand
  <2>1. own' = own
    BY <1>3, Steps DEF Next, vars, comexio, Poll, LoadsPlans, Finishes, User, EditsMarker,
       CopiesCommand, DeletesCommand,
       EditsPlan, SwitchesPlan, Ignores, Cancel, Press, Step, users
  <2> QED
    BY <1>3, <2>1, PlanChanges DEF InUse, OwnIds
<1> QED
  BY <1>1, <1>2, <1>3

LEMMA UsedStep ==
  ASSUME Types, PlanThere, CommandsInv, [Next]_vars
  PROVE  UsedAreKnown' /\ UsedCommandsStay'
<1>1. /\ DOMAIN command \subseteq DOMAIN command' /\ excused \subseteq excused'
      /\ \A c \in DOMAIN command : command[c] # Gone /\ command'[c] = Gone =>
            c \in excused' \/ (c \notin InUse /\ plan' = plan /\ own' = own)
  BY CommandsGo DEF CommandsInv
<1>2. \A c \in InUse' \ InUse : c \in DOMAIN command /\ (c \in excused' \/ command'[c] # Gone)
  <2>1. Present(command) \subseteq DOMAIN command /\ \A c \in Present(command) : command[c] # Gone
    BY DEF Present, Types, ComexioTypes
  <2> QED
    BY <2>1, NewlyUsed DEF CommandsInv
<1>3. InUse \subseteq DOMAIN command /\ \A c \in InUse : command[c] = Gone => c \in excused
  BY DEF CommandsInv, UsedAreKnown, UsedCommandsStay, InUse
<1>4. \A c \in InUse' : c \in DOMAIN command /\ (command'[c] = Gone => c \in excused')
  <2>1. ASSUME NEW c \in InUse', c \in InUse PROVE c \in DOMAIN command /\ (command'[c] = Gone => c \in excused')
    <3>1. plan' = plan /\ own' = own => InUse' = InUse
      BY DEF InUse, OwnIds
    <3> QED
      BY <1>1, <1>3, <2>1, <3>1
  <2> QED
    BY <1>2, <2>1
<1> QED
  BY <1>1, <1>4 DEF UsedAreKnown, UsedCommandsStay, InUse

\* A command a user places behind the check is excused.
LEMMA UsesBehindCheck ==
  ASSUME UsesCommand, CheckIsPast
  PROVE  OwnIds' \ OwnIds \subseteq excused'
<1>1. PICK c \in Present(command) : own' = OwnIds \cup {c}
  BY DEF UsesCommand
<1>2. excused' = excused \cup {c} \/ c \in OwnIds \/ c \in excused'
  BY <1>1 DEF UsesCommand
<1> QED
  BY <1>1, <1>2 DEF OwnIds

\* Past the check, what plans newly hold is excused.
LEMMA NewlyUsedPastCheck ==
  ASSUME Types, PlanThere, ReadStill, [Next]_vars, pc \in {"tasks", "delete"}
  PROVE  InUse' \ InUse \subseteq excused'
<1>1. ~PlacesPair
  BY DEF PlacesPair, Step
<1>2. CASE UsesCommand
  <2>1. CheckIsPast
    BY DEF CheckIsPast
  <2>2. plan' = plan
    BY <1>2 DEF UsesCommand
  <2> QED
    BY <1>2, <2>1, <2>2, UsesBehindCheck DEF InUse
<1>3. CASE ~UsesCommand
  BY <1>1, <1>3, NewlyUsed
<1> QED
  BY <1>2, <1>3

LEMMA OwnUnseenStep ==
  ASSUME Types, PlanThere, CommandsInv, [Next]_vars
  PROVE  OwnUnseen'
<1> SUFFICES ASSUME pc' \in {"bulk", "deletable"}, ~ctx'.ownListed
             PROVE  OwnIds' \subseteq excused'
  BY DEF OwnUnseen
<1>1. excused \subseteq excused'
  BY CommandsGo DEF CommandsInv
<1>2. CASE Sync
  <2>1. ListsPlans \/ ListsPlansForCleanup
    BY <1>2, LeadsTo
  <2>2. ctx' = [ctx EXCEPT !.ownListed = own # Gone] /\ own' = own
    BY <2>1 DEF ListsPlans, ListsPlansForCleanup, Checks, Step, users
  <2>3. ctx'.ownListed = (own # Gone)
    BY <2>2 DEF Types, SyncTypes, ContextType
  <2> QED
    BY <2>2, <2>3 DEF OwnIds
<1>3. CASE ~Sync
  <2>1. pc' = pc /\ ctx' = ctx
    BY <1>3, Outside
  <2>2. OwnIds \subseteq excused
    BY <2>1 DEF CommandsInv, OwnUnseen
  <2>3. CASE UsesCommand
    <3>1. CheckIsPast
      BY <2>1 DEF CheckIsPast
    <3> QED
      BY <1>1, <2>2, <2>3, <3>1, UsesBehindCheck
  <2>4. CASE ~UsesCommand
    <3>1. own' = own
      BY <1>3, <2>4 DEF Next, vars, comexio, Poll, LoadsPlans, User, EditsMarker, CopiesCommand,
         DeletesCommand,
         EditsPlan, SwitchesPlan, Ignores, Cancel, Press
    <3> QED
      BY <1>1, <2>2, <3>1 DEF OwnIds
  <2> QED
    BY <2>3, <2>4
<1> QED
  BY <1>2, <1>3

\* Of what may go, a check keeps what plans hold, but for what is excused.
LEMMA ReadsPlansKeeps ==
  ASSUME Types, OwnUnseen, NEW at \in {"bulk", "deletable"}, NEW wanted, NEW after, ReadsPlans(at, wanted, after)
  PROVE  (wanted \ ctx'.kept) \cap InUse' \subseteq excused'
<1>1. plan' = plan /\ own' = own /\ excused' = excused /\ pc = at
  BY DEF ReadsPlans, Step, users, Quietly, managed
<1>2. InUse' = InUse
  BY <1>1 DEF InUse, OwnIds
<1>3. CASE ctx' = [ctx EXCEPT !.kept = wanted \cap PlacedIds]
  <2>1. ctx'.kept = wanted \cap PlacedIds
    BY <1>3 DEF Types, SyncTypes, ContextType
  <2>2. OwnIds \subseteq PlacedIds \cup excused
    BY <1>1 DEF OwnUnseen, PlacedIds
  <2> QED
    BY <1>1, <1>2, <2>1, <2>2 DEF InUse, PlacedIds
<1>4. CASE ctx' = [Reported EXCEPT !.kept = wanted]
  <2>1. ctx'.kept = wanted
    BY <1>4 DEF Reported, Types, SyncTypes, ContextType
  <2> QED
    BY <2>1
<1> QED
  BY <1>3, <1>4 DEF ReadsPlans

LEMMA OrphansFreeStep ==
  ASSUME Types, PlanThere, CommandsInv, [Next]_vars
  PROVE  OrphansFree'
<1> SUFFICES ASSUME pc' = "tasks", ~cancel'
             PROVE  (ctx'.task.delete \ ctx'.kept) \cap InUse' \subseteq excused'
  BY DEF OrphansFree
<1>1. excused \subseteq excused' /\ ctx \in ContextType
  BY CommandsGo DEF CommandsInv, Types, SyncTypes
<1>2. CASE ListsPlans
  <2>1. cancel' = cancel
    BY <1>2 DEF ListsPlans, Checks, Step, users
  <2>2. CASE ctx.task.delete = {} /\ ctx' = ctx
    BY <2>2
  <2>3. CASE ctx' = [Reported EXCEPT !.kept = ctx.task.delete]
    BY <1>1, <2>3 DEF Reported, ContextType
  <2> QED
    BY <1>2, <2>1, <2>2, <2>3 DEF ListsPlans, Checks
<1>3. CASE ChecksOrphans
  <2>1. ctx'.task = ctx.task
    BY <1>1, <1>3 DEF ChecksOrphans, ReadsPlans, Reported, ContextType
  <2> QED
    BY <1>3, <2>1, ReadsPlansKeeps DEF ChecksOrphans, CommandsInv
<1>4. CASE RunsTask
  <2>1. pc = "tasks" /\ plan' = plan /\ own' = own /\ cancel' = cancel
    BY <1>4 DEF RunsTask, Step, users, managed
  <2>2. InUse' = InUse
    BY <2>1 DEF InUse, OwnIds
  <2> QED
    BY <1>1, <1>4, <2>1, <2>2, RunsTaskIs DEF CommandsInv, OrphansFree
<1>5. CASE ~Sync
  <2>1. pc' = pc /\ ctx' = ctx
    BY <1>5, Outside
  <2>2. ~cancel
    BY <1>5, <2>1, Outside
  <2> QED
    BY <1>1, <2>1, <2>2, NewlyUsedPastCheck DEF CommandsInv, OrphansFree
<1> QED
  BY <1>2, <1>3, <1>4, <1>5, LeadsTo

LEMMA CleanableFreeStep ==
  ASSUME Types, PlanThere, CommandsInv, [Next]_vars
  PROVE  CleanableFree'
<1> SUFFICES ASSUME pc' = "delete"
             PROVE  (Cleanable' \ ctx'.kept) \cap InUse' \subseteq excused'
  BY DEF CleanableFree
<1>1. excused \subseteq excused' /\ ctx \in ContextType
  BY CommandsGo DEF CommandsInv, Types, SyncTypes
<1>2. CASE ChecksCleanable
  <2>1. ctx'.unwired = ctx.unwired /\ ctx'.cleaned = ctx.cleaned /\ data' = data
    BY <1>1, <1>2 DEF ChecksCleanable, ReadsPlans, Step, Reported, ContextType
  <2>2. Cleanable' = Cleanable
    BY <2>1 DEF Cleanable
  <2> QED
    BY <1>2, <2>2, ReadsPlansKeeps DEF ChecksCleanable, CommandsInv
<1>3. CASE DeletesCleaned
  <2>1. pc = "delete" /\ plan' = plan /\ own' = own /\ data' = data
    BY <1>3 DEF DeletesCleaned, Step, users, managed
  <2>2. InUse' = InUse
    BY <2>1 DEF InUse, OwnIds
  <2>3. ctx'.unwired = ctx.unwired /\ ctx'.cleaned = ctx.cleaned /\ ctx.kept \subseteq ctx'.kept
    <3>1. CASE ctx' = ctx
      BY <3>1
    <3>2. ASSUME NEW c, Writing([command EXCEPT ![c] = Gone], device /\ command[c] # Gone, [ctx EXCEPT !.kept = @ \cup {c}])
          PROVE  ctx'.unwired = ctx.unwired /\ ctx'.cleaned = ctx.cleaned /\ ctx.kept \subseteq ctx'.kept
      <4> DEFINE done == [ctx EXCEPT !.kept = @ \cup {c}]
                 failed == [done EXCEPT !.failed = TRUE, !.toWire = ctx.toWire]
      <4>1. /\ done.unwired = ctx.unwired /\ done.cleaned = ctx.cleaned /\ ctx.kept \subseteq done.kept
            /\ failed.unwired = ctx.unwired /\ failed.cleaned = ctx.cleaned /\ ctx.kept \subseteq failed.kept
        BY <1>1 DEF ContextType
      <4>2. ctx' \in {done, failed}
        BY <3>2 DEF Writing
      <4> HIDE DEF done, failed
      <4> QED
        BY <4>1, <4>2
    <3> QED
      BY <1>3, <3>1, <3>2 DEF DeletesCleaned
  <2>4. Cleanable' = Cleanable
    BY <2>1, <2>3 DEF Cleanable
  <2> QED
    BY <1>1, <2>1, <2>2, <2>3, <2>4 DEF CommandsInv, CleanableFree
<1>4. CASE ~Sync
  <2>1. pc' = pc /\ ctx' = ctx /\ data' = data
    BY <1>4, Outside
  <2>2. Cleanable' = Cleanable
    BY <2>1 DEF Cleanable
  <2> QED
    BY <1>1, <2>1, <2>2, NewlyUsedPastCheck DEF CommandsInv, CleanableFree
<1> QED
  BY <1>2, <1>3, <1>4, LeadsTo

LEMMA PresentIs ==
  ASSUME NEW cmds \in Seq(Command \cup {Gone})
  PROVE  Present(cmds) = {c \in DOMAIN cmds : cmds[c] # Gone}
<1>1. DOMAIN cmds = 1 .. Len(cmds)
  OBVIOUS
<1> QED
  BY <1>1 DEF Present

LEMMA ReadStillStep ==
  ASSUME Types, PlanThere, CommandsInv, [Next]_vars
  PROVE  ReadStill'
<1> SUFFICES ASSUME pc' \in {"wire load", "pairs"}
             PROVE  /\ ctx'.read \in Reading
                    /\ \A c \in Present(ctx'.read.command) :
                          c \in Present(command') \/ (c \in DOMAIN command' /\ c \in excused')
  BY DEF ReadStill, Present
<1>1. ctx \in ContextType
  BY DEF Types, SyncTypes
<1>2. Read \in Reading
  BY ReadIsReading DEF Types
<1>3. CASE ReadsConfig
  <2>1. ctx' = [ctx EXCEPT !.read = Read] /\ command' = command
    BY <1>3 DEF ReadsConfig, webio
  <2>2. ctx'.read = Read
    BY <1>1, <2>1 DEF ContextType
  <2>3. Read.command = command'
    BY <2>1 DEF Read
  <2> QED
    BY <1>2, <2>2, <2>3
<1>4. CASE pc \in {"wire load", "pairs"} /\ ctx'.read = ctx.read
  <2>1. /\ DOMAIN command \subseteq DOMAIN command' /\ excused \subseteq excused'
        /\ \A c \in DOMAIN command : command[c] # Gone /\ command'[c] = Gone => c \in excused'
    BY <1>4, CommandsGo DEF CommandsInv
  <2>2. command' \in Seq(Command \cup {Gone}) /\ command \in Seq(Command \cup {Gone})
    BY TypesStep DEF CommandsInv, Types, ComexioTypes
  <2>3. Present(command) = {c \in DOMAIN command : command[c] # Gone}
    BY <2>2, PresentIs
  <2>4. Present(command') = {c \in DOMAIN command' : command'[c] # Gone}
    BY <2>2, PresentIs
  <2>5. /\ ctx.read \in Reading
        /\ \A c \in Present(ctx.read.command) : c \in Present(command) \/ (c \in DOMAIN command /\ c \in excused)
    BY <1>4 DEF CommandsInv, ReadStill
  <2> QED
    BY <1>4, <2>1, <2>3, <2>4, <2>5
<1>5. CASE ReadsPlan
  BY <1>1, <1>4, <1>5 DEF ReadsPlan, Step, ContextType
<1>6. CASE PlacesPair
  BY <1>1, <1>4, <1>6 DEF PlacesPair, Step, ContextType
<1>7. CASE ~Sync
  BY <1>4, <1>7, Outside
<1> QED
  BY <1>3, <1>5, <1>6, <1>7, LeadsTo

LEMMA CommandsStep ==
  ASSUME Types, PlanThere, CommandsInv, [Next]_vars
  PROVE  CommandsInv'
BY UsedStep, OwnUnseenStep, OrphansFreeStep, CleanableFreeStep, ReadStillStep DEF CommandsInv

-----------------------------------------------------------------------------
(* The plan runs as before.                                                    *)

\* A task's write leaves what the sync remembers of the plan alone.
LEMMA TaskWritesKeep ==
  ASSUME ctx \in ContextType, RunsTask \/ DeletesCleaned
  PROVE  /\ \A field \in {"added", "resort", "action", "ran", "fresh", "after", "cleaned", "dangling"} :
               ctx'[field] = ctx[field]
         /\ ctx.failed => ctx'.failed
<1> DEFINE Keeps(c) ==
      /\ \A field \in {"added", "resort", "action", "ran", "fresh", "after", "cleaned", "dangling"} :
            c[field] = ctx[field]
      /\ ctx.failed => c.failed
<1> DEFINE Both(c) == Keeps(c) /\ Keeps([c EXCEPT !.failed = TRUE, !.toWire = ctx.toWire])
<1>1. ASSUME NEW effect, NEW possible, NEW done, Writing(effect, possible, done), Both(done)
      PROVE  Keeps(ctx')
  BY <1>1 DEF Writing
<1>2. ASSUME NEW field \in {"rename", "delete", "create", "type"}, NEW t
      PROVE  /\ Both([ctx EXCEPT !.task[field] = @ \ {t}])
             /\ Keeps([[ctx EXCEPT !.task[field] = @ \ {t}] EXCEPT !.failed = TRUE])
  BY DEF ContextType
<1>3. ASSUME NEW item
      PROVE  Both([ctx EXCEPT !.task.create = @ \ {item}, !.toWire = @ \cup {item.of}])
  BY DEF ContextType
<1>4. ASSUME NEW c PROVE Both([ctx EXCEPT !.kept = @ \cup {c}])
  BY DEF ContextType
<1> HIDE DEF Both
<1>5. ASSUME NEW field \in {"rename", "type"}, Saves(field) PROVE Keeps(ctx')
  <2>1. PICK item : Writing([command EXCEPT ![item.id] = Saved(item)], device /\ command[item.id] # Gone,
                            [ctx EXCEPT !.task[field] = @ \ {item}])
    BY <1>5 DEF Saves
  <2> HIDE DEF Keeps
  <2> QED
    BY <1>1, <1>2, <2>1
<1>6. ASSUME Creates PROVE Keeps(ctx')
  <2>1. PICK item : Writing(Append(command, Saved(item)), device,
                            [ctx EXCEPT !.task.create = @ \ {item}, !.toWire = @ \cup {item.of}])
    BY <1>6 DEF Creates
  <2> HIDE DEF Keeps
  <2> QED
    BY <1>1, <1>3, <2>1
<1>7. ASSUME Deletes PROVE Keeps(ctx')
  <2>1. PICK c : LET done == [ctx EXCEPT !.task.delete = @ \ {c}] IN
                 \/ ctx' = [done EXCEPT !.failed = TRUE]
                 \/ Writing([command EXCEPT ![c] = Gone], device /\ command[c] # Gone, done)
    BY <1>7 DEF Deletes
  <2> DEFINE done == [ctx EXCEPT !.task.delete = @ \ {c}]
  <2>2. done = [ctx EXCEPT !.task["delete"] = @ \ {c}]
    OBVIOUS
  <2>3. Both(done) /\ Keeps([done EXCEPT !.failed = TRUE])
    BY <1>2, <2>2
  <2> HIDE DEF Keeps, done
  <2>4. CASE ctx' = [done EXCEPT !.failed = TRUE]
    BY <2>3, <2>4
  <2> QED
    BY <1>1, <2>1, <2>3, <2>4 DEF done
<1>8. ASSUME DeletesCleaned, ctx' # ctx PROVE Keeps(ctx')
  <2>1. PICK c : Writing([command EXCEPT ![c] = Gone], device /\ command[c] # Gone, [ctx EXCEPT !.kept = @ \cup {c}])
    BY <1>8 DEF DeletesCleaned
  <2> HIDE DEF Keeps
  <2> QED
    BY <1>1, <1>4, <2>1
<1>9. ctx' = ctx \/ Keeps(ctx')
  <2> HIDE DEF Keeps
  <2> QED
    BY <1>5, <1>6, <1>7, <1>8 DEF RunsTask
<1> QED
  BY <1>9

\* What the sync holds is a record of these fields.
LEMMA ContextRecord ==
  ASSUME NEW c \in ContextType
  PROVE  /\ DOMAIN c = ContextFields
         /\ c.ran \in BOOLEAN /\ c.fresh \in BOOLEAN /\ c.added \in BOOLEAN /\ c.failed \in BOOLEAN
         /\ c.after \in {"dangling", "sort", "clean check", "done"} /\ c.resort \in {"no", "ran", "stood"}
BY Zenon DEF ContextType, ContextFields

LEMMA PassesStep ==
  ASSUME Types, Passes, [Next]_vars
  PROVE  Passes'
<1>1. ctx \in ContextType
  BY DEF Types, SyncTypes
<1>2. CASE ~Sync
  BY <1>2, Outside DEF Passes, Cleaning, Early, Cutting
<1>3. CASE LooksUpDevice
  BY ContextRecord, <1>1, <1>3 DEF LooksUpDevice, Step, Aborts, Reported, Passes, Cleaning, Early,
     Cutting, ContextFields
<1>4. CASE DecidesAction \/ Recreates
  <2>1. pc \in Early /\ pc' \in Early \cup {"wire", "unwire", "done"}
    BY <1>4 DEF DecidesAction, Recreates, DeletesDevice, ConfirmsDeviceGone, LooksUpClass,
       DeletesClass, Uploads, CreatesDevice, Step, Aborts, Early
  <2>2. ctx'.added = ctx.added /\ ctx'.resort = ctx.resort /\ ctx'.action = ctx.action
    BY ContextRecord, <1>1, <1>4 DEF DecidesAction, Recreates, DeletesDevice, ConfirmsDeviceGone,
       LooksUpClass,
       DeletesClass, Uploads, CreatesDevice, Aborts, Reported, ContextFields
  <2> QED
    BY <2>1, <2>2 DEF Passes, Cleaning, Early, Cutting
<1>5. CASE Unwires \/ CleansLeftOvers
  <2>1. pc \in {"unwire", "dangling"} /\ pc' \in {"dangling", "sort", "stop"}
    BY <1>5 DEF Unwires, CleansLeftOvers, Cuts, Step
  <2>2. /\ ctx'.added = ctx.added /\ ctx'.resort = ctx.resort /\ ctx'.action = ctx.action
        /\ pc' = "stop" => ctx'.after \in {"dangling", "sort"}
    <3>1. \/ ctx' = ctx /\ pc' # "stop"
          \/ \E elems, after : ctx' = [ctx EXCEPT !.cut = elems, !.after = after] /\ after \in {"dangling", "sort"}
          \/ \E after : ctx' = [Reported EXCEPT !.after = after] /\ pc' # "stop"
      BY <1>5 DEF Unwires, CleansLeftOvers, Cuts
    <3> QED
      BY ContextRecord, <1>1, <3>1 DEF Reported, ContextFields
  <2> QED
    BY <2>1, <2>2 DEF Passes, Cleaning, Early, Cutting
<1>6. CASE StopsPlan \/ RestartsPlan
  <2>1. pc \in Cutting /\ pc' \in {"erase", ctx.after}
    BY <1>6 DEF StopsPlan, RestartsPlan, Step, Cutting
  <2>2. /\ ctx'.added = ctx.added /\ ctx'.resort = ctx.resort /\ ctx'.action = ctx.action
        /\ ctx'.after = ctx.after /\ ctx.after \in {"dangling", "sort", "clean check", "done"}
    BY ContextRecord, <1>1, <1>6 DEF StopsPlan, RestartsPlan, NothingCut, Reported, ContextFields
  <2> QED
    BY <2>1, <2>2 DEF Passes, Cleaning, Early, Cutting
<1>7. CASE ErasesElements
  <2>1. pc \in Cutting /\ pc' \in {"restart", ctx.after}
    BY <1>7 DEF ErasesElements, Step, Cutting
  <2>2. /\ ctx'.added = ctx.added /\ ctx'.action = ctx.action /\ (Cleaning => ctx'.resort = ctx.resort)
        /\ ctx'.after = ctx.after /\ ctx.after \in {"dangling", "sort", "clean check", "done"}
    BY ContextRecord, <1>1, <1>7 DEF ErasesElements, Touched, NothingCut, Reported, ContextFields
  <2> QED
    BY <2>1, <2>2 DEF Passes, Cleaning, Early, Cutting
<1>8. CASE SortsPlan \/ RunsSorted \/ RunsAgain
  <2>1. pc \in {"sort", "run", "rerun"} /\ pc' \in {"run", "rerun", "done", "check"} /\ (pc' = "check" => ~ctx.added)
    BY <1>8 DEF SortsPlan, RunsSorted, RunsAgain, AfterSort, Step
  <2>2. ctx'.added = ctx.added /\ ctx'.resort = ctx.resort /\ ctx'.action = ctx.action
    BY ContextRecord, <1>1, <1>8 DEF SortsPlan, RunsSorted, RunsAgain, Reported, ContextFields
  <2> QED
    BY <2>1, <2>2 DEF Passes, Cleaning, Early, Cutting
<1>9. CASE ListsPlans \/ ChecksOrphans \/ ListsPlansForCleanup \/ ChecksCleanable
  <2>1. /\ pc \in {"check", "bulk", "clean check", "deletable"} /\ pc' \in {"bulk", "tasks", "deletable", "delete", "done"}
        /\ ctx'.added = ctx.added /\ ctx'.resort = ctx.resort /\ ctx'.action = ctx.action
    BY ContextRecord, <1>1, <1>9 DEF ListsPlans, ChecksOrphans, ListsPlansForCleanup, ChecksCleanable,
       Checks, ReadsPlans, Step,
       Reported, ContextFields
  <2> QED
    BY <2>1 DEF Passes, Cleaning, Early, Cutting
<1>10. CASE RunsTask \/ DeletesCleaned
  <2>1. pc \in {"tasks", "delete"} /\ pc' \in {"tasks", "delete", "wire", "done"}
    BY <1>10 DEF RunsTask, DeletesCleaned, Step
  <2>2. ctx'.added = ctx.added /\ ctx'.resort = ctx.resort /\ ctx'.action = ctx.action
    BY <1>1, <1>10, TaskWritesKeep
  <2> QED
    BY <2>1, <2>2 DEF Passes, Cleaning, Early, Cutting
<1>11. CASE FindsPlan
  BY ContextRecord, <1>1, <1>11 DEF FindsPlan, Step, Reported, Passes, Cleaning, Early, Cutting,
     ContextFields
<1>12. CASE StopsToWire \/ ReadsConfig \/ ReadsPlan \/ PlacesPair \/ PairsDone
  <2>1. pc \in Placing /\ pc' \in {"wire read", "wire load", "pairs", "sort", "rerun", "done"}
        /\ (pc' \in {"wire read", "wire load"} => pc \in {"wire stop", "wire read"})
    BY <1>12 DEF StopsToWire, ReadsConfig, ReadsPlan, PlacesPair, PairsDone, Step, Placing
  <2>2. ctx'.resort = ctx.resort /\ ctx'.action = ctx.action
        /\ (pc \in {"wire stop", "wire read"} => ctx'.added = ctx.added)
    BY ContextRecord, <1>1, <1>12 DEF StopsToWire, ReadsConfig, ReadsPlan, PlacesPair, PairsDone, Step,
       Reported, ContextFields
  <2> QED
    BY <2>1, <2>2 DEF Passes, Cleaning, Early, Cutting, Placing
<1>13. CASE FindsIgnored \/ LoadsForCleanup
  BY ContextRecord, <1>1, <1>13 DEF FindsIgnored, LoadsForCleanup, Step, Reported, Passes, Cleaning,
     Early, Cutting, ContextFields
<1>14. CASE Finishes
  BY <1>14 DEF Finishes, NoContext, Passes, Cleaning, Early, Cutting
<1> QED
  BY ContextRecord, <1>2, <1>3, <1>4, <1>5, <1>6, <1>7, <1>8, <1>9, <1>10, <1>11, <1>12, <1>13, <1>14
     DEF Sync, SyncsClass, Delta, Debris, Wires, WiresPlan, CleansIgnored

LEMMA RunningStep ==
  ASSUME Types, PlanThere, Passes, [Next]_vars,
         before # Gone /\ ~ctx.failed => Running,
         before' # Gone, ~ctx'.failed
  PROVE  Running'
<1>1. ctx \in ContextType /\ runs \in BOOLEAN /\ listed \in [runs : BOOLEAN, own : BOOLEAN]
  BY DEF Types, SyncTypes, ComexioTypes, HaTypes
<1>2. CASE ~Sync
  <2>1. CASE pc' = pc /\ ctx' = ctx /\ runs' = runs /\ listed' = listed /\ before' = before
    BY <2>1 DEF Running, Untouched, BetweenCuts, Stopped, Wiring
  <2>2. CASE Poll
    BY <2>2 DEF Poll, Early, Running, Untouched, BetweenCuts, Stopped, Wiring
  <2>3. CASE \E a \in Actions : Press(a)
    BY <2>3 DEF Press, Early, comexio, managed, Running, Untouched, BetweenCuts, Stopped, Wiring
  <2> QED
    BY <1>2, <2>1, <2>2, <2>3 DEF Next, vars, comexio, managed, LoadsPlans, User, EditsMarker,
       CopiesCommand,
       DeletesCommand, UsesCommand, EditsPlan, SwitchesPlan, Ignores, Cancel, Edit
<1>3. CASE Finishes
  BY <1>3 DEF Finishes, Early, Running, Untouched, BetweenCuts, Stopped, Wiring
<1>4. CASE Sync /\ ~Finishes
  <2>1. before' = before /\ before \in BOOLEAN
    BY <1>4, Steps DEF Step, users, Types, SyncTypes
  <2>2. CASE LooksUpDevice
    <3>1. ~ctx.failed /\ ctx'.resort = ctx.resort /\ ctx'.added = ctx.added
      BY ContextRecord, <1>1, <2>2 DEF LooksUpDevice, Aborts, Reported, ContextFields
    <3>2. pc = "device" /\ runs' = runs /\ listed' = listed /\ pc' \in {"class", "wire", "find", "done"}
      BY <2>2 DEF LooksUpDevice, Step, Quietly, managed, Aborts
    <3> QED
      BY <2>1, <3>1, <3>2 DEF Early, Running, Untouched, BetweenCuts, Stopped, Wiring
  <2>3. CASE DecidesAction \/ Recreates
    <3>1. pc \in Early /\ pc' \in Early \cup {"wire", "unwire", "done"} /\ runs' = runs /\ listed' = listed
      BY <2>3 DEF DecidesAction, Recreates, DeletesDevice, ConfirmsDeviceGone, LooksUpClass,
         DeletesClass, Uploads, CreatesDevice, Step, Aborts, Quietly, managed, Early
    <3>2. ~ctx.failed /\ ctx'.resort = ctx.resort /\ ctx'.added = ctx.added
      BY ContextRecord, <1>1, <2>3 DEF DecidesAction, Recreates, DeletesDevice, ConfirmsDeviceGone,
         LooksUpClass,
         DeletesClass, Uploads, CreatesDevice, Aborts, Reported, ContextFields
    <3> QED
      BY <2>1, <3>1, <3>2 DEF Passes, Early, Running, Untouched, BetweenCuts, Stopped, Wiring
  <2>4. CASE Unwires \/ CleansLeftOvers
    <3>1. /\ pc \in {"unwire", "dangling"} /\ pc' \in {"dangling", "sort", "stop"} /\ runs' = runs /\ listed' = listed
      BY <2>4 DEF Unwires, CleansLeftOvers, Cuts, Step, Quietly, managed
    <3>2. \/ ctx' = ctx
          \/ \E elems, after : ctx' = [ctx EXCEPT !.cut = elems, !.after = after]
          \/ \E after : ctx' = [Reported EXCEPT !.after = after]
      BY <2>4 DEF Unwires, CleansLeftOvers, Cuts
    <3>3. ~ctx.failed /\ ctx'.resort = ctx.resort /\ ctx'.added = ctx.added
      BY ContextRecord, <1>1, <3>2 DEF Reported, ContextFields
    <3> QED
      BY <2>1, <3>1, <3>3 DEF Passes, Early, Running, Untouched, BetweenCuts, Stopped, Wiring
  <2>5. CASE StopsPlan
    <3>1. /\ pc = "stop" /\ pc' = "erase" /\ ~runs' /\ listed' = listed /\ ctx' = [ctx EXCEPT !.ran = runs]
      BY ContextRecord, <1>1, <2>5 DEF StopsPlan, Step, NothingCut, Reported, ContextFields
    <3>2. ~ctx.failed /\ ctx'.resort = ctx.resort /\ ctx'.added = ctx.added /\ ctx'.ran = runs
      BY ContextRecord, <1>1, <3>1 DEF ContextFields
    <3> QED
      BY <1>1, <2>1, <3>1, <3>2 DEF Early, Running, Untouched, BetweenCuts, Stopped, Wiring
  <2>6. CASE ErasesElements
    <3>1. /\ pc = "erase" /\ pc' = (IF ctx.ran THEN "restart" ELSE ctx.after) /\ runs' = runs /\ listed' = listed
          /\ ctx' = Touched
      BY ContextRecord, <1>1, <2>6 DEF ErasesElements, Step, NothingCut, Reported, ContextFields
    <3>2. /\ ~ctx.failed /\ ctx'.added = ctx.added /\ (Cleaning => ctx'.resort = ctx.resort)
          /\ ~Cleaning => ctx'.resort = IF ctx.resort # "no" THEN ctx.resort ELSE IF ctx.ran THEN "ran" ELSE "stood"
          /\ ctx.after \in {"dangling", "sort", "clean check", "done"} /\ ctx.resort \in {"no", "ran", "stood"}
          /\ ctx.ran \in BOOLEAN
      BY ContextRecord, <1>1, <3>1 DEF Touched, ContextFields
    <3> QED
      BY <1>1, <2>1, <3>1, <3>2 DEF Passes, Early, Cutting, Running, Untouched, BetweenCuts, Stopped,
         Wiring
  <2>7. CASE RestartsPlan
    <3>1. /\ pc = "restart" /\ pc' = ctx.after /\ ctx' = ctx
          /\ \/ runs' = TRUE /\ listed' = [listed EXCEPT !.runs = TRUE]
             \/ ctx.resort # "no" /\ listed' = listed
      BY ContextRecord, <1>1, <2>7 DEF RestartsPlan, Started, Step, Reported, ContextFields
    <3>2. ctx.after \in {"dangling", "sort", "clean check", "done"} /\ ctx.resort \in {"no", "ran", "stood"}
      BY ContextRecord, <1>1 DEF ContextFields
    <3> QED
      BY <1>1, <2>1, <3>1, <3>2 DEF Passes, Early, Cutting, Running, Untouched, BetweenCuts, Stopped,
         Wiring
  <2>8. CASE SortsPlan
    <3>1. ctx' = ctx
      BY ContextRecord, <1>1, <2>8 DEF SortsPlan, Reported, ContextFields
    <3>2. ctx.resort \in {"no", "ran", "stood"} /\ ctx.ran \in BOOLEAN /\ ctx.added \in BOOLEAN
      BY ContextRecord, <1>1 DEF ContextFields
    <3>3. Reported # ctx
      BY ContextRecord, <1>1, <3>1 DEF Reported, ContextFields
    <3>4. /\ pc = "sort"
          /\ \/ ~ctx.added /\ ctx.resort = "no" /\ runs' = runs /\ listed' = listed /\ pc' = "check"
             \/ Ran /\ pc' = "run"
             \/ ~Ran /\ (ctx.added \/ ctx.resort # "no") /\ runs' = runs /\ listed' = listed /\ pc' = AfterSort
      BY <2>8, <3>1, <3>3 DEF SortsPlan, Step
    <3> QED
      BY <1>1, <2>1, <3>1, <3>2, <3>4 DEF Passes, Early, Ran, AfterSort, Running, Untouched,
         BetweenCuts, Stopped, Wiring
  <2>9. CASE RunsSorted \/ RunsAgain
    <3>1. ctx' = ctx
      BY ContextRecord, <1>1, <2>9 DEF RunsSorted, RunsAgain, Reported, ContextFields
    <3>2. ctx.added \in BOOLEAN /\ Reported # ctx
      BY ContextRecord, <1>1, <3>1 DEF Reported, ContextFields
    <3>3. /\ pc \in {"run", "rerun"}
          /\ \/ pc' = "rerun"
             \/ runs' = TRUE /\ listed' = [listed EXCEPT !.runs = TRUE] /\ pc' \in {AfterSort, "done"}
      BY <2>9, <3>1, <3>2 DEF RunsSorted, RunsAgain, Started, Step
    <3> QED
      BY <1>1, <2>1, <3>1, <3>2, <3>3 DEF Early, AfterSort, Running, Untouched, BetweenCuts, Stopped,
         Wiring
  <2>10. CASE ListsPlans \/ ChecksOrphans \/ ListsPlansForCleanup \/ ChecksCleanable
    <3>1. /\ pc \in {"check", "bulk", "clean check", "deletable"}
          /\ pc' \in {"bulk", "tasks", "deletable", "delete", "done"}
          /\ runs' = runs /\ listed' \in {listed, [runs |-> runs, own |-> own # Gone]}
      BY <2>10 DEF ListsPlans, ChecksOrphans, ListsPlansForCleanup, ChecksCleanable, Checks,
         ReadsPlans, Step,
         Quietly, managed
    <3>2. ~ctx.failed
      BY ContextRecord, <1>1, <2>10 DEF ListsPlans, ChecksOrphans, ListsPlansForCleanup,
         ChecksCleanable, Checks, ReadsPlans,
         Reported, ContextFields
    <3>3. runs = before /\ listed.runs = before
      BY <2>1, <3>1, <3>2 DEF Running, Untouched
    <3>4. listed'.runs = listed.runs \/ listed'.runs = runs
      <4> DEFINE read == [runs |-> runs, own |-> own # Gone]
      <4>1. read.runs = runs
        OBVIOUS
      <4> HIDE DEF read
      <4> QED
        BY <3>1, <4>1 DEF read
    <3>5. runs' = before' /\ listed'.runs = before'
      BY <2>1, <3>1, <3>3, <3>4
    <3> QED
      BY <3>1, <3>5 DEF Early, Running, Untouched, BetweenCuts, Stopped, Wiring
  <2>11. CASE RunsTask \/ DeletesCleaned
    <3>1. pc \in {"tasks", "delete"} /\ pc' \in {"tasks", "delete", "wire", "done"} /\ runs' = runs /\ listed' = listed
      BY <2>11 DEF RunsTask, DeletesCleaned, Step, managed
    <3>2. ~ctx.failed
      BY <1>1, <2>11, TaskWritesKeep
    <3> QED
      BY <2>1, <3>1, <3>2 DEF Early, Running, Untouched, BetweenCuts, Stopped, Wiring
  <2>12. CASE FindsPlan
    <3>1. plan # Gone
      BY <2>1 DEF PlanThere
    <3>2. /\ pc = "wire" /\ runs' = runs /\ listed' = listed
          /\ \/ ctx' = ctx /\ pc' = "done"
             \/ /\ pc' = "wire stop"
                /\ ctx' = [ctx EXCEPT !.fresh = FALSE, !.ran = listed.runs, !.left = ctx.toWire, !.resort = "no"]
      <4>1. ctx' # Reported
        BY ContextRecord, <1>1 DEF Reported, ContextFields
      <4>2. (FALSE \/ listed.runs) = listed.runs
        BY <1>1
      <4> QED
        BY <2>12, <3>1, <4>1, <4>2 DEF FindsPlan, Step
    <3>3. ~ctx.failed /\ (pc' = "wire stop" => ctx'.fresh = FALSE /\ ctx'.ran = listed.runs)
      BY ContextRecord, <1>1, <3>2 DEF ContextFields
    <3> QED
      BY <1>1, <2>1, <3>2, <3>3 DEF Early, Running, Untouched, BetweenCuts, Stopped, Wiring
  <2>13. CASE StopsToWire
    <3>1. pc = "wire stop" /\ pc' = "wire read" /\ ctx' = ctx /\ (runs' = runs \/ runs' = FALSE)
      BY <2>13 DEF StopsToWire, Step
    <3>2. runs = before /\ ctx.ran = before /\ ~ctx.fresh
      BY <2>1, <3>1 DEF Running, Wiring
    <3>3. (runs' => before') /\ ctx'.ran = before' /\ ~ctx'.fresh
      BY <2>1, <3>1, <3>2
    <3> QED
      BY <2>1, <3>1, <3>3 DEF Early, Running, Untouched, BetweenCuts, Stopped, Wiring
  <2>14. CASE ReadsConfig \/ ReadsPlan \/ PlacesPair
    <3>1. \/ \E r : ctx' = [ctx EXCEPT !.read = r]
          \/ \E p : ctx' = [ctx EXCEPT !.plan = p]
          \/ \E l : ctx' = [ctx EXCEPT !.left = l]
          \/ \E l : ctx' = [[ctx EXCEPT !.left = l] EXCEPT !.added = TRUE]
          \/ \E l : ctx' = [[ctx EXCEPT !.left = l] EXCEPT !.failed = TRUE]
          \/ ctx' = Reported
      BY <2>14 DEF ReadsConfig, ReadsPlan, PlacesPair
    <3>2. ~ctx.failed /\ ctx'.ran = ctx.ran /\ ctx'.fresh = ctx.fresh
      BY ContextRecord, <1>1, <3>1 DEF Reported, ContextFields
    <3>3. /\ pc \in {"wire read", "wire load", "pairs"} /\ runs' = runs
          /\ pc' \in {"wire load", "pairs"} \/ ctx' = Reported
      BY <2>14 DEF ReadsConfig, ReadsPlan, PlacesPair, Step, Quietly, managed
    <3>4. ctx' # Reported
      BY ContextRecord, <1>1 DEF Reported, ContextFields
    <3> QED
      BY <2>1, <3>2, <3>3, <3>4 DEF Early, Running, Untouched, BetweenCuts, Stopped, Wiring
  <2>15. CASE PairsDone
    <3>1. /\ ~ctx.failed /\ ctx'.ran = ctx.ran /\ ctx'.fresh = ctx.fresh /\ ctx'.added = (ctx.added /\ ~ctx.fresh)
          /\ ctx.ran \in BOOLEAN /\ ctx.added \in BOOLEAN
      BY ContextRecord, <1>1, <2>15 DEF PairsDone, ContextFields
    <3>2. /\ pc = "pairs" /\ runs' = runs
          /\ pc' = IF ctx.added /\ ~ctx.fresh THEN "sort" ELSE IF ctx.ran THEN "rerun" ELSE "done"
      BY <2>15 DEF PairsDone, Step, Quietly, managed
    <3> QED
      BY <1>1, <2>1, <3>1, <3>2 DEF Early, Running, Untouched, BetweenCuts, Stopped, Wiring
  <2>16. CASE FindsIgnored \/ LoadsForCleanup
    <3>1. pc \in {"find", "clean load"} /\ pc' \in {"clean check", "clean load", "stop"} /\ runs' = runs /\ listed' = listed
      BY <2>16 DEF FindsIgnored, LoadsForCleanup, Step, Quietly, managed
    <3>2. ~ctx.failed /\ ctx'.resort = ctx.resort
      BY ContextRecord, <1>1, <2>16 DEF FindsIgnored, LoadsForCleanup, Reported, ContextFields
    <3> QED
      BY <2>1, <3>1, <3>2 DEF Early, Passes, Running, Untouched, BetweenCuts, Stopped, Wiring
  <2> QED
    BY <1>4, <2>2, <2>3, <2>4, <2>5, <2>6, <2>7, <2>8, <2>9, <2>10, <2>11, <2>12, <2>13, <2>14, <2>15,
       <2>16
       DEF Sync, SyncsClass, Delta, Debris, Wires, WiresPlan, CleansIgnored
<1> QED
  BY <1>2, <1>3, <1>4

LEMMA RunsStep ==
  ASSUME Types, PlanThere, RunsInv, [Next]_vars
  PROVE  RunsInv'
BY PassesStep, RunningStep DEF RunsInv

-----------------------------------------------------------------------------
(* The theorems.                                                               *)

\* Whatever happens, the sync, users and the polls keep the invariant.
LEMMA IInvStep == IInv /\ [Next]_vars => IInv'
BY TypesStep, PlanThereStep, CommandsStep, RunsStep DEF IInv, CommandsInv

LEMMA IInvKept == Spec => []IInv
<1> QED
  BY InitHolds, IInvStep, PTL DEF Spec

\* Every command a plan holds an element of is there still, unless a user deleted it or placed it
\* behind the check: a sync deletes no command in use.
THEOREM UsedCommandsAreKept == Spec => []UsedCommandsStay
<1>1. IInv => UsedCommandsStay
  BY DEF IInv, CommandsInv
<1> QED
  BY <1>1, IInvKept, PTL

\* A sync that reports no failure leaves the managed plan running or stopped as it found it.
THEOREM PlanIsLeftRunning == Spec => PlanRunsAsBefore
<1>1. IInv => (pc = "done" /\ ~ctx.failed /\ before # Gone => runs = before)
  BY DEF IInv, RunsInv, Running
<1> QED
  BY <1>1, IInvKept, PTL DEF PlanRunsAsBefore

-----------------------------------------------------------------------------
(* What was read is true while nobody changed anything.                        *)

\* Before the wiring pass the managed plan only loses elements.
Clearing == {"idle", "device", "class", "delete device", "device?", "unwire", "dangling", "find", "clean load"}
            \cup Cutting

\* The wanted markers that have a command, and the commands that stand for them.
Served == {x \in Wanted(data, ignored) : Serving(data.command, x) # {}}
Best == {BestMatch(data, x) : x \in Served}

\* Plan p is what is left of plan q.
Below(p, q) ==
    p # Gone =>
        /\ Elements(p) \subseteq Elements(q) /\ \A e \in Elements(p) : p.elem[e] = q.elem[e]
        /\ p.wire \subseteq q.wire /\ p.logic \subseteq q.logic

\* Cutting these elements takes none of a user's logic, and no wanted marker off its command.
Spares(p, cut) ==
    /\ cut \cap p.logic = {}
    /\ \A x \in Served : \A e \in Find(p, "src", x), f \in Find(p, "web", BestMatch(data, x)) :
          <<e, f>> \in p.wire => e \notin cut /\ f \notin cut

AuditTrue ==
    \/ audit = Compare(data, ignored, IF plan = Gone THEN EmptyPlan ELSE plan)
    \/ ~device /\ Wanted(data, ignored) # {} /\ audit = EmptyAudit

ReadTrue ==
    quiet =>
        /\ source = data.source
        /\ DOMAIN data.command \subseteq DOMAIN command
        /\ pc \in {"idle", "device", "class", "delete device"} => command = data.command
        /\ pc \in {"idle", "device"} => AuditTrue
        /\ pc \in Clearing => snap # Gone /\ Below(plan, snap)

\* Nothing the sync deletes stands for a wanted marker.
Chosen ==
    quiet =>
        /\ pc # "idle" =>
              ctx.task.delete \cap Best = {} /\ ctx.cleaned \cap Wanted(data, ignored) = {}
        /\ pc \in {"stop", "erase"} => Spares(plan, ctx.cut)

LEMMA QuietSteps ==
  ASSUME [Next]_vars, quiet', ~Poll
  PROVE  /\ quiet /\ UNCHANGED <<source, ignored, data, audit>>
         /\ \/ UNCHANGED <<command, device, plan, snap, pc, ctx>> /\ (cancel => cancel')
            \/ LoadsPlans
            \/ \E a \in Actions : Press(a)
            \/ Sync /\ ~Finishes /\ snap' = snap /\ cancel' = cancel /\ \E at : Step(at)
<1>1. CASE UNCHANGED vars
  BY <1>1 DEF vars, comexio, webio, managed, ha
<1>2. CASE LoadsPlans
  BY <1>2 DEF LoadsPlans, comexio
<1>3. CASE User
  <2>1. Cancel \/ \E a \in Actions : Press(a)
    BY <1>3 DEF User, EditsMarker, CopiesCommand, DeletesCommand, UsesCommand, EditsPlan, SwitchesPlan,
       Ignores,
       Edit
  <2> QED
    BY <2>1 DEF Cancel, Press, comexio, webio, managed, ha
<1>4. CASE Sync
  <2>1. ~Finishes
    BY DEF Finishes, Audits
  <2>2. \E at : Step(at)
    BY <1>4, <2>1, Steps
  <2> QED
    BY <1>4, <2>1, <2>2 DEF Step, users
<1> QED
  BY <1>1, <1>2, <1>3, <1>4 DEF Next

LEMMA ClearingSteps ==
  ASSUME Types, Sync, ~Finishes
  PROVE  /\ pc' \notin {"idle", "device"}
         /\ pc' \in {"class", "delete device"} =>
               pc \in {"device", "class"} /\ UNCHANGED <<webio, plan>> /\ (LooksUpDevice \/ DecidesAction)
         /\ pc' \in Clearing => pc \in Clearing /\ (ErasesElements \/ plan' = plan)
<1>1. ctx.after \in {"dangling", "sort", "clean check", "done"}
  BY DEF Types, SyncTypes, ContextType
<1>2. CASE LooksUpDevice \/ DecidesAction
  BY <1>2 DEF LooksUpDevice, DecidesAction, Step, Quietly, managed, Aborts, Clearing
<1>3. CASE Recreates
  <2>1. pc \in Early /\ pc' \in {"device?", "class?", "delete class", "upload", "create device", "wire", "unwire", "done"}
        /\ plan' = plan /\ (pc' \in {"device?", "unwire"} => pc \in {"delete device", "device?"})
    BY <1>3 DEF Recreates, DeletesDevice, ConfirmsDeviceGone, LooksUpClass,
       DeletesClass, Uploads, CreatesDevice, Aborts, Early, Step, Quietly, managed
  <2> QED
    BY <2>1 DEF Clearing, Cutting
<1>4. CASE Debris
  <2>1. pc \in {"unwire", "dangling", "stop", "erase", "restart"}
        /\ pc' \in {"stop", "erase", "restart", "dangling", "sort", "clean check", "done"}
        /\ (ErasesElements \/ plan' = plan)
    BY <1>1, <1>4 DEF Debris, Unwires, CleansLeftOvers, Cuts, StopsPlan, ErasesElements, RestartsPlan,
       Step, Quietly, managed
  <2> QED
    BY <2>1 DEF Clearing, Cutting
<1>5. CASE SortsPlan \/ RunsSorted \/ RunsAgain
  BY <1>5 DEF SortsPlan, RunsSorted, RunsAgain, AfterSort, Clearing, Cutting
<1>6. CASE ListsPlans \/ ChecksOrphans \/ RunsTask
  BY <1>6 DEF ListsPlans, ChecksOrphans, Checks, ReadsPlans, RunsTask, Step, Clearing, Cutting
<1>7. CASE Wires
  BY <1>7 DEF Wires, FindsPlan, WiresPlan, StopsToWire, ReadsConfig, ReadsPlan, PlacesPair, PairsDone,
     Step, Clearing, Cutting
<1>8. CASE CleansIgnored
  <2>1. CASE FindsIgnored \/ LoadsForCleanup
    BY <2>1 DEF FindsIgnored, LoadsForCleanup, Step, Quietly, managed, Clearing, Cutting
  <2>2. CASE ListsPlansForCleanup \/ ChecksCleanable \/ DeletesCleaned
    BY <2>2 DEF ListsPlansForCleanup, ChecksCleanable, DeletesCleaned, Checks, ReadsPlans, Step,
       Clearing, Cutting
  <2> QED
    BY <1>8, <2>1, <2>2 DEF CleansIgnored
<1>9. \/ LooksUpDevice \/ DecidesAction \/ Recreates \/ Debris \/ SortsPlan \/ RunsSorted \/ RunsAgain
      \/ ListsPlans \/ ChecksOrphans \/ RunsTask \/ Wires \/ CleansIgnored
  BY DEF Sync, SyncsClass, Delta
<1> QED
  BY <1>2, <1>3, <1>4, <1>5, <1>6, <1>7, <1>8, <1>9, Zenon

LEMMA WithoutIsBelow ==
  ASSUME NEW p \in Plan, NEW q, Below(p, q), NEW cut
  PROVE  Below(Without(p, cut), q)
<1>1. p # Gone /\ Without(p, cut) # Gone /\ Without(p, cut) \in Plan
  BY WithoutIsPlan, SyncAssumption
<1>2. Elements(Without(p, cut)) \subseteq Elements(p)
      /\ \A e \in Elements(Without(p, cut)) : Without(p, cut).elem[e] = p.elem[e]
  BY <1>1 DEF Without, Plan, Elements
<1>3. Without(p, cut).wire \subseteq p.wire /\ Without(p, cut).logic \subseteq p.logic
  BY DEF Without
<1> QED
  BY <1>1, <1>2, <1>3 DEF Below

LEMMA Reflexive == ASSUME NEW p PROVE Below(p, p)
BY DEF Below

LEMMA ReadTrueStep ==
  ASSUME IInv, ReadTrue, [Next]_vars
  PROVE  ReadTrue'
<1> SUFFICES ASSUME quiet' PROVE ReadTrue'
  BY DEF ReadTrue
<1>0. Types /\ IsPlan(plan) /\ EmptyPlan # Gone
  BY EmptyPlanIsPlan DEF IInv, Types, ComexioTypes
<1>1. CASE Poll
  <2> DEFINE known == {x \in ignored : source[x] # Gone}
  <2>1. /\ data' = Read /\ ignored' = known /\ snap' = snap /\ snap # Gone /\ pc' = "idle"
        /\ snap = IF plan = Gone THEN EmptyPlan ELSE plan
        /\ UNCHANGED <<source, command, device, plan>>
    BY <1>1 DEF Poll, Audits, comexio, webio, managed
  <2>2. (~device /\ Wanted(Read, known) # {} /\ audit' = EmptyAudit) \/ audit' = Compare(Read, known, snap)
    BY <1>1 DEF Poll, Audits
  <2> HIDE DEF known
  <2>3. AuditTrue'
    BY <2>1, <2>2 DEF AuditTrue
  <2>4. (Below(plan, snap))'
    BY <2>1, Reflexive DEF Below
  <2> QED
    BY <2>1, <2>3, <2>4 DEF ReadTrue, Read
<1>2. CASE ~Poll
  <2>1. quiet /\ UNCHANGED <<source, ignored, data, audit>>
    BY <1>2, QuietSteps
  <2>2. CASE UNCHANGED <<command, device, plan, snap, pc, ctx>>
    BY <2>1, <2>2 DEF ReadTrue, AuditTrue
  <2>3. CASE LoadsPlans
    <3>1. UNCHANGED <<command, device, plan, pc>> /\ snap' = IF plan = Gone THEN EmptyPlan ELSE plan
      BY <2>3 DEF LoadsPlans, comexio, webio, managed
    <3>2. snap' # Gone /\ Below(plan, snap')
      BY <1>0, <3>1, Reflexive DEF Below
    <3> QED
      BY <2>1, <3>1, <3>2 DEF ReadTrue, AuditTrue
  <2>4. CASE \E a \in Actions : Press(a)
    <3>1. UNCHANGED <<command, device, plan, snap>> /\ pc = "idle" /\ pc' = "device"
      BY <2>4 DEF Press, comexio, webio, managed, ha
    <3> QED
      BY <2>1, <3>1 DEF ReadTrue, AuditTrue, Clearing
  <2>5. CASE Sync /\ ~Finishes /\ snap' = snap
    <3>1. DOMAIN command \subseteq DOMAIN command'
      BY <1>0, CommandsGo DEF IInv, CommandsInv
    <3>2. pc' \notin {"idle", "device"}
      BY <1>0, <2>5, ClearingSteps
    <3>3. pc' \in {"class", "delete device"} => command' = command /\ pc \in {"device", "class"}
      BY <1>0, <2>5, ClearingSteps DEF webio
    <3>4. pc' \in Clearing => snap # Gone /\ (Below(plan, snap))'
      <4>1. SUFFICES ASSUME pc' \in Clearing PROVE snap # Gone /\ Below(plan', snap)
        BY <2>5 DEF Below
      <4>2. pc \in Clearing /\ (ErasesElements \/ plan' = plan)
        BY <1>0, <2>5, <4>1, ClearingSteps
      <4>3. snap # Gone /\ Below(plan, snap)
        BY <2>1, <4>2 DEF ReadTrue
      <4>4. CASE ErasesElements
        <5>1. plan \in Plan
          BY <1>0, <4>4 DEF ErasesElements, Step, IInv, PlanThere, Cutting, IsPlan
        <5> QED
          BY <4>3, <4>4, <5>1, WithoutIsBelow DEF ErasesElements
      <4> QED
        BY <4>2, <4>3, <4>4
    <3> QED
      BY <2>1, <2>5, <3>1, <3>2, <3>3, <3>4 DEF ReadTrue
  <2> QED
    BY <1>2, <2>2, <2>3, <2>4, <2>5, QuietSteps
<1> QED
  BY <1>1, <1>2
-----------------------------------------------------------------------------
(* What is cut out of the plan.                                                *)

LEMMA FoundIn ==
  ASSUME NEW p, NEW q, p # Gone, Below(p, q), NEW type, NEW ref
  PROVE  /\ OfType(p, type) \subseteq OfType(q, type)
         /\ Find(p, type, ref) \subseteq Find(q, type, ref)
BY DEF Below, OfType, Find

\* An orphan's elements are none of a wanted marker's pair.
LEMMA UnwiringsSpare ==
  ASSUME NEW p, NEW q, p # Gone, Below(p, q), NEW ids, ids \cap Best = {}
  PROVE  Spares(p, Unwirings(q, ids))
<1> SUFFICES ASSUME NEW e \in Unwirings(q, ids)
             PROVE  /\ e \notin p.logic
                    /\ \A x \in Served : \A s \in Find(p, "src", x), w \in Find(p, "web", BestMatch(data, x)) :
                          <<s, w>> \in p.wire => e # s /\ e # w
  BY DEF Spares
<1>0. PICK c \in ids : e \in Unwiring(q, c)
  BY DEF Unwirings
<1>1. PICK f \in Find(q, "web", c) : f \notin q.logic /\ (e = f \/ (e \in FedBy(q, f) /\ ~Shared(q, e, c)))
  <2>2. PICK f \in Find(q, "web", c) :
            e \in IF f \in q.logic \/ Feeds(q, f) # {} \/ Cardinality(FedBy(q, f)) > 1 THEN {}
                    ELSE {f} \cup {d \in FedBy(q, f) : ~Shared(q, d, c)}
    BY <1>0 DEF Unwiring
  <2> QED
    BY <2>2
<1>2. e # f => e \notin q.logic /\ FedBy(q, e) = {} /\ \A g \in Feeds(q, e) : q.elem[g].ref = c
  BY <1>1 DEF Shared, WiredOtherwise
<1>3. e \notin p.logic
  <2>1. p.logic \subseteq q.logic
    BY DEF Below
  <2> QED
    BY <1>1, <1>2, <2>1
<1>4. ASSUME NEW x \in Served, NEW s \in Find(p, "src", x),
             NEW w \in Find(p, "web", BestMatch(data, x)), <<s, w>> \in p.wire
      PROVE  e # s /\ e # w
  <2>1. s \in Find(q, "src", x) /\ w \in Find(q, "web", BestMatch(data, x)) /\ <<s, w>> \in q.wire
    BY <1>4, FoundIn DEF Below
  <2>2. BestMatch(data, x) # c
    BY DEF Best
  <2>3. q.elem[w].ref = BestMatch(data, x) /\ q.elem[s].type = "src"
    BY <2>1 DEF Find, OfType
  <2>4. w \in Feeds(q, s) /\ s \in FedBy(q, w)
    BY <2>1 DEF Feeds, FedBy
  <2>5. f # s /\ f # w
    <3>1. q.elem[f].ref = c /\ q.elem[f].type = "web"
      BY <1>1 DEF Find, OfType
    <3> QED
      BY <2>2, <2>3, <3>1
  <2> QED
    BY <1>1, <1>2, <2>2, <2>3, <2>4, <2>5
<1> QED
  BY <1>3, <1>4

\* An element that nothing is connected to is in no pair.
LEMMA LeftOversSpare ==
  ASSUME NEW p, NEW q, p # Gone, Below(p, q), NEW refs
  PROVE  Spares(p, LeftOvers(q, refs))
<1> SUFFICES ASSUME NEW e \in LeftOvers(q, refs)
             PROVE  /\ e \notin p.logic
                    /\ \A w \in p.wire : e # w[1] /\ e # w[2]
  BY DEF Spares
<1> QED
  BY DEF LeftOvers, Connected, Below

\* The elements of ignored markers are none of a wanted marker's pair.
LEMMA CleanedUpSpares ==
  ASSUME NEW p, NEW refs, refs \cap Wanted(data, ignored) = {}
  PROVE  Spares(p, CleanedUp(p, refs))
<1> SUFFICES ASSUME NEW e \in CleanedUp(p, refs)
             PROVE  /\ e \notin p.logic
                    /\ \A x \in Served : \A s \in Find(p, "src", x), w \in Find(p, "web", BestMatch(data, x)) :
                          <<s, w>> \in p.wire => e # s /\ e # w
  BY DEF Spares
<1> DEFINE srcs == SourcesOf(p, refs)
<1>1. (\E d \in srcs : e \in OwnWebs(p, d)) \/ (e \in srcs /\ ~WiredOtherwise(p, e))
  <2> DEFINE webs == {OwnWebs(p, d) : d \in srcs}
             bare == {d \in srcs : ~WiredOtherwise(p, d)}
  <2>1. CleanedUp(p, refs) = (UNION webs) \cup bare
    BY DEF CleanedUp
  <2>2. e \in UNION webs \/ e \in bare
    BY <2>1
  <2> QED
    BY <2>2
<1>2. e \notin p.logic
  BY <1>1 DEF OwnWebs, WiredOtherwise
<1>3. ASSUME NEW x \in Served, NEW s \in Find(p, "src", x),
             NEW w \in Find(p, "web", BestMatch(data, x)), <<s, w>> \in p.wire
      PROVE  e # s /\ e # w
  <2>1. x \notin refs
    BY DEF Served
  <2>2. p.elem[s].type = "src" /\ p.elem[s].ref = x /\ p.elem[w].type = "web"
    BY DEF Find, OfType
  <2>3. s \in FedBy(p, w)
    BY <1>3 DEF FedBy
  <2>4. CASE e \in srcs
    BY <2>1, <2>2, <2>4 DEF SourcesOf, OfType
  <2>5. CASE \E d \in srcs : e \in OwnWebs(p, d)
    <3>1. PICK d \in srcs : e \in OwnWebs(p, d)
      BY <2>5
    <3>2. p.elem[e].type = "web" /\ FedBy(p, e) = {d}
      BY <3>1 DEF OwnWebs
    <3>3. d # s
      BY <2>1, <2>2 DEF SourcesOf
    <3> QED
      BY <2>2, <2>3, <3>2, <3>3
  <2> QED
    BY <1>1, <2>4, <2>5
<1> QED
  BY <1>2, <1>3

LEMMA BestMatchServes ==
  ASSUME NEW read \in Reading, NEW x, Serving(read.command, x) # {}
  PROVE  BestMatch(read, x) \in Serving(read.command, x)
<1>1. Serving(read.command, x) \in SUBSET Nat /\ Named(read, x) \subseteq Serving(read.command, x)
  BY PresentIds DEF Reading, Serving, Named
<1> QED
  BY <1>1, MinIn DEF BestMatch

\* An orphan stands for no wanted marker.
LEMMA OrphansStandForNone ==
  ASSUME NEW read \in Reading, NEW ign, NEW p, NEW x \in Wanted(read, ign), Serving(read.command, x) # {}
  PROVE  BestMatch(read, x) \notin Compare(read, ign, p).orphan
<1> DEFINE orphan == {c \in Present(read.command) :
                        LET y == read.command[c].of IN y \notin Wanted(read, ign) \/ c # BestMatch(read, y)}
<1>1. Compare(read, ign, p).orphan = orphan
  BY DEF Compare
<1>2. read.command[BestMatch(read, x)].of = x
  BY BestMatchServes DEF Serving
<1> QED
  BY <1>1, <1>2

LEMMA OrphansSpareBest ==
  ASSUME Types, AuditTrue
  PROVE  audit.orphan \cap Best = {}
<1>1. data \in Reading
  BY DEF Types, HaTypes
<1>2. CASE audit = EmptyAudit
  BY <1>2 DEF EmptyAudit
<1>3. CASE \E p : audit = Compare(data, ignored, p)
  BY <1>1, <1>3, OrphansStandForNone DEF Best, Served
<1> QED
  BY <1>2, <1>3 DEF AuditTrue

\* From the lookup on, what is to be deleted or cleaned only gets less.
LEMMA TasksShrink ==
  ASSUME Types, Sync, ~Finishes, ~LooksUpDevice
  PROVE  ctx'.task.delete \subseteq ctx.task.delete /\ ctx'.cleaned = ctx.cleaned
<1>1. ctx \in ContextType
  BY DEF Types, SyncTypes
<1>2. CASE ctx' = ctx
  BY <1>2
<1>3. CASE DecidesAction \/ Recreates
  <2>1. \/ ctx' \in {ctx, Reported}
        \/ \E create : ctx' = [ctx EXCEPT !.task = [NoTasks EXCEPT !.create = create]]
        \/ \E toWire : ctx' = [ctx EXCEPT !.task = NoTasks, !.toWire = toWire]
    BY <1>3 DEF DecidesAction, Recreates, DeletesDevice, ConfirmsDeviceGone, LooksUpClass,
       DeletesClass, Uploads,
       CreatesDevice, Aborts
  <2>2. NoTasks.delete = {} /\ \A create : [NoTasks EXCEPT !.create = create].delete = {}
    BY DEF NoTasks
  <2> QED
    BY ContextRecord, <1>1, <2>1, <2>2 DEF Reported, ContextFields
<1>4. CASE Debris
  <2>1. \/ ctx' = ctx
        \/ \E elems, after : ctx' = [ctx EXCEPT !.cut = elems, !.after = after]
        \/ \E after : ctx' = [Reported EXCEPT !.after = after]
        \/ \E ran : ctx' = [ctx EXCEPT !.ran = ran]
        \/ \E resort : ctx' = [ctx EXCEPT !.resort = resort]
        \/ ctx' \in {NothingCut, Reported}
    BY <1>4 DEF Debris, Unwires, CleansLeftOvers, Cuts, StopsPlan, ErasesElements, RestartsPlan, Touched
  <2> QED
    BY ContextRecord, <1>1, <2>1 DEF NothingCut, Reported, ContextFields
<1>5. CASE SortsPlan \/ RunsSorted \/ RunsAgain
  BY ContextRecord, <1>1, <1>5 DEF SortsPlan, RunsSorted, RunsAgain, Reported, ContextFields
<1>6. CASE ListsPlans \/ ChecksOrphans \/ ListsPlansForCleanup \/ ChecksCleanable
  BY ContextRecord, <1>1, <1>6 DEF ListsPlans, ChecksOrphans, ListsPlansForCleanup, ChecksCleanable,
     Checks,
     ReadsPlans, Reported, ContextFields
<1>7. CASE RunsTask
  BY <1>1, <1>7, RunsTaskIs, TaskWritesKeep
<1>8. CASE DeletesCleaned
  <2>1. ctx'.cleaned = ctx.cleaned
    BY <1>1, <1>8, TaskWritesKeep
  <2>2. \/ ctx' = ctx
        \/ \E c : ctx' \in {[ctx EXCEPT !.kept = @ \cup {c}],
                            [ctx EXCEPT !.kept = @ \cup {c}, !.failed = TRUE, !.toWire = ctx.toWire]}
    BY <1>8 DEF DeletesCleaned, Writing
  <2> QED
    BY ContextRecord, <1>1, <2>1, <2>2 DEF ContextFields
<1>9. CASE Wires
  <2> DEFINE Stops(fresh) == ctx' = [ctx EXCEPT !.fresh = fresh, !.ran = fresh \/ listed.runs,
                                               !.left = ctx.toWire, !.resort = "no"]
  <2>1. \/ ctx' = ctx
        \/ Stops(TRUE) \/ Stops(FALSE)
        \/ \E read : ctx' = [ctx EXCEPT !.read = read]
        \/ \E p : ctx' = [ctx EXCEPT !.plan = p]
        \/ \E left : ctx' \in {[ctx EXCEPT !.left = left], [ctx EXCEPT !.left = left, !.added = TRUE],
                               [ctx EXCEPT !.left = left, !.failed = TRUE]}
        \/ \E added : ctx' = [ctx EXCEPT !.added = added]
        \/ ctx' = Reported
    <3>1. CASE FindsPlan
      BY <3>1 DEF FindsPlan
    <3>2. CASE PlacesPair
      BY <3>2 DEF PlacesPair
    <3>3. CASE StopsToWire \/ ReadsConfig \/ ReadsPlan
      BY <3>3 DEF StopsToWire, ReadsConfig, ReadsPlan
    <3>4. CASE PairsDone
      BY <3>4 DEF PairsDone
    <3> QED
      BY <1>9, <3>1, <3>2, <3>3, <3>4 DEF Wires, WiresPlan
  <2> QED
    BY ContextRecord, <1>1, <2>1 DEF Reported, ContextFields
<1>10. CASE FindsIgnored \/ LoadsForCleanup
  BY ContextRecord, <1>1, <1>10 DEF FindsIgnored, LoadsForCleanup, Reported, ContextFields
<1> QED
  BY <1>3, <1>4, <1>5, <1>6, <1>7, <1>8, <1>9, <1>10 DEF Sync, SyncsClass, Delta, CleansIgnored

LEMMA NotIdle == Sync => pc # "idle"
BY DEF Sync, LooksUpDevice, SyncsClass, DecidesAction, Recreates, DeletesDevice, ConfirmsDeviceGone,
   LooksUpClass,
   DeletesClass, Uploads, CreatesDevice, Delta, Debris, Unwires, CleansLeftOvers, StopsPlan,
   ErasesElements,
   RestartsPlan, SortsPlan, RunsSorted, RunsAgain, ListsPlans, ChecksOrphans, RunsTask, Checks,
   ReadsPlans, Wires,
   FindsPlan, WiresPlan, StopsToWire, ReadsConfig, ReadsPlan, PlacesPair, PairsDone, CleansIgnored,
   FindsIgnored,
   LoadsForCleanup, ListsPlansForCleanup, ChecksCleanable, DeletesCleaned, Step, Finishes

\* The steps that lead to a stop or an erasure.
LEMMA ToStop ==
  ASSUME Types, Sync, ~Finishes, pc' \in {"stop", "erase"}
  PROVE  \/ Unwires \/ CleansLeftOvers \/ LoadsForCleanup \/ StopsPlan
         \/ pc = "erase"
<1>1. CASE LooksUpDevice \/ DecidesAction \/ Recreates
  BY <1>1 DEF LooksUpDevice, DecidesAction, Recreates, DeletesDevice, ConfirmsDeviceGone, LooksUpClass,
     DeletesClass,
     Uploads, CreatesDevice, Aborts
<1>2. CASE ErasesElements \/ RestartsPlan
  <2>1. ctx.after \in {"dangling", "sort", "clean check", "done"}
    BY DEF Types, SyncTypes, ContextType
  <2> QED
    BY <1>2, <2>1 DEF ErasesElements, RestartsPlan, Step
<1>3. CASE SortsPlan \/ RunsSorted \/ RunsAgain \/ ListsPlans \/ ChecksOrphans \/ RunsTask
  BY <1>3 DEF SortsPlan, RunsSorted, RunsAgain, AfterSort, ListsPlans, ChecksOrphans, Checks,
     ReadsPlans, RunsTask, Step
<1>4. CASE Wires
  BY <1>4 DEF Wires, FindsPlan, WiresPlan, StopsToWire, ReadsConfig, ReadsPlan, PlacesPair, PairsDone,
     Step
<1>5. CASE FindsIgnored \/ ListsPlansForCleanup \/ ChecksCleanable \/ DeletesCleaned
  BY <1>5 DEF FindsIgnored, ListsPlansForCleanup, ChecksCleanable, DeletesCleaned, Checks, ReadsPlans,
     Step
<1> QED
  BY <1>1, <1>2, <1>3, <1>4, <1>5 DEF Sync, SyncsClass, Delta, Debris, CleansIgnored

LEMMA AtErase == Sync /\ pc = "erase" => ErasesElements
BY DEF Sync, LooksUpDevice, SyncsClass, DecidesAction, Recreates, DeletesDevice, ConfirmsDeviceGone,
   LooksUpClass,
   DeletesClass, Uploads, CreatesDevice, Delta, Debris, Unwires, CleansLeftOvers, StopsPlan,
   RestartsPlan, SortsPlan, RunsSorted, RunsAgain, ListsPlans, ChecksOrphans, RunsTask, Checks,
   ReadsPlans, Wires,
   FindsPlan, WiresPlan, StopsToWire, ReadsConfig, ReadsPlan, PlacesPair, PairsDone, CleansIgnored,
   FindsIgnored,
   LoadsForCleanup, ListsPlansForCleanup, ChecksCleanable, DeletesCleaned, Step, Finishes

\* What is cut was chosen so that it spares the wanted markers' pairs and the user's logic.
LEMMA CutsSpare ==
  ASSUME IInv, IInv', ReadTrue, Chosen, quiet, Sync, ~Finishes, UNCHANGED <<ignored, data>>,
         pc' \in {"stop", "erase"}
  PROVE  Spares(plan', ctx'.cut)
<1>0. Types /\ ctx \in ContextType /\ plan' # Gone
  BY DEF IInv, Types, SyncTypes, PlanThere, Cutting
<1>1. CASE Unwires
  <2>1. pc = "unwire" /\ plan' = plan /\ ctx' = [ctx EXCEPT !.cut = Unwirings(CheckData, ctx.task.delete), !.after = "dangling"]
    BY <1>0, <1>1 DEF Unwires, Cuts, Step, Quietly, managed
  <2>2. snap # Gone /\ Below(plan, snap) /\ ctx.task.delete \cap Best = {}
    BY <2>1 DEF ReadTrue, Chosen, Clearing
  <2>3. Spares(plan, Unwirings(CheckData, ctx.task.delete))
    BY <1>0, <2>1, <2>2, UnwiringsSpare DEF CheckData
  <2>4. ctx'.cut = Unwirings(CheckData, ctx.task.delete)
    BY ContextRecord, <1>0, <2>1 DEF ContextFields
  <2> QED
    BY <2>1, <2>3, <2>4
<1>2. CASE CleansLeftOvers
  <2>1. pc = "dangling" /\ plan' = plan /\ ctx' = [ctx EXCEPT !.cut = LeftOvers(CheckData, ctx.dangling), !.after = "sort"]
    BY <1>0, <1>2 DEF CleansLeftOvers, Cuts, Step, Quietly, managed
  <2>2. snap # Gone /\ Below(plan, snap)
    BY <2>1 DEF ReadTrue, Clearing
  <2>3. Spares(plan, LeftOvers(CheckData, ctx.dangling))
    BY <1>0, <2>1, <2>2, LeftOversSpare DEF CheckData
  <2>4. ctx'.cut = LeftOvers(CheckData, ctx.dangling)
    BY ContextRecord, <1>0, <2>1 DEF ContextFields
  <2> QED
    BY <2>1, <2>3, <2>4
<1>3. CASE LoadsForCleanup
  <2>1. /\ pc = "clean load" /\ plan' = plan
        /\ \E unwired : ctx' = [ctx EXCEPT !.cut = CleanedUp(plan, ctx.cleaned), !.unwired = unwired, !.after = "clean check"]
    BY <1>3 DEF LoadsForCleanup, Step, Quietly, managed
  <2>2. ctx.cleaned \cap Wanted(data, ignored) = {}
    BY <2>1 DEF Chosen
  <2>3. ctx'.cut = CleanedUp(plan, ctx.cleaned)
    BY ContextRecord, <1>0, <2>1 DEF ContextFields
  <2>4. Spares(plan, CleanedUp(plan, ctx.cleaned))
    BY <2>2, CleanedUpSpares
  <2> QED
    BY <2>1, <2>3, <2>4
<1>4. CASE StopsPlan
  <2>1. pc = "stop" /\ plan' = plan /\ \E ran : ctx' = [ctx EXCEPT !.ran = ran]
    <3>1. ctx.after \in {"dangling", "sort", "clean check", "done"}
      BY <1>0 DEF ContextType
    <3> QED
      BY <1>4, <3>1 DEF StopsPlan, Step
  <2>2. ctx'.cut = ctx.cut
    BY ContextRecord, <1>0, <2>1 DEF ContextFields
  <2> QED
    BY <2>1, <2>2 DEF Chosen
<1>5. CASE pc = "erase"
  <2>1. ErasesElements
    BY <1>5, AtErase
  <2> QED
    BY <1>0, <2>1 DEF ErasesElements, ContextType
<1> QED
  BY <1>0, <1>1, <1>2, <1>3, <1>4, <1>5, ToStop

LEMMA ChosenStep ==
  ASSUME IInv, IInv', ReadTrue, Chosen, [Next]_vars
  PROVE  Chosen'
<1> SUFFICES ASSUME quiet' PROVE Chosen'
  BY DEF Chosen
<1>0. Types /\ ctx \in ContextType /\ ctx.task \in TaskType
  BY DEF IInv, Types, SyncTypes, ContextType
<1>1. CASE Poll
  BY <1>1 DEF Poll, Chosen
<1>2. CASE ~Poll
  <2>1. quiet /\ UNCHANGED <<source, ignored, data, audit>> /\ Served' = Served /\ Best' = Best
    BY <1>2, QuietSteps DEF Served, Best
  <2> DEFINE Tasks(c) == c.task.delete \cap Best = {} /\ c.cleaned \cap Wanted(data, ignored) = {}
  <2>2. CASE UNCHANGED <<plan, pc, ctx>>
    BY <2>1, <2>2 DEF Chosen, Spares
  <2>3. CASE LoadsPlans
    BY <2>2, <2>3 DEF LoadsPlans, comexio, managed
  <2>4. CASE \E a \in Actions : Press(a)
    <3>1. pc' = "device" /\ \E a : ctx' = [NoContext EXCEPT !.action = a]
      BY <2>4 DEF Press
    <3> QED
      BY <2>1, <3>1 DEF Chosen, NoContext, NoTasks
  <2>5. CASE Sync /\ ~Finishes /\ \E at : Step(at)
    <3>1. pc' # "idle"
      BY <1>0, <2>5, ClearingSteps
    <3>2. Tasks(ctx')
      <4>1. CASE LooksUpDevice
        <5>0. pc = "device"
          BY <4>1 DEF LooksUpDevice, Step
        <5>1. AuditTrue /\ Tasks(ctx)
          BY <2>1, <5>0 DEF ReadTrue, Chosen
        <5>2. audit.orphan \cap Best = {}
          BY <1>0, <5>1, OrphansSpareBest
        <5>3. \/ ctx' = Reported
              \/ ctx'.task = TasksOf(ctx.action, audit) /\ ctx'.cleaned \subseteq ignored
          <6> DEFINE a == ctx.action
                     cleaned == IF a = "cleanup_entities" THEN audit.cleanup \cap ignored ELSE {}
                     dangling == IF a \in {"full_sync", "delete_orphans"} THEN audit.dangling ELSE {}
                     toWire == IF a \in {"full_sync", "function_plan_add_missing"} THEN audit.gap ELSE {}
          <6>1. \/ ctx' = Reported
                \/ ctx' = [ctx EXCEPT !.dev = device, !.task = TasksOf(a, audit), !.dangling = dangling,
                                      !.toWire = toWire, !.cleaned = cleaned]
            BY <4>1 DEF LooksUpDevice, Aborts
          <6>2. cleaned \subseteq ignored
            OBVIOUS
          <6> HIDE DEF cleaned, dangling, toWire
          <6> QED
            BY ContextRecord, <1>0, <6>1, <6>2 DEF ContextFields
        <5>4. TasksOf(ctx.action, audit).delete \subseteq audit.orphan
          BY DEF TasksOf
        <5>5. CASE ctx' = Reported
          BY ContextRecord, <1>0, <5>1, <5>5 DEF Reported, ContextFields
        <5>6. ignored \cap Wanted(data, ignored) = {}
          BY DEF Wanted
        <5> QED
          BY <5>2, <5>3, <5>4, <5>5, <5>6
      <4>2. CASE ~LooksUpDevice
        <5>1. pc # "idle"
          BY <2>5, NotIdle
        <5> QED
          BY <1>0, <2>1, <2>5, <4>2, <5>1, TasksShrink DEF Chosen
      <4> QED
        BY <4>1, <4>2
    <3>3. pc' \in {"stop", "erase"} => Spares(plan', ctx'.cut)
      BY <1>0, <2>1, <2>5, CutsSpare
    <3> QED
      BY <2>1, <3>1, <3>2, <3>3 DEF Chosen, Spares
  <2> QED
    BY <1>2, <2>2, <2>3, <2>4, <2>5, QuietSteps
<1> QED
  BY <1>1, <1>2

-----------------------------------------------------------------------------
(* The audit of a wired Comexio finds nothing.                                 *)

LEMMA OrderNumbersSources ==
  ASSUME NEW order \in Orders
  PROVE  /\ \A i, j \in DOMAIN order : order[i] = order[j] => i = j
         /\ \A x \in Sources : \E i \in DOMAIN order : order[i] = x
<1> DEFINE n == Cardinality(Sources)
<1>1. n \in Nat /\ DOMAIN order = 1 .. n /\ \A i \in 1 .. n : order[i] \in Sources
  BY WiredPlanIsPlan
<1>2. \A i, j \in DOMAIN order : i < j => order[i] < order[j]
  BY DEF Orders
<1> HIDE DEF n
<1>3. ASSUME NEW i \in DOMAIN order, NEW j \in DOMAIN order, order[i] = order[j] PROVE i = j
  <2>1. order[i] \in Nat /\ order[j] \in Nat /\ i \in Nat /\ j \in Nat
    <3>1. i \in 1 .. n /\ j \in 1 .. n
      BY <1>1
    <3>2. order[i] \in Sources /\ order[j] \in Sources
      BY <1>1, <3>1
    <3>3. \A y \in Sources : y \in Nat
      BY SyncAssumption
    <3>4. order[i] \in Nat /\ order[j] \in Nat
      BY <3>2, <3>3
    <3>5. i \in Nat /\ j \in Nat
      BY <1>1, <3>1
    <3> QED
      BY <3>4, <3>5
  <2>2. ~(i < j) /\ ~(j < i)
    BY <1>2, <1>3, <2>1
  <2> QED
    BY <2>1, <2>2
<1>4. IsFiniteSet(1 .. n) /\ Cardinality(1 .. n) = n
  BY <1>1, FS_Interval
<1>5. order \in Injection(1 .. n, Sources)
  BY <1>1, <1>3 DEF Orders, Injection, IsInjective, n
<1>6. order \in Surjection(1 .. n, Sources)
  BY <1>4, <1>5, FS_Injection, SyncAssumption DEF n
<1> QED
  BY <1>1, <1>3, <1>6 DEF Surjection

LEMMA WiredPlanWires ==
  ASSUME NEW order \in Orders
  PROVE  /\ \A i \in DOMAIN order : 2 * i - 1 \in Find(WiredPlan(order), "src", order[i])
                                    /\ 2 * i \in Find(WiredPlan(order), "web", i)
                                    /\ <<2 * i - 1, 2 * i>> \in WiredPlan(order).wire
         /\ \A e \in OfType(WiredPlan(order), "src") : Connected(WiredPlan(order), e)
<1> DEFINE n == Cardinality(Sources)
           p == WiredPlan(order)
           at(e) == IF e % 2 = 1 THEN [type |-> "src", ref |-> order[(e + 1) \div 2]]
                                 ELSE [type |-> "web", ref |-> e \div 2]
<1>1. n \in Nat /\ DOMAIN order = 1 .. n /\ p \in Plan /\ p # Gone /\ Gone \notin Element
  BY WiredPlanIsPlan, SyncAssumption
<1>2. Len(p.elem) = 2 * n /\ \A e \in 1 .. 2 * n : p.elem[e] = at(e)
  BY <1>1 DEF WiredPlan, n
<1>3. p.wire = {<<2 * i - 1, 2 * i>> : i \in 1 .. n}
  BY <1>1 DEF WiredPlan
<1> HIDE DEF n, p
<1>4. \A i \in 1 .. n : /\ 2 * i - 1 \in 1 .. 2 * n /\ at(2 * i - 1) = [type |-> "src", ref |-> order[i]]
                        /\ 2 * i \in 1 .. 2 * n /\ at(2 * i) = [type |-> "web", ref |-> i]
  <2>1. ASSUME NEW i \in 1 .. n
        PROVE  /\ 2 * i - 1 \in 1 .. 2 * n /\ (2 * i - 1) % 2 = 1 /\ ((2 * i - 1) + 1) \div 2 = i
               /\ 2 * i \in 1 .. 2 * n /\ (2 * i) % 2 # 1 /\ (2 * i) \div 2 = i
    BY <1>1
  <2> QED
    BY <2>1
<1>5. \A e \in 1 .. 2 * n : at(e) \in Element
  <2>1. ASSUME NEW e \in 1 .. 2 * n PROVE at(e) \in Element
    <3>1. CASE e % 2 = 1
      <4>1. (e + 1) \div 2 \in 1 .. n
        BY <1>1, <3>1
      <4>2. \A i \in 1 .. n : order[i] \in Nat
        BY SyncAssumption, WiredPlanIsPlan DEF n
      <4> QED
        BY <3>1, <4>1, <4>2 DEF Element
    <3>2. CASE e % 2 # 1
      <4>1. e \div 2 \in Nat
        BY <1>1, <3>2
      <4> QED
        BY <3>2, <4>1 DEF Element
    <3> QED
      BY <3>1, <3>2
  <2> QED
    BY <2>1
<1>6. Elements(p) = 1 .. 2 * n
  <2> HIDE DEF at
  <2> QED
    BY <1>1, <1>2, <1>5 DEF Elements
<1>7. \A i \in 1 .. n : /\ 2 * i - 1 \in Find(p, "src", order[i]) /\ 2 * i \in Find(p, "web", i)
                        /\ <<2 * i - 1, 2 * i>> \in p.wire
  <2> HIDE DEF at
  <2>1. ASSUME NEW i \in 1 .. n
        PROVE  2 * i - 1 \in Find(p, "src", order[i]) /\ 2 * i \in Find(p, "web", i)
    <3>1. p.elem[2 * i - 1] = [type |-> "src", ref |-> order[i]] /\ p.elem[2 * i] = [type |-> "web", ref |-> i]
      BY <1>2, <1>4
    <3>2. 2 * i - 1 \in Elements(p) /\ 2 * i \in Elements(p)
      BY <1>4, <1>6
    <3> QED
      BY <3>1, <3>2 DEF Find, OfType
  <2>2. \A i \in 1 .. n : <<2 * i - 1, 2 * i>> \in p.wire
    BY <1>3
  <2> QED
    BY <2>1, <2>2
<1>8. ASSUME NEW e \in OfType(p, "src") PROVE Connected(p, e)
  <2>1. e \in 1 .. 2 * n /\ at(e).type = "src"
    BY <1>2, <1>6 DEF OfType
  <2>2. e % 2 = 1
    BY <2>1
  <2>3. PICK i \in 1 .. n : e = 2 * i - 1
    <3>1. (e + 1) \div 2 \in 1 .. n /\ e = 2 * ((e + 1) \div 2) - 1
      BY <1>1, <2>1, <2>2
    <3> QED
      BY <3>1
  <2>4. <<e, 2 * i>> \in p.wire
    BY <1>3, <2>3
  <2> QED
    BY <2>4 DEF Connected
<1> QED
  BY <1>1, <1>7, <1>8 DEF p

LEMMA InitialIsSource == InitialSource \in Source /\ InitialSource # Gone
BY SyncAssumption DEF InitialSource, Source

LEMMA WiredAudit ==
  ASSUME NEW order \in Orders, NEW read,
         read.source = [x \in Sources |-> InitialSource],
         read.command = [c \in DOMAIN order |-> Saved([of |-> order[c], to |-> InitialSource])]
  PROVE  Compare(read, {}, WiredPlan(order)) = EmptyAudit
<1> DEFINE n == Cardinality(Sources)
           p == WiredPlan(order)
<1>1. n \in Nat /\ DOMAIN order = 1 .. n /\ p # Gone /\ \A i \in 1 .. n : order[i] \in Sources
  BY WiredPlanIsPlan, SyncAssumption
<1> HIDE DEF n
<1>2. InitialSource \in Source /\ InitialSource # Gone
  BY InitialIsSource
<1>3. Len(read.command) = n /\ DOMAIN read.command = 1 .. n
  BY <1>1
<1>4. \A c \in 1 .. n : read.command[c] = Saved([of |-> order[c], to |-> InitialSource]) /\ read.command[c] # Gone
  <2>1. \A c \in 1 .. n : Saved([of |-> order[c], to |-> InitialSource]) \in Command
    BY <1>1, <1>2 DEF Saved, Command, Source
  <2> QED
    BY <1>1, <2>1, SyncAssumption
<1>5. \A c \in 1 .. n : read.command[c].of = order[c] /\ read.command[c].title = InitialSource.title
                        /\ read.command[c].kind = InitialSource.kind
  <2>1. ASSUME NEW c \in 1 .. n
        PROVE  LET it == [of |-> order[c], to |-> InitialSource] IN
               Saved(it).of = order[c] /\ Saved(it).title = InitialSource.title /\ Saved(it).kind = InitialSource.kind
    BY DEF Saved
  <2> QED
    BY <1>4, <2>1
<1>6. Wanted(read, {}) = Sources
  BY <1>2 DEF Wanted
<1>7. Present(read.command) = 1 .. n
  BY <1>3, <1>4 DEF Present
<1>8. ASSUME NEW i \in 1 .. n
      PROVE  Serving(read.command, order[i]) = {i} /\ BestMatch(read, order[i]) = i
  <2>1. Serving(read.command, order[i]) = {i}
    <3>1. \A c \in 1 .. n : order[c] = order[i] <=> c = i
      BY <1>1, OrderNumbersSources
    <3> QED
      BY <1>5, <1>7, <3>1 DEF Serving
  <2>2. Named(read, order[i]) = {i}
    BY <1>1, <1>5, <2>1 DEF Named
  <2>3. i \in Nat /\ {i} # {} /\ {i} \in SUBSET Nat
    BY <1>1
  <2>4. Min({i}) \in {i}
    BY <2>3, MinIn
  <2> QED
    BY <2>1, <2>2, <2>4 DEF BestMatch
<1>9. \A x \in Sources : \E i \in 1 .. n : order[i] = x
  BY <1>1, OrderNumbersSources
<1>10. ASSUME NEW x \in Sources
       PROVE  /\ Serving(read.command, x) # {} /\ read.command[BestMatch(read, x)].title = read.source[x].title
              /\ read.command[BestMatch(read, x)].kind = read.source[x].kind
              /\ WiredPair(p, x, BestMatch(read, x)) /\ x \notin Dangling(p)
  <2>1. PICK i \in 1 .. n : order[i] = x
    BY <1>9
  <2>2. Serving(read.command, x) # {} /\ BestMatch(read, x) = i /\ read.source[x] = InitialSource
    BY <1>8, <2>1
  <2>3. 2 * i - 1 \in Find(p, "src", x) /\ 2 * i \in Find(p, "web", i) /\ <<2 * i - 1, 2 * i>> \in p.wire
    BY <1>1, <2>1, WiredPlanWires
  <2>4. WiredPair(p, x, i)
    BY <2>3 DEF WiredPair
  <2>5. Connected(p, 2 * i - 1)
    BY <2>3, WiredPlanWires DEF Find
  <2> QED
    BY <1>5, <2>2, <2>3, <2>4, <2>5 DEF Dangling
<1>11. \A c \in 1 .. n : read.command[c].of \in Sources /\ c = BestMatch(read, read.command[c].of)
  BY <1>1, <1>5, <1>8
<1>12. Dangling(p) = {}
  BY <1>10 DEF Dangling
<1>13. IgnoredLinked(read, {}, p) = {}
  BY DEF IgnoredLinked
<1> HIDE DEF p
<1> DEFINE C == Compare(read, {}, p)
<1>14. C.missing = {} /\ C.rename = {} /\ C.type = {} /\ C.orphan = {} /\ C.gap = {} /\ C.dangling = {} /\ C.cleanup = {}
  BY <1>6, <1>7, <1>10, <1>11, <1>12, <1>13 DEF Compare
<1>15. C = EmptyAudit
  BY <1>14 DEF Compare, EmptyAudit
<1> QED
  BY <1>15 DEF p

LEMMA NothingToAudit ==
  ASSUME NEW read, read.command = <<>>, Sources = {}
  PROVE  Compare(read, {}, EmptyPlan) = EmptyAudit
<1>1. EmptyPlan # Gone /\ Wanted(read, {}) = {} /\ Dangling(EmptyPlan) = {}
      /\ IgnoredLinked(read, {}, EmptyPlan) = {} /\ Present(read.command) = {}
  BY EmptyPlanIsPlan DEF Wanted, Dangling, IgnoredLinked, Present
<1> QED
  BY <1>1 DEF Compare, EmptyAudit

LEMMA InitTrue == Init => ReadTrue /\ Chosen
<1> SUFFICES ASSUME NEW wired \in BOOLEAN, NEW order \in Orders, Begins(wired, order)
             PROVE  ReadTrue /\ Chosen
  BY DEF Init
<1>1. pc = "idle" /\ source = data.source /\ command = data.command /\ ignored = {}
  BY DEF Begins
<1>2. snap # Gone /\ Below(plan, snap)
  BY WiredPlanIsPlan, EmptyPlanIsPlan, SyncAssumption DEF Begins, Below
<1>3. AuditTrue
  <2>1. CASE wired
    <3>1. data.source = [x \in Sources |-> InitialSource]
          /\ data.command = [c \in DOMAIN order |-> Saved([of |-> order[c], to |-> InitialSource])]
      BY <2>1 DEF Begins
    <3>2. audit = Compare(data, {}, WiredPlan(order))
      BY <3>1, WiredAudit DEF Begins
    <3>3. plan = WiredPlan(order) /\ plan # Gone
      BY <2>1, WiredPlanIsPlan, SyncAssumption DEF Begins
    <3> QED
      BY <1>1, <3>2, <3>3 DEF AuditTrue
  <2>2. CASE ~wired
    <3>1. ~device /\ audit = EmptyAudit /\ plan = Gone /\ data.command = <<>>
          /\ data.source = [x \in Sources |-> InitialSource]
      BY <2>2 DEF Begins
    <3>2. CASE Sources = {}
      BY <1>1, <3>1, <3>2, NothingToAudit DEF AuditTrue
    <3>3. CASE Sources # {}
      <4>1. Wanted(data, ignored) = Sources
        BY <1>1, <3>1, InitialIsSource DEF Wanted
      <4> QED
        BY <3>1, <3>3, <4>1 DEF AuditTrue
    <3> QED
      BY <3>2, <3>3
  <2> QED
    BY <2>1, <2>2
<1> QED
  BY <1>1, <1>2, <1>3 DEF ReadTrue, Chosen

\* A cut that spares them leaves the pairs that stand wired.
LEMMA SparedStay ==
  ASSUME NEW p \in Plan, NEW cut, Spares(p, cut), NEW x \in Served, WiredPair(p, x, BestMatch(data, x))
  PROVE  WiredPair(Without(p, cut), x, BestMatch(data, x))
<1> DEFINE q == Without(p, cut)
<1>1. p # Gone /\ q # Gone
  BY WithoutIsPlan, SyncAssumption
<1>2. PICK e \in Find(p, "src", x), f \in Find(p, "web", BestMatch(data, x)) : <<e, f>> \in p.wire
  BY DEF WiredPair
<1>3. e \notin cut /\ f \notin cut
  BY <1>2 DEF Spares
<1>4. <<e, f>> \in q.wire
  BY <1>2, <1>3 DEF Without
<1>5. e \in Find(q, "src", x) /\ f \in Find(q, "web", BestMatch(data, x))
  BY <1>1, <1>2, <1>3 DEF Find, OfType, Elements, Without, Plan
<1> QED
  BY <1>4, <1>5 DEF WiredPair

LEMMA LogicKept ==
  ASSUME IInv, IInv', ReadTrue, Chosen, [Next]_vars, Erasing, quiet
  PROVE  /\ plan.logic \subseteq plan'.logic
         /\ \A x \in Wanted(data, ignored) : Serving(data.command, x) # {} =>
               LET c == BestMatch(data, x) IN WiredPair(plan, x, c) => WiredPair(plan', x, c)
<1> DEFINE q == Without(plan, ctx.cut)
<1>1. ErasesElements
  <2>1. pc = "erase" /\ pc' # "erase"
    BY DEF Erasing
  <2>2. Sync
    BY <2>1 DEF Next, vars, Poll, LoadsPlans, comexio, User, EditsMarker, CopiesCommand,
       DeletesCommand, UsesCommand,
       EditsPlan, SwitchesPlan, Ignores, Edit, Cancel, Press
  <2> QED
    BY <2>1, <2>2, AtErase
<1>2. plan' \in {plan, q} /\ pc = "erase"
  BY <1>1 DEF ErasesElements, Step
<1>3. plan \in Plan /\ q # Gone /\ q \in Plan
  <2>1. plan \in Plan
    BY <1>2 DEF IInv, Types, ComexioTypes, IsPlan, PlanThere, Cutting
  <2> QED
    BY <2>1, WithoutIsPlan, SyncAssumption
<1>4. Spares(plan, ctx.cut)
  BY <1>2 DEF Chosen
<1>5. q.logic = plan.logic
  BY <1>4 DEF Without, Spares
<1>6. ASSUME NEW x \in Served, WiredPair(plan, x, BestMatch(data, x))
      PROVE  WiredPair(q, x, BestMatch(data, x))
  BY <1>3, <1>4, <1>6, SparedStay
<1> QED
  BY <1>2, <1>5, <1>6 DEF Served

\* What a sync removes of a snapshot that is still true takes no element of a user's logic, and
\* cuts no wanted marker off its command (_unwire_orphans, _clean_dangling_sources, the clean-up).
THEOREM PlanLogicIsKept == Spec => KeepsPlanLogic
<1> DEFINE J == IInv /\ ReadTrue /\ Chosen
<1>1. Init => J
  BY InitHolds, InitTrue
<1>2. J /\ [Next]_vars => J'
  BY IInvStep, ReadTrueStep, ChosenStep
<1>3. J /\ J' /\ [Next]_vars =>
        [Erasing /\ quiet =>
           /\ plan.logic \subseteq plan'.logic
           /\ \A x \in Wanted(data, ignored) : Serving(data.command, x) # {} =>
                 LET c == BestMatch(data, x) IN WiredPair(plan, x, c) => WiredPair(plan', x, c)]_vars
  BY LogicKept
<1> QED
  BY <1>1, <1>2, <1>3, PTL DEF Spec, KeepsPlanLogic

-----------------------------------------------------------------------------
(* A sync that reports success has settled.                                    *)

\* Every wire of plan p leads from a source element to a Web-IO element.
Rightly(p) == \A w \in p.wire : w[1] \in OfType(p, "src") /\ w[2] \in OfType(p, "web")

\* Since q was read the plan has got new elements or lost some.
Follows(p, q) ==
    /\ Rightly(q) /\ Len(q.elem) <= Len(p.elem)
    /\ \A e \in Elements(q) \cap Elements(p) : p.elem[e] = q.elem[e]

WiresInv ==
    /\ plan # Gone => Rightly(plan)
    /\ pc = "pairs" => Follows(plan, ctx.plan)

Recreating == {"class?", "delete class", "upload", "create device"}

DeviceInv ==
    /\ ~device => Present(command) = {}
    /\ pc = "class" => ctx.dev = device
    /\ pc = "delete device" => device
    /\ pc \in Recreating \cup {"device?"} => ~device

\* The command that marker x of what was read ought to have, and those it has but for what is to go.
Due(d, x) == Saved([of |-> x, to |-> d.source[x]])
Remains(t, cmds, x) == Serving(cmds, x) \ t.delete

\* The tasks t are all that is left to do to the commands.
CommandsWork(d, ign, t, cmds) ==
    /\ t.delete \subseteq DOMAIN cmds
    /\ \A i \in t.rename \cup t.type :
          i.of \in Wanted(d, ign) /\ i.to = d.source[i.of] /\ Remains(t, cmds, i.of) = {i.id}
    /\ \A i \in t.create :
          i.of \in Wanted(d, ign) /\ i.to = d.source[i.of] /\ Remains(t, cmds, i.of) = {}
    /\ \A c \in Present(cmds) \ t.delete : cmds[c].of \in Wanted(d, ign)
    /\ \A x \in Wanted(d, ign) :
          \/ \E i \in t.rename \cup t.type \cup t.create : i.of = x
          \/ \E c \in Present(cmds) : Remains(t, cmds, x) = {c} /\ cmds[c] = Due(d, x)
    /\ \A x \in Wanted(d, ign) : Serving(d.command, x) # {} => BestMatch(d, x) \in Remains(t, cmds, x)

\* Every wanted marker is wired, unless it is to be, will be created, or was only renamed.
WiresWork(d, ign, ren, t, wiring, p) ==
    \A x \in Wanted(d, ign) :
        \/ x \in ren \cup wiring \/ \E i \in t.create : i.of = x
        \/ Serving(d.command, x) # {} /\ WiredPair(p, x, BestMatch(d, x))

CommandsSettle(d, ign, cmds) ==
    /\ \A c \in Present(cmds) : cmds[c].of \in Wanted(d, ign)
    /\ \A x \in Wanted(d, ign) : \E c \in Present(cmds) : Serving(cmds, x) = {c} /\ cmds[c] = Due(d, x)

\* Nothing is left to do but to wire these markers.
WiresSettle(d, ign, ren, wiring, cmds, p) ==
    \A x \in Wanted(d, ign) : x \in ren \cup wiring \/ \E c \in Serving(cmds, x) : WiredPair(p, x, c)
LeftOversGo(d, found, cmds, p) == Present(d.command) \cap Present(cmds) = {} \/ Dangling(p) \cap found = {}

\* A full sync under way, of what was read, that nobody cancelled and nothing failed in.
Going == quiet /\ ~cancel /\ ~ctx.failed /\ ctx.action = "full_sync"
Renamed == {item.of : item \in audit.rename}

\* The stages of a full sync: what it clears away, then what it writes; then the wiring pass.
Sorting == {"sort", "run", "rerun"}
Clears == {"unwire", "dangling"} \cup Cutting
SortsBefore == pc \in Sorting /\ ~ctx.added /\ (pc = "sort" \/ ctx.resort # "no")
Tasking == SortsBefore \/ pc \in {"check", "bulk", "tasks"}
Wired == pc \in {"wire", "done"} \cup Placing \/ (pc \in Sorting /\ ~SortsBefore)
Pending == IF pc = "wire" THEN ctx.toWire ELSE IF pc \in Placing THEN ctx.left ELSE {}

Worked ==
    CommandsWork(data, ignored, ctx.task, command) /\ WiresWork(data, ignored, Renamed, ctx.task, ctx.toWire, plan)
Bare == ~device /\ ctx.task # NoTasks

StageInv ==
    /\ pc \in {"idle", "device", "class", "delete device", "device?"} \cup Recreating \cup Clears \/ Tasking \/ Wired
    /\ pc \in Placing => ctx.resort = "no"
    /\ pc = "run" => ctx.added \/ ctx.resort # "no"
    /\ pc \in Cutting => ctx.after \in {"dangling", "sort"}
    /\ pc \in {"delete device", "device?"} => ctx.task # NoTasks
    /\ pc \in Recreating \ {"class?"} => ctx.task = [NoTasks EXCEPT !.create = Template]
WorkInv ==
    /\ (pc = "class" /\ device) \/ pc = "delete device" => Worked
    /\ pc \in Clears \/ Tasking => Worked \/ Bare
SettledInv ==
    Wired => /\ CommandsSettle(data, ignored, command)
             /\ WiresSettle(data, ignored, Renamed, Pending, command, plan)
             /\ LeftOversGo(data, audit.dangling, command, plan)
ReadInv ==
    /\ pc \in {"wire load", "pairs"} => ctx.read = Read
    /\ pc = "pairs" => Elements(ctx.plan) \subseteq Elements(plan) /\ ctx.plan.wire \subseteq plan.wire

Loose(p, x) == \A e \in Find(p, "src", x) : ~Connected(p, e)
\* The left-overs the audit found, on their way out of the plan.
LeftInv ==
    /\ pc \in {"class", "delete device", "device?", "unwire", "dangling"} \/ (pc \in Cutting /\ ctx.after = "dangling") =>
          ctx.dangling = audit.dangling /\ \A x \in audit.dangling : Loose(snap, x)
    /\ pc \in {"stop", "erase"} /\ ctx.after = "sort" => \A x \in audit.dangling : Find(plan, "src", x) \subseteq ctx.cut
    /\ (pc = "restart" /\ ctx.after = "sort") \/ Tasking => \A x \in audit.dangling : Find(plan, "src", x) = {}

SnapFresh == quiet /\ pc \in {"idle", "device"} => snap = IF plan = Gone THEN EmptyPlan ELSE plan
GoingInv == StageInv /\ WorkInv /\ SettledInv /\ ReadInv /\ LeftInv
SettleInv == DeviceInv /\ WiresInv /\ SnapFresh /\ (Going => GoingInv)

-----------------------------------------------------------------------------
(* What is left to do, and how the tasks do it.                                *)

\* With an audit's tasks, and its gaps wired, a full sync leaves nothing to do.
LEMMA AuditWorks ==
  ASSUME NEW d \in Reading, NEW ign \in SUBSET Sources, NEW p, p # Gone
  PROVE  LET found == Compare(d, ign, p)
             t == TasksOf("full_sync", found)
         IN /\ CommandsWork(d, ign, t, d.command)
            /\ WiresWork(d, ign, {item.of : item \in found.rename}, t, found.gap, p)
<1> DEFINE found == Compare(d, ign, p)
           t == TasksOf("full_sync", found)
           wanted == Wanted(d, ign)
           served == {x \in wanted : Serving(d.command, x) # {}}
           item(x) == [id |-> BestMatch(d, x), of |-> x, to |-> d.source[x]]
           misnamed == {x \in served : d.command[BestMatch(d, x)].title # d.source[x].title}
           mistyped == {y \in served \ misnamed : d.command[BestMatch(d, y)].kind # d.source[y].kind}
           orphan == {c \in Present(d.command) :
                        LET x == d.command[c].of IN x \notin wanted \/ c # BestMatch(d, x)}
<1>1. /\ found.missing = {[of |-> x, to |-> d.source[x]] : x \in wanted \ served}
      /\ found.rename = {item(x) : x \in misnamed} /\ found.type = {item(x) : x \in mistyped}
      /\ found.orphan = orphan /\ found.gap = {x \in served \ misnamed : ~WiredPair(p, x, BestMatch(d, x))}
  BY DEF Compare
<1>2. t.rename = found.rename /\ t.type = found.type /\ t.create = found.missing /\ t.delete = orphan
  BY <1>1 DEF TasksOf
<1> HIDE DEF found, t
<1>3. d.command \in Seq(Command \cup {Gone}) /\ Present(d.command) \subseteq DOMAIN d.command
  BY PresentIds DEF Reading
<1>4. ASSUME NEW x \in served
      PROVE  /\ BestMatch(d, x) \in Present(d.command) /\ d.command[BestMatch(d, x)].of = x
             /\ d.command[BestMatch(d, x)] \in Command /\ Remains(t, d.command, x) = {BestMatch(d, x)}
  <2>1. BestMatch(d, x) \in Serving(d.command, x)
    BY BestMatchServes
  <2>2. \A c \in Serving(d.command, x) : c \in orphan <=> c # BestMatch(d, x)
    BY DEF Serving
  <2> QED
    BY <1>2, <1>3, <2>1, <2>2, PresentIds DEF Remains, Serving
<1>5. \A x \in wanted \ served : Remains(t, d.command, x) = {}
  BY DEF Remains
<1>6. ASSUME NEW x \in served \ misnamed, x \notin mistyped
      PROVE  d.command[BestMatch(d, x)] = Due(d, x)
  <2>1. d.command[BestMatch(d, x)] \in [of : Sources, title : Titles, kind : Kinds]
    BY <1>4 DEF Command
  <2> QED
    BY <1>4, <1>6, <2>1 DEF Due, Saved
<1>7. CommandsWork(d, ign, t, d.command)
  <2>1. t.delete \subseteq DOMAIN d.command
    BY <1>2, <1>3
  <2>2. \A i \in t.rename \cup t.type :
            i.of \in wanted /\ i.to = d.source[i.of] /\ Remains(t, d.command, i.of) = {i.id}
    <3>1. \A i \in t.rename \cup t.type : \E x \in served : i = item(x)
      BY <1>1, <1>2
    <3> QED
      BY <1>4, <3>1
  <2>3. \A i \in t.create :
            i.of \in wanted /\ i.to = d.source[i.of] /\ Remains(t, d.command, i.of) = {}
    BY <1>1, <1>2, <1>5
  <2>4. \A c \in Present(d.command) \ t.delete : d.command[c].of \in wanted
    BY <1>2
  <2>5. ASSUME NEW x \in wanted
        PROVE  \/ \E i \in t.rename \cup t.type \cup t.create : i.of = x
               \/ \E c \in Present(d.command) : Remains(t, d.command, x) = {c} /\ d.command[c] = Due(d, x)
    <3>1. CASE x \notin served
      <4>1. [of |-> x, to |-> d.source[x]] \in t.create
        BY <1>1, <1>2, <3>1
      <4> QED
        BY <4>1
    <3>2. CASE x \in misnamed
      <4>1. item(x) \in t.rename
        BY <1>1, <1>2, <3>2
      <4> QED
        BY <4>1
    <3>3. CASE x \in mistyped
      <4>1. item(x) \in t.type
        BY <1>1, <1>2, <3>3
      <4> QED
        BY <4>1
    <3> QED
      BY <1>4, <1>6, <3>1, <3>2, <3>3
  <2>6. \A x \in wanted : Serving(d.command, x) # {} => BestMatch(d, x) \in Remains(t, d.command, x)
    BY <1>4
  <2> QED
    BY <2>1, <2>2, <2>3, <2>4, <2>5, <2>6 DEF CommandsWork
<1>8. WiresWork(d, ign, {i.of : i \in found.rename}, t, found.gap, p)
  <2>1. \A x \in misnamed : item(x) \in found.rename /\ item(x).of = x
    BY <1>1
  <2>2. \A x \in wanted \ served : [of |-> x, to |-> d.source[x]] \in t.create
    BY <1>1, <1>2
  <2>3. ASSUME NEW x \in wanted
        PROVE  \/ x \in {i.of : i \in found.rename} \cup found.gap \/ \E i \in t.create : i.of = x
               \/ Serving(d.command, x) # {} /\ WiredPair(p, x, BestMatch(d, x))
    <3>1. CASE x \notin served
      <4>1. [of |-> x, to |-> d.source[x]] \in t.create
        BY <2>2, <3>1
      <4> QED
        BY <4>1
    <3>2. CASE x \in misnamed
      BY <2>1, <3>2
    <3>3. CASE x \in served \ misnamed
      BY <1>1, <3>3
    <3> QED
      BY <3>1, <3>2, <3>3
  <2> QED
    BY <2>3 DEF WiresWork
<1> QED
  BY <1>7, <1>8 DEF found, t

LEMMA SavingWorks ==
  ASSUME NEW d \in Reading, NEW ign, NEW t \in TaskType, NEW cmds \in Seq(Command \cup {Gone}),
         CommandsWork(d, ign, t, cmds), NEW field \in {"rename", "type"}, NEW i \in t[field]
  PROVE  CommandsWork(d, ign, [t EXCEPT ![field] = @ \ {i}], [cmds EXCEPT ![i.id] = Saved(i)])
<1> DEFINE k == i.id
           x == i.of
           now == [cmds EXCEPT ![i.id] = Saved(i)]
           rest == [t EXCEPT ![field] = @ \ {i}]
<1>1. i \in t.rename \cup t.type /\ i \in Items
  BY DEF TaskType
<1>2. x \in Wanted(d, ign) /\ i.to = d.source[x] /\ Remains(t, cmds, x) = {k}
  BY <1>1 DEF CommandsWork
<1>3. k \in Present(cmds) /\ cmds[k].of = x /\ k \notin t.delete
  BY <1>2 DEF Remains, Serving
<1>4. Saved(i) = Due(d, x) /\ Saved(i).of = x /\ Saved(i) \in Command /\ Saved(i) # Gone
  <2>1. Saved(i) \in Command
    BY <1>1 DEF Items, Saved, Command, Source
  <2> QED
    BY <1>2, <2>1, SyncAssumption DEF Saved, Due
<1>5. now \in Seq(Command \cup {Gone}) /\ DOMAIN now = DOMAIN cmds /\ Len(now) = Len(cmds)
  <2>1. Saved(i) \in Command \cup {Gone}
    BY <1>4
  <2>2. now \in Seq(Command \cup {Gone}) /\ DOMAIN now = DOMAIN cmds
    BY <2>1, ChangedEntry
  <2> HIDE DEF now
  <2> QED
    BY <2>2
<1>6. k \in DOMAIN cmds /\ now[k] = Saved(i) /\ \A c \in DOMAIN cmds : c # k => now[c] = cmds[c]
  BY <1>3, PresentIds
<1>7. rest.delete = t.delete /\ rest.create = t.create /\ rest.rename \subseteq t.rename /\ rest.type \subseteq t.type
      /\ t.rename \cup t.type \subseteq rest.rename \cup rest.type \cup {i}
  BY DEF TaskType
<1> HIDE DEF now, rest, k, x
<1>8. Present(now) = Present(cmds) /\ Present(cmds) \subseteq DOMAIN cmds
  <2>1. 1 .. Len(now) = DOMAIN cmds /\ 1 .. Len(cmds) = DOMAIN cmds
    BY <1>5
  <2> QED
    BY <1>3, <1>4, <1>6, <2>1 DEF Present
<1>9. \A c \in Present(cmds) : now[c].of = cmds[c].of
  BY <1>3, <1>4, <1>6, <1>8
<1>10. \A y : Serving(now, y) = Serving(cmds, y)
  BY <1>8, <1>9 DEF Serving
<1>11. \A y : Remains(rest, now, y) = Remains(t, cmds, y)
  BY <1>7, <1>10 DEF Remains
<1>12. ASSUME NEW y \in Wanted(d, ign)
       PROVE  \/ \E j \in rest.rename \cup rest.type \cup rest.create : j.of = y
              \/ \E c \in Present(now) : Remains(rest, now, y) = {c} /\ now[c] = Due(d, y)
  <2>1. CASE y = x
    BY <1>2, <1>3, <1>4, <1>6, <1>8, <1>11, <2>1
  <2>2. CASE y # x
    <3>1. \/ \E j \in t.rename \cup t.type \cup t.create : j.of = y
          \/ \E c \in Present(cmds) : Remains(t, cmds, y) = {c} /\ cmds[c] = Due(d, y)
      BY DEF CommandsWork
    <3>2. ASSUME NEW j \in t.rename \cup t.type \cup t.create, j.of = y
          PROVE  j \in rest.rename \cup rest.type \cup rest.create
      BY <1>7, <2>2, <3>2 DEF x
    <3>3. ASSUME NEW c \in Present(cmds), Remains(t, cmds, y) = {c}
          PROVE  now[c] = cmds[c]
      <4>1. cmds[c].of = y
        BY <3>3 DEF Remains, Serving
      <4> QED
        BY <1>3, <1>6, <1>8, <2>2, <4>1
    <3> QED
      BY <1>8, <1>11, <3>1, <3>2, <3>3
  <2> QED
    BY <2>1, <2>2
<1>13. /\ rest.delete \subseteq DOMAIN now
       /\ \A j \in rest.rename \cup rest.type :
             j.of \in Wanted(d, ign) /\ j.to = d.source[j.of] /\ Remains(rest, now, j.of) = {j.id}
       /\ \A j \in rest.create :
             j.of \in Wanted(d, ign) /\ j.to = d.source[j.of] /\ Remains(rest, now, j.of) = {}
       /\ \A c \in Present(now) \ rest.delete : now[c].of \in Wanted(d, ign)
       /\ \A y \in Wanted(d, ign) : Serving(d.command, y) # {} => BestMatch(d, y) \in Remains(rest, now, y)
  BY <1>5, <1>7, <1>8, <1>9, <1>11 DEF CommandsWork
<1>14. CommandsWork(d, ign, rest, now)
  BY <1>12, <1>13 DEF CommandsWork
<1> QED
  BY <1>14 DEF rest, now

LEMMA DeletingWorks ==
  ASSUME NEW d, NEW ign, NEW t \in TaskType, NEW cmds \in Seq(Command \cup {Gone}),
         CommandsWork(d, ign, t, cmds), NEW k \in t.delete
  PROVE  CommandsWork(d, ign, [t EXCEPT !.delete = @ \ {k}], [cmds EXCEPT ![k] = Gone])
<1> DEFINE now == [cmds EXCEPT ![k] = Gone]
           rest == [t EXCEPT !.delete = @ \ {k}]
<1>1. now \in Seq(Command \cup {Gone}) /\ DOMAIN now = DOMAIN cmds /\ Len(now) = Len(cmds)
  BY ChangedEntry
<1>2. k \in DOMAIN cmds /\ t.delete \subseteq DOMAIN cmds
  BY DEF CommandsWork
<1>3. now[k] = Gone /\ \A c \in DOMAIN cmds : c # k => now[c] = cmds[c]
  BY <1>2
<1>4. rest.delete = t.delete \ {k} /\ rest.create = t.create /\ rest.rename = t.rename /\ rest.type = t.type
  BY DEF TaskType
<1> HIDE DEF now, rest
<1>5. Present(now) = Present(cmds) \ {k} /\ Present(cmds) \subseteq DOMAIN cmds
  <2>1. 1 .. Len(now) = DOMAIN cmds /\ 1 .. Len(cmds) = DOMAIN cmds
    BY <1>1
  <2> QED
    BY <1>3, <2>1 DEF Present
<1>6. \A y : Serving(now, y) = Serving(cmds, y) \ {k}
  BY <1>3, <1>5 DEF Serving
<1>7. \A y : Remains(rest, now, y) = Remains(t, cmds, y) /\ k \notin Remains(t, cmds, y)
  BY <1>4, <1>6 DEF Remains
<1>8. \A y \in Wanted(d, ign) :
          \/ \E j \in rest.rename \cup rest.type \cup rest.create : j.of = y
          \/ \E c \in Present(now) : Remains(rest, now, y) = {c} /\ now[c] = Due(d, y)
  <2>1. ASSUME NEW y, NEW c \in Present(cmds), Remains(t, cmds, y) = {c}
        PROVE  c \in Present(now) /\ now[c] = cmds[c]
    BY <1>3, <1>5, <1>7, <2>1
  <2>2. ASSUME NEW y \in Wanted(d, ign)
        PROVE  \/ \E j \in t.rename \cup t.type \cup t.create : j.of = y
               \/ \E c \in Present(cmds) : Remains(t, cmds, y) = {c} /\ cmds[c] = Due(d, y)
    BY DEF CommandsWork
  <2> QED
    BY <1>4, <1>7, <2>1, <2>2
<1>9. /\ rest.delete \subseteq DOMAIN now
      /\ \A j \in rest.rename \cup rest.type :
            j.of \in Wanted(d, ign) /\ j.to = d.source[j.of] /\ Remains(rest, now, j.of) = {j.id}
      /\ \A j \in rest.create :
            j.of \in Wanted(d, ign) /\ j.to = d.source[j.of] /\ Remains(rest, now, j.of) = {}
      /\ \A c \in Present(now) \ rest.delete : now[c].of \in Wanted(d, ign)
      /\ \A y \in Wanted(d, ign) : Serving(d.command, y) # {} => BestMatch(d, y) \in Remains(rest, now, y)
  BY <1>1, <1>2, <1>3, <1>4, <1>5, <1>7 DEF CommandsWork
<1>10. CommandsWork(d, ign, rest, now)
  BY <1>8, <1>9 DEF CommandsWork
<1> QED
  BY <1>10 DEF rest, now

LEMMA CreatingWorks ==
  ASSUME NEW d \in Reading, NEW ign, NEW t \in TaskType, NEW cmds \in Seq(Command \cup {Gone}),
         CommandsWork(d, ign, t, cmds), NEW i \in t.create
  PROVE  CommandsWork(d, ign, [t EXCEPT !.create = @ \ {i}], Append(cmds, Saved(i)))
<1> DEFINE k == Len(cmds) + 1
           x == i.of
           now == Append(cmds, Saved(i))
           rest == [t EXCEPT !.create = @ \ {i}]
<1>1. i \in [of : Sources, to : Source]
  BY DEF TaskType, Wishes
<1>2. x \in Wanted(d, ign) /\ i.to = d.source[x] /\ Remains(t, cmds, x) = {} /\ t.delete \subseteq DOMAIN cmds
  BY DEF CommandsWork
<1>3. Saved(i) = Due(d, x) /\ Saved(i).of = x /\ Saved(i) \in Command /\ Saved(i) # Gone
  <2>1. Saved(i) \in Command
    BY <1>1 DEF Saved, Command, Source
  <2> QED
    BY <1>2, <2>1, SyncAssumption DEF Saved, Due
<1>4. /\ Len(cmds) \in Nat /\ DOMAIN cmds = 1 .. Len(cmds) /\ Len(now) = k /\ DOMAIN now = 1 .. k /\ k \notin DOMAIN cmds
      /\ now[k] = Saved(i) /\ \A c \in DOMAIN cmds : now[c] = cmds[c]
  BY <1>3
<1>5. rest.delete = t.delete /\ rest.create = t.create \ {i} /\ rest.rename = t.rename /\ rest.type = t.type
  BY DEF TaskType
<1>6. DOMAIN now = DOMAIN cmds \cup {k}
  BY <1>4
<1> HIDE DEF now, rest, k, x
<1>7. Present(now) = Present(cmds) \cup {k} /\ Present(cmds) \subseteq DOMAIN cmds
  <2>1. Present(now) = {c \in DOMAIN now : now[c] # Gone} /\ Present(cmds) = {c \in DOMAIN cmds : cmds[c] # Gone}
    BY <1>4 DEF Present
  <2> QED
    BY <1>3, <1>4, <1>6, <2>1
<1>8. \A y : Serving(now, y) = Serving(cmds, y) \cup (IF y = x THEN {k} ELSE {})
  BY <1>3, <1>4, <1>7 DEF Serving
<1>9. \A y : Remains(rest, now, y) = Remains(t, cmds, y) \cup (IF y = x THEN {k} ELSE {})
  BY <1>2, <1>4, <1>5, <1>8 DEF Remains
<1>10. ASSUME NEW y \in Wanted(d, ign)
       PROVE  \/ \E j \in rest.rename \cup rest.type \cup rest.create : j.of = y
              \/ \E c \in Present(now) : Remains(rest, now, y) = {c} /\ now[c] = Due(d, y)
  <2>1. CASE y = x
    <3>1. Remains(rest, now, y) = {k}
      BY <1>2, <1>9, <2>1
    <3> QED
      BY <1>3, <1>4, <1>7, <2>1, <3>1
  <2>2. CASE y # x
    <3>1. \/ \E j \in t.rename \cup t.type \cup t.create : j.of = y
          \/ \E c \in Present(cmds) : Remains(t, cmds, y) = {c} /\ cmds[c] = Due(d, y)
      BY DEF CommandsWork
    <3>2. \A j \in t.rename \cup t.type \cup t.create : j.of = y => j \in rest.rename \cup rest.type \cup rest.create
      BY <1>5, <2>2 DEF x
    <3>3. Remains(rest, now, y) = Remains(t, cmds, y)
      BY <1>9, <2>2
    <3> QED
      BY <1>4, <1>7, <3>1, <3>2, <3>3
  <2> QED
    BY <2>1, <2>2
<1>11. ASSUME NEW j \in rest.rename \cup rest.type
       PROVE  j.of \in Wanted(d, ign) /\ j.to = d.source[j.of] /\ Remains(rest, now, j.of) = {j.id}
  <2>1. j.of \in Wanted(d, ign) /\ j.to = d.source[j.of] /\ Remains(t, cmds, j.of) = {j.id}
    BY <1>5 DEF CommandsWork
  <2>2. j.of # x
    BY <1>2, <2>1
  <2> QED
    BY <1>9, <2>1, <2>2
<1>12. ASSUME NEW j \in rest.create
       PROVE  j.of \in Wanted(d, ign) /\ j.to = d.source[j.of] /\ Remains(rest, now, j.of) = {}
  <2>1. j.of \in Wanted(d, ign) /\ j.to = d.source[j.of] /\ Remains(t, cmds, j.of) = {} /\ j # i
    BY <1>5 DEF CommandsWork
  <2>2. j \in [of : Sources, to : Source]
    BY <1>5 DEF TaskType, Wishes
  <2>3. j.of # x
    BY <1>1, <1>2, <2>1, <2>2 DEF x
  <2> QED
    BY <1>9, <2>1, <2>3
<1>13. rest.delete \subseteq DOMAIN now
  BY <1>2, <1>5, <1>6
<1>14. \A c \in Present(now) \ rest.delete : now[c].of \in Wanted(d, ign)
  <2>1. \A c \in Present(cmds) \ t.delete : cmds[c].of \in Wanted(d, ign)
    BY DEF CommandsWork
  <2> QED
    BY <1>2, <1>3, <1>4, <1>5, <1>7, <2>1
<1>15. \A y \in Wanted(d, ign) : Serving(d.command, y) # {} => BestMatch(d, y) \in Remains(rest, now, y)
  <2>1. \A y \in Wanted(d, ign) : Serving(d.command, y) # {} => BestMatch(d, y) \in Remains(t, cmds, y)
    BY DEF CommandsWork
  <2>2. \A y : Remains(t, cmds, y) \subseteq Remains(rest, now, y)
    BY <1>9
  <2> QED
    BY <2>1, <2>2
<1>16. CommandsWork(d, ign, rest, now)
  BY <1>10, <1>11, <1>12, <1>13, <1>14, <1>15 DEF CommandsWork
<1> QED
  BY <1>16 DEF rest, now

LEMMA DoneSettles ==
  ASSUME NEW d, NEW ign, NEW ren, NEW wiring, NEW cmds, NEW p,
         CommandsWork(d, ign, NoTasks, cmds), WiresWork(d, ign, ren, NoTasks, wiring, p)
  PROVE  CommandsSettle(d, ign, cmds) /\ WiresSettle(d, ign, ren, wiring, cmds, p)
<1>1. NoTasks.rename = {} /\ NoTasks.delete = {} /\ NoTasks.create = {} /\ NoTasks.type = {}
  BY DEF NoTasks
<1>2. \A x : Remains(NoTasks, cmds, x) = Serving(cmds, x)
  BY <1>1 DEF Remains
<1>3. CommandsSettle(d, ign, cmds)
  <2>1. ASSUME NEW x \in Wanted(d, ign)
        PROVE  \E c \in Present(cmds) : Serving(cmds, x) = {c} /\ cmds[c] = Due(d, x)
    BY <1>1, <1>2 DEF CommandsWork
  <2>2. \A c \in Present(cmds) : cmds[c].of \in Wanted(d, ign)
    BY <1>1 DEF CommandsWork
  <2> QED
    BY <2>1, <2>2 DEF CommandsSettle
<1>4. ASSUME NEW x \in Wanted(d, ign)
      PROVE  x \in ren \cup wiring \/ \E c \in Serving(cmds, x) : WiredPair(p, x, c)
  <2>1. Serving(d.command, x) # {} => BestMatch(d, x) \in Serving(cmds, x)
    BY <1>2 DEF CommandsWork
  <2> QED
    BY <1>1, <2>1 DEF WiresWork
<1> QED
  BY <1>3, <1>4 DEF WiresSettle

LEMMA ListedOnce ==
  ASSUME NEW S, IsFiniteSet(S)
  PROVE  LET n == Cardinality(S)
             s == SetToSeq(S)
         IN /\ n \in Nat /\ s \in [1 .. n -> S] /\ \A i, j \in 1 .. n : s[i] = s[j] => i = j
            /\ \A x \in S : \E i \in 1 .. n : s[i] = x
<1> DEFINE n == Cardinality(S)
           s == SetToSeq(S)
<1>1. n \in Nat /\ ExistsBijection(1 .. n, S)
  BY FS_CardinalityType
<1>2. \E f \in [1 .. n -> S] : IsInjective(f)
  BY <1>1 DEF ExistsBijection, Bijection, Injection, IsInjective
<1>3. s \in [1 .. n -> S] /\ IsInjective(s)
  BY <1>2 DEF SetToSeq
<1> HIDE DEF s
<1>4. s \in Injection(1 .. n, S)
  BY <1>3 DEF Injection
<1>5. s \in Surjection(1 .. n, S)
  <2>1. IsFiniteSet(1 .. n) /\ Cardinality(1 .. n) = n
    BY <1>1, FS_Interval
  <2> QED
    BY <1>4, <2>1, FS_Injection
<1> QED
  BY <1>1, <1>3, <1>5 DEF Surjection, IsInjective, s

\* The class made anew from its template has every command it ought to have, and these alone.
LEMMA TemplateSettles ==
  ASSUME Types, Present(command) = {}
  PROVE  LET now == command \o Created(Template) IN
         /\ CommandsSettle(data, ignored, now)
         /\ Present(now) \cap DOMAIN command = {}
<1> DEFINE now == command \o Created(Template)
           wish(x) == [of |-> x, to |-> data.source[x]]
           wanted == Wanted(data, ignored)
           n == Cardinality(Template)
           s == SetToSeq(Template)
           m == Len(command)
<1>1. data \in Reading /\ command \in Seq(Command \cup {Gone}) /\ wanted \subseteq Sources
      /\ \A x \in wanted : data.source[x] \in Source
  BY DEF Types, HaTypes, ComexioTypes, Wanted, Reading
<1>2. Template \in Wishes
  BY <1>1, WishesFinite DEF Template
<1>3. /\ n \in Nat /\ s \in [1 .. n -> Template] /\ \A i, j \in 1 .. n : s[i] = s[j] => i = j
      /\ \A w \in Template : \E i \in 1 .. n : s[i] = w
  BY <1>2, ListedOnce DEF Wishes
<1>4. Created(Template) = [i \in 1 .. n |-> Saved(s[i])]
  BY DEF Created
<1> HIDE DEF n, s
<1>5. ASSUME NEW x \in wanted
      PROVE  wish(x) \in Template /\ Saved(wish(x)) = Due(data, x) /\ Due(data, x) \in Command /\ Due(data, x).of = x
  BY <1>1 DEF Template, Due, Saved, Source, Command
<1>6. ASSUME NEW i \in 1 .. n
      PROVE  /\ \E x \in wanted : s[i] = wish(x) /\ Saved(s[i]) = Due(data, x)
             /\ Saved(s[i]) \in Command /\ Saved(s[i]).of \in wanted
  <2>1. PICK x \in wanted : s[i] = wish(x)
    BY <1>3 DEF Template
  <2> QED
    BY <1>5, <2>1
<1>7. Created(Template) \in Seq(Command) /\ Len(Created(Template)) = n
  <2>1. Created(Template) \in [1 .. n -> Command]
    BY <1>4, <1>6
  <2> QED
    BY <1>3, <2>1
<1>8. /\ Len(now) = m + n /\ m \in Nat /\ \A c \in 1 .. m : now[c] = command[c]
      /\ \A i \in 1 .. n : now[m + i] = Saved(s[i])
  <2>1. /\ Len(now) = m + n /\ m \in Nat /\ \A c \in 1 .. m : now[c] = command[c]
        /\ \A i \in 1 .. n : now[m + i] = Created(Template)[i]
    BY <1>1, <1>3, <1>7
  <2> QED
    BY <1>4, <2>1
<1>9. \A c \in 1 .. m : now[c] = Gone
  BY <1>8 DEF Present
<1> HIDE DEF now, m
<1>10. Present(now) = {m + i : i \in 1 .. n}
  <2>1. \A i \in 1 .. n : now[m + i] # Gone /\ m + i \in 1 .. Len(now)
    <3>1. \A i \in 1 .. n : now[m + i] \in Command
      BY <1>6, <1>8
    <3>2. Gone \notin Command
      BY SyncAssumption
    <3>3. \A i \in 1 .. n : m + i \in 1 .. Len(now)
      BY <1>3, <1>8
    <3> QED
      BY <3>1, <3>2, <3>3
  <2>2. \A c \in 1 .. Len(now) : c \in 1 .. m \/ (c - m \in 1 .. n /\ c = m + (c - m))
    BY <1>3, <1>8
  <2>3. Present(now) \subseteq {m + i : i \in 1 .. n}
    <3>1. ASSUME NEW c \in Present(now) PROVE \E i \in 1 .. n : c = m + i
      <4>1. c \in 1 .. Len(now) /\ now[c] # Gone
        BY DEF Present
      <4>2. c \notin 1 .. m
        BY <1>9, <4>1
      <4> QED
        BY <2>2, <4>1, <4>2
    <3> QED
      BY <3>1
  <2>4. {m + i : i \in 1 .. n} \subseteq Present(now)
    BY <2>1 DEF Present
  <2> QED
    BY <2>3, <2>4
<1>11. ASSUME NEW i \in 1 .. n, NEW x \in wanted
       PROVE  now[m + i].of = x <=> s[i] = wish(x)
  <2>1. PICK y \in wanted : s[i] = wish(y) /\ now[m + i] = Due(data, y)
    BY <1>6, <1>8
  <2>2. now[m + i].of = y /\ wish(y).of = y /\ wish(x).of = x
    BY <1>5, <2>1
  <2> QED
    BY <2>1, <2>2
<1>12. ASSUME NEW x \in wanted
       PROVE  \E c \in Present(now) : Serving(now, x) = {c} /\ now[c] = Due(data, x)
  <2>1. PICK i \in 1 .. n : s[i] = wish(x)
    BY <1>3, <1>5
  <2>2. \A j \in 1 .. n : now[m + j].of = x <=> j = i
    BY <1>3, <1>11, <2>1
  <2>3. Serving(now, x) = {m + i}
    BY <1>10, <2>2 DEF Serving
  <2>4. now[m + i] = Due(data, x)
    BY <1>5, <1>8, <2>1
  <2> QED
    BY <1>10, <2>3, <2>4
<1>13. \A c \in Present(now) : now[c].of \in wanted
  BY <1>6, <1>8, <1>10
<1>14. CommandsSettle(data, ignored, now)
  BY <1>12, <1>13 DEF CommandsSettle
<1>15. Present(now) \cap DOMAIN command = {}
  <2>1. DOMAIN command = 1 .. m
    BY <1>1 DEF m
  <2>2. \A i \in 1 .. n : m + i \notin 1 .. m
    BY <1>3, <1>8
  <2> QED
    BY <1>10, <2>1, <2>2
<1> QED
  BY <1>14, <1>15 DEF now

\* Where the commands have settled, and the pairs are wired, an audit finds nothing but pairs to rename.
LEMMA NothingIsFound ==
  ASSUME NEW d \in Reading, NEW ign, NEW ren, NEW cmds, NEW p, NEW read \in Reading,
         read.source = d.source, read.command = cmds,
         CommandsSettle(d, ign, cmds), WiresSettle(d, ign, ren, {}, cmds, p)
  PROVE  LET found == Compare(read, ign, p) IN
         /\ found.missing = {} /\ found.rename = {} /\ found.type = {} /\ found.orphan = {}
         /\ found.gap \subseteq ren
         /\ found.dangling \subseteq Dangling(p)
<1> DEFINE wanted == Wanted(read, ign)
<1>1. wanted = Wanted(d, ign)
  BY DEF Wanted
<1>2. ASSUME NEW x \in wanted
      PROVE  /\ Serving(cmds, x) = {BestMatch(read, x)} /\ cmds[BestMatch(read, x)].of = x
             /\ cmds[BestMatch(read, x)].title = d.source[x].title
             /\ cmds[BestMatch(read, x)].kind = d.source[x].kind
  <2>1. PICK c \in Present(cmds) : Serving(cmds, x) = {c} /\ cmds[c] = Due(d, x)
    BY <1>1 DEF CommandsSettle
  <2>2. BestMatch(read, x) \in Serving(cmds, x)
    BY <2>1, BestMatchServes
  <2>3. Due(d, x).of = x /\ Due(d, x).title = d.source[x].title /\ Due(d, x).kind = d.source[x].kind
    BY DEF Due, Saved
  <2> QED
    BY <2>1, <2>2, <2>3
<1>3. \A c \in Present(cmds) : cmds[c].of \in wanted /\ c = BestMatch(read, cmds[c].of)
  <2>1. ASSUME NEW c \in Present(cmds) PROVE cmds[c].of \in wanted /\ c \in Serving(cmds, cmds[c].of)
    BY <1>1 DEF CommandsSettle, Serving
  <2> QED
    BY <1>2, <2>1
<1>4. \A x \in wanted : x \in ren \/ WiredPair(p, x, BestMatch(read, x))
  BY <1>1, <1>2 DEF WiresSettle
<1> DEFINE found == Compare(read, ign, p)
<1>5. found.missing = {} /\ found.rename = {} /\ found.type = {} /\ found.orphan = {}
  BY <1>2, <1>3 DEF Compare
<1>6. found.gap \subseteq ren
  BY <1>4 DEF Compare
<1>7. found.dangling \subseteq Dangling(p)
  BY DEF Compare
<1> QED
  BY <1>5, <1>6, <1>7

-----------------------------------------------------------------------------
(* How plans change.                                                           *)

LEMMA WithoutRightly ==
  ASSUME NEW p \in Plan, Rightly(p), NEW gone
  PROVE  Rightly(Without(p, gone))
<1>1. p # Gone /\ Without(p, gone) # Gone /\ Without(p, gone) \in Plan
  BY WithoutIsPlan, SyncAssumption
<1>2. ASSUME NEW type, NEW e \in OfType(p, type), e \notin gone
      PROVE  e \in OfType(Without(p, gone), type)
  BY <1>1, <1>2 DEF Without, OfType, Elements, Plan
<1>3. Without(p, gone).wire = {w \in p.wire : w[1] \notin gone /\ w[2] \notin gone}
  BY DEF Without
<1> QED
  BY <1>2, <1>3 DEF Rightly

\* Plan q is p with new elements, each of which is one of these.
Grows(p, q, new) ==
    /\ Len(p.elem) <= Len(q.elem) /\ q.wire = p.wire /\ q.logic = p.logic
    /\ \A e \in Elements(p) : e \in Elements(q) /\ q.elem[e] = p.elem[e]
    /\ \A e \in Elements(q) : e \in Elements(p) \/ (e > Len(p.elem) /\ q.elem[e] \in new)

LEMMA PlacedGrows ==
  ASSUME NEW p \in Plan, NEW type \in {"src", "web"}, NEW ref \in Nat
  PROVE  LET q == Placed(p, type, ref) IN
         /\ Grows(p, q, {[type |-> type, ref |-> ref]})
         /\ Newest(q) \in Elements(q) /\ q.elem[Newest(q)] = [type |-> type, ref |-> ref]
<1> DEFINE new == [type |-> type, ref |-> ref]
           q == Placed(p, type, ref)
<1>1. new \in Element /\ new # Gone
  BY SyncAssumption DEF Element
<1>2. q.elem = Append(p.elem, new) /\ q.wire = p.wire /\ q.logic = p.logic /\ q # Gone /\ p # Gone
  <2>1. q = [p EXCEPT !.elem = Append(p.elem, new)]
    BY DEF Placed
  <2>2. q \in Plan
    BY PlacedIsPlan
  <2> HIDE DEF q
  <2> QED
    BY <2>1, <2>2, SyncAssumption DEF Plan
<1> HIDE DEF q, new
<1>3. /\ Len(p.elem) \in Nat /\ Len(q.elem) = Len(p.elem) + 1 /\ q.elem[Len(p.elem) + 1] = new
      /\ \A e \in 1 .. Len(p.elem) : q.elem[e] = p.elem[e]
  BY <1>1, <1>2 DEF Plan
<1>4. Elements(p) = {e \in 1 .. Len(p.elem) : p.elem[e] # Gone} /\ Elements(q) = {e \in 1 .. Len(q.elem) : q.elem[e] # Gone}
  BY <1>2 DEF Elements
<1>5. \A e \in 1 .. Len(q.elem) : e \in 1 .. Len(p.elem) \/ e = Len(p.elem) + 1
  BY <1>3
<1>6. Newest(q) = Len(p.elem) + 1
  BY <1>3 DEF Newest
<1>7. Newest(q) \in Elements(q) /\ q.elem[Newest(q)] = new
  BY <1>1, <1>3, <1>4, <1>6
<1>8. \A e \in Elements(q) : e \in Elements(p) \/ (e > Len(p.elem) /\ q.elem[e] = new)
  BY <1>3, <1>4, <1>5
<1>9. \A e \in Elements(p) : e \in Elements(q) /\ q.elem[e] = p.elem[e]
  BY <1>3, <1>4
<1>10. Grows(p, q, {new})
  <2>1. Len(p.elem) <= Len(q.elem)
    BY <1>3
  <2>2. q.wire = p.wire /\ q.logic = p.logic
    BY <1>2
  <2>3. \A e \in Elements(q) : e \in Elements(p) \/ (e > Len(p.elem) /\ q.elem[e] \in {new})
    BY <1>8
  <2> QED
    BY <2>1, <2>2, <2>3, <1>9 DEF Grows
<1> QED
  BY <1>7, <1>10 DEF q, new

LEMMA GrowsOn ==
  ASSUME NEW p \in Plan, NEW q \in Plan, NEW r \in Plan, NEW new, NEW more, Grows(p, q, new), Grows(q, r, more)
  PROVE  Grows(p, r, new \cup more)
<1>1. Len(p.elem) \in Nat /\ Len(q.elem) \in Nat /\ Len(r.elem) \in Nat
  BY DEF Plan
<1>2. Elements(r) \subseteq Nat
  BY ElementsBelow DEF IsPlan
<1>3. \A e \in Elements(r) : e \in Elements(p) \/ (e > Len(p.elem) /\ r.elem[e] \in new \cup more)
  BY <1>1, <1>2 DEF Grows
<1> QED
  BY <1>1, <1>3 DEF Grows

LEMMA GrowsRightly ==
  ASSUME NEW p \in Plan, NEW q \in Plan, NEW new, Grows(p, q, new), Rightly(p), NEW old \in Plan, Follows(p, old)
  PROVE  Rightly(q) /\ Follows(q, old)
<1>1. p # Gone /\ q # Gone /\ old # Gone
  BY SyncAssumption
<1>2. \A type : OfType(p, type) \subseteq OfType(q, type)
  BY DEF OfType, Grows
<1>3. Rightly(q)
  BY <1>2 DEF Rightly, Grows
<1>4. Len(p.elem) \in Nat /\ Len(q.elem) \in Nat /\ Len(old.elem) \in Nat /\ Elements(old) \subseteq 1 .. Len(old.elem)
  BY <1>1 DEF Plan, Elements
<1>5. Len(old.elem) <= Len(q.elem)
  BY <1>4 DEF Grows, Follows
<1>6. ASSUME NEW e \in Elements(old) \cap Elements(q) PROVE q.elem[e] = old.elem[e]
  <2>1. e \in Elements(p)
    BY <1>4 DEF Grows, Follows
  <2> QED
    BY <2>1 DEF Grows, Follows
<1> QED
  BY <1>3, <1>5, <1>6 DEF Follows

\* What one pair does to a plan that follows the one that was read.
LEMMA PairingKeeps ==
  ASSUME ctx \in ContextType, ctx.read \in Reading, plan \in Plan, NEW x \in Sources, Pairable(x),
         Rightly(plan), Follows(plan, ctx.plan)
  PROVE  LET pair == Pairing(x)
             c == Min(Named(ctx.read, x))
         IN /\ Rightly(pair.half) /\ Follows(pair.half, ctx.plan)
            /\ pair.possible =>
                  /\ Rightly(pair.whole) /\ Follows(pair.whole, ctx.plan)
                  /\ Elements(plan) \subseteq Elements(pair.whole)
                  /\ WiredPair(pair.whole, x, c) /\ Dangling(pair.whole) \subseteq Dangling(plan)
                  /\ \A y, k : y # x /\ WiredPair(plan, y, k) => WiredPair(pair.whole, y, k)
                  /\ ctx.plan.wire \subseteq plan.wire /\ Elements(ctx.plan) \subseteq Elements(plan)
                        => ctx.plan.wire \subseteq pair.whole.wire
            /\ pair.wired /\ ctx.plan.wire \subseteq plan.wire => WiredPair(plan, x, c)
<1> DEFINE c == Min(Named(ctx.read, x))
           srcs == Find(ctx.plan, "src", x)
           webs == Find(ctx.plan, "web", c)
           half == IF srcs = {} THEN Placed(plan, "src", x) ELSE IF webs = {} THEN PlacedBare(c) ELSE plan
           all == IF srcs = {} /\ webs = {} THEN Placed(half, "web", c) ELSE half
           e == IF srcs = {} THEN Newest(half) ELSE Max(srcs)
           f == IF webs = {} THEN Newest(all) ELSE Max(webs)
           whole == Joined(all, e, f)
           src == [type |-> "src", ref |-> x]
           web == [type |-> "web", ref |-> c]
<1>1. Named(ctx.read, x) \in SUBSET Nat
  BY PresentIds DEF Named, Serving, Reading
<1>2. c \in Nat
  BY <1>1, MinIn DEF Pairable
<1> HIDE DEF c
<1>3. x \in Nat
  BY SyncAssumption
<1>4. ctx.plan \in Plan /\ ctx.plan # Gone /\ plan # Gone
  BY SyncAssumption DEF ContextType
<1>5. /\ Len(ctx.plan.elem) \in Nat /\ Len(plan.elem) \in Nat /\ Elements(ctx.plan) \subseteq 1 .. Len(ctx.plan.elem)
      /\ srcs \subseteq Elements(ctx.plan) /\ webs \subseteq Elements(ctx.plan)
      /\ (\A g \in srcs : ctx.plan.elem[g].type = "src" /\ ctx.plan.elem[g].ref = x)
      /\ (\A g \in webs : ctx.plan.elem[g].type = "web" /\ ctx.plan.elem[g].ref = c)
  BY <1>4 DEF Plan, Find, OfType, Elements
<1>6. (srcs # {} => Max(srcs) \in srcs) /\ (webs # {} => Max(webs) \in webs)
  <2>1. srcs \in SUBSET (0 .. Len(ctx.plan.elem)) /\ webs \in SUBSET (0 .. Len(ctx.plan.elem))
    BY <1>5
  <2> QED
    BY <1>5, <2>1, MaxIn
<1> HIDE DEF srcs, webs
<1>7. /\ half \in Plan /\ Grows(plan, half, {src, web})
      /\ srcs = {} => Newest(half) \in Elements(half) /\ half.elem[Newest(half)] = src
      /\ srcs # {} /\ webs = {} => Newest(half) \in Elements(half) /\ half.elem[Newest(half)] = web
  <2>1. CASE srcs = {}
    BY <1>3, <2>1, PlacedIsPlan, PlacedGrows DEF Grows
  <2>2. CASE srcs # {} /\ webs = {}
    BY <1>2, <2>2, PlacedIsPlan, PlacedGrows DEF Grows, PlacedBare
  <2>3. CASE srcs # {} /\ webs # {}
    <3>1. half = plan
      BY <2>3
    <3> HIDE DEF half
    <3> QED
      BY <1>5, <2>3, <3>1 DEF Grows
  <2> QED
    BY <2>1, <2>2, <2>3
<1> HIDE DEF half, src, web
<1>8. /\ all \in Plan /\ Grows(half, all, {src, web})
      /\ webs = {} => Newest(all) \in Elements(all) /\ all.elem[Newest(all)] = web
  <2>1. CASE srcs = {} /\ webs = {}
    <3>1. Grows(half, all, {web}) /\ all \in Plan /\ Newest(all) \in Elements(all) /\ all.elem[Newest(all)] = web
      BY <1>2, <1>7, <2>1, PlacedIsPlan, PlacedGrows DEF web
    <3> QED
      BY <3>1 DEF Grows
  <2>2. CASE ~(srcs = {} /\ webs = {})
    <3>1. all = half /\ Len(half.elem) \in Nat
      BY <1>7, <2>2 DEF Plan
    <3> QED
      BY <1>7, <2>2, <3>1 DEF Grows
  <2> QED
    BY <2>1, <2>2
<1>9. Grows(plan, all, {src, web})
  BY <1>7, <1>8, GrowsOn
<1>10. Rightly(half) /\ Follows(half, ctx.plan) /\ Rightly(all) /\ Follows(all, ctx.plan)
  BY <1>4, <1>7, <1>8, <1>9, GrowsRightly
<1>11. e \in Elements(all) => all.elem[e] = src
  <2>1. CASE srcs = {}
    BY <1>7, <1>8, <2>1 DEF Grows
  <2>2. CASE srcs # {}
    <3> HIDE DEF all
    <3>1. e \in srcs
      BY <1>6, <2>2
    <3>2. e \in Elements(all) => all.elem[e] = ctx.plan.elem[e]
      BY <1>5, <1>10, <3>1 DEF Follows
    <3>3. ctx.plan.elem[e] \in [type : {"src", "web"}, ref : Nat]
      BY <1>4, <1>5, <3>1 DEF Plan, Elements, Element
    <3> QED
      BY <1>5, <3>1, <3>2, <3>3 DEF src
  <2> QED
    BY <2>1, <2>2
<1>12. f \in Elements(all) => all.elem[f] = web
  <2>1. CASE webs = {}
    BY <1>8, <2>1
  <2>2. CASE webs # {}
    <3> HIDE DEF all
    <3>1. f \in webs
      BY <1>6, <2>2
    <3>2. f \in Elements(all) => all.elem[f] = ctx.plan.elem[f]
      BY <1>5, <1>10, <3>1 DEF Follows
    <3>3. ctx.plan.elem[f] \in [type : {"src", "web"}, ref : Nat]
      BY <1>4, <1>5, <3>1 DEF Plan, Elements, Element
    <3> QED
      BY <1>5, <3>1, <3>2, <3>3 DEF web
  <2> QED
    BY <2>1, <2>2
<1>13. Pairing(x).half = half /\ Pairing(x).whole = whole /\ Pairing(x).possible = ({e, f} \subseteq Elements(all))
       /\ Pairing(x).wired = ({<<e, f>>, <<f, e>>} \cap ctx.plan.wire # {})
  BY DEF Pairing, c, srcs, webs, half
<1>14. Pairing(x).wired /\ ctx.plan.wire \subseteq plan.wire => WiredPair(plan, x, c)
  <2> SUFFICES ASSUME {<<e, f>>, <<f, e>>} \cap ctx.plan.wire # {}, ctx.plan.wire \subseteq plan.wire
               PROVE  WiredPair(plan, x, c)
    BY <1>13
  <2> HIDE DEF e, f, all
  <2>1. Rightly(ctx.plan) /\ Rightly(all) /\ all.wire = plan.wire
    BY <1>9, <1>10 DEF Follows, Grows
  <2>2. e \in Elements(all) /\ f \in Elements(all)
    BY <2>1 DEF Rightly, OfType
  <2>3. <<e, f>> \in plan.wire
    <3>1. all.elem[e].type = "src"
      BY <1>11, <2>2 DEF src
    <3>2. <<f, e>> \notin all.wire
      BY <2>1, <3>1 DEF Rightly, OfType
    <3> QED
      BY <2>1, <3>2
  <2>4. e \in Elements(plan) /\ f \in Elements(plan)
    BY <2>3 DEF Rightly, OfType
  <2>5. plan.elem[e] = src /\ plan.elem[f] = web
    BY <1>9, <1>11, <1>12, <2>4 DEF Grows
  <2> QED
    BY <2>3, <2>4, <2>5 DEF WiredPair, Find, OfType, src, web
<1>15. ASSUME e \in Elements(all), f \in Elements(all)
       PROVE  /\ Rightly(whole) /\ Follows(whole, ctx.plan)
              /\ Elements(plan) \subseteq Elements(whole)
              /\ WiredPair(whole, x, c) /\ Dangling(whole) \subseteq Dangling(plan)
              /\ \A y, k : y # x /\ WiredPair(plan, y, k) => WiredPair(whole, y, k)
              /\ ctx.plan.wire \subseteq plan.wire /\ Elements(ctx.plan) \subseteq Elements(plan)
                    => ctx.plan.wire \subseteq whole.wire
  <2> HIDE DEF e, f, all
  <2>1. all.elem[e] = src /\ all.elem[f] = web /\ src.type = "src" /\ src.ref = x /\ web.type = "web" /\ web.ref = c
    BY <1>11, <1>12, <1>15 DEF src, web
  <2>2. /\ whole.elem = all.elem /\ whole.logic = all.logic
        /\ whole.wire = {w \in all.wire : w[1] # e} \cup {<<e, g>> : g \in Feeds(ctx.plan, e) \cap Elements(all)} \cup {<<e, f>>}
    BY <1>8 DEF Joined, Plan
  <2>3. whole \in Plan /\ whole # Gone /\ all # Gone
    <3>1. whole \in Plan
      BY <1>13, PairingPlans
    <3> QED
      BY <1>8, <3>1, SyncAssumption
  <2> HIDE DEF whole
  <2>4. Elements(whole) = Elements(all) /\ (\A type : OfType(whole, type) = OfType(all, type))
        /\ \A type, ref : Find(whole, type, ref) = Find(all, type, ref)
    BY <2>2, <2>3 DEF Elements, OfType, Find
  <2>5. all.wire = plan.wire /\ all.logic = plan.logic /\ \A g \in Elements(plan) : g \in Elements(all) /\ all.elem[g] = plan.elem[g]
    BY <1>9 DEF Grows
  <2>6. ASSUME NEW g \in Feeds(ctx.plan, e) \cap Elements(all)
        PROVE  g \in OfType(all, "web")
    <3>1. g \in OfType(ctx.plan, "web")
      BY <1>10 DEF Feeds, Follows, Rightly
    <3> QED
      BY <1>10, <3>1 DEF Follows, OfType
  <2>7. e \in OfType(all, "src") /\ f \in OfType(all, "web")
    BY <1>15, <2>1 DEF OfType
  <2>8. Rightly(whole)
    BY <1>10, <2>2, <2>4, <2>6, <2>7 DEF Rightly
  <2>9. Follows(whole, ctx.plan)
    BY <1>10, <2>2, <2>4 DEF Follows
  <2>10. WiredPair(whole, x, c)
    <3>1. e \in Find(whole, "src", x) /\ f \in Find(whole, "web", c) /\ <<e, f>> \in whole.wire
      BY <2>1, <2>2, <2>4, <2>7 DEF Find
    <3> QED
      BY <3>1 DEF WiredPair
  <2>11. ASSUME NEW w \in plan.wire, plan.elem[w[1]].ref # x
         PROVE  w \in whole.wire
    <3>1. w[1] \in Elements(plan)
      BY DEF Rightly, OfType
    <3> QED
      BY <2>1, <2>2, <2>5, <2>11, <3>1
  <2>12. ASSUME NEW y, NEW k, y # x, WiredPair(plan, y, k)
         PROVE  WiredPair(whole, y, k)
    <3>1. PICK a \in Find(plan, "src", y), b \in Find(plan, "web", k) : <<a, b>> \in plan.wire
      BY <2>12 DEF WiredPair
    <3>2. <<a, b>> \in whole.wire
      BY <2>11, <2>12, <3>1 DEF Find
    <3>3. a \in Find(whole, "src", y) /\ b \in Find(whole, "web", k)
      BY <2>4, <2>5 DEF Find, OfType
    <3> QED
      BY <3>2, <3>3 DEF WiredPair
  <2>13. ASSUME NEW y \in Dangling(whole) PROVE y \in Dangling(plan)
    <3>1. y \in Sources /\ Find(whole, "src", y) # {} /\ \A a \in Find(whole, "src", y) : ~Connected(whole, a)
      BY DEF Dangling
    <3>2. y # x
      <4>1. e \in Find(whole, "src", x)
        <5>1. e \in Find(all, "src", x)
          BY <2>1, <2>7 DEF Find
        <5> QED
          BY <2>4, <5>1
      <4>2. Connected(whole, e)
        <5>1. <<e, f>> \in whole.wire /\ <<e, f>>[1] = e
          BY <2>2
        <5> QED
          BY <5>1 DEF Connected
      <4> QED
        BY <3>1, <4>1, <4>2
    <3>3. Find(whole, "src", y) \subseteq Find(plan, "src", y)
      <4>1. ASSUME NEW a \in Find(all, "src", y) PROVE a \in Find(plan, "src", y)
        <5>1. a \in Elements(all) /\ all.elem[a].type = "src" /\ all.elem[a].ref = y
          BY DEF Find, OfType
        <5>2. a \in Elements(plan)
          BY <1>9, <2>1, <3>2, <5>1 DEF Grows
        <5> QED
          BY <2>5, <5>1, <5>2 DEF Find, OfType
      <4> QED
        BY <2>4, <4>1
    <3>4. ASSUME NEW a \in Find(plan, "src", y) PROVE ~Connected(plan, a)
      <4>1. a \in Find(whole, "src", y) /\ a \in OfType(plan, "src") /\ plan.elem[a].ref = y /\ plan.elem[a].type = "src"
        BY <2>4, <2>5 DEF Find, OfType
      <4>2. a \notin whole.logic /\ ~\E w \in whole.wire : a \in {w[1], w[2]}
        BY <3>1, <4>1 DEF Connected
      <4>3. ASSUME NEW w \in plan.wire PROVE a # w[1] /\ a # w[2]
        <5>1. plan.elem[w[2]].type = "web"
          BY DEF Rightly, OfType
        <5>2. a = w[1] => w \in whole.wire
          BY <2>11, <3>2, <4>1
        <5> QED
          BY <4>1, <4>2, <5>1, <5>2
      <4> QED
        BY <2>2, <2>5, <4>2, <4>3 DEF Connected
    <3> QED
      BY <3>1, <3>3, <3>4 DEF Dangling
  <2>14. ASSUME ctx.plan.wire \subseteq plan.wire, Elements(ctx.plan) \subseteq Elements(plan)
         PROVE  ctx.plan.wire \subseteq whole.wire
    <3>1. ASSUME NEW w \in ctx.plan.wire, w[1] = e PROVE w \in whole.wire
      <4>1. w[2] \in Feeds(ctx.plan, e) /\ w[2] \in Elements(ctx.plan)
        BY <1>10, <3>1 DEF Feeds, Follows, Rightly, OfType
      <4>2. w = <<e, w[2]>>
        BY <1>4, <3>1 DEF Plan
      <4>3. w[2] \in Feeds(ctx.plan, e) \cap Elements(all)
        BY <2>5, <2>14, <4>1
      <4> QED
        BY <2>2, <4>2, <4>3
    <3> QED
      BY <2>2, <2>5, <2>14, <3>1
  <2> QED
    BY <2>4, <2>5, <2>8, <2>9, <2>10, <2>12, <2>13, <2>14
<1> QED
  BY <1>10, <1>13, <1>14, <1>15 DEF c

LEMMA PlanMoves ==
  ASSUME [Next]_vars
  PROVE  plan' = plan \/ EditsPlan \/ ErasesElements \/ FindsPlan \/ PlacesPair
<1>1. CASE UNCHANGED vars \/ Poll \/ LoadsPlans \/ Finishes
  BY <1>1 DEF vars, comexio, managed, Poll, LoadsPlans, Finishes
<1>2. CASE User
  BY <1>2 DEF User, EditsMarker, CopiesCommand, DeletesCommand, UsesCommand, SwitchesPlan, Ignores,
     Cancel, Press, comexio, managed
<1>3. CASE LooksUpDevice \/ SyncsClass
  BY <1>3 DEF LooksUpDevice, SyncsClass, DecidesAction, Recreates, DeletesDevice, ConfirmsDeviceGone,
     LooksUpClass,
     DeletesClass, Uploads, CreatesDevice, Delta, Debris, Unwires, CleansLeftOvers, StopsPlan,
     RestartsPlan,
     SortsPlan, RunsSorted, RunsAgain, ListsPlans, ChecksOrphans, RunsTask, Checks, ReadsPlans,
     Quietly, managed
<1>4. CASE Wires \/ CleansIgnored
  BY <1>4 DEF Wires, WiresPlan, StopsToWire, ReadsConfig, ReadsPlan, PairsDone, CleansIgnored,
     FindsIgnored,
     LoadsForCleanup, ListsPlansForCleanup, ChecksCleanable, DeletesCleaned, Checks, ReadsPlans,
     Quietly, managed
<1> QED
  BY <1>1, <1>2, <1>3, <1>4 DEF Next, Sync

LEMMA EmptyIsFollowed ==
  ASSUME NEW p \in Plan, Rightly(p)
  PROVE  Rightly(EmptyPlan) /\ Follows(p, EmptyPlan) /\ Follows(p, p)
<1>1. Len(p.elem) \in Nat
  BY DEF Plan
<1>2. Rightly(EmptyPlan)
  BY DEF Rightly, EmptyPlan
<1>3. Len(EmptyPlan.elem) = 0 /\ Elements(EmptyPlan) = {}
  BY EmptyPlanIsPlan DEF EmptyPlan, Elements
<1> QED
  BY <1>1, <1>2, <1>3 DEF Follows

LEMMA EditedRightly ==
  ASSUME plan \in Plan, EditsPlan, Rightly(plan)
  PROVE  Rightly(plan') /\ \A q : Follows(plan, q) => Follows(plan', q)
<1>0. plan # Gone /\ plan' \in Plan /\ plan' # Gone
  BY EditsPlanIsPlan, SyncAssumption
<1>1. ASSUME NEW e \in Elements(plan), plan' = Without(plan, {e})
      PROVE  Rightly(plan') /\ \A q : Follows(plan, q) => Follows(plan', q)
  <2>1. Rightly(plan')
    BY <1>1, WithoutRightly
  <2>2. Len(plan'.elem) = Len(plan.elem) /\ Elements(plan') \subseteq Elements(plan)
        /\ \A g \in Elements(plan') : plan'.elem[g] = plan.elem[g]
    <3>1. Elements(plan') \subseteq Elements(plan) /\ \A g \in Elements(plan') : plan'.elem[g] = plan.elem[g]
      <4>1. Below(plan, plan)
        BY Reflexive
      <4>2. Below(Without(plan, {e}), plan)
        BY <4>1, WithoutIsBelow
      <4> QED
        BY <1>0, <1>1, <4>2 DEF Below
    <3>2. Len(plan'.elem) = Len(plan.elem)
      BY <1>1 DEF Without, Plan
    <3> QED
      BY <3>1, <3>2
  <2> QED
    BY <2>1, <2>2 DEF Follows
<1>2. ASSUME plan'.elem = plan.elem,
             \A w \in plan'.wire : w \in plan.wire \/ (w[1] \in OfType(plan, "src") /\ w[2] \in OfType(plan, "web"))
      PROVE  Rightly(plan') /\ \A q : Follows(plan, q) => Follows(plan', q)
  <2>1. Elements(plan') = Elements(plan) /\ \A type : OfType(plan', type) = OfType(plan, type)
    BY <1>0, <1>2 DEF Elements, OfType
  <2> QED
    BY <1>2, <2>1 DEF Rightly, Follows
<1>3. ASSUME NEW e, plan' = [plan EXCEPT !.logic = @ \cup {e}]
      PROVE  plan'.elem = plan.elem /\ plan'.wire = plan.wire
  BY <1>3 DEF Plan
<1>4. ASSUME NEW e \in OfType(plan, "src"), NEW f \in OfType(plan, "web"), plan' = [plan EXCEPT !.wire = @ \cup {<<e, f>>}]
      PROVE  plan'.elem = plan.elem /\ plan'.wire = plan.wire \cup {<<e, f>>}
  BY <1>4 DEF Plan
<1>5. ASSUME NEW w \in plan.wire, plan' = [plan EXCEPT !.wire = @ \ {w}]
      PROVE  plan'.elem = plan.elem /\ plan'.wire \subseteq plan.wire
  BY <1>5 DEF Plan
<1>6. CASE \E e \in Elements(plan) \ plan.logic : plan' = [plan EXCEPT !.logic = @ \cup {e}]
  BY <1>2, <1>3, <1>6
<1>7. CASE \E e \in OfType(plan, "src"), f \in OfType(plan, "web") : plan' = [plan EXCEPT !.wire = @ \cup {<<e, f>>}]
  <2>1. PICK e \in OfType(plan, "src"), f \in OfType(plan, "web") : plan' = [plan EXCEPT !.wire = @ \cup {<<e, f>>}]
    BY <1>7
  <2>2. plan'.elem = plan.elem /\ plan'.wire = plan.wire \cup {<<e, f>>}
    BY <1>4, <2>1
  <2>3. \A w \in plan'.wire : w \in plan.wire \/ (w[1] \in OfType(plan, "src") /\ w[2] \in OfType(plan, "web"))
    BY <2>2
  <2> QED
    BY <1>2, <2>2, <2>3
<1>8. CASE \E w \in plan.wire : plan' = [plan EXCEPT !.wire = @ \ {w}]
  BY <1>2, <1>5, <1>8
<1>9. CASE \E e \in Elements(plan) : plan' = Without(plan, {e})
  BY <1>1, <1>9
<1> QED
  BY <1>6, <1>7, <1>8, <1>9 DEF EditsPlan

\* What placing a pair leaves of the press and of what was read.
LEMMA PlacesPairMoves ==
  ASSUME Types, PlanThere, ReadStill, PlacesPair
  PROVE  LET x == Min(ctx.left)
             pair == Pairing(x)
         IN /\ ctx.read \in Reading /\ plan \in Plan /\ ctx \in ContextType /\ x \in ctx.left /\ x \in Sources
            /\ ctx'.plan = ctx.plan /\ ctx'.read = ctx.read /\ ctx'.left = ctx.left \ {x}
            /\ ctx'.resort = ctx.resort /\ ctx'.action = ctx.action /\ ctx'.after = ctx.after /\ ctx'.task = ctx.task
            /\ plan' = plan \/ (Pairable(x) /\ plan' = pair.half) \/ (Pairable(x) /\ pair.possible /\ plan' = pair.whole)
            /\ ~ctx'.failed => /\ Pairable(x)
                               /\ \/ pair.wired /\ plan' = plan
                                  \/ pair.possible /\ plan' = pair.whole
<1> DEFINE x == Min(ctx.left)
           pair == Pairing(x)
           done == [ctx EXCEPT !.left = @ \ {x}]
<1>1. ctx \in ContextType /\ ctx.left \in SUBSET Sources /\ ctx.left \in SUBSET Nat /\ ctx.left # {}
  BY SyncAssumption DEF PlacesPair, Types, SyncTypes, ContextType
<1>2. x \in ctx.left /\ x \in Sources
  BY <1>1, MinIn
<1>3. plan \in Plan /\ ctx.read \in Reading
  BY DEF PlacesPair, Step, PlanThere, Placing, ReadStill, Types, ComexioTypes, IsPlan, SyncTypes,
     ContextType
<1>4. \/ ~Pairable(x) /\ ctx' = [done EXCEPT !.failed = TRUE] /\ plan' = plan
      \/ Pairable(x) /\ pair.wired /\ ctx' = done /\ plan' = plan
      \/ Pairable(x) /\ pair.possible /\ ctx' = [done EXCEPT !.added = TRUE] /\ plan' = pair.whole
      \/ Pairable(x) /\ ctx' = [done EXCEPT !.failed = TRUE]
         /\ (plan' \in {plan, pair.half} \/ (pair.possible /\ plan' = pair.whole))
  BY DEF PlacesPair
<1> HIDE DEF pair
<1>5. /\ ctx'.plan = ctx.plan /\ ctx'.read = ctx.read /\ ctx'.left = ctx.left \ {x}
      /\ ctx'.resort = ctx.resort /\ ctx'.action = ctx.action /\ ctx'.after = ctx.after /\ ctx'.task = ctx.task
      /\ ctx' = [done EXCEPT !.failed = TRUE] => ctx'.failed
  BY ContextRecord, <1>1, <1>4 DEF ContextFields
<1> HIDE DEF done, x
<1> QED
  BY <1>1, <1>2, <1>3, <1>4, <1>5 DEF pair, x

LEMMA WiresStep ==
  ASSUME IInv, WiresInv, [Next]_vars
  PROVE  WiresInv'
<1>0. Types /\ PlanThere /\ ReadStill /\ IsPlan(plan) /\ ctx \in ContextType
  BY DEF IInv, CommandsInv, Types, ComexioTypes, SyncTypes
<1>1. ASSUME pc' = "pairs", plan' = plan
      PROVE  Follows(plan', ctx'.plan)
  <2>1. CASE ~Sync
    <3>1. pc = "pairs" /\ ctx' = ctx
      BY <1>1, <2>1, Outside
    <3> QED
      BY <1>1, <3>1 DEF WiresInv
  <2>2. CASE Sync
    <3>1. ReadsConfig \/ ReadsPlan \/ PlacesPair
      BY <1>0, <1>1, <2>2, LeadsTo
    <3>2. CASE ReadsConfig
      BY <1>1, <3>2 DEF ReadsConfig
    <3>3. CASE ReadsPlan
      <4>1. plan \in Plan /\ plan # Gone
        BY <1>0, <3>3 DEF ReadsPlan, Step, PlanThere, Placing, IsPlan
      <4>2. ctx' = [ctx EXCEPT !.plan = plan] \/ ctx' = [ctx EXCEPT !.plan = EmptyPlan]
        BY <3>3 DEF ReadsPlan
      <4>3. ctx'.plan = plan \/ ctx'.plan = EmptyPlan
        BY ContextRecord, <1>0, <4>2 DEF ContextFields
      <4> QED
        BY <1>1, <4>1, <4>3, EmptyIsFollowed DEF WiresInv
    <3>4. CASE PlacesPair
      <4>1. ctx'.plan = ctx.plan /\ pc = "pairs"
        BY <1>0, <3>4, PlacesPairMoves DEF PlacesPair, Step
      <4> QED
        BY <1>1, <4>1 DEF WiresInv
    <3> QED
      BY <3>1, <3>2, <3>3, <3>4
  <2> QED
    BY <2>1, <2>2
<1>2. CASE plan' = plan
  BY <1>1, <1>2 DEF WiresInv
<1>3. CASE EditsPlan
  <2>1. plan \in Plan /\ UNCHANGED <<pc, ctx>> /\ plan # Gone
    BY <1>0, <1>3 DEF EditsPlan, Edit, IsPlan
  <2>2. Rightly(plan)
    BY <2>1 DEF WiresInv
  <2> QED
    BY <1>3, <2>1, <2>2, EditedRightly DEF WiresInv
<1>4. CASE ErasesElements
  <2>1. plan \in Plan /\ plan # Gone
    BY <1>0, <1>4 DEF ErasesElements, Step, PlanThere, Cutting, IsPlan
  <2>2. pc' # "pairs"
    BY <1>0, <1>4 DEF ErasesElements, ContextType
  <2>3. Rightly(plan) /\ Rightly(Without(plan, ctx.cut))
    BY <2>1, WithoutRightly DEF WiresInv
  <2> QED
    BY <1>4, <2>2, <2>3 DEF WiresInv, ErasesElements
<1>5. CASE FindsPlan
  BY <1>5, EmptyPlanIsPlan, EmptyIsFollowed DEF WiresInv, FindsPlan, Rightly, EmptyPlan
<1>6. CASE PlacesPair
  <2> DEFINE x == Min(ctx.left)
             pair == Pairing(x)
  <2>1. /\ ctx.read \in Reading /\ plan \in Plan /\ x \in Sources /\ ctx'.plan = ctx.plan
        /\ plan' = plan \/ (Pairable(x) /\ plan' = pair.half) \/ (Pairable(x) /\ pair.possible /\ plan' = pair.whole)
    BY <1>0, <1>6, PlacesPairMoves
  <2>2. pc = "pairs" /\ pc' = "pairs" /\ plan # Gone
    BY <1>6, <2>1, SyncAssumption DEF PlacesPair, Step
  <2>3. Rightly(plan) /\ Follows(plan, ctx.plan)
    BY <2>2 DEF WiresInv
  <2>4. Pairable(x) => /\ Rightly(pair.half) /\ Follows(pair.half, ctx.plan)
                       /\ pair.possible => Rightly(pair.whole) /\ Follows(pair.whole, ctx.plan)
    BY <1>0, <2>1, <2>3, PairingKeeps
  <2> HIDE DEF x, pair
  <2> QED
    BY <2>1, <2>2, <2>3, <2>4 DEF WiresInv
<1> QED
  BY <1>2, <1>3, <1>4, <1>5, <1>6, PlanMoves

-----------------------------------------------------------------------------
(* The device, the snapshot, and what goes on.                                 *)

LEMMA FailureStays ==
  ASSUME Types, Sync, ~Finishes
  PROVE  ctx'.action = ctx.action /\ (ctx.failed => ctx'.failed)
<1>1. ctx \in ContextType
  BY DEF Types, SyncTypes
<1>2. CASE ctx' = ctx
  BY <1>2
<1>3. CASE LooksUpDevice
  <2> DEFINE a == ctx.action
             cleaned == IF a = "cleanup_entities" THEN audit.cleanup \cap ignored ELSE {}
             dangling == IF a \in {"full_sync", "delete_orphans"} THEN audit.dangling ELSE {}
             toWire == IF a \in {"full_sync", "function_plan_add_missing"} THEN audit.gap ELSE {}
  <2>1. \/ ctx' = Reported
        \/ ctx' = [ctx EXCEPT !.dev = device, !.task = TasksOf(a, audit), !.dangling = dangling,
                              !.toWire = toWire, !.cleaned = cleaned]
    BY <1>3 DEF LooksUpDevice, Aborts
  <2> HIDE DEF cleaned, dangling, toWire
  <2> QED
    BY ContextRecord, <1>1, <2>1 DEF Reported, ContextFields
<1>4. CASE DecidesAction \/ Recreates
  <2>1. \/ ctx' \in {ctx, Reported}
        \/ \E create : ctx' = [ctx EXCEPT !.task = [NoTasks EXCEPT !.create = create]]
        \/ \E toWire : ctx' = [ctx EXCEPT !.task = NoTasks, !.toWire = toWire]
    BY <1>4 DEF DecidesAction, Recreates, DeletesDevice, ConfirmsDeviceGone, LooksUpClass,
       DeletesClass, Uploads,
       CreatesDevice, Aborts
  <2> QED
    BY ContextRecord, <1>1, <2>1 DEF Reported, ContextFields
<1>5. CASE Debris
  <2>1. \/ ctx' = ctx
        \/ \E elems, after : ctx' = [ctx EXCEPT !.cut = elems, !.after = after]
        \/ \E after : ctx' = [Reported EXCEPT !.after = after]
        \/ \E ran : ctx' = [ctx EXCEPT !.ran = ran]
        \/ \E resort : ctx' = [ctx EXCEPT !.resort = resort]
        \/ ctx' \in {NothingCut, Reported}
    BY <1>5 DEF Debris, Unwires, CleansLeftOvers, Cuts, StopsPlan, ErasesElements, RestartsPlan, Touched
  <2> QED
    BY ContextRecord, <1>1, <2>1 DEF NothingCut, Reported, ContextFields
<1>6. CASE SortsPlan \/ RunsSorted \/ RunsAgain
  BY ContextRecord, <1>1, <1>6 DEF SortsPlan, RunsSorted, RunsAgain, Reported, ContextFields
<1>7. CASE ListsPlans \/ ChecksOrphans \/ ListsPlansForCleanup \/ ChecksCleanable
  BY ContextRecord, <1>1, <1>7 DEF ListsPlans, ChecksOrphans, ListsPlansForCleanup, ChecksCleanable,
     Checks,
     ReadsPlans, Reported, ContextFields
<1>8. CASE RunsTask \/ DeletesCleaned
  BY <1>1, <1>8, TaskWritesKeep
<1>9. CASE Wires
  <2> DEFINE Kept == ctx'.action = ctx.action /\ (ctx.failed => ctx'.failed)
  <2>0. ctx' \in {ctx, Reported} => Kept
    BY ContextRecord, <1>1 DEF Reported, ContextFields
  <2>1. CASE FindsPlan
    <3> DEFINE Stops(fresh) == ctx' = [ctx EXCEPT !.fresh = fresh, !.ran = fresh \/ listed.runs,
                                                 !.left = ctx.toWire, !.resort = "no"]
    <3>1. ctx' \in {ctx, Reported} \/ Stops(TRUE) \/ Stops(FALSE)
      BY <2>1 DEF FindsPlan
    <3>2. \A fresh : Stops(fresh) => Kept
      BY ContextRecord, <1>1 DEF ContextFields
    <3> HIDE DEF Stops, Kept
    <3>3. Kept
      BY <2>0, <3>1, <3>2
    <3> QED
      BY <3>3 DEF Kept
  <2>2. CASE PlacesPair
    <3>1. \E left : ctx' \in {[ctx EXCEPT !.left = left], [ctx EXCEPT !.left = left, !.added = TRUE],
                              [ctx EXCEPT !.left = left, !.failed = TRUE]}
      BY <2>2 DEF PlacesPair
    <3> QED
      BY ContextRecord, <1>1, <3>1 DEF ContextFields
  <2>3. CASE StopsToWire \/ ReadsConfig \/ ReadsPlan
    <3>1. \/ ctx' \in {ctx, Reported}
          \/ \E read : ctx' = [ctx EXCEPT !.read = read]
          \/ \E p : ctx' = [ctx EXCEPT !.plan = p]
      BY <2>3 DEF StopsToWire, ReadsConfig, ReadsPlan
    <3>2. \A read : ctx' = [ctx EXCEPT !.read = read] => Kept
      BY ContextRecord, <1>1 DEF ContextFields
    <3>3. \A p : ctx' = [ctx EXCEPT !.plan = p] => Kept
      BY ContextRecord, <1>1 DEF ContextFields
    <3> QED
      BY <2>0, <3>1, <3>2, <3>3
  <2>4. CASE PairsDone
    BY ContextRecord, <1>1, <2>4 DEF PairsDone, ContextFields
  <2> QED
    BY <1>9, <2>1, <2>2, <2>3, <2>4 DEF Wires, WiresPlan
<1>10. CASE FindsIgnored \/ LoadsForCleanup
  BY ContextRecord, <1>1, <1>10 DEF FindsIgnored, LoadsForCleanup, Reported, ContextFields
<1> QED
  BY <1>3, <1>4, <1>5, <1>6, <1>7, <1>8, <1>9, <1>10 DEF Sync, SyncsClass, Delta, CleansIgnored

\* The lookup, the decision and the recreation are behind the sync once it clears, writes or wires.
LEMMA LeadsEarly ==
  ASSUME Types, Sync, ~LooksUpDevice, ~DecidesAction, ~Recreates
  PROVE  pc' \notin {"class", "delete device", "device?"} \cup Recreating
<1>1. CASE Debris
  <2>1. pc' \in {"stop", "erase", "restart", "dangling", "sort", "clean check", "done"}
    <3>1. ctx.after \in {"dangling", "sort", "clean check", "done"}
      BY DEF Types, SyncTypes, ContextType
    <3> QED
      BY <1>1, <3>1 DEF Debris, Unwires, CleansLeftOvers, Cuts, StopsPlan, ErasesElements, RestartsPlan
  <2> QED
    BY <2>1 DEF Recreating
<1>2. CASE SortsPlan \/ RunsSorted \/ RunsAgain
  BY <1>2 DEF SortsPlan, RunsSorted, RunsAgain, AfterSort, Recreating
<1>3. CASE ListsPlans \/ ChecksOrphans \/ RunsTask
  BY <1>3 DEF ListsPlans, ChecksOrphans, Checks, ReadsPlans, RunsTask, Step, Recreating
<1>4. CASE Wires
  BY <1>4 DEF Wires, FindsPlan, WiresPlan, StopsToWire, ReadsConfig, ReadsPlan, PlacesPair, PairsDone,
     Step, Recreating
<1>5. CASE CleansIgnored
  BY <1>5 DEF CleansIgnored, FindsIgnored, LoadsForCleanup, ListsPlansForCleanup, ChecksCleanable,
     DeletesCleaned, Checks, ReadsPlans, Step, Recreating
<1>6. CASE Finishes
  BY <1>6 DEF Finishes, Recreating
<1> QED
  BY <1>1, <1>2, <1>3, <1>4, <1>5, <1>6 DEF Sync, SyncsClass, Delta

LEMMA WebioChanges ==
  ASSUME Sync, ~RunsTask, ~DeletesCleaned, ~DeletesDevice, ~CreatesDevice
  PROVE  UNCHANGED <<device, command>>
BY DEF Sync, LooksUpDevice, SyncsClass, DecidesAction, Recreates, ConfirmsDeviceGone, LooksUpClass,
   DeletesClass, Uploads, Delta, Debris, Unwires, CleansLeftOvers, StopsPlan, ErasesElements,
   RestartsPlan, SortsPlan,
   RunsSorted, RunsAgain, ListsPlans, ChecksOrphans, Checks, ReadsPlans, Wires, FindsPlan, WiresPlan,
   StopsToWire,
   ReadsConfig, ReadsPlan, PlacesPair, PairsDone, CleansIgnored, FindsIgnored, LoadsForCleanup,
   ListsPlansForCleanup,
   ChecksCleanable, Finishes, Quietly, comexio, webio

LEMMA DeviceStep ==
  ASSUME IInv, DeviceInv, [Next]_vars
  PROVE  DeviceInv'
<1>0. Types /\ ctx \in ContextType /\ command \in Seq(Command \cup {Gone}) /\ command' \in Seq(Command \cup {Gone})
      /\ device \in BOOLEAN
  <2>1. Types'
    BY TypesStep DEF IInv, CommandsInv
  <2> QED
    BY <2>1 DEF IInv, Types, SyncTypes, ComexioTypes
<1>1. CASE UNCHANGED <<device, command>>
  <2>1. CASE ~Sync
    BY <1>1, <2>1, Outside DEF DeviceInv, Recreating
  <2>2. CASE LooksUpDevice
    <3> DEFINE a == ctx.action
               cleaned == IF a = "cleanup_entities" THEN audit.cleanup \cap ignored ELSE {}
               dangling == IF a \in {"full_sync", "delete_orphans"} THEN audit.dangling ELSE {}
               toWire == IF a \in {"full_sync", "function_plan_add_missing"} THEN audit.gap ELSE {}
    <3>1. \/ pc' = "done"
          \/ /\ pc' \in {"done", "find", "wire", "class"}
             /\ ctx' = [ctx EXCEPT !.dev = device, !.task = TasksOf(a, audit), !.dangling = dangling,
                                   !.toWire = toWire, !.cleaned = cleaned]
      BY <2>2 DEF LooksUpDevice, Aborts
    <3> HIDE DEF cleaned, dangling, toWire
    <3>2. pc' = "class" => ctx'.dev = device
      BY ContextRecord, <1>0, <3>1 DEF ContextFields
    <3> QED
      BY <1>1, <3>1, <3>2 DEF DeviceInv, Recreating
  <2>3. CASE DecidesAction
    BY <1>1, <2>3 DEF DecidesAction, Step, DeviceInv, Recreating
  <2>4. CASE Recreates
    <3>1. pc' \notin {"class", "delete device"} /\ (pc' \in Recreating \cup {"device?"} => ~device)
      BY <1>1, <2>4 DEF Recreates, DeletesDevice, ConfirmsDeviceGone, LooksUpClass, DeletesClass,
         Uploads,
         CreatesDevice, Aborts, Step, DeviceInv, Recreating
    <3> QED
      BY <1>1, <3>1 DEF DeviceInv
  <2>5. CASE Sync /\ ~LooksUpDevice /\ ~DecidesAction /\ ~Recreates
    <3>1. pc' \notin {"class", "delete device", "device?"} \cup Recreating
      BY <1>0, <2>5, LeadsEarly
    <3> QED
      BY <1>1, <3>1 DEF DeviceInv
  <2> QED
    BY <2>1, <2>2, <2>3, <2>4, <2>5
<1>2. CASE DeletesDevice
  <2>1. pc = "delete device" /\ pc' \in {"device?", "unwire"} /\ UNCHANGED ctx
    BY <1>2 DEF DeletesDevice, Step
  <2>2. (~device' /\ command' = [c \in DOMAIN command |-> Gone]) \/ UNCHANGED <<device, command>>
    BY <1>2 DEF DeletesDevice, Quietly, webio
  <2>3. pc' = "device?" => ~device'
    BY <1>2 DEF DeletesDevice
  <2>4. command' = [c \in DOMAIN command |-> Gone] => Present(command') = {}
    BY <1>0, PresentIs
  <2> QED
    BY <2>1, <2>2, <2>3, <2>4 DEF DeviceInv, Recreating
<1>3. CASE CreatesDevice
  BY <1>1, <1>3 DEF CreatesDevice, Aborts, DeviceInv, Recreating
<1>4. CASE device' = device /\ device
  <2>1. CASE ~Sync
    BY <1>4, <2>1, Outside DEF DeviceInv, Recreating
  <2>2. CASE RunsTask \/ DeletesCleaned
    BY <1>4, <2>2 DEF RunsTask, DeletesCleaned, Step, DeviceInv, Recreating
  <2>3. CASE Sync /\ ~RunsTask /\ ~DeletesCleaned /\ ~DeletesDevice /\ ~CreatesDevice
    BY <1>1, <2>3, WebioChanges
  <2> QED
    BY <1>2, <1>3, <2>1, <2>2, <2>3
<1>5. CASE device' = device /\ ~device
  <2>1. CASE ~Sync
    <3>1. command' = command \/ DeletesCommand
      BY <1>5, <2>1 DEF Next, vars, comexio, webio, Poll, LoadsPlans, User, EditsMarker, CopiesCommand,
         UsesCommand, EditsPlan,
         SwitchesPlan, Ignores, Cancel, Press
    <3>2. CASE DeletesCommand
      BY <1>5, <3>2 DEF DeletesCommand, DeviceInv
    <3> QED
      BY <1>1, <1>5, <3>1, <3>2
  <2>2. CASE RunsTask \/ DeletesCleaned
    <3>1. command' = command
      BY <1>5, <2>2 DEF RunsTask, DeletesCleaned, Saves, Creates, Deletes, Writing
    <3> QED
      BY <1>1, <1>5, <3>1
  <2>3. CASE Sync /\ ~RunsTask /\ ~DeletesCleaned /\ ~DeletesDevice /\ ~CreatesDevice
    BY <1>1, <2>3, WebioChanges
  <2> QED
    BY <1>2, <1>3, <2>1, <2>2, <2>3
<1>6. device' = device \/ DeletesDevice \/ CreatesDevice
  <2>1. CASE Sync
    BY <2>1, WebioChanges DEF RunsTask, DeletesCleaned
  <2>2. CASE ~Sync
    BY <2>2 DEF Next, vars, comexio, webio, Poll, LoadsPlans, User, EditsMarker, CopiesCommand,
       DeletesCommand, UsesCommand, EditsPlan,
       SwitchesPlan, Ignores, Edit, Cancel, Press
  <2> QED
    BY <2>1, <2>2
<1> QED
  BY <1>2, <1>3, <1>4, <1>5, <1>6

LEMMA SnapStep ==
  ASSUME IInv, SnapFresh, [Next]_vars
  PROVE  SnapFresh'
<1> SUFFICES ASSUME quiet', pc' \in {"idle", "device"}
             PROVE  snap' = IF plan' = Gone THEN EmptyPlan ELSE plan'
  BY DEF SnapFresh
<1>1. CASE Poll
  BY <1>1 DEF Poll, Audits, comexio, managed
<1>2. CASE LoadsPlans
  BY <1>2 DEF LoadsPlans, comexio, managed
<1>3. CASE \E a \in Actions : Press(a)
  BY <1>3 DEF Press, comexio, managed, ha, SnapFresh
<1>4. CASE UNCHANGED <<plan, snap, pc>> /\ quiet
  BY <1>4 DEF SnapFresh
<1>5. CASE Sync /\ ~Finishes
  BY <1>5, ClearingSteps DEF IInv
<1> QED
  BY <1>1, <1>2, <1>3, <1>4, <1>5, QuietSteps

-----------------------------------------------------------------------------
(* What is cut out of the plan, and what has to go.                            *)

LEMMA WithoutFinds ==
  ASSUME NEW p \in Plan, NEW cut, NEW type, NEW ref
  PROVE  Find(Without(p, cut), type, ref) = Find(p, type, ref) \ cut
<1>1. p # Gone /\ Without(p, cut) # Gone
  BY WithoutIsPlan, SyncAssumption
<1> QED
  BY <1>1 DEF Find, OfType, Elements, Without, Plan

\* A marker nothing was connected to is none the later.
LEMMA LooseBelow ==
  ASSUME NEW p, NEW q, p # Gone, Below(p, q), NEW x, Loose(q, x)
  PROVE  Loose(p, x) /\ Find(p, "src", x) \subseteq Find(q, "src", x)
<1>1. Find(p, "src", x) \subseteq Find(q, "src", x)
  BY FoundIn
<1>2. \A e : Connected(p, e) => Connected(q, e)
  BY DEF Below, Connected
<1> QED
  BY <1>1, <1>2 DEF Loose

LEMMA LeftOversFound ==
  ASSUME NEW p, NEW q, p # Gone, Below(p, q), NEW refs, \A x \in refs : Loose(q, x)
  PROVE  \A x \in refs : Find(p, "src", x) \subseteq LeftOvers(q, refs)
<1> SUFFICES ASSUME NEW x \in refs, NEW e \in Find(p, "src", x)
             PROVE  e \in LeftOvers(q, refs)
  OBVIOUS
<1>1. e \in Find(q, "src", x) /\ ~Connected(q, e)
  BY LooseBelow DEF Loose
<1> QED
  BY <1>1 DEF LeftOvers, Find

\* Without a plan nothing is wired, found or left over.
LEMMA NoPlanNothing ==
  ASSUME NEW p \in {Gone, EmptyPlan}
  PROVE  /\ \A type, ref : Find(p, type, ref) = {}
         /\ \A x, c : ~WiredPair(p, x, c)
         /\ Dangling(p) = {} /\ \A x : Loose(p, x)
<1>1. Elements(p) = {}
  BY DEF Elements, EmptyPlan
<1>2. \A type, ref : Find(p, type, ref) = {}
  BY <1>1 DEF Find, OfType
<1> QED
  BY <1>2 DEF WiredPair, Dangling, Loose

\* The cut spares every pair that is to stay.
LEMMA WorkKept ==
  ASSUME NEW p \in Plan, NEW cut, Spares(p, cut), NEW ren, NEW t, NEW wiring,
         WiresWork(data, ignored, ren, t, wiring, p)
  PROVE  WiresWork(data, ignored, ren, t, wiring, Without(p, cut))
BY SparedStay DEF WiresWork, Served

-----------------------------------------------------------------------------
(* What is left to do, from step to step of a sync that goes on.               *)

\* A step of a sync that goes on, of one that went on as it ought to.
Goes ==
    /\ IInv /\ ReadTrue /\ Chosen /\ DeviceInv /\ WiresInv /\ SnapFresh /\ Going /\ GoingInv
    /\ Going' /\ UNCHANGED <<source, ignored, data, audit, snap, cancel>>

LEMMA GoesHas ==
  ASSUME Goes
  PROVE  /\ Types /\ ctx \in ContextType /\ command \in Seq(Command \cup {Gone}) /\ data \in Reading
         /\ IsPlan(plan) /\ ignored \in SUBSET Sources /\ audit \in AuditType /\ device \in BOOLEAN
         /\ ~ctx.failed /\ ~ctx'.failed /\ ctx.action = "full_sync" /\ ~cancel /\ quiet /\ ~cancel' /\ Renamed' = Renamed
         /\ ctx.task \in TaskType
BY DEF Goes, Going, IInv, Types, ComexioTypes, HaTypes, SyncTypes, ContextType, Renamed

\* Failed is what nothing gets over.
LEMMA NotReported ==
  ASSUME Goes
  PROVE  /\ ctx' # Reported /\ ctx' # NothingCut /\ ~Aborts
         /\ \A after : ctx' # [Reported EXCEPT !.after = after]
         /\ \A kept : ctx' # [Reported EXCEPT !.kept = kept]
<1>1. ctx \in ContextType /\ ~ctx'.failed
  BY GoesHas
<1>2. Reported.failed /\ NothingCut.failed
  BY ContextRecord, <1>1 DEF Reported, NothingCut, ContextFields
<1>3. \A after : [Reported EXCEPT !.after = after].failed
  BY ContextRecord, <1>1 DEF Reported, ContextFields
<1>4. \A kept : [Reported EXCEPT !.kept = kept].failed
  BY ContextRecord, <1>1 DEF Reported, ContextFields
<1> QED
  BY <1>1, <1>2, <1>3, <1>4 DEF Aborts

\* The lookup: what the audit found is what there is to do.
LEMMA LooksUpGoes ==
  ASSUME Goes, LooksUpDevice
  PROVE  GoingInv'
<1> DEFINE P == IF plan = Gone THEN EmptyPlan ELSE plan
<1>0. /\ ctx \in ContextType /\ ~ctx'.failed /\ ctx.action = "full_sync" /\ data \in Reading
      /\ ignored \in SUBSET Sources /\ Renamed' = Renamed
  BY GoesHas
<1>1. ctx' = [ctx EXCEPT !.dev = device, !.task = TasksOf("full_sync", audit), !.dangling = audit.dangling,
                         !.toWire = audit.gap, !.cleaned = {}] /\ pc' = "class"
  BY <1>0, NotReported DEF LooksUpDevice
<1>2. ctx'.task = TasksOf("full_sync", audit) /\ ctx'.dangling = audit.dangling /\ ctx'.toWire = audit.gap
  BY ContextRecord, <1>0, <1>1 DEF ContextFields
<1>3. pc = "device" /\ UNCHANGED <<command, device, plan, snap, data, ignored, audit>>
  BY DEF LooksUpDevice, Step, Quietly, webio, managed, users
<1>4. command = data.command /\ AuditTrue /\ snap = P
  BY <1>3 DEF Goes, Going, ReadTrue, SnapFresh
<1>5. P # Gone
  BY EmptyPlanIsPlan
<1>6. ASSUME NEW x \in audit.dangling PROVE Loose(snap, x)
  <2>1. CASE audit = EmptyAudit
    BY <1>6, <2>1 DEF EmptyAudit
  <2>2. CASE audit = Compare(data, ignored, P)
    <3>1. audit.dangling = Dangling(P)
      BY <1>5, <2>2 DEF Compare
    <3> QED
      BY <1>4, <1>6, <3>1 DEF Dangling, Loose
  <2> QED
    BY <1>4, <2>1, <2>2 DEF AuditTrue
<1>7. ASSUME device PROVE Worked'
  <2>1. audit = Compare(data, ignored, P)
    BY <1>4, <1>7 DEF AuditTrue
  <2>2. /\ CommandsWork(data, ignored, TasksOf("full_sync", audit), data.command)
        /\ WiresWork(data, ignored, {item.of : item \in audit.rename}, TasksOf("full_sync", audit), audit.gap, P)
    BY <1>0, <1>5, <2>1, AuditWorks
  <2>3. WiresWork(data, ignored, Renamed, TasksOf("full_sync", audit), audit.gap, plan)
    BY <2>2, NoPlanNothing DEF WiresWork, Renamed
  <2> QED
    BY <1>0, <1>2, <1>3, <1>4, <2>2, <2>3 DEF Worked
<1>8. StageInv'
  BY <1>1 DEF StageInv, Placing, Cutting, Recreating
<1>9. WorkInv'
  BY <1>1, <1>3, <1>7 DEF WorkInv, Clears, Cutting, Tasking, SortsBefore, Sorting
<1>10. SettledInv' /\ ReadInv'
  BY <1>1 DEF SettledInv, ReadInv, Wired, Sorting, Placing
<1>11. LeftInv'
  BY <1>1, <1>2, <1>3, <1>6 DEF LeftInv, Cutting, Tasking, SortsBefore, Sorting
<1> QED
  BY <1>8, <1>9, <1>10, <1>11 DEF GoingInv

\* Until the class is dealt with, what there is to do stays that.
LEMMA DecidesGoes ==
  ASSUME Goes, DecidesAction
  PROVE  GoingInv'
<1>0. ctx \in ContextType /\ ~cancel /\ data \in Reading /\ Renamed' = Renamed
  BY GoesHas
<1>1. pc = "class" /\ ctx' = ctx /\ UNCHANGED <<command, device, plan, snap, data, ignored, audit>>
  BY DEF DecidesAction, Step, Quietly, webio, managed, users
<1>2. ctx.dev = device /\ (device => Worked) /\ (~device => Present(command) = {})
  BY <1>1 DEF Goes, DeviceInv, GoingInv, WorkInv
<1>3. ctx.dangling = audit.dangling /\ \A x \in audit.dangling : Loose(snap, x)
  BY <1>1 DEF Goes, GoingInv, LeftInv
<1>4. Worked' <=> Worked
  BY <1>0, <1>1 DEF Worked
<1>5. CASE device
  <2>1. pc' = "unwire" \/ (pc' = "delete device" /\ FastTrack)
    BY <1>0, <1>2, <1>5 DEF DecidesAction
  <2>2. FastTrack => ctx.task # NoTasks
    <3>1. Cardinality({}) = 0 /\ RecreateTime \in Nat /\ WriteTime \in Nat /\ DeleteTime \in Nat
      BY FS_EmptySet, SyncAssumption
    <3>2. Writes(NoTasks) = 0 /\ Cardinality(NoTasks.delete) = 0
      BY <3>1 DEF Writes, NoTasks
    <3>3. Eta(NoTasks) = 0
      BY <3>1, <3>2 DEF Eta
    <3> QED
      BY <3>1, <3>3 DEF FastTrack
  <2>3. StageInv'
    BY <1>1, <2>1, <2>2 DEF StageInv, Clears, Placing, Cutting, Recreating
  <2>4. WorkInv'
    BY <1>2, <1>4, <1>5, <2>1 DEF WorkInv
  <2>5. SettledInv' /\ ReadInv'
    BY <2>1 DEF SettledInv, ReadInv, Wired, Sorting, Placing
  <2>6. LeftInv'
    BY <1>1, <1>3, <2>1 DEF LeftInv, Cutting, Tasking, SortsBefore, Sorting
  <2> QED
    BY <2>3, <2>4, <2>5, <2>6 DEF GoingInv
<1>6. CASE ~device
  <2>1. (pc' = "wire" /\ TemplateEmpty) \/ pc' = "class?"
    BY <1>0, <1>2, <1>6 DEF DecidesAction
  <2>2. StageInv'
    BY <1>1, <2>1 DEF StageInv, Wired, Placing, Cutting, Recreating
  <2>3. WorkInv' /\ ReadInv' /\ LeftInv'
    BY <2>1 DEF WorkInv, ReadInv, LeftInv, Clears, Cutting, Tasking, SortsBefore, Sorting
  <2>4. TemplateEmpty => /\ CommandsSettle(data, ignored, command)
                         /\ \A wiring : WiresSettle(data, ignored, Renamed, wiring, command, plan)
                         /\ LeftOversGo(data, audit.dangling, command, plan)
    BY <1>2, <1>6 DEF TemplateEmpty, CommandsSettle, WiresSettle, LeftOversGo
  <2>5. SettledInv'
    BY <1>0, <1>1, <2>1, <2>4 DEF SettledInv, Wired, Sorting, Placing
  <2> QED
    BY <2>2, <2>3, <2>4, <2>5 DEF GoingInv
<1> QED
  BY <1>5, <1>6

LEMMA RecreatesGoes ==
  ASSUME Goes, Recreates
  PROVE  GoingInv'
<1>0. ctx \in ContextType /\ ~cancel /\ data \in Reading /\ Renamed' = Renamed /\ Types /\ ctx.task \in TaskType
  BY GoesHas
<1>1. UNCHANGED <<plan, data, ignored, audit, snap>>
  BY DEF Goes, Recreates, DeletesDevice, ConfirmsDeviceGone, LooksUpClass, DeletesClass, Uploads,
     CreatesDevice, Quietly, managed
<1>2. pc \in {"delete device", "device?"} =>
        ctx.task # NoTasks /\ ctx.dangling = audit.dangling /\ \A x \in audit.dangling : Loose(snap, x)
  BY DEF Goes, GoingInv, StageInv, LeftInv
<1>3. pc \in Recreating \cup {"device?"} => ~device /\ Present(command) = {}
  BY DEF Goes, DeviceInv
<1>4. ASSUME pc' \in {"device?", "unwire"}, ctx' = ctx, pc \in {"delete device", "device?"},
             pc' = "device?" => ~device', pc' = "unwire" => Worked' \/ Bare'
      PROVE  GoingInv'
  <2>1. StageInv' /\ SettledInv' /\ ReadInv'
    BY <1>2, <1>4 DEF StageInv, SettledInv, ReadInv, Wired, Sorting, Clears, Placing, Cutting,
       Recreating
  <2>2. WorkInv'
    BY <1>4 DEF WorkInv, Clears, Cutting, Tasking, SortsBefore, Sorting
  <2>3. LeftInv'
    BY <1>1, <1>2, <1>4 DEF LeftInv, Cutting, Tasking, SortsBefore, Sorting
  <2> QED
    BY <2>1, <2>2, <2>3 DEF GoingInv
<1>5. ASSUME pc' \in Recreating, pc' # "class?" => ctx'.task = [NoTasks EXCEPT !.create = Template]
      PROVE  GoingInv'
  <2>1. Template' = Template
    BY <1>1 DEF Template
  <2>2. StageInv' /\ SettledInv' /\ ReadInv'
    BY <1>5, <2>1 DEF StageInv, SettledInv, ReadInv, Wired, Sorting, Clears, Placing, Cutting,
       Recreating
  <2>3. WorkInv' /\ LeftInv'
    BY <1>5 DEF WorkInv, LeftInv, Clears, Cutting, Tasking, SortsBefore, Sorting, Recreating
  <2> QED
    BY <2>2, <2>3 DEF GoingInv
<1>6. CASE DeletesDevice
  <2>1. pc = "delete device" /\ ctx' = ctx /\ pc' \in {"device?", "unwire"}
    BY <1>6 DEF DeletesDevice, Step
  <2>2. Worked
    BY <2>1 DEF Goes, GoingInv, WorkInv
  <2>3. CASE UNCHANGED <<command, device>> /\ pc' = "unwire"
    <3>1. Worked'
      BY <1>0, <1>1, <2>1, <2>2, <2>3 DEF Worked
    <3> QED
      BY <1>4, <2>1, <2>3, <3>1
  <2>4. CASE ~device'
    <3>1. Bare'
      BY <1>2, <2>1, <2>4 DEF Bare
    <3> QED
      BY <1>4, <2>1, <2>4, <3>1
  <2> QED
    BY <1>6, <2>3, <2>4 DEF DeletesDevice, Quietly, webio
<1>7. CASE ConfirmsDeviceGone
  <2>1. pc = "device?" /\ ctx' = ctx /\ device' = device /\ ~device /\ pc' \in {"unwire", "class?"}
    BY <1>3, <1>7 DEF ConfirmsDeviceGone, Step, Quietly, webio
  <2>2. Bare'
    BY <1>2, <2>1 DEF Bare
  <2> QED
    BY <1>4, <1>5, <2>1, <2>2 DEF Recreating
<1>8. CASE LooksUpClass
  <2>1. ctx' = [ctx EXCEPT !.task = [NoTasks EXCEPT !.create = Template]] /\ pc' \in {"delete class", "upload"}
    BY <1>8, NotReported DEF LooksUpClass
  <2>2. ctx'.task = [NoTasks EXCEPT !.create = Template]
    BY ContextRecord, <1>0, <2>1 DEF ContextFields
  <2> QED
    BY <1>5, <2>1, <2>2 DEF Recreating
<1>9. CASE DeletesClass \/ Uploads
  <2>1. ctx' = ctx /\ pc' \in {"upload", "create device"} /\ pc \in {"delete class", "upload"}
    BY <1>9, NotReported DEF DeletesClass, Uploads, Step
  <2>2. ctx.task = [NoTasks EXCEPT !.create = Template]
    BY <2>1 DEF Goes, GoingInv, StageInv, Recreating
  <2> QED
    BY <1>5, <2>1, <2>2 DEF Recreating
<1>10. CASE CreatesDevice
  <2>1. pc = "create device"
    BY <1>10 DEF CreatesDevice, Step
  <2>2. ctx.task = [NoTasks EXCEPT !.create = Template]
    BY <2>1 DEF Goes, GoingInv, StageInv, Recreating
  <2>3. ctx.task.create = Template
    BY <2>2 DEF NoTasks
  <2>4. /\ pc' = "wire" /\ command' = command \o Created(Template)
        /\ ctx' = [ctx EXCEPT !.task = NoTasks, !.toWire = @ \cup Wanted(data, ignored)]
    BY <1>10, <2>3, NotReported DEF CreatesDevice
  <2>5. Wanted(data, ignored) \subseteq ctx'.toWire
    BY ContextRecord, <1>0, <2>4 DEF ContextFields
  <2>6. CommandsSettle(data, ignored, command') /\ Present(command') \cap DOMAIN command = {}
    BY <1>0, <1>3, <2>1, <2>4, TemplateSettles DEF Recreating
  <2>7. WiresSettle(data, ignored, Renamed, ctx'.toWire, command', plan)
    BY <2>5 DEF WiresSettle
  <2>8. LeftOversGo(data, audit.dangling, command', plan)
    <3>1. DOMAIN data.command \subseteq DOMAIN command
      BY DEF Goes, Going, ReadTrue
    <3>2. Present(data.command) \subseteq DOMAIN data.command
      BY <1>0, PresentIds DEF Reading
    <3> QED
      BY <2>6, <3>1, <3>2 DEF LeftOversGo
  <2>9. SettledInv'
    BY <1>0, <1>1, <2>4, <2>6, <2>7, <2>8 DEF SettledInv, Pending
  <2>10. StageInv'
    BY <2>4 DEF StageInv, Wired, Placing, Cutting, Recreating
  <2>11. WorkInv' /\ ReadInv' /\ LeftInv'
    BY <2>4 DEF WorkInv, ReadInv, LeftInv, Clears, Cutting, Tasking, SortsBefore, Sorting
  <2> QED
    BY <2>9, <2>10, <2>11 DEF GoingInv
<1> QED
  BY <1>6, <1>7, <1>8, <1>9, <1>10 DEF Recreates

\* Elements are cut out of the plan that nothing wanted needs; then the left-overs are gone.
LEMMA DebrisGoes ==
  ASSUME Goes, Debris
  PROVE  GoingInv'
<1>0. /\ ctx \in ContextType /\ ~cancel /\ data \in Reading /\ Renamed' = Renamed /\ Types /\ IsPlan(plan)
      /\ UNCHANGED <<data, ignored, audit, snap>>
  BY GoesHas DEF Goes
<1>1. UNCHANGED <<command, device>> /\ pc \in Clears /\ pc \in Clearing
  BY DEF Debris, Unwires, CleansLeftOvers, StopsPlan, ErasesElements, RestartsPlan, Step, Quietly,
     webio,
     Clears, Clearing, Cutting
<1>2. snap # Gone /\ Below(plan, snap) /\ (Worked \/ Bare) /\ ~ctx.added
  BY <1>1 DEF Goes, Going, ReadTrue, GoingInv, WorkInv, IInv, RunsInv, Passes, Clears, Cutting
<1>3. pc \in {"unwire", "dangling"} \/ (pc \in Cutting /\ ctx.after = "dangling") =>
        ctx.dangling = audit.dangling /\ \A x \in audit.dangling : Loose(snap, x)
  BY DEF Goes, GoingInv, LeftInv
<1>4. pc \in Cutting => ctx.after \in {"dangling", "sort"}
  BY DEF Goes, GoingInv, StageInv
<1>5. \A x \in audit.dangling :
          /\ pc \in {"stop", "erase"} /\ ctx.after = "sort" => Find(plan, "src", x) \subseteq ctx.cut
          /\ pc = "restart" /\ ctx.after = "sort" => Find(plan, "src", x) = {}
  BY DEF Goes, GoingInv, LeftInv
<1>6. ASSUME pc' \in Clears \cup {"sort"}, ctx'.task = ctx.task, ctx'.toWire = ctx.toWire, ctx'.added = ctx.added,
             plan' = plan \/ (plan \in Plan /\ plan' = Without(plan, ctx.cut) /\ Spares(plan, ctx.cut)),
             pc' \in Cutting => ctx'.after \in {"dangling", "sort"},
             pc' = "dangling" \/ (pc' \in Cutting /\ ctx'.after = "dangling") =>
                 ctx'.dangling = audit.dangling /\ \A x \in audit.dangling : Loose(snap, x),
             pc' # "unwire",
             pc' \in {"stop", "erase"} /\ ctx'.after = "sort" =>
                 \A x \in audit.dangling : Find(plan', "src", x) \subseteq ctx'.cut,
             (pc' = "restart" /\ ctx'.after = "sort") \/ pc' = "sort" =>
                 \A x \in audit.dangling : Find(plan', "src", x) = {}
      PROVE  GoingInv'
  <2>1. Worked' \/ Bare'
    <3>1. CASE Bare
      BY <1>1, <1>6, <3>1 DEF Bare
    <3>2. CASE Worked
      <4>1. WiresWork(data, ignored, Renamed, ctx.task, ctx.toWire, plan')
        BY <1>6, <3>2, WorkKept DEF Worked
      <4> QED
        BY <1>0, <1>1, <1>6, <3>2, <4>1 DEF Worked
    <3> QED
      BY <1>2, <3>1, <3>2
  <2>2. ~ctx'.added /\ pc' \notin Placing \cup Recreating \cup {"run", "rerun", "class", "delete device", "device?"}
    BY <1>2, <1>6 DEF Clears, Cutting, Placing, Recreating
  <2>3. StageInv'
    BY <1>6, <2>2 DEF StageInv, Tasking, SortsBefore, Sorting
  <2>4. WorkInv'
    BY <2>1, <2>2 DEF WorkInv
  <2>5. SettledInv' /\ ReadInv'
    BY <1>6, <2>2 DEF SettledInv, ReadInv, Wired, SortsBefore, Sorting, Placing, Clears, Cutting
  <2>6. LeftInv'
    BY <1>0, <1>6, <2>2 DEF LeftInv, Tasking, SortsBefore, Sorting, Clears, Cutting
  <2> QED
    BY <2>3, <2>4, <2>5, <2>6 DEF GoingInv
<1>7. CASE Unwires
  <2>1. pc = "unwire" /\ plan' = plan
    BY <1>7 DEF Unwires, Step, Quietly, managed
  <2>2. \/ ctx' = ctx /\ pc' = "dangling"
        \/ \E elems : ctx' = [ctx EXCEPT !.cut = elems, !.after = "dangling"] /\ pc' \in {"dangling", "stop"}
    BY <1>7, NotReported DEF Unwires, Cuts
  <2>3. /\ pc' \in {"dangling", "stop"} /\ (pc' = "stop" => ctx'.after = "dangling")
        /\ ctx'.dangling = ctx.dangling /\ ctx'.task = ctx.task /\ ctx'.toWire = ctx.toWire /\ ctx'.added = ctx.added
    BY ContextRecord, <1>0, <2>2 DEF ContextFields
  <2> QED
    BY <1>3, <1>6, <2>1, <2>3 DEF Clears, Cutting
<1>8. CASE CleansLeftOvers
  <2> DEFINE found == LeftOvers(snap, audit.dangling)
  <2>1. pc = "dangling" /\ plan' = plan /\ CheckData = snap
    BY <1>2, <1>8 DEF CleansLeftOvers, Step, Quietly, managed, CheckData
  <2>2. \/ ctx' = ctx /\ pc' = "sort" /\ ctx.dangling = {}
        \/ /\ ctx' = [ctx EXCEPT !.cut = found, !.after = "sort"]
           /\ pc' = IF found = {} THEN "sort" ELSE "stop"
    BY <1>0, <1>3, <1>8, <2>1, NotReported DEF CleansLeftOvers, Cuts
  <2>3. \A x \in audit.dangling : Find(plan, "src", x) \subseteq found
    BY <1>2, <1>3, <2>1, LeftOversFound, NoPlanNothing
  <2> HIDE DEF found
  <2>4. /\ pc' \in {"sort", "stop"} /\ (pc' = "stop" => ctx'.after = "sort" /\ ctx'.cut = found)
        /\ ctx'.task = ctx.task /\ ctx'.toWire = ctx.toWire /\ ctx'.added = ctx.added
    BY ContextRecord, <1>0, <2>2 DEF ContextFields
  <2>5. pc' = "sort" => \A x \in audit.dangling : Find(plan, "src", x) = {}
    BY <1>3, <2>1, <2>2, <2>3
  <2> QED
    BY <1>6, <2>1, <2>3, <2>4, <2>5 DEF Clears, Cutting
<1>9. CASE StopsPlan
  <2>1. pc = "stop" /\ plan' = plan /\ pc' = "erase" /\ ctx' = [ctx EXCEPT !.ran = runs]
    BY <1>9, NotReported DEF StopsPlan, Step
  <2>2. /\ ctx'.after = ctx.after /\ ctx'.cut = ctx.cut /\ ctx'.dangling = ctx.dangling
        /\ ctx'.task = ctx.task /\ ctx'.toWire = ctx.toWire /\ ctx'.added = ctx.added
    BY ContextRecord, <1>0, <2>1 DEF ContextFields
  <2> QED
    BY <1>3, <1>4, <1>5, <1>6, <2>1, <2>2 DEF Clears, Cutting
<1>10. CASE ErasesElements
  <2>1. pc = "erase" /\ plan' = Without(plan, ctx.cut) /\ ctx' = Touched /\ pc' \in {"restart", ctx.after}
    BY <1>10, NotReported DEF ErasesElements, Step
  <2>2. plan \in Plan /\ Spares(plan, ctx.cut)
    BY <1>0, <2>1 DEF Goes, Going, Chosen, IInv, PlanThere, Cutting, IsPlan
  <2>3. ctx' = ctx \/ \E r : ctx' = [ctx EXCEPT !.resort = r]
    BY <1>0, <2>1, TouchedIs
  <2>4. /\ ctx'.after = ctx.after /\ ctx'.cut = ctx.cut /\ ctx'.dangling = ctx.dangling
        /\ ctx'.task = ctx.task /\ ctx'.toWire = ctx.toWire /\ ctx'.added = ctx.added
    BY ContextRecord, <1>0, <2>3 DEF ContextFields
  <2>5. ctx.after = "sort" => \A x \in audit.dangling : Find(plan', "src", x) = {}
    BY <1>5, <2>1, <2>2, WithoutFinds
  <2> QED
    BY <1>3, <1>4, <1>6, <2>1, <2>2, <2>4, <2>5 DEF Clears, Cutting
<1>11. CASE RestartsPlan
  <2>1. pc = "restart" /\ plan' = plan /\ pc' = ctx.after /\ ctx' = ctx
    BY <1>11, NotReported DEF RestartsPlan, Step
  <2> QED
    BY <1>3, <1>4, <1>5, <1>6, <2>1 DEF Clears, Cutting
<1> QED
  BY <1>7, <1>8, <1>9, <1>10, <1>11 DEF Debris

\* The sort, before the writes or after the wiring.
LEMMA SortGoes ==
  ASSUME Goes, SortsPlan \/ RunsSorted \/ RunsAgain
  PROVE  GoingInv'
<1>0. /\ ctx \in ContextType /\ Renamed' = Renamed /\ UNCHANGED <<command, device, plan, data, ignored, audit, snap>>
  BY GoesHas DEF Goes, SortsPlan, RunsSorted, RunsAgain, webio
<1>1. pc \in Sorting /\ ctx' = ctx
  BY NotReported DEF SortsPlan, RunsSorted, RunsAgain, Step, Sorting
<1>2. pc = "run" => ctx.added \/ ctx.resort # "no"
  BY DEF Goes, GoingInv, StageInv
<1>3. /\ pc' \in {"run", "rerun", "check", "done"}
      /\ pc' \in {"run", "rerun"} => ctx.added \/ ctx.resort # "no"
      /\ pc' = "check" => SortsBefore
      /\ pc' = "done" => ~SortsBefore
  BY <1>1, <1>2, NotReported DEF SortsPlan, RunsSorted, RunsAgain, Step, AfterSort, SortsBefore, Sorting
<1>4. CASE SortsBefore
  <2>1. Tasking' /\ ~Wired'
    BY <1>1, <1>3, <1>4 DEF SortsBefore, Tasking, Wired, Sorting, Placing
  <2>2. (Worked \/ Bare) /\ \A x \in audit.dangling : Find(plan, "src", x) = {}
    BY <1>4 DEF Goes, GoingInv, WorkInv, LeftInv, Tasking
  <2>3. Worked' \/ Bare'
    BY <1>0, <1>1, <2>2 DEF Worked, Bare
  <2>4. pc' \notin Clears \cup Placing \cup {"class", "delete device", "device?"} \cup Recreating
    BY <1>3 DEF Clears, Cutting, Placing, Recreating
  <2>5. StageInv'
    BY <1>1, <1>3, <2>1, <2>4 DEF StageInv, Clears
  <2>6. WorkInv' /\ SettledInv' /\ ReadInv'
    BY <2>1, <2>3, <2>4 DEF WorkInv, SettledInv, ReadInv, Placing
  <2>7. LeftInv'
    BY <1>0, <2>2, <2>4 DEF LeftInv, Clears, Cutting
  <2> QED
    BY <2>5, <2>6, <2>7 DEF GoingInv
<1>5. CASE ~SortsBefore
  <2>1. Wired /\ Wired' /\ ~Tasking'
    BY <1>1, <1>3, <1>5 DEF SortsBefore, Tasking, Wired, Sorting, Placing
  <2>2. Pending = {} /\ Pending' = {}
    BY <1>1, <1>3 DEF Pending, Placing, Sorting
  <2>3. SettledInv
    BY DEF Goes, GoingInv
  <2>4. SettledInv'
    BY <1>0, <2>1, <2>2, <2>3 DEF SettledInv
  <2>5. pc' \notin Clears \cup Placing \cup {"class", "delete device", "device?"} \cup Recreating
    BY <1>3, <1>5 DEF Clears, Cutting, Placing, Recreating
  <2>6. StageInv'
    BY <1>1, <1>3, <2>1, <2>5 DEF StageInv, Clears
  <2>7. WorkInv' /\ ReadInv' /\ LeftInv'
    BY <2>1, <2>5 DEF WorkInv, ReadInv, LeftInv, Clears, Cutting, Placing
  <2> QED
    BY <2>4, <2>6, <2>7 DEF GoingInv
<1> QED
  BY <1>4, <1>5

\* The writes, and the check before them.
LEMMA TasksGoOn ==
  ASSUME Goes, pc' \in {"bulk", "tasks"}, Worked' \/ Bare', plan' = plan, Tasking
  PROVE  GoingInv'
<1>0. UNCHANGED <<data, ignored, audit, snap>>
  BY DEF Goes
<1>1. \A x \in audit.dangling : Find(plan, "src", x) = {}
  BY DEF Goes, GoingInv, LeftInv
<1>2. StageInv' /\ SettledInv' /\ ReadInv'
  BY DEF StageInv, SettledInv, ReadInv, Tasking, Wired, Sorting, Placing, Cutting, Recreating
<1>3. WorkInv'
  BY DEF WorkInv
<1>4. LeftInv'
  BY <1>0, <1>1 DEF LeftInv, Cutting
<1> QED
  BY <1>2, <1>3, <1>4 DEF GoingInv

LEMMA ChecksGo ==
  ASSUME Goes, ListsPlans \/ ChecksOrphans
  PROVE  GoingInv'
<1>0. /\ ctx \in ContextType /\ Renamed' = Renamed /\ UNCHANGED <<command, device, plan, data, ignored, audit>>
  BY GoesHas DEF Goes, ListsPlans, ChecksOrphans, Checks, ReadsPlans, Quietly, webio, managed
<1>1. pc \in {"check", "bulk"} /\ pc' \in {"bulk", "tasks"}
  BY DEF ListsPlans, ChecksOrphans, Checks, ReadsPlans, Step
<1>2. \/ ctx' = ctx
      \/ ctx' = [ctx EXCEPT !.ownListed = own # Gone]
      \/ ctx' = [ctx EXCEPT !.kept = ctx.task.delete \cap PlacedIds]
  BY NotReported DEF ListsPlans, ChecksOrphans, Checks, ReadsPlans
<1>3. ctx'.task = ctx.task /\ ctx'.toWire = ctx.toWire
  BY ContextRecord, <1>0, <1>2 DEF ContextFields
<1>4. Tasking /\ (Worked \/ Bare)
  BY <1>1 DEF Goes, GoingInv, WorkInv, Tasking
<1>5. Worked' \/ Bare'
  BY <1>0, <1>3, <1>4 DEF Worked, Bare
<1> QED
  BY <1>0, <1>1, <1>4, <1>5, TasksGoOn

\* A write that did not fail is one task less, and one step nearer.
LEMMA WritesWork ==
  ASSUME Goes, RunsTask, Worked \/ Bare, ctx.task # NoTasks
  PROVE  Worked' /\ pc' = pc /\ pc = "tasks" /\ plan' = plan
<1>0. /\ ctx \in ContextType /\ command \in Seq(Command \cup {Gone}) /\ data \in Reading /\ ctx.task \in TaskType
      /\ ~ctx'.failed /\ ~cancel /\ Renamed' = Renamed /\ UNCHANGED <<data, ignored>> /\ ctx.toWire \in SUBSET Sources
  BY GoesHas DEF Goes, ContextType
<1>1. pc = "tasks" /\ pc' = pc /\ plan' = plan
  BY <1>0 DEF RunsTask, Step, managed
<1>2. \A done : [done EXCEPT !.failed = TRUE, !.toWire = ctx.toWire] = ctx' /\ done \in ContextType => FALSE
  BY ContextRecord, <1>0 DEF ContextFields
<1>3. CASE \E field \in {"rename", "type"} : Saves(field)
  <2>1. PICK field \in {"rename", "type"} : Saves(field)
    BY <1>3
  <2>2. PICK i \in ctx.task[field] :
          Writing([command EXCEPT ![i.id] = Saved(i)], device /\ command[i.id] # Gone,
                  [ctx EXCEPT !.task[field] = @ \ {i}])
    BY <2>1 DEF Saves
  <2> DEFINE done == [ctx EXCEPT !.task[field] = @ \ {i}]
             rest == [ctx.task EXCEPT ![field] = @ \ {i}]
  <2>3. rest \in TaskType /\ rest.create = ctx.task.create
    BY <1>0 DEF TaskType
  <2>4. done = [ctx EXCEPT !.task = rest]
    BY <1>0 DEF ContextType
  <2>5. done \in ContextType /\ done.task = rest /\ done.toWire = ctx.toWire
    BY <1>0, <2>3, <2>4 DEF ContextType
  <2> HIDE DEF done, rest
  <2>6. device /\ ctx' = done /\ command' = [command EXCEPT ![i.id] = Saved(i)]
    BY <1>2, <2>2, <2>5 DEF Writing, done
  <2>7. Worked
    BY <2>6 DEF Bare
  <2>8. CommandsWork(data, ignored, rest, command')
    BY <1>0, <2>6, <2>7, SavingWorks DEF Worked, rest
  <2>9. WiresWork(data, ignored, Renamed, rest, ctx.toWire, plan)
    BY <2>3, <2>7 DEF Worked, WiresWork
  <2> QED
    BY <1>0, <1>1, <2>5, <2>6, <2>8, <2>9 DEF Worked
<1>4. CASE Deletes
  <2>1. PICK c \in ctx.task.delete :
          LET done == [ctx EXCEPT !.task.delete = @ \ {c}] IN
          IF c \in ctx.kept THEN Answered /\ UNCHANGED command /\ ctx' = [done EXCEPT !.failed = TRUE]
            ELSE Writing([command EXCEPT ![c] = Gone], device /\ command[c] # Gone, done)
    BY <1>4 DEF Deletes
  <2> DEFINE done == [ctx EXCEPT !.task.delete = @ \ {c}]
             rest == [ctx.task EXCEPT !.delete = @ \ {c}]
  <2>2. rest \in TaskType /\ rest.create = ctx.task.create
    BY <1>0 DEF TaskType
  <2>3. done = [ctx EXCEPT !.task = rest]
    BY <1>0 DEF ContextType
  <2>4. done \in ContextType /\ done.task = rest /\ done.toWire = ctx.toWire
    BY <1>0, <2>2, <2>3 DEF ContextType
  <2>5. [done EXCEPT !.failed = TRUE].failed
    BY ContextRecord, <2>4 DEF ContextFields
  <2> HIDE DEF done, rest
  <2>6. device /\ ctx' = done /\ command' = [command EXCEPT ![c] = Gone]
    BY <1>0, <1>2, <2>1, <2>4, <2>5 DEF Writing, done
  <2>7. Worked
    BY <2>6 DEF Bare
  <2>8. CommandsWork(data, ignored, rest, command')
    BY <1>0, <2>6, <2>7, DeletingWorks DEF Worked, rest
  <2>9. WiresWork(data, ignored, Renamed, rest, ctx.toWire, plan)
    BY <2>2, <2>7 DEF Worked, WiresWork
  <2> QED
    BY <1>0, <1>1, <2>4, <2>6, <2>8, <2>9 DEF Worked
<1>5. CASE Creates
  <2>1. PICK i \in ctx.task.create :
          Writing(Append(command, Saved(i)), device,
                  [ctx EXCEPT !.task.create = @ \ {i}, !.toWire = @ \cup {i.of}])
    BY <1>5 DEF Creates
  <2> DEFINE done == [ctx EXCEPT !.task.create = @ \ {i}, !.toWire = @ \cup {i.of}]
             rest == [ctx.task EXCEPT !.create = @ \ {i}]
  <2>2. rest \in TaskType /\ rest.create = ctx.task.create \ {i} /\ i.of \in Sources
    <3>1. ctx.task.create \ {i} \in Wishes /\ i \in [of : Sources, to : Source]
      BY <1>0, FS_Subset DEF TaskType, Wishes
    <3> QED
      BY <1>0, <3>1 DEF TaskType
  <2>3. done = [ctx EXCEPT !.task = rest, !.toWire = @ \cup {i.of}]
    BY <1>0 DEF ContextType
  <2>4. done \in ContextType /\ done.task = rest /\ done.toWire = ctx.toWire \cup {i.of}
    BY <1>0, <2>2, <2>3 DEF ContextType
  <2> HIDE DEF done, rest
  <2>5. device /\ ctx' = done /\ command' = Append(command, Saved(i))
    BY <1>2, <2>1, <2>4 DEF Writing, done
  <2>6. Worked
    BY <2>5 DEF Bare
  <2>7. CommandsWork(data, ignored, rest, command')
    BY <1>0, <2>5, <2>6, CreatingWorks DEF Worked, rest
  <2>8. WiresWork(data, ignored, Renamed, rest, ctx.toWire \cup {i.of}, plan)
    BY <2>2, <2>6 DEF Worked, WiresWork
  <2> QED
    BY <1>0, <1>1, <2>4, <2>5, <2>7, <2>8 DEF Worked
<1> QED
  BY <1>0, <1>3, <1>4, <1>5 DEF RunsTask

LEMMA TasksGo ==
  ASSUME Goes, RunsTask
  PROVE  GoingInv'
<1>0. ~cancel /\ Renamed' = Renamed /\ UNCHANGED <<data, ignored, audit, snap, device>>
  BY GoesHas DEF Goes, RunsTask
<1>1. pc = "tasks" /\ plan' = plan /\ Tasking
  BY DEF RunsTask, Step, managed, Tasking
<1>2. (Worked \/ Bare) /\ \A x \in audit.dangling : Find(plan, "src", x) = {}
  BY <1>1 DEF Goes, GoingInv, WorkInv, LeftInv
<1>3. CASE ctx.task # NoTasks
  BY <1>1, <1>2, <1>3, WritesWork, TasksGoOn
<1>4. CASE ctx.task = NoTasks
  <2>1. pc' = "wire" /\ UNCHANGED <<command, ctx>>
    BY <1>0, <1>4 DEF RunsTask, Saves, Deletes, Creates, NoTasks
  <2>2. Worked
    BY <1>2, <1>4 DEF Bare
  <2>3. CommandsSettle(data, ignored, command) /\ WiresSettle(data, ignored, Renamed, ctx.toWire, command, plan)
    BY <1>4, <2>2, DoneSettles DEF Worked
  <2>4. LeftOversGo(data, audit.dangling, command, plan)
    BY <1>2 DEF LeftOversGo, Dangling
  <2>5. SettledInv'
    BY <1>0, <1>1, <2>1, <2>3, <2>4 DEF SettledInv, Pending
  <2>6. StageInv'
    BY <2>1 DEF StageInv, Wired, Placing, Cutting, Recreating
  <2>7. WorkInv' /\ ReadInv' /\ LeftInv'
    BY <2>1 DEF WorkInv, ReadInv, LeftInv, Clears, Cutting, Tasking, SortsBefore, Sorting
  <2> QED
    BY <2>5, <2>6, <2>7 DEF GoingInv
<1> QED
  BY <1>3, <1>4

\* The wiring pass: what is wired is left out of what has still to be wired.
LEMMA WiresGo ==
  ASSUME Goes, Wires
  PROVE  GoingInv'
<1>0. /\ ctx \in ContextType /\ ~cancel /\ ~ctx'.failed /\ data \in Reading /\ Renamed' = Renamed /\ Types
      /\ UNCHANGED <<source, data, ignored, audit, snap, command, device>>
  <2>1. UNCHANGED <<command, device>>
    BY DEF Wires, FindsPlan, WiresPlan, StopsToWire, ReadsConfig, ReadsPlan, PlacesPair, PairsDone,
       Quietly, webio
  <2> QED
    BY <2>1, GoesHas DEF Goes
<1>1. pc \in {"wire"} \cup Placing
  BY DEF Wires, FindsPlan, WiresPlan, StopsToWire, ReadsConfig, ReadsPlan, PlacesPair, PairsDone, Step,
     Placing
<1>2. /\ CommandsSettle(data, ignored, command) /\ WiresSettle(data, ignored, Renamed, Pending, command, plan)
      /\ LeftOversGo(data, audit.dangling, command, plan)
  BY <1>1 DEF Goes, GoingInv, SettledInv, Wired
<1>3. pc \in Placing => ctx.resort = "no"
  BY DEF Goes, GoingInv, StageInv
<1>4. ASSUME pc' \in Placing \cup Sorting \cup {"done"}, pc' # "run",
             WiresSettle(data, ignored, Renamed, Pending', command, plan'),
             LeftOversGo(data, audit.dangling, command, plan'),
             pc' \in Placing => ctx'.resort = "no",
             pc' = "sort" => ctx'.added,
             pc' = "rerun" => ctx'.resort = "no" \/ ctx'.added,
             pc' \in {"wire load", "pairs"} => ctx'.read = Read,
             pc' = "pairs" => Elements(ctx'.plan) \subseteq Elements(plan') /\ ctx'.plan.wire \subseteq plan'.wire
      PROVE  GoingInv'
  <2>1. Wired' /\ ~Tasking'
    BY <1>4 DEF Wired, Tasking, SortsBefore, Sorting, Placing
  <2>2. pc' \notin Clears \cup Recreating \cup {"class", "delete device", "device?"}
    BY <1>4 DEF Clears, Cutting, Placing, Sorting, Recreating
  <2>3. StageInv'
    BY <1>4, <2>1, <2>2 DEF StageInv, Clears
  <2>4. WorkInv' /\ LeftInv'
    BY <2>1, <2>2 DEF WorkInv, LeftInv, Clears, Cutting
  <2>5. SettledInv'
    BY <1>0, <1>2, <1>4 DEF SettledInv
  <2>6. Read' = Read
    BY <1>0 DEF Read
  <2>7. ReadInv'
    BY <1>4, <2>6 DEF ReadInv
  <2> QED
    BY <2>3, <2>4, <2>5, <2>7 DEF GoingInv
<1>5. CASE FindsPlan
  <2> DEFINE Stops(fresh) == ctx' = [ctx EXCEPT !.fresh = fresh, !.ran = fresh \/ listed.runs,
                                               !.left = ctx.toWire, !.resort = "no"]
  <2>1. pc = "wire" /\ Pending = ctx.toWire
    BY <1>5 DEF FindsPlan, Step, Pending
  <2>2. \/ ctx.toWire = {} /\ pc' = "done" /\ UNCHANGED <<plan, ctx>>
        \/ /\ pc' = "wire stop" /\ (Stops(TRUE) \/ Stops(FALSE))
           /\ plan' = plan \/ (plan = Gone /\ plan' = EmptyPlan)
    BY <1>0, <1>5, NotReported DEF FindsPlan
  <2>3. CASE ctx.toWire = {} /\ pc' = "done" /\ UNCHANGED <<plan, ctx>>
    <3>1. Pending' = {}
      BY <2>3 DEF Pending, Placing
    <3> QED
      BY <1>2, <1>4, <2>1, <2>3, <3>1 DEF Placing, Sorting
  <2>4. CASE pc' = "wire stop" /\ (Stops(TRUE) \/ Stops(FALSE)) /\ (plan' = plan \/ (plan = Gone /\ plan' = EmptyPlan))
    <3>1. \A fresh : Stops(fresh) => ctx'.left = ctx.toWire /\ ctx'.resort = "no"
      BY ContextRecord, <1>0 DEF ContextFields
    <3> HIDE DEF Stops
    <3>2. ctx'.left = ctx.toWire /\ ctx'.resort = "no"
      BY <2>4, <3>1
    <3>3. Pending' = Pending
      BY <2>1, <2>4, <3>2 DEF Pending, Placing
    <3>4. /\ WiresSettle(data, ignored, Renamed, Pending, command, plan')
          /\ LeftOversGo(data, audit.dangling, command, plan')
      BY <1>2, <2>4, NoPlanNothing DEF WiresSettle, LeftOversGo
    <3> QED
      BY <1>4, <2>4, <3>2, <3>3, <3>4 DEF Placing, Sorting
  <2> QED
    BY <2>2, <2>3, <2>4
<1>6. CASE StopsToWire
  <2>1. pc = "wire stop" /\ pc' = "wire read" /\ UNCHANGED <<ctx, plan>>
    BY <1>6 DEF StopsToWire, Step
  <2>2. Pending' = Pending
    BY <2>1 DEF Pending, Placing
  <2> QED
    BY <1>2, <1>3, <1>4, <2>1, <2>2 DEF Placing
<1>7. CASE ReadsConfig
  <2>1. pc = "wire read" /\ pc' = "wire load" /\ ctx' = [ctx EXCEPT !.read = Read] /\ plan' = plan
    BY <1>7, NotReported DEF ReadsConfig, Step, managed
  <2>2. ctx'.left = ctx.left /\ ctx'.resort = ctx.resort /\ ctx'.read = Read
    BY ContextRecord, <1>0, <2>1 DEF ContextFields
  <2>3. Pending' = Pending
    BY <2>1, <2>2 DEF Pending, Placing
  <2> QED
    BY <1>2, <1>3, <1>4, <2>1, <2>2, <2>3 DEF Placing
<1>8. CASE ReadsPlan
  <2>1. /\ pc = "wire load" /\ pc' = "pairs" /\ plan' = plan
        /\ ctx' = [ctx EXCEPT !.plan = plan] \/ ctx' = [ctx EXCEPT !.plan = EmptyPlan]
    BY <1>8 DEF ReadsPlan, Step, Quietly, managed
  <2>2. ctx'.left = ctx.left /\ ctx'.resort = ctx.resort /\ ctx'.read = ctx.read /\ ctx'.plan \in {plan, EmptyPlan}
    BY ContextRecord, <1>0, <2>1 DEF ContextFields
  <2>3. Pending' = Pending
    BY <2>1, <2>2 DEF Pending, Placing
  <2>4. ctx.read = Read
    BY <2>1 DEF Goes, GoingInv, ReadInv
  <2>5. Elements(EmptyPlan) = {} /\ EmptyPlan.wire = {}
    BY DEF Elements, EmptyPlan
  <2> QED
    BY <1>2, <1>3, <1>4, <2>1, <2>2, <2>3, <2>4, <2>5 DEF Placing
<1>9. CASE PlacesPair
  <2> DEFINE x == Min(ctx.left)
             pair == Pairing(x)
             c == Min(Named(ctx.read, x))
  <2>1. pc = "pairs" /\ pc' = "pairs"
    BY <1>9 DEF PlacesPair, Step
  <2>2. PlanThere /\ ReadStill /\ Rightly(plan) /\ Follows(plan, ctx.plan)
    BY <2>1 DEF Goes, IInv, CommandsInv, WiresInv, PlanThere, Placing
  <2>3. /\ ctx.read \in Reading /\ plan \in Plan /\ x \in ctx.left /\ x \in Sources
        /\ ctx'.plan = ctx.plan /\ ctx'.read = ctx.read /\ ctx'.left = ctx.left \ {x} /\ ctx'.resort = ctx.resort
        /\ Pairable(x)
        /\ (pair.wired /\ plan' = plan) \/ (pair.possible /\ plan' = pair.whole)
    BY <1>0, <1>9, <2>2, PlacesPairMoves
  <2>4. ctx.read = Read /\ Elements(ctx.plan) \subseteq Elements(plan) /\ ctx.plan.wire \subseteq plan.wire
    BY <2>1 DEF Goes, GoingInv, ReadInv
  <2>5. /\ pair.possible =>
             /\ Elements(plan) \subseteq Elements(pair.whole)
             /\ WiredPair(pair.whole, x, c) /\ Dangling(pair.whole) \subseteq Dangling(plan)
             /\ \A y, k : y # x /\ WiredPair(plan, y, k) => WiredPair(pair.whole, y, k)
             /\ ctx.plan.wire \subseteq pair.whole.wire
        /\ pair.wired => WiredPair(plan, x, c)
    BY <1>0, <2>2, <2>3, <2>4, PairingKeeps
  <2> HIDE DEF x, pair
  <2>6. /\ Elements(ctx.plan) \subseteq Elements(plan') /\ ctx.plan.wire \subseteq plan'.wire
        /\ WiredPair(plan', x, c) /\ Dangling(plan') \subseteq Dangling(plan)
        /\ \A y, k : y # x /\ WiredPair(plan, y, k) => WiredPair(plan', y, k)
    BY <2>3, <2>4, <2>5
  <2>7. c \in Serving(command, x)
    <3>1. Read.command = command /\ Named(Read, x) # {}
      BY <2>3, <2>4 DEF Read, Pairable
    <3>2. Named(Read, x) \subseteq Serving(command, x) /\ Named(Read, x) \in SUBSET Nat
      BY <1>0, <3>1, PresentIds DEF Named, Serving, Types, ComexioTypes
    <3> QED
      BY <2>4, <3>1, <3>2, MinIn
  <2> HIDE DEF c
  <2>8. Pending = ctx.left /\ Pending' = ctx.left \ {x}
    BY <2>1, <2>3 DEF Pending, Placing
  <2>9. WiresSettle(data, ignored, Renamed, ctx.left \ {x}, command, plan')
    BY <1>2, <2>6, <2>7, <2>8 DEF WiresSettle
  <2>10. LeftOversGo(data, audit.dangling, command, plan')
    BY <1>2, <2>6 DEF LeftOversGo
  <2> QED
    BY <1>3, <1>4, <2>1, <2>3, <2>4, <2>6, <2>8, <2>9, <2>10 DEF Placing
<1>10. CASE PairsDone
  <2>1. pc = "pairs" /\ ctx.left = {} /\ plan' = plan /\ ctx' = [ctx EXCEPT !.added = @ /\ ~ctx.fresh]
    BY <1>10 DEF PairsDone, Step, Quietly, managed
  <2>2. ctx'.added = (ctx.added /\ ~ctx.fresh) /\ ctx'.resort = ctx.resort
    BY ContextRecord, <1>0, <2>1 DEF ContextFields
  <2>3. pc' \in {"sort", "rerun", "done"} /\ (pc' = "sort" => ctx'.added)
    BY <1>10, <2>2 DEF PairsDone
  <2>4. Pending = {} /\ Pending' = {}
    BY <2>1, <2>3 DEF Pending, Placing
  <2> QED
    BY <1>2, <1>3, <1>4, <2>1, <2>2, <2>3, <2>4 DEF Placing, Sorting
<1> QED
  BY <1>5, <1>6, <1>7, <1>8, <1>9, <1>10 DEF Wires, WiresPlan

LEMMA GoingStep ==
  ASSUME IInv, ReadTrue, Chosen, SettleInv, [Next]_vars, Going'
  PROVE  GoingInv'
<1>0. Types /\ ctx \in ContextType
  BY DEF IInv, Types, SyncTypes
<1>1. CASE pc' \in {"idle", "device"}
  BY <1>1 DEF GoingInv, StageInv, WorkInv, SettledInv, ReadInv, LeftInv, Clears, Cutting, Tasking,
     Wired,
     SortsBefore, Sorting, Placing, Recreating
<1>2. CASE UNCHANGED <<command, device, plan, pc, ctx>> /\ ~Poll /\ (LoadsPlans \/ snap' = snap) /\ (cancel => cancel')
  <2>1. quiet /\ UNCHANGED <<source, ignored, data, audit>>
    BY <1>2, QuietSteps DEF Going
  <2>2. Going /\ GoingInv
    BY <1>2, <2>1 DEF Going, SettleInv
  <2>3. Read' = Read /\ Renamed' = Renamed
    BY <1>2, <2>1 DEF Read, Renamed
  <2>4. StageInv'
    <3>1. Tasking' = Tasking /\ Wired' = Wired /\ Template' = Template
      BY <1>2, <2>1 DEF Tasking, Wired, SortsBefore, Template
    <3>2. StageInv
      BY <2>2 DEF GoingInv
    <3> QED
      BY <1>2, <3>1, <3>2 DEF StageInv
  <2>5. WorkInv'
    BY <1>2, <2>1, <2>2, <2>3 DEF GoingInv, WorkInv, Worked, Bare, Tasking, SortsBefore
  <2>6. SettledInv' /\ ReadInv'
    BY <1>2, <2>1, <2>2, <2>3 DEF GoingInv, SettledInv, ReadInv, Wired, SortsBefore, Pending
  <2>7. ASSUME NEW x, Loose(snap, x), pc \in Clearing PROVE Loose(snap', x)
    <3>1. snap # Gone /\ Below(plan, snap)
      BY <2>1, <2>7 DEF ReadTrue
    <3>2. LoadsPlans => snap' = IF plan = Gone THEN EmptyPlan ELSE plan
      BY DEF LoadsPlans
    <3> QED
      BY <1>2, <2>7, <3>1, <3>2, LooseBelow, NoPlanNothing
  <2>8. LeftInv'
    BY <1>2, <2>1, <2>2, <2>7 DEF GoingInv, LeftInv, Tasking, SortsBefore, Clearing, Cutting
  <2> QED
    BY <2>4, <2>5, <2>6, <2>8 DEF GoingInv
<1>3. CASE Sync /\ ~Finishes /\ snap' = snap /\ cancel' = cancel /\ ~Poll
  <2>1. quiet /\ UNCHANGED <<source, ignored, data, audit>>
    BY <1>3, QuietSteps DEF Going
  <2>2. Going
    BY <1>0, <1>3, <2>1, FailureStays DEF Going
  <2>3. Goes
    BY <1>3, <2>1, <2>2 DEF Goes, SettleInv
  <2>4. ~CleansIgnored
    <3>1. StageInv
      BY <2>3 DEF Goes, GoingInv
    <3> QED
      BY <3>1 DEF StageInv, CleansIgnored, FindsIgnored, LoadsForCleanup, ListsPlansForCleanup,
         ChecksCleanable,
         DeletesCleaned, Checks, ReadsPlans, Step, Clears, Cutting, Tasking, Wired, SortsBefore,
         Sorting, Placing, Recreating
  <2> QED
    BY <1>3, <2>3, <2>4, LooksUpGoes, DecidesGoes, RecreatesGoes, DebrisGoes, SortGoes, ChecksGo,
       TasksGo, WiresGo
       DEF Sync, SyncsClass, Delta
<1>4. CASE Poll \/ \E a \in Actions : Press(a)
  BY <1>1, <1>4 DEF Poll, Press
<1> QED
  <2>1. CASE Poll
    BY <1>4, <2>1
  <2>2. CASE ~Poll
    <3>1. \/ UNCHANGED <<command, device, plan, snap, pc, ctx>> /\ (cancel => cancel')
          \/ LoadsPlans
          \/ \E a \in Actions : Press(a)
          \/ Sync /\ ~Finishes /\ snap' = snap /\ cancel' = cancel
      BY <2>2, QuietSteps DEF Going
    <3>2. LoadsPlans => UNCHANGED <<command, device, plan, pc, ctx, cancel>>
      BY DEF LoadsPlans, comexio, webio, managed
    <3> QED
      BY <1>2, <1>3, <1>4, <2>2, <3>1, <3>2
  <2> QED
    BY <2>1, <2>2

-----------------------------------------------------------------------------
(* A sync that reports success has settled what the audit found.               *)

LEMMA SettleStep ==
  ASSUME IInv, ReadTrue, Chosen, SettleInv, [Next]_vars
  PROVE  SettleInv'
BY DeviceStep, WiresStep, SnapStep, GoingStep DEF SettleInv

LEMMA WiredPlanRightly ==
  ASSUME NEW order \in Orders
  PROVE  Rightly(WiredPlan(order))
<1> DEFINE n == Cardinality(Sources)
           p == WiredPlan(order)
<1>1. DOMAIN order = 1 .. n /\ n \in Nat
  BY WiredPlanIsPlan
<1>2. ASSUME NEW w \in p.wire PROVE w[1] \in OfType(p, "src") /\ w[2] \in OfType(p, "web")
  <2>1. PICK i \in DOMAIN order : w = <<2 * i - 1, 2 * i>>
    BY DEF WiredPlan
  <2>2. 2 * i - 1 \in Find(p, "src", order[i]) /\ 2 * i \in Find(p, "web", i)
    BY <2>1, WiredPlanWires
  <2> QED
    BY <2>1, <2>2 DEF Find
<1> QED
  BY <1>2 DEF Rightly

LEMMA InitSettles == Init => SettleInv
<1> SUFFICES ASSUME Init
             PROVE  SettleInv
  OBVIOUS
<1>1. PICK setup \in Setups, order \in Orders : Begins(setup = "wired", order)
  BY DEF Init
<1>2. /\ pc = "idle"
      /\ device = (setup = "wired")
      /\ plan = IF setup = "wired" THEN WiredPlan(order) ELSE Gone
      /\ snap = IF setup = "wired" THEN WiredPlan(order) ELSE EmptyPlan
      /\ setup # "wired" => command = <<>>
  BY <1>1 DEF Begins
<1>3. WiredPlan(order) # Gone /\ Rightly(WiredPlan(order))
  BY WiredPlanIsPlan, WiredPlanRightly, SyncAssumption
<1>4. DeviceInv
  <2>1. Present(<<>>) = {}
    BY DEF Present
  <2> QED
    BY <1>2, <2>1 DEF DeviceInv, Recreating
<1>5. WiresInv /\ SnapFresh
  BY <1>2, <1>3 DEF WiresInv, SnapFresh
<1>6. GoingInv
  BY <1>2 DEF GoingInv, StageInv, WorkInv, SettledInv, ReadInv, LeftInv, Clears, Cutting, Tasking,
     Wired,
     SortsBefore, Sorting, Placing, Recreating
<1> QED
  BY <1>4, <1>5, <1>6 DEF SettleInv

LEMMA SettledAtEnd ==
  ASSUME IInv, ReadTrue, SettleInv, pc = "done", ctx.action = "full_sync", ~ctx.failed, ~cancel, quiet
  PROVE  SettledBy(Compare(Read, ignored, plan), {item.of : item \in audit.rename})
<1> DEFINE found == Compare(Read, ignored, plan)
<1>1. Types /\ Read \in Reading /\ data \in Reading /\ Read.source = data.source /\ Read.command = command
  BY ReadIsReading DEF IInv, Types, HaTypes, ReadTrue, Read
<1>2. /\ CommandsSettle(data, ignored, command) /\ WiresSettle(data, ignored, Renamed, {}, command, plan)
      /\ LeftOversGo(data, audit.dangling, command, plan)
  <2>1. GoingInv
    BY DEF SettleInv, Going
  <2>2. Wired /\ Pending = {}
    BY DEF Wired, Pending, Placing
  <2> QED
    BY <2>1, <2>2 DEF GoingInv, SettledInv
<1>3. /\ found.missing = {} /\ found.rename = {} /\ found.type = {} /\ found.orphan = {}
      /\ found.gap \subseteq Renamed /\ found.dangling \subseteq Dangling(plan)
  BY <1>1, <1>2, NothingIsFound
<1> HIDE DEF found
<1>4. MadeAnew \/ found.dangling \cap audit.dangling = {}
  BY <1>2, <1>3 DEF LeftOversGo, MadeAnew
<1> QED
  BY <1>3, <1>4 DEF SettledBy, found, Renamed

\* A sync that reports no failure and that nobody interfered with has worked its audit off: another
\* one finds nothing to do, but the gaps of renamed markers and the left-overs of a class made anew.
THEOREM SyncLeavesNothing == Spec => SyncSettles
<1> DEFINE J == IInv /\ ReadTrue /\ Chosen /\ SettleInv
<1>1. Init => J
  BY InitHolds, InitTrue, InitSettles
<1>2. J /\ [Next]_vars => J'
  BY IInvStep, ReadTrueStep, ChosenStep, SettleStep
<1>3. J => [pc = "done" /\ ctx.action = "full_sync" /\ ~ctx.failed /\ ~cancel /\ quiet
              => SettledBy(Compare(Read, ignored, plan), {item.of : item \in audit.rename})]_vars
  BY SettledAtEnd
<1> QED
  BY <1>1, <1>2, <1>3, PTL DEF Spec, SyncSettles

=============================================================================
