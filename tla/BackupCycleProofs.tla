------------------------- MODULE BackupCycleProofs -------------------------
(***************************************************************************)
(* Why no plan that a restore is still writing is stored, what a restore   *)
(* overwrites can be had back, and what it promoted is not stored again.   *)
(*                                                                         *)
(* A cycle that loads the plan while a restore writes it began before that *)
(* restore, so it sees another pause generation than the one it began with *)
(* when it asks before it stores.  A backup before a restore is taken      *)
(* before that restore writes; moves, promotions and put-backs add no      *)
(* content, as the histories of different names have no time in common.    *)
(***************************************************************************)
EXTENDS BackupCycle, BackupHistoryProofs, TLAPS

Idents == Names \union {NoName}
AllContents == Contents \union {Half, NoContent}

\* What the histories may hold: a half restored plan once a restore left one.
Storable == Contents \union IF leftHalf THEN {Half} ELSE {}

StoreInv ==
    /\ clock \in Nat /\ DOMAIN history = Kinds
    /\ \A k \in Kinds : Filed(history[k], Names, Storable, clock)

\* Comexio's plan is half restored only in a restore that wrote it, or after one
\* that left it so.
Rewriting == {"completing", "verifying", "promoting"}
PlanInv ==
    /\ name \in Idents /\ listed \in Idents /\ content \in AllContents
    /\ name # NoName => content # NoContent
    /\ content = Half => leftHalf \/ restore \in Rewriting

ChosenFields == {"kind", "name", "at", "content", "since", "secured", "unsecured"}
RestoreInv ==
    /\ restore \in {"idle", "fetching", "securing", "aligning", "running"} \union Rewriting
    /\ generation \in Nat
    /\ pauses = IF restore = "idle" THEN 0 ELSE 1
    /\ restore # "idle" => /\ DOMAIN chosen = ChosenFields
                           /\ chosen.kind \in Kinds /\ chosen.name \in Names
                           /\ chosen.content \in Storable

SeenFields == {"generation", "atLoad", "got", "fub", "old", "before"}
SeenInv ==
    /\ DOMAIN seen = SeenFields /\ seen.got \in AllContents
    /\ seen.atLoad \in Idents /\ seen.fub \in Idents
    /\ seen.atLoad = NoName => seen.got = NoContent
    /\ sources \subseteq Names
    /\ sources # {} => cycle \in {"renames", "moving"} /\ seen.fub \in Names
    /\ cycle = "moving" => seen.old \in Names /\ seen.fub \in Names /\ seen.old # seen.fub

\* What a failed save puts back is of no other name's times.
SavingInv ==
    cycle = "saving" =>
        /\ seen.fub \in Names /\ History(seen.before, Storable, clock)
        /\ \A n \in Names \ {seen.fub} :
               TimesOf(seen.before) \cap TimesOf(history["auto"][n]) = {}

\* A restore that meets a cycle began after it.
Active == cycle \notin {"idle", "spawned"}
PauseInv ==
    /\ Active => seen.generation \in 0 .. generation
    /\ Active /\ restore # "idle" => seen.generation # generation
    /\ seen.got = Half => Active /\ (leftHalf \/ seen.generation # generation)

CInv == StoreInv /\ PlanInv /\ RestoreInv /\ SeenInv /\ SavingInv /\ PauseInv

LEMMA InitCInv == ASSUME Init PROVE CInv
<1> USE CycleNamesAssumption
<1>1. StoreInv
  BY EmptyHistory DEF Init, StoreInv, Filed
<1>2. PlanInv /\ RestoreInv
  BY DEF Init, PlanInv, RestoreInv, Idents, AllContents
<1>3. SeenInv /\ SavingInv /\ PauseInv
  BY DEF Init, SeenInv, SavingInv, PauseInv, Active, NothingSeen, SeenFields, Idents, AllContents
<1> QED
  BY <1>1, <1>2, <1>3 DEF CInv

-----------------------------------------------------------------------------
(* Parts of the invariant that a step leaves alone                             *)

LEMMA StorableGrows ==
  ASSUME leftHalf => leftHalf' PROVE Storable \subseteq Storable'
BY DEF Storable

LEMMA StoreKept ==
  ASSUME StoreInv, UNCHANGED store, leftHalf => leftHalf' PROVE StoreInv'
<1>1. \A k \in Kinds : Filed(history[k], Names, Storable', clock)
  BY StorableGrows, FiledWider DEF StoreInv
<1> QED
  BY <1>1 DEF StoreInv, store

LEMMA RestoreKept ==
  ASSUME RestoreInv, UNCHANGED <<restore, generation, pauses, chosen, leftHalf>> PROVE RestoreInv'
BY DEF RestoreInv, Storable

LEMMA PlanKept ==
  ASSUME PlanInv, UNCHANGED <<plan, listed, restore, leftHalf>> PROVE PlanInv'
BY DEF PlanInv, plan

\* What the cycle has seen, while a restore or a user goes on.
LEMMA SeenKept ==
  ASSUME CInv, UNCHANGED <<cycle, seen, sources>>, leftHalf => leftHalf',
         UNCHANGED store \/ StoreFree
  PROVE  SeenInv' /\ SavingInv'
<1>1. SeenInv'
  BY DEF CInv, SeenInv
<1>2. ASSUME UNCHANGED store, cycle = "saving" PROVE SavingInv'
  <2>1. History(seen.before, Storable', clock)
    BY <1>2, StorableGrows, HistoryWider DEF CInv, SavingInv
  <2> QED
    BY <1>2, <2>1 DEF CInv, SavingInv, store
<1> QED
  BY <1>1, <1>2 DEF SavingInv, StoreFree

LEMMA PauseKept ==
  ASSUME CInv, UNCHANGED <<cycle, seen, generation>>, leftHalf => leftHalf',
         restore' \in {restore, "idle"} \/ restore # "idle"
  PROVE  PauseInv'
BY DEF CInv, PauseInv, Active

\* A step of the cycle that writes nothing.
LEMMA CycleOnly ==
  ASSUME CInv, UNCHANGED <<plan, listed, store, restoring, noted>>, SeenInv', SavingInv', PauseInv'
  PROVE  CInv'
BY StoreKept, PlanKept, RestoreKept DEF CInv, restoring, noted

LEMMA CycleEndsWell ==
  ASSUME CInv, CycleEnds PROVE SeenInv' /\ SavingInv' /\ PauseInv'
BY CycleNamesAssumption
   DEF CycleEnds, SeenInv, SavingInv, PauseInv, Active, NothingSeen, SeenFields, Idents, AllContents
-----------------------------------------------------------------------------
(* The cycle                                                                   *)

LEMMA CycleBeginsKeeps == ASSUME CInv, CycleBegins PROVE CInv'
<1>1. UNCHANGED <<plan, listed, store, restoring, noted>>
  BY DEF CycleBegins
<1>2. CASE CycleEnds
  BY <1>1, <1>2, CycleEndsWell, CycleOnly
<1>3. CASE ~CycleEnds
  <2>1. /\ cycle = "spawned" /\ cycle' = "loading" /\ sources' = sources /\ pauses = 0
        /\ seen' = [NothingSeen EXCEPT !.generation = generation, !.atLoad = listed]
    BY <1>3 DEF CycleBegins
  <2>2. /\ DOMAIN seen' = SeenFields /\ seen'.generation = generation
        /\ seen'.atLoad = listed /\ seen'.got = NoContent /\ seen'.fub = NoName
    BY <2>1 DEF NothingSeen, SeenFields
  <2>3. restore = "idle"
    BY <2>1 DEF CInv, RestoreInv
  <2>4. SeenInv' /\ SavingInv'
    BY <2>1, <2>2 DEF CInv, SeenInv, SavingInv, PlanInv, Idents, AllContents
  <2>5. PauseInv'
    BY <1>1, <2>1, <2>2, <2>3, CycleNamesAssumption DEF CInv, PauseInv, RestoreInv, restoring
  <2> QED
    BY <1>1, <2>4, <2>5, CycleOnly
<1> QED
  BY <1>2, <1>3

LEMMA LoadsKeeps == ASSUME CInv, Loads PROVE CInv'
<1>1. UNCHANGED <<plan, listed, store, restoring, noted>>
  BY DEF Loads
<1>2. /\ cycle = "loading" /\ cycle' = "loaded" /\ sources' = sources
      /\ seen' = [seen EXCEPT !.got = IF seen.atLoad = NoName THEN NoContent ELSE content]
  BY DEF Loads
<1>3. /\ DOMAIN seen' = SeenFields /\ seen'.generation = seen.generation
      /\ seen'.atLoad = seen.atLoad /\ seen'.fub = seen.fub
      /\ seen'.got = IF seen.atLoad = NoName THEN NoContent ELSE content
  BY <1>2 DEF CInv, SeenInv, SeenFields
<1>4. SeenInv' /\ SavingInv'
  BY <1>2, <1>3 DEF CInv, SeenInv, SavingInv, PlanInv, AllContents
<1>5. seen'.got = Half => leftHalf \/ restore # "idle"
  BY <1>3, CycleNamesAssumption DEF CInv, PlanInv, Rewriting
<1>6. PauseInv'
  BY <1>1, <1>2, <1>3, <1>5 DEF CInv, PauseInv, Active, restoring, noted
<1> QED
  BY <1>1, <1>4, <1>6, CycleOnly

LEMMA JudgeKeeps == ASSUME CInv, Judge PROVE CInv'
<1>1. UNCHANGED <<plan, listed, store, restoring, noted>>
  BY DEF Judge
<1>2. CASE CycleEnds
  BY <1>1, <1>2, CycleEndsWell, CycleOnly
<1>3. CASE ~CycleEnds
  <2>1. /\ cycle = "loaded" /\ cycle' = "following" /\ sources' = sources
        /\ seen' = [seen EXCEPT !.fub = listed]
    BY <1>3 DEF Judge
  <2>2. /\ DOMAIN seen' = SeenFields /\ seen'.generation = seen.generation
        /\ seen'.atLoad = seen.atLoad /\ seen'.got = seen.got /\ seen'.fub = listed
    BY <2>1 DEF CInv, SeenInv, SeenFields
  <2>3. SeenInv' /\ SavingInv'
    BY <2>1, <2>2 DEF CInv, SeenInv, SavingInv, PlanInv
  <2>4. PauseInv'
    BY <1>1, <2>1, <2>2 DEF CInv, PauseInv, Active, restoring, noted
  <2> QED
    BY <1>1, <2>3, <2>4, CycleOnly
<1> QED
  BY <1>2, <1>3

\* A step within an active cycle that keeps what was seen.
LEMMA SeenOn ==
  ASSUME CInv, UNCHANGED <<plan, listed, store, restoring, noted, seen>>, Active, Active',
         cycle' \notin {"saving", "moving"}, sources' \subseteq Names,
         sources' # {} => cycle' = "renames" /\ seen.fub \in Names
  PROVE  CInv'
<1>1. SeenInv' /\ SavingInv'
  BY DEF CInv, SeenInv, SavingInv
<1>2. PauseInv'
  BY DEF CInv, PauseInv, restoring, noted
<1> QED
  BY <1>1, <1>2, CycleOnly

LEMMA FollowRenamesKeeps == ASSUME CInv, FollowRenames PROVE CInv'
<1>1. UNCHANGED <<plan, listed, store, restoring, noted, seen>>
  BY DEF FollowRenames
<1>2. cycle = "following" /\ cycle' = "renames"
  BY DEF FollowRenames
<1>3. sources' \subseteq Names
  BY DEF FollowRenames, RenamedFrom, NotedMoves
<1>4. sources' # {} => Steady
  BY DEF FollowRenames
<1>5. Steady => seen.fub \in Names
  BY DEF CInv, SeenInv, Steady, Idents
<1> QED
  BY <1>1, <1>2, <1>3, <1>4, <1>5, SeenOn DEF Active

LEMMA FollowRenameKeeps == ASSUME CInv, FollowRename PROVE CInv'
<1>1. UNCHANGED <<plan, listed, store, restoring, noted>>
  BY DEF FollowRename
<1>2. PICK old \in sources :
        /\ cycle = "renames" /\ sources' = sources \ {old}
        /\ \/ cycle' = cycle /\ seen' = seen
           \/ /\ old # seen.fub
              /\ cycle' = "moving" /\ seen' = [seen EXCEPT !.old = old]
  BY DEF FollowRename
<1>3. old \in Names /\ seen.fub \in Names /\ sources' \subseteq Names
  BY <1>2 DEF CInv, SeenInv
<1>4. CASE cycle' = cycle /\ seen' = seen
  BY <1>1, <1>2, <1>3, <1>4, SeenOn DEF Active
<1>5. CASE old # seen.fub /\ cycle' = "moving" /\ seen' = [seen EXCEPT !.old = old]
  <2>1. /\ DOMAIN seen' = SeenFields /\ seen'.generation = seen.generation
        /\ seen'.atLoad = seen.atLoad /\ seen'.got = seen.got /\ seen'.fub = seen.fub
        /\ seen'.old = old
    BY <1>5 DEF CInv, SeenInv, SeenFields
  <2>2. SeenInv' /\ SavingInv'
    BY <1>2, <1>3, <1>5, <2>1 DEF CInv, SeenInv, SavingInv
  <2>3. PauseInv'
    BY <1>1, <1>2, <1>5, <2>1 DEF CInv, PauseInv, Active, restoring, noted
  <2> QED
    BY <1>1, <2>2, <2>3, CycleOnly
<1> QED
  BY <1>2, <1>4, <1>5

LEMMA MoveEndsKeeps == ASSUME CInv, MoveFails \/ RenamesDone PROVE CInv'
<1>1. UNCHANGED <<plan, listed, store, restoring, noted, seen>>
  BY DEF MoveFails, RenamesDone
<1>2. /\ cycle \in {"moving", "renames"} /\ cycle' \in {"renames", "storing"}
      /\ sources' = sources \/ sources' = {}
      /\ sources' # {} => cycle' = "renames"
  BY DEF MoveFails, RenamesDone
<1>3. sources' \subseteq Names /\ (sources' # {} => seen.fub \in Names)
  BY <1>2 DEF CInv, SeenInv
<1> QED
  BY <1>1, <1>2, <1>3, SeenOn DEF Active

LEMMA CycleStopsKeeps == ASSUME CInv, LoadFails \/ CycleTimeout PROVE CInv'
<1>1. UNCHANGED <<plan, listed, store, restoring, noted>> /\ CycleEnds
  BY DEF LoadFails, CycleTimeout
<1> QED
  BY <1>1, CycleEndsWell, CycleOnly

\* A step of the cycle that changes the histories.
LEMMA CycleWrites ==
  ASSUME CInv, UNCHANGED <<plan, listed, restoring, leftHalf>>, StoreInv', SeenInv', SavingInv',
         PauseInv'
  PROVE  CInv'
BY PlanKept, RestoreKept DEF CInv, restoring

LEMMA MovesKeeps == ASSUME CInv, Moves PROVE CInv'
<1> DEFINE old == seen.old
           new == seen.fub
<1>1. /\ UNCHANGED <<plan, listed, restoring, leftHalf, seen, clock, sources>>
      /\ cycle = "moving" /\ cycle' = "renames"
  BY DEF Moves
<1>2. old \in Names /\ new \in Names /\ old # new
  BY <1>1 DEF CInv, SeenInv
<1>3. DOMAIN history' = Kinds /\ Storable' = Storable /\ clock \in Nat
  BY <1>1 DEF Moves, CInv, StoreInv, Storable
<1>4. ASSUME NEW k \in Kinds PROVE Filed(history'[k], Names, Storable, clock)
  <2>1. Filed(history[k], Names, Storable, clock) /\ SlotsOf(k) \in Nat
    BY CycleSlotsAssumption DEF CInv, StoreInv, SlotsOf
  <2>2. \/ history'[k] = history[k]
        \/ history'[k] = [history[k] EXCEPT ![new] = Merged(@, history[k][old], SlotsOf(k)),
                                            ![old] = <<>>]
    BY DEF Moves
  <2> HIDE DEF old, new
  <2>3. Filed([history[k] EXCEPT ![new] = Merged(@, history[k][old], SlotsOf(k)), ![old] = <<>>],
              Names, Storable, clock)
    BY <1>2, <1>3, <2>1, FiledMerge
  <2> QED
    BY <2>1, <2>2, <2>3
<1>5. StoreInv'
  BY <1>1, <1>3, <1>4 DEF StoreInv
<1>6. SeenInv' /\ SavingInv' /\ PauseInv'
  BY <1>1 DEF CInv, SeenInv, SavingInv, PauseInv, Active, restoring
<1> QED
  BY <1>1, <1>5, <1>6, CycleWrites

\* A new snapshot of a content that may be stored joins the history of a name.
LEMMA NewSnapshot ==
  ASSUME CInv, NEW k \in Kinds, NEW n \in Names, NEW c \in Storable, NEW slots \in Nat,
         clock' = clock + 1, leftHalf' = leftHalf,
         history' = [history EXCEPT ![k][n] =
             Rotated(@, [at |-> clock + 1, content |-> c, restored |-> FALSE], slots)]
  PROVE  StoreInv'
<1> DEFINE new == Rotated(history[k][n],
                          [at |-> clock + 1, content |-> c, restored |-> FALSE], slots)
<1>1. /\ clock \in Nat /\ clock + 1 \in Nat /\ clock <= clock + 1
      /\ DOMAIN history = Kinds /\ Filed(history[k], Names, Storable, clock)
  BY DEF CInv, StoreInv
<1>2. History(history[k][n], Storable, clock)
  BY <1>1 DEF Filed
<1>4. history' = [history EXCEPT ![k][n] = new]
  OBVIOUS
<1>5. /\ History(new, Storable, clock + 1)
      /\ TimesOf(new) \subseteq TimesOf(history[k][n]) \union {clock + 1}
  <2>1. FALSE \in BOOLEAN
    OBVIOUS
  <2> QED
    BY <1>1, <1>2, <2>1, NextRotated
<1> HIDE DEF new
<1>7. Filed([history[k] EXCEPT ![n] = new], Names, Storable, clock + 1)
  BY <1>1, <1>5, FiledNew
<1>8. \A j \in Kinds : Filed(history[j], Names, Storable, clock + 1)
  BY <1>1, FiledLater DEF CInv, StoreInv
<1>9. \A j \in Kinds : history'[j] = IF j = k THEN [history[k] EXCEPT ![n] = new] ELSE history[j]
  BY <1>1, <1>4
<1>10. DOMAIN history' = Kinds /\ Storable' = Storable
  BY <1>1, <1>4 DEF Storable
<1>11. \A j \in Kinds : Filed(history'[j], Names, Storable', clock')
  BY <1>7, <1>8, <1>9, <1>10
<1> QED
  BY <1>1, <1>10, <1>11 DEF StoreInv

LEMMA StoreAutoKeeps == ASSUME CInv, StoreAuto PROVE CInv'
<1>1. UNCHANGED <<plan, listed, restoring, noted>> /\ cycle = "storing"
  BY DEF StoreAuto
<1>2. CASE CycleEnds /\ UNCHANGED store
  BY <1>1, <1>2, CycleEndsWell, CycleOnly
<1>3. CASE ~(CycleEnds /\ UNCHANGED store)
  <2> DEFINE n == seen.fub
             auto == history["auto"]
  <2>1. /\ Steady /\ ~HeldBack(seen.generation) /\ clock' = clock + 1 /\ cycle' = "saving"
        /\ history' = [history EXCEPT !["auto"][n] =
               Rotated(@, [at |-> clock + 1, content |-> seen.got, restored |-> FALSE], AutoSlots)]
        /\ seen' = [seen EXCEPT !.before = auto[n]] /\ sources' = sources
    BY <1>3 DEF StoreAuto
  <2>2. n \in Names /\ seen.got \in Storable
    BY <1>1, <2>1 DEF CInv, SeenInv, PauseInv, Steady, HeldBack, Idents, AllContents, Storable
  <2>3. /\ DOMAIN seen' = SeenFields /\ seen'.generation = seen.generation
        /\ seen'.atLoad = seen.atLoad /\ seen'.got = seen.got /\ seen'.fub = n
        /\ seen'.before = auto[n]
    BY <2>1 DEF CInv, SeenInv, SeenFields
  <2>4. AutoSlots \in Nat /\ "auto" \in Kinds /\ leftHalf' = leftHalf /\ clock \in Nat
    BY <1>1, CycleSlotsAssumption DEF Kinds, noted, CInv, StoreInv
  <2>5. StoreInv'
    BY <2>1, <2>2, <2>4, NewSnapshot
  <2>6. Filed(auto, Names, Storable, clock) /\ DOMAIN history = Kinds
    BY <2>4 DEF CInv, StoreInv
  <2>7. \A other \in Names \ {n} : history'["auto"][other] = auto[other]
    BY <2>1, <2>4, <2>6 DEF Filed
  <2>8. History(auto[n], Storable', clock')
    <3>1. Storable' = Storable /\ clock' \in Nat /\ clock <= clock'
      BY <2>1, <2>4 DEF Storable
    <3>2. History(auto[n], Storable, clock)
      BY <2>2, <2>6 DEF Filed
    <3> QED
      BY <2>4, <3>1, <3>2, HistoryLater
  <2>9. \A other \in Names \ {n} : TimesOf(auto[n]) \cap TimesOf(auto[other]) = {}
    BY <2>2, <2>6 DEF Filed
  <2>10. SavingInv'
    BY <2>1, <2>2, <2>3, <2>7, <2>8, <2>9 DEF SavingInv
  <2>11. SeenInv'
    BY <1>1, <2>1, <2>3 DEF CInv, SeenInv
  <2>12. PauseInv'
    BY <1>1, <2>1, <2>3 DEF CInv, PauseInv, Active, restoring, noted
  <2> QED
    BY <1>1, <2>5, <2>10, <2>11, <2>12, CycleWrites DEF noted
<1> QED
  BY <1>2, <1>3

LEMMA SaveEndsKeeps == ASSUME CInv, SaveEnds PROVE CInv'
<1>1. /\ UNCHANGED <<plan, listed, restoring, noted, clock>> /\ CycleEnds /\ cycle = "saving"
      /\ \/ history' = history
         \/ history' = [history EXCEPT !["auto"] = [@ EXCEPT ![seen.fub] = seen.before]]
  BY DEF SaveEnds
<1>2. CASE history' = history
  BY <1>1, <1>2, CycleEndsWell, CycleOnly DEF store
<1>3. CASE history' = [history EXCEPT !["auto"] = [@ EXCEPT ![seen.fub] = seen.before]]
  <2> DEFINE n == seen.fub
             old == history["auto"]
             new == [old EXCEPT ![n] = seen.before]
  <2>1. /\ DOMAIN history = Kinds /\ clock \in Nat
        /\ \A k \in Kinds : Filed(history[k], Names, Storable, clock)
    BY DEF CInv, StoreInv
  <2>2. /\ n \in Names /\ History(seen.before, Storable, clock)
        /\ \A other \in Names \ {n} : TimesOf(seen.before) \cap TimesOf(old[other]) = {}
    BY <1>1 DEF CInv, SavingInv
  <2>3. Filed(old, Names, Storable, clock)
    BY <2>1 DEF Kinds
  <2>4. DOMAIN new = Names /\ \A i \in Names : new[i] = IF i = n THEN seen.before ELSE old[i]
    BY <2>3 DEF Filed
  <2> HIDE DEF new, old
  <2>5. \A i \in Names : History(new[i], Storable, clock)
    BY <2>2, <2>3, <2>4 DEF Filed
  <2>6. ASSUME NEW i \in Names, NEW j \in Names, i # j
        PROVE  TimesOf(new[i]) \cap TimesOf(new[j]) = {}
    <3>1. CASE i = n
      BY <2>2, <2>4, <2>6, <3>1
    <3>2. CASE j = n
      BY <2>2, <2>4, <2>6, <3>2
    <3>3. CASE i # n /\ j # n
      BY <2>3, <2>4, <2>6, <3>3 DEF Filed
    <3> QED
      BY <3>1, <3>2, <3>3
  <2>7. Filed(new, Names, Storable, clock)
    BY <2>4, <2>5, <2>6 DEF Filed
  <2>8. /\ DOMAIN history' = Kinds
        /\ \A k \in Kinds : history'[k] = IF k = "auto" THEN new ELSE history[k]
    BY <1>3, <2>1 DEF new, old
  <2>9. Storable' = Storable
    BY <1>1 DEF Storable, noted
  <2>10. StoreInv'
    BY <1>1, <2>1, <2>7, <2>8, <2>9 DEF StoreInv
  <2> QED
    BY <1>1, <2>10, CycleEndsWell, CycleWrites DEF noted
<1> QED
  BY <1>1, <1>2, <1>3

-----------------------------------------------------------------------------
(* Comexio Studio and the poll                                                 *)

LEMMA UserStepKeeps == ASSUME CInv, UserStep PROVE CInv'
<1>1. UNCHANGED <<listed, store, cycling, restoring, leftHalf>>
  BY DEF UserStep
<1>2. PlanInv'
  BY <1>1, CycleNamesAssumption DEF UserStep, CInv, PlanInv, Idents, AllContents, restoring
<1>3. RestoreInv' /\ StoreInv'
  BY <1>1, RestoreKept, StoreKept DEF CInv, restoring
<1>4. SeenInv' /\ SavingInv'
  BY <1>1, SeenKept DEF cycling
<1>5. PauseInv'
  BY <1>1, PauseKept DEF cycling, restoring
<1> QED
  BY <1>2, <1>3, <1>4, <1>5 DEF CInv

LEMMA PollKeeps == ASSUME CInv, Poll PROVE CInv'
<1>1. /\ UNCHANGED <<plan, store, seen, sources, restoring, noted>> /\ listed' = name
      /\ cycle' = IF cycle = "idle" THEN "spawned" ELSE cycle
  BY DEF Poll
<1>2. PlanInv'
  BY <1>1 DEF CInv, PlanInv, plan, restoring, noted
<1>3. RestoreInv' /\ StoreInv'
  BY <1>1, RestoreKept, StoreKept DEF CInv, restoring, noted
<1>4. SeenInv' /\ SavingInv' /\ PauseInv'
  BY <1>1 DEF CInv, SeenInv, SavingInv, PauseInv, Active, restoring, noted, store, Storable
<1> QED
  BY <1>2, <1>3, <1>4 DEF CInv

-----------------------------------------------------------------------------
(* The restore                                                                 *)

LEMMA RestoreBeginsKeeps == ASSUME CInv, RestoreBegins PROVE CInv'
<1>1. /\ UNCHANGED <<plan, listed, store, cycling, leftHalf>>
      /\ restore = "idle" /\ restore' = "fetching"
      /\ pauses' = pauses + 1 /\ generation' = generation + 1
  BY DEF RestoreBegins
<1>2. PICK k \in Kinds, n \in Names : \E i \in DOMAIN history[k][n] :
        chosen' = [kind |-> k, name |-> n, at |-> history[k][n][i].at,
                   content |-> history[k][n][i].content, since |-> userSteps,
                   secured |-> userSteps, unsecured |-> FALSE]
  BY DEF RestoreBegins
<1>3. PICK i \in DOMAIN history[k][n] :
        chosen' = [kind |-> k, name |-> n, at |-> history[k][n][i].at,
                   content |-> history[k][n][i].content, since |-> userSteps,
                   secured |-> userSteps, unsecured |-> FALSE]
  BY <1>2
<1>4. history[k][n][i] \in Snapshots(Storable, clock)
  BY LenProperties, ElementOfSeq DEF CInv, StoreInv, Filed, History
<1>5. /\ DOMAIN chosen' = ChosenFields /\ chosen'.kind = k /\ chosen'.name = n
      /\ chosen'.content \in Storable
  BY <1>3, <1>4 DEF ChosenFields, Snapshots
<1>6. Storable' = Storable
  BY <1>1 DEF Storable
<1>7. RestoreInv'
  BY <1>1, <1>5, <1>6 DEF CInv, RestoreInv
<1>8. PlanInv'
  BY <1>1 DEF CInv, PlanInv, plan, Rewriting
<1>9. StoreInv' /\ SeenInv' /\ SavingInv'
  BY <1>1, StoreKept, SeenKept DEF CInv, cycling
<1>10. PauseInv'
  BY <1>1 DEF CInv, PauseInv, RestoreInv, Active, cycling
<1> QED
  BY <1>7, <1>8, <1>9, <1>10 DEF CInv

\* A restore that goes on, or ends.
LEMMA RestoreGoesOn ==
  ASSUME CInv, restore # "idle", UNCHANGED <<cycling, generation>>, leftHalf => leftHalf',
         UNCHANGED store \/ (StoreFree /\ StoreInv'), PlanInv', RestoreInv'
  PROVE  CInv'
<1>1. StoreInv'
  BY StoreKept DEF CInv
<1>2. SeenInv' /\ SavingInv' /\ PauseInv'
  BY SeenKept, PauseKept DEF cycling
<1> QED
  BY <1>1, <1>2 DEF CInv

LEMMA GotoKeeps ==
  ASSUME CInv, restore # "idle", NEW place, Goto(place), DOMAIN chosen' = DOMAIN chosen,
         chosen'.kind = chosen.kind, chosen'.name = chosen.name,
         chosen'.content = chosen.content,
         place \in {"securing", "aligning", "running"} \union Rewriting
  PROVE  RestoreInv' /\ UNCHANGED <<leftHalf, generation>> /\ restore' = place
BY DEF CInv, RestoreInv, Goto, Storable, Rewriting

LEMMA EndsKeeps ==
  ASSUME CInv, restore # "idle", Ends, UNCHANGED plan, listed' \in {listed, name}
  PROVE  /\ RestoreInv' /\ PlanInv' /\ UNCHANGED generation /\ (leftHalf => leftHalf')
         /\ leftHalf' = (leftHalf \/ content = Half)
<1>1. /\ restore' = "idle" /\ pauses' = pauses - 1 /\ generation' = generation
      /\ leftHalf' = (leftHalf \/ content = Half)
  BY DEF Ends
<1>2. RestoreInv'
  BY <1>1 DEF CInv, RestoreInv
<1>3. PlanInv'
  BY <1>1 DEF CInv, PlanInv, plan
<1> QED
  BY <1>1, <1>2, <1>3

LEMMA FetchPlanKeeps == ASSUME CInv, FetchPlan PROVE CInv'
<1>1. /\ UNCHANGED <<plan, store, cycling>> /\ restore = "fetching"
      /\ listed' \in {listed, name} /\ chosen' = [chosen EXCEPT !.since = userSteps]
      /\ Goto("securing") \/ Ends
  BY DEF FetchPlan
<1>2. CASE Goto("securing")
  <2>1. /\ DOMAIN chosen' = DOMAIN chosen /\ chosen'.kind = chosen.kind
        /\ chosen'.name = chosen.name /\ chosen'.content = chosen.content
    BY <1>1 DEF CInv, RestoreInv, ChosenFields
  <2>2. RestoreInv' /\ UNCHANGED <<leftHalf, generation>> /\ restore' = "securing"
    BY <1>1, <1>2, <2>1, GotoKeeps
  <2>3. PlanInv'
    BY <1>1, <2>2 DEF CInv, PlanInv, plan, Rewriting
  <2> QED
    BY <1>1, <2>2, <2>3, RestoreGoesOn
<1>3. CASE Ends
  <2>1. RestoreInv' /\ PlanInv' /\ UNCHANGED generation /\ (leftHalf => leftHalf')
    BY <1>1, <1>3, EndsKeeps
  <2> QED
    BY <1>1, <2>1, RestoreGoesOn
<1> QED
  BY <1>1, <1>2, <1>3

LEMMA SecureKeeps == ASSUME CInv, Secure PROVE CInv'
<1>1. /\ UNCHANGED <<plan, listed, cycling>> /\ restore = "securing" /\ StoreFree
      /\ Goto("aligning")
      /\ \/ chosen' = [chosen EXCEPT !.secured = userSteps]
         \/ chosen' = [chosen EXCEPT !.unsecured = TRUE]
  BY DEF Secure
<1>2. /\ DOMAIN chosen' = DOMAIN chosen /\ chosen'.kind = chosen.kind
      /\ chosen'.name = chosen.name /\ chosen'.content = chosen.content
  BY <1>1 DEF CInv, RestoreInv, ChosenFields
<1>3. RestoreInv' /\ UNCHANGED <<leftHalf, generation>> /\ restore' = "aligning"
  BY <1>1, <1>2, GotoKeeps
<1>4. PlanInv'
  BY <1>1, <1>3 DEF CInv, PlanInv, plan, Rewriting
<1>5. CASE UNCHANGED store
  BY <1>1, <1>3, <1>4, <1>5, RestoreGoesOn
<1>6. CASE ~UNCHANGED store
  <2>1. /\ name # NoName /\ listed # NoName /\ clock' = clock + 1
        /\ history' = [history EXCEPT !["change"][listed] =
               Rotated(@, [at |-> clock + 1, content |-> content, restored |-> FALSE], ChangeSlots)]
    BY <1>6 DEF Secure
  <2>2. listed \in Names /\ content \in Storable
    BY <1>1, <2>1 DEF CInv, PlanInv, Idents, AllContents, Storable, Rewriting
  <2>3. "change" \in Kinds /\ ChangeSlots \in Nat
    BY CycleSlotsAssumption DEF Kinds
  <2>4. StoreInv'
    BY <1>3, <2>1, <2>2, <2>3, NewSnapshot
  <2> QED
    BY <1>1, <1>3, <1>4, <2>4, RestoreGoesOn
<1> QED
  BY <1>5, <1>6

\* A restore writes the plan.
LEMMA RestoreWrites ==
  ASSUME CInv, Align \/ RunFup \/ Complete
  PROVE  CInv'
<1>1. /\ UNCHANGED <<store, cycling, chosen>> /\ restore # "idle"
      /\ Goto("running") \/ Goto("completing") \/ Goto("verifying")
  BY DEF Align, RunFup, Complete
<1>2. RestoreInv' /\ UNCHANGED <<leftHalf, generation>>
  <2>1. "running" \in {"securing", "aligning", "running"} \union Rewriting
    BY DEF Rewriting
  <2>2. {"completing", "verifying"} \subseteq {"securing", "aligning", "running"} \union Rewriting
    BY DEF Rewriting
  <2> QED
    BY <1>1, <2>1, <2>2, GotoKeeps
<1>3. chosen.name \in Names /\ chosen.content \in Storable
  BY <1>1 DEF CInv, RestoreInv
<1>4. ASSUME Align PROVE PlanInv'
  <2>1. /\ restore = "aligning" /\ restore' = "running" /\ content' = content
        /\ \/ name # NoName /\ name' = chosen.name /\ listed' = chosen.name
           \/ name' = name /\ listed' = listed
    BY <1>4 DEF Align, Goto
  <2>2. content # Half \/ leftHalf
    BY <2>1 DEF CInv, PlanInv, Rewriting
  <2> QED
    BY <1>2, <1>3, <2>1, <2>2 DEF CInv, PlanInv, Idents
<1>5. ASSUME RunFup PROVE PlanInv'
  <2>1. /\ restore' = "completing" /\ UNCHANGED <<name, listed>>
        /\ content' \in {chosen.content, Half} \/ UNCHANGED content
        /\ restore = "running"
    BY <1>5 DEF RunFup, Goto
  <2> QED
    BY <1>2, <1>3, <2>1, CycleNamesAssumption
       DEF CInv, PlanInv, Storable, AllContents, Rewriting
<1>6. ASSUME Complete PROVE PlanInv'
  <2>1. /\ restore' = "verifying" /\ UNCHANGED <<name, listed>>
        /\ content' = chosen.content \/ UNCHANGED content
    BY <1>6 DEF Complete, Goto
  <2> QED
    BY <1>2, <1>3, <2>1, CycleNamesAssumption
       DEF CInv, PlanInv, Storable, AllContents, Rewriting
<1> QED
  BY <1>1, <1>2, <1>4, <1>5, <1>6, RestoreGoesOn

LEMMA VerifyKeeps == ASSUME CInv, Verify PROVE CInv'
<1>1. /\ UNCHANGED <<plan, listed, store, cycling, chosen>> /\ restore = "verifying"
      /\ Goto("promoting") \/ Ends
  BY DEF Verify
<1>2. CASE Goto("promoting")
  <2>1. RestoreInv' /\ UNCHANGED <<leftHalf, generation>> /\ restore' = "promoting"
    BY <1>1, <1>2, GotoKeeps DEF Rewriting
  <2>2. PlanInv'
    BY <1>1, <2>1 DEF CInv, PlanInv, plan, Rewriting
  <2> QED
    BY <1>1, <2>1, <2>2, RestoreGoesOn
<1>3. CASE Ends
  <2>1. RestoreInv' /\ PlanInv' /\ UNCHANGED generation /\ (leftHalf => leftHalf')
    BY <1>1, <1>3, EndsKeeps
  <2> QED
    BY <1>1, <2>1, RestoreGoesOn
<1> QED
  BY <1>1, <1>2, <1>3

\* A promotion adds no snapshot.
LEMMA PromoteKeeps == ASSUME CInv, Promote PROVE CInv'
<1> DEFINE k == chosen.kind
           n == chosen.name
           h == history[k]
           s == Promoted(h[n], chosen.at)
<1>1. /\ UNCHANGED <<plan, listed, clock, cycling, chosen>> /\ restore = "promoting"
      /\ StoreFree /\ Ends
      /\ \/ history' = history
         \/ Holds(h[n], chosen.at) /\ history' = [history EXCEPT ![k][n] = s]
  BY DEF Promote
<1>2. /\ RestoreInv' /\ PlanInv' /\ UNCHANGED generation /\ (leftHalf => leftHalf')
  BY <1>1, EndsKeeps
<1>3. CASE history' = history
  BY <1>1, <1>2, <1>3, RestoreGoesOn DEF store
<1>4. CASE Holds(h[n], chosen.at) /\ history' = [history EXCEPT ![k][n] = s]
  <2>1. k \in Kinds /\ n \in Names
    BY <1>1 DEF CInv, RestoreInv
  <2>2. /\ DOMAIN history = Kinds /\ clock \in Nat /\ Filed(h, Names, Storable, clock)
    BY <2>1 DEF CInv, StoreInv
  <2>3. History(h[n], Storable, clock)
    BY <2>1, <2>2 DEF Filed
  <2>4. /\ History(s, Storable, clock)
        /\ \A x \in ToSet(s) : \E y \in ToSet(h[n]) : x.at = y.at /\ x.content = y.content
    BY <1>4, <2>2, <2>3, PromotedHistory
  <2> HIDE DEF s
  <2>5. TimesOf(s) \subseteq TimesOf(h[n])
    BY <2>4, TimesOfElements
  <2>6. Filed([h EXCEPT ![n] = s], Names, Storable, clock)
    BY <2>2, <2>4, <2>5, FiledPart
  <2>7. /\ DOMAIN history' = Kinds
        /\ \A j \in Kinds : history'[j] = IF j = k THEN [h EXCEPT ![n] = s] ELSE history[j]
    BY <1>4, <2>1, <2>2
  <2> HIDE DEF h, k, n
  <2>8. \A j \in Kinds : Filed(history'[j], Names, Storable, clock)
    BY <2>6, <2>7 DEF CInv, StoreInv
  <2>9. \A j \in Kinds : Filed(history'[j], Names, Storable', clock)
    BY <1>2, <2>8, StorableGrows, FiledWider
  <2>10. StoreInv'
    BY <1>1, <2>2, <2>7, <2>9 DEF StoreInv
  <2> QED
    BY <1>1, <1>2, <2>10, RestoreGoesOn
<1> QED
  BY <1>1, <1>3, <1>4

LEMMA RestoreAbortsKeeps == ASSUME CInv, RestoreAborts PROVE CInv'
<1>1. UNCHANGED <<plan, listed, store, cycling, chosen>> /\ restore # "idle" /\ Ends
  BY DEF RestoreAborts
<1>2. RestoreInv' /\ PlanInv' /\ UNCHANGED generation /\ (leftHalf => leftHalf')
  BY <1>1, EndsKeeps
<1> QED
  BY <1>1, <1>2, RestoreGoesOn

-----------------------------------------------------------------------------
LEMMA NextCInv == ASSUME CInv, [Next]_vars PROVE CInv'
<1>1. CASE UserStep \/ Poll
  BY <1>1, UserStepKeeps, PollKeeps
<1>2. CASE CycleStep
  BY <1>2, CycleBeginsKeeps, LoadsKeeps, JudgeKeeps, FollowRenamesKeeps, FollowRenameKeeps,
     MovesKeeps, MoveEndsKeeps, StoreAutoKeeps, SaveEndsKeeps DEF CycleStep
<1>3. CASE LoadFails \/ MoveFails \/ CycleTimeout
  BY <1>3, CycleStopsKeeps, MoveEndsKeeps
<1>4. CASE RestoreStep
  BY <1>4, FetchPlanKeeps, SecureKeeps, RestoreWrites, VerifyKeeps, PromoteKeeps
     DEF RestoreStep
<1>5. CASE RestoreBegins \/ RestoreAborts
  BY <1>5, RestoreBeginsKeeps, RestoreAbortsKeeps
<1>6. CASE UNCHANGED vars
  <2>1. /\ UNCHANGED <<plan, listed, store, restoring, noted>>
        /\ UNCHANGED <<cycle, seen, sources, generation, restore, leftHalf>>
    BY <1>6 DEF vars, cycling, restoring, noted
  <2>2. SeenInv' /\ SavingInv' /\ PauseInv'
    BY <2>1, SeenKept, PauseKept
  <2> QED
    BY <2>1, <2>2, CycleOnly
<1> QED
  BY <1>1, <1>2, <1>3, <1>4, <1>5, <1>6 DEF Next

LEMMA CInvHolds == Spec => []CInv
<1>1. Init => CInv
  BY InitCInv
<1>2. CInv /\ [Next]_vars => CInv'
  BY NextCInv
<1> QED
  BY <1>1, <1>2, PTL DEF Spec

\* A plan that a restore is still writing is never stored: a half restored plan
\* is in a backup only when a restore ended and left the plan so, whatever
\* cycles, renames, failures and user's changes meet it (pause_auto_backup).
THEOREM HalfPlansStayOut == Spec => []NoHalfPlanStored
<1>1. CInv => NoHalfPlanStored
  <2> SUFFICES ASSUME CInv, NEW k \in Kinds, NEW n \in Names, NEW i \in DOMAIN history[k][n],
                      history[k][n][i].content = Half
               PROVE  leftHalf
    BY DEF NoHalfPlanStored
  <2>1. history[k][n][i] \in Snapshots(Storable, clock)
    BY LenProperties, ElementOfSeq DEF CInv, StoreInv, Filed, History
  <2>2. Half \in Storable
    BY <2>1 DEF Snapshots
  <2> QED
    BY <2>2, CycleNamesAssumption DEF Storable
<1> QED
  BY <1>1, CInvHolds, PTL
-----------------------------------------------------------------------------
(* What a restore overwrites is the newest change backup of all: no other      *)
(* restore takes one meanwhile, and a move that merges two histories cuts off  *)
(* their oldest.                                                               *)

NewestChange(x) == \A n \in Names : \A y \in ToSet(history["change"][n]) : y.at <= x.at
Secured == \E n \in Names : \E x \in ToSet(history["change"][n]) :
               x.content = content /\ NewestChange(x)

Overwriting == {"aligning", "running"}
UndoInv ==
    /\ userSteps \in Nat
    /\ restore # "idle" => chosen.secured \in 0 .. userSteps
    /\ restore \in Overwriting /\ userSteps = chosen.secured /\ ~chosen.unsecured => Secured

\* A step that leaves the change backups and the plan, or is not about an undo.
LEMMA UndoKept ==
  ASSUME UndoInv,
         \/ history'["change"] = history["change"] /\ content' = content
         \/ restore' \notin Overwriting,
         userSteps' = userSteps,
         restore' # "idle" => /\ restore # "idle" /\ chosen'.secured = chosen.secured
                              /\ chosen'.unsecured = chosen.unsecured,
         restore' \in Overwriting => restore \in Overwriting
  PROVE  UndoInv'
<1>1. CASE restore' \in Overwriting
  <2>1. Secured => Secured'
    BY <1>1 DEF Secured, NewestChange
  <2> QED
    BY <1>1, <2>1 DEF UndoInv, Overwriting
<1>2. CASE restore' \notin Overwriting
  BY <1>2 DEF UndoInv
<1> QED
  BY <1>1, <1>2

LEMMA SecureSecures == ASSUME CInv, UndoInv, Secure PROVE UndoInv'
<1>1. /\ restore = "securing" /\ restore' = "aligning" /\ content' = content
      /\ userSteps' = userSteps
      /\ \/ chosen' = [chosen EXCEPT !.secured = userSteps]
         \/ chosen' = [chosen EXCEPT !.unsecured = TRUE]
  BY DEF Secure, Goto, plan
<1>2. DOMAIN chosen = ChosenFields
  BY <1>1 DEF CInv, RestoreInv
<1>3. CASE chosen'.unsecured
  BY <1>1, <1>2, <1>3 DEF UndoInv, ChosenFields
<1>4. CASE ~chosen'.unsecured
  <2> DEFINE new == [at |-> clock + 1, content |-> content, restored |-> FALSE]
             change == history["change"]
             chain == Rotated(change[listed], new, ChangeSlots)
  <2>1. /\ name # NoName /\ listed # NoName
        /\ history' = [history EXCEPT !["change"][listed] = chain]
    BY <1>2, <1>4 DEF Secure, ChosenFields
  <2>2. listed \in Names /\ content \in Storable
    BY <1>1, <2>1 DEF CInv, PlanInv, Idents, AllContents, Storable, Rewriting
  <2>3. /\ clock \in Nat /\ DOMAIN history = Kinds /\ Filed(change, Names, Storable, clock)
        /\ ChangeSlots \in Nat \ {0}
    BY CycleSlotsAssumption DEF CInv, StoreInv, Kinds
  <2>4. /\ History(change[listed], Storable, clock)
        /\ \A n \in Names : TimesOf(change[n]) \subseteq 1 .. clock
    BY <2>2, <2>3, TimesSoFar DEF Filed
  <2>5. /\ TimesOf(chain) \subseteq TimesOf(change[listed]) \union {clock + 1}
        /\ new \in ToSet(chain)
    BY <2>2, <2>3, <2>4, NextRotated, NextFirst
  <2>6. /\ history'["change"][listed] = chain
        /\ \A n \in Names \ {listed} : history'["change"][n] = change[n]
    BY <2>1, <2>2, <2>3 DEF Filed, Kinds
  <2>7. new.at = clock + 1 /\ new.content = content
    OBVIOUS
  <2> HIDE DEF new, chain, change
  <2>8. \A n \in Names : TimesOf(history'["change"][n]) \subseteq 1 .. clock + 1
    <3> TAKE n \in Names
    <3>1. 1 .. clock \subseteq 1 .. clock + 1 /\ clock + 1 \in 1 .. clock + 1
      BY <2>3
    <3> QED
      BY <2>2, <2>4, <2>5, <2>6, <3>1
  <2>9. ASSUME NEW n \in Names, NEW y \in ToSet(history'["change"][n]) PROVE y.at <= new.at
    <3>1. y.at \in TimesOf(history'["change"][n])
      BY <2>9, TimesOfElements
    <3> QED
      BY <2>3, <2>7, <2>8, <3>1
  <2>10. Secured'
    BY <1>1, <2>2, <2>5, <2>6, <2>7, <2>9 DEF Secured, NewestChange
  <2>11. chosen'.secured \in 0 .. userSteps
    BY <1>1, <1>2 DEF UndoInv, ChosenFields
  <2> QED
    BY <1>1, <2>10, <2>11 DEF UndoInv
<1> QED
  BY <1>3, <1>4

LEMMA MovesSecure == ASSUME CInv, UndoInv, Moves PROVE UndoInv'
<1> DEFINE old == seen.old
           new == seen.fub
           change == history["change"]
<1>1. /\ UNCHANGED <<content, restore, chosen, userSteps>> /\ cycle = "moving"
      /\ \/ history'["change"] = change
         \/ history'["change"] =
               [change EXCEPT ![new] = Merged(@, change[old], ChangeSlots), ![old] = <<>>]
  BY DEF Moves, plan, restoring, Kinds, SlotsOf
<1>2. CASE history'["change"] = change
  BY <1>1, <1>2, UndoKept
<1>3. CASE /\ history'["change"] =
              [change EXCEPT ![new] = Merged(@, change[old], ChangeSlots), ![old] = <<>>]
           /\ restore \in Overwriting /\ userSteps = chosen.secured /\ ~chosen.unsecured
  <2> DEFINE merged == Merged(change[new], change[old], ChangeSlots)
             later == history'["change"]
  <2>1. old \in Names /\ new \in Names /\ old # new
    BY <1>1 DEF CInv, SeenInv
  <2>2. /\ clock \in Nat /\ Filed(change, Names, Storable, clock) /\ ChangeSlots \in Nat \ {0}
    BY CycleSlotsAssumption DEF CInv, StoreInv, Kinds
  <2>3. /\ History(change[new], Storable, clock) /\ History(change[old], Storable, clock)
        /\ TimesOf(change[new]) \intersect TimesOf(change[old]) = {}
    BY <2>1, <2>2 DEF Filed
  <2>4. \A n \in Names : later[n] = IF n = old THEN <<>> ELSE IF n = new THEN merged ELSE change[n]
    BY <1>3, <2>1, <2>2 DEF Filed
  <2>5. ToSet(merged) \subseteq ToSet(change[new]) \union ToSet(change[old])
    BY <2>2, <2>3, MergedHistory
  <2>6. PICK n \in Names : \E x \in ToSet(change[n]) : x.content = content /\ NewestChange(x)
    BY <1>3 DEF UndoInv, Secured
  <2>7. PICK x \in ToSet(change[n]) : x.content = content /\ NewestChange(x)
    BY <2>6
  <2>8. x \in ToSet(change[new]) \union ToSet(change[old]) => x \in ToSet(merged)
    BY <2>1, <2>2, <2>3, <2>7, MergedKeepsNewest DEF NewestChange
  <2> HIDE DEF merged, later, change, old, new
  <2>9. \E m \in Names : x \in ToSet(later[m])
    BY <2>1, <2>4, <2>7, <2>8
  <2>10. ASSUME NEW m \in Names, NEW y \in ToSet(later[m]) PROVE y.at <= x.at
    <3>1. \E k \in Names : y \in ToSet(change[k])
      BY <2>1, <2>4, <2>5, <2>10, EmptyHistory
    <3> QED
      BY <2>7, <3>1 DEF NewestChange, change
  <2>11. Secured'
    BY <1>1, <2>7, <2>9, <2>10 DEF Secured, NewestChange, later
  <2> QED
    BY <1>1, <2>11 DEF UndoInv
<1>4. CASE ~(restore \in Overwriting /\ userSteps = chosen.secured /\ ~chosen.unsecured)
  BY <1>1, <1>4 DEF UndoInv
<1> QED
  BY <1>1, <1>2, <1>3, <1>4

LEMMA UndoStays == ASSUME CInv, UndoInv, [Next]_vars PROVE UndoInv'
<1>1. CASE \/ Poll \/ CycleBegins \/ Loads \/ Judge \/ FollowRenames \/ FollowRename
           \/ RenamesDone \/ LoadFails \/ MoveFails \/ CycleTimeout \/ UNCHANGED vars
  <2>1. UNCHANGED <<history, content, restore, chosen, userSteps>>
    BY <1>1 DEF Poll, CycleBegins, Loads, Judge, FollowRenames, FollowRename, RenamesDone,
                LoadFails, MoveFails, CycleTimeout, vars, plan, store, restoring
  <2> QED
    BY <2>1, UndoKept
<1>2. CASE StoreAuto \/ SaveEnds
  <2>1. UNCHANGED <<content, restore, chosen, userSteps>>
    BY <1>2 DEF StoreAuto, SaveEnds, plan, restoring
  <2>2. history'["change"] = history["change"]
    BY <1>2 DEF StoreAuto, SaveEnds, store, CInv, StoreInv, Kinds
  <2> QED
    BY <2>1, <2>2, UndoKept
<1>3. CASE UserStep
  <2>1. userSteps' = userSteps + 1 /\ UNCHANGED <<restore, chosen>>
    BY <1>3 DEF UserStep, restoring
  <2>2. userSteps' \in Nat
    BY <2>1 DEF UndoInv
  <2>3. restore' # "idle" => /\ chosen'.secured \in 0 .. userSteps'
                             /\ chosen'.secured # userSteps'
    BY <2>1 DEF UndoInv
  <2> QED
    BY <2>2, <2>3 DEF UndoInv, Overwriting
<1>4. CASE RestoreBegins
  <2>1. restore' = "fetching" /\ chosen'.secured = userSteps /\ userSteps' = userSteps
    BY <1>4 DEF RestoreBegins
  <2> QED
    BY <2>1 DEF UndoInv, Overwriting
<1>5. CASE FetchPlan
  <2>1. /\ UNCHANGED userSteps /\ restore = "fetching" /\ restore' \notin Overwriting
        /\ chosen' = [chosen EXCEPT !.since = userSteps]
    BY <1>5 DEF FetchPlan, Goto, Ends, Overwriting
  <2>2. chosen'.secured = chosen.secured /\ chosen'.unsecured = chosen.unsecured
    BY <2>1 DEF CInv, RestoreInv, ChosenFields
  <2> QED
    BY <2>1, <2>2, UndoKept
<1>6. CASE Align
  <2>1. /\ UNCHANGED <<userSteps, chosen, content, history>>
        /\ restore = "aligning" /\ restore' = "running"
    BY <1>6 DEF Align, Goto, store
  <2> QED
    BY <2>1, UndoKept DEF Overwriting
<1>7. CASE RunFup \/ Complete \/ Verify \/ Promote \/ RestoreAborts
  <2>1. /\ UNCHANGED <<userSteps, chosen>> /\ restore # "idle" /\ restore' \notin Overwriting
    BY <1>7 DEF RunFup, Complete, Verify, Promote, RestoreAborts, Goto, Ends, Overwriting
  <2> QED
    BY <2>1, UndoKept
<1> QED
  BY <1>1, <1>2, <1>3, <1>4, <1>5, <1>6, <1>7, SecureSecures, MovesSecure
     DEF Next, CycleStep, RestoreStep

\* A restore can be undone: what it overwrites is in a change backup, unless
\* that backup failed or the user changed the plan after it was taken
\* (async_function_plan_change_backup).
THEOREM WhatIsOverwrittenIsThere == Spec => UndoIsThere
<1>1. Init => UndoInv
  BY DEF Init, UndoInv, Overwriting
<1>2. CInv /\ UndoInv /\ [Next]_vars => UndoInv'
  BY UndoStays
<1>3. UndoInv /\ [Next]_vars =>
        [restore = "running" /\ content' # content /\ userSteps' = userSteps
         /\ userSteps = chosen.secured /\ ~chosen.unsecured
         => \E n \in Names : \E i \in DOMAIN history["change"][n] :
               history["change"][n][i].content = content]_vars
  BY DEF UndoInv, Overwriting, Secured, ToSet
<1> QED
  BY <1>1, <1>2, <1>3, CInvHolds, PTL DEF Spec, UndoIsThere
-----------------------------------------------------------------------------
(* What a restore promotes is the plan: the snapshot of the time it was chosen *)
(* by never has another content, and the plan that reads back as the snapshot  *)
(* has its name.  So the cycle that reads it next finds it backed up.          *)

SameAsChosen(s) == \A x \in ToSet(s) : x.at = chosen.at => x.content = chosen.content

\* What a failed save puts back and what it replaces are of one kind.
BeforeInv ==
    cycle = "saving" =>
        \A x \in ToSet(seen.before), y \in ToSet(history["auto"][seen.fub]) :
            x.at = y.at => x.content = y.content

ChoiceInv ==
    restore # "idle" =>
        /\ chosen.at \in 1 .. clock /\ chosen.since \in 0 .. userSteps
        /\ \A n \in Names : SameAsChosen(history[chosen.kind][n])
        /\ cycle = "saving" /\ chosen.kind = "auto" => SameAsChosen(seen.before)
        /\ restore # "fetching" /\ userSteps = chosen.since /\ ~mismatch
           => name = chosen.name /\ listed = name
        /\ restore = "promoting" =>
               ~mismatch /\ (userSteps = chosen.since => content = chosen.content)

PromotedInv ==
    promoted =>
        /\ restore = "idle" /\ name \in Names /\ listed = name
        /\ NewestAuto(name) = content /\ cycle # "saving"
        /\ Active /\ seen.generation = generation =>
               seen.atLoad = name /\ (cycle # "loading" => seen.got = content)

DInv == UndoInv /\ BeforeInv /\ ChoiceInv /\ PromotedInv

\* The cycle goes on, and leaves the histories and what is to be put back.
CycleGoesOn ==
    /\ UNCHANGED <<history, clock, restore, chosen, mismatch, plan, userSteps>>
    /\ listed' \in {listed, name}
    /\ cycle' = "saving" => cycle = "saving" /\ seen' = seen

LEMMA ChoiceKept == ASSUME CInv, DInv, CycleGoesOn PROVE BeforeInv' /\ ChoiceInv'
<1>1. BeforeInv'
  BY DEF DInv, BeforeInv, CycleGoesOn
<1>2. ChoiceInv'
  BY DEF DInv, ChoiceInv, CycleGoesOn, plan, SameAsChosen
<1> QED
  BY <1>1, <1>2

LEMMA CycleGoes ==
  ASSUME CInv,
         \/ Poll \/ CycleBegins \/ Loads \/ Judge \/ FollowRenames \/ FollowRename
         \/ RenamesDone \/ LoadFails \/ MoveFails \/ CycleTimeout \/ UNCHANGED vars
  PROVE  CycleGoesOn /\ UNCHANGED <<generation, promoted>>
<1>1. UNCHANGED <<history, clock, restore, chosen, mismatch, generation, plan, userSteps, promoted>>
  BY DEF Poll, CycleBegins, Loads, Judge, FollowRenames, FollowRename, RenamesDone,
         LoadFails, MoveFails, CycleTimeout, vars, store, restoring, noted
<1>2. listed' \in {listed, name}
  BY DEF Poll, CycleBegins, Loads, Judge, FollowRenames, FollowRename, RenamesDone,
         LoadFails, MoveFails, CycleTimeout, vars
<1>3. cycle' = "saving" => cycle = "saving" /\ seen' = seen
  BY DEF Poll, CycleBegins, Loads, Judge, FollowRenames, FollowRename, RenamesDone,
         LoadFails, MoveFails, CycleTimeout, vars, cycling, CycleEnds
<1> QED
  BY <1>1, <1>2, <1>3 DEF CycleGoesOn

\* The cycle reads the plan that was promoted.
LEMMA PromotedKept ==
  ASSUME CInv, DInv,
         \/ Poll \/ CycleBegins \/ Loads \/ Judge \/ FollowRenames \/ FollowRename
         \/ RenamesDone \/ LoadFails \/ MoveFails \/ CycleTimeout \/ UNCHANGED vars
  PROVE  PromotedInv'
<1>1. CycleGoesOn /\ UNCHANGED <<generation, promoted>>
  BY CycleGoes
<1> SUFFICES ASSUME promoted PROVE PromotedInv'
  BY <1>1 DEF PromotedInv
<1>2. /\ restore = "idle" /\ name \in Names /\ listed = name /\ name # NoName
      /\ NewestAuto(name) = content /\ cycle # "saving"
      /\ Active /\ seen.generation = generation =>
             seen.atLoad = name /\ (cycle # "loading" => seen.got = content)
  BY CycleNamesAssumption DEF DInv, PromotedInv
<1>3. /\ restore' = "idle" /\ name' \in Names /\ listed' = name' /\ cycle' # "saving"
      /\ NewestAuto(name)' = content'
  BY <1>1, <1>2 DEF CycleGoesOn, plan, NewestAuto
<1>4. UNCHANGED <<generation, name, content>> /\ DOMAIN seen = SeenFields
  BY <1>1 DEF CycleGoesOn, plan, CInv, SeenInv
<1>5. CASE CycleEnds
  BY <1>3, <1>5 DEF CycleEnds, PromotedInv, Active
<1>6. CASE CycleBegins /\ ~CycleEnds
  <2>1. /\ cycle' = "loading"
        /\ seen' = [NothingSeen EXCEPT !.generation = generation, !.atLoad = listed]
    BY <1>6 DEF CycleBegins
  <2>2. seen'.atLoad = listed
    BY <2>1 DEF NothingSeen
  <2> QED
    BY <1>2, <1>3, <1>4, <2>1, <2>2 DEF PromotedInv
<1>7. CASE Loads
  <2>1. /\ cycle = "loading" /\ cycle' = "loaded"
        /\ seen' = [seen EXCEPT !.got = IF seen.atLoad = NoName THEN NoContent ELSE content]
    BY <1>7 DEF Loads
  <2>2. /\ seen'.generation = seen.generation /\ seen'.atLoad = seen.atLoad
        /\ seen'.got = IF seen.atLoad = NoName THEN NoContent ELSE content
    BY <1>4, <2>1 DEF SeenFields
  <2> QED
    BY <1>2, <1>3, <1>4, <2>1, <2>2 DEF PromotedInv, Active
<1>8. CASE \/ Poll \/ (Judge /\ ~CycleEnds) \/ FollowRenames \/ FollowRename
           \/ RenamesDone \/ MoveFails \/ UNCHANGED vars
  <2>1. \/ seen' = seen
        \/ \E n : seen' = [seen EXCEPT !.fub = n]
        \/ \E n : seen' = [seen EXCEPT !.old = n]
    BY <1>8 DEF Poll, Judge, FollowRenames, FollowRename, RenamesDone, MoveFails, vars, cycling
  <2>2. /\ seen'.generation = seen.generation /\ seen'.atLoad = seen.atLoad
        /\ seen'.got = seen.got
    BY <1>4, <2>1 DEF SeenFields
  <2>3. (Active' => Active) /\ (cycle = "loading" => cycle' = "loading" \/ ~Active')
    BY <1>8 DEF Poll, Judge, FollowRenames, FollowRename, RenamesDone, MoveFails, vars, cycling,
                Active
  <2> QED
    BY <1>2, <1>3, <1>4, <2>2, <2>3 DEF PromotedInv
<1> QED
  BY <1>5, <1>6, <1>7, <1>8 DEF LoadFails, CycleTimeout
LEMMA TimesOfChosen ==
  ASSUME NEW contents, NEW now, NEW s, History(s, contents, now), NEW x \in ToSet(s)
  PROVE  x.at \in 1 .. now /\ x.at \in TimesOf(s)
BY TimesSoFar, TimesOfElements

LEMMA StoreAutoChooses == ASSUME CInv, DInv, StoreAuto PROVE BeforeInv' /\ ChoiceInv' /\ PromotedInv'
<1>1. /\ UNCHANGED <<plan, listed, restoring, noted, userSteps>> /\ cycle = "storing"
  BY DEF StoreAuto
<1>2. CASE CycleEnds /\ UNCHANGED store
  <2>1. CycleGoesOn
    BY <1>1, <1>2 DEF CycleGoesOn, CycleEnds, store, restoring
  <2>2. BeforeInv' /\ ChoiceInv'
    BY <2>1, ChoiceKept
  <2>3. PromotedInv'
    BY <1>1, <1>2 DEF DInv, PromotedInv, CycleEnds, plan, restoring, noted, store, NewestAuto,
                      Active
  <2> QED
    BY <2>2, <2>3
<1>3. CASE ~(CycleEnds /\ UNCHANGED store)
  <2> DEFINE n == seen.fub
             auto == history["auto"]
             new == [at |-> clock + 1, content |-> seen.got, restored |-> FALSE]
             chain == Rotated(auto[n], new, AutoSlots)
  <2>1. /\ Steady /\ ~HeldBack(seen.generation) /\ Unstored(n, seen.got)
        /\ clock' = clock + 1 /\ cycle' = "saving"
        /\ history' = [history EXCEPT !["auto"][n] = chain]
        /\ seen' = [seen EXCEPT !.before = auto[n]]
    BY <1>3 DEF StoreAuto
  <2>2. /\ n \in Names /\ seen.got \in Storable /\ seen'.before = auto[n] /\ seen'.fub = n
    BY <1>1, <2>1 DEF CInv, SeenInv, PauseInv, Steady, HeldBack, Idents, AllContents, Storable,
                      SeenFields
  <2>3. /\ clock \in Nat /\ DOMAIN history = Kinds /\ Filed(auto, Names, Storable, clock)
        /\ AutoSlots \in Nat
    BY CycleSlotsAssumption DEF CInv, StoreInv, Kinds
  <2>4. History(auto[n], Storable, clock)
    BY <2>2, <2>3 DEF Filed
  <2>5. ToSet(chain) \subseteq ToSet(auto[n]) \union {new}
    BY <2>2, <2>3, <2>4, NextRotated
  <2>6. /\ \A k \in Kinds, m \in Names :
               history'[k][m] = IF k = "auto" /\ m = n THEN chain ELSE history[k][m]
    BY <2>1, <2>2, <2>3 DEF Filed, Kinds
  <2>7. ~promoted
    <3>1. seen.generation = generation /\ seen.fub = seen.atLoad /\ NewestAuto(n) # seen.got
      BY <2>1 DEF HeldBack, Steady, Unstored
    <3> QED
      BY <1>1, <3>1 DEF DInv, PromotedInv, Active
  <2>8. new.at = clock + 1
    OBVIOUS
  <2> HIDE DEF new, chain, auto
  <2>9. \A x \in ToSet(auto[n]) : x.at \in 1 .. clock
    BY <2>4, TimesOfChosen
  <2>10. ASSUME NEW x \in ToSet(auto[n]), NEW y \in ToSet(auto[n]), x.at = y.at
         PROVE  x = y
    BY <2>4, <2>10 DEF History, Distinct, ToSet
  <2>11. BeforeInv'
    <3> SUFFICES ASSUME NEW x \in ToSet(auto[n]), NEW y \in ToSet(chain), x.at = y.at
                 PROVE  x.content = y.content
      BY <2>2, <2>6 DEF BeforeInv, Kinds
    <3>1. y # new
      BY <2>3, <2>8, <2>9
    <3> QED
      BY <2>5, <2>10, <3>1
  <2>12. ChoiceInv'
    <3> SUFFICES ASSUME restore # "idle" PROVE ChoiceInv'
      BY <1>1 DEF ChoiceInv, restoring
    <3>1. /\ chosen.at \in 1 .. clock /\ chosen.kind \in Kinds
          /\ \A m \in Names : SameAsChosen(history[chosen.kind][m])
      BY DEF DInv, ChoiceInv, CInv, RestoreInv
    <3>2. chosen.at # clock + 1 /\ chosen.at \in 1 .. clock'
      BY <2>1, <2>3, <3>1
    <3>3. chosen' = chosen
      BY <1>1 DEF restoring
    <3>4. \A m \in Names : SameAsChosen(history[chosen.kind][m])'
      BY <2>5, <2>6, <2>8, <3>1, <3>2, <3>3 DEF SameAsChosen, auto
    <3>5. chosen.kind = "auto" => SameAsChosen(seen.before)'
      BY <2>2, <3>1, <3>3 DEF SameAsChosen, auto
    <3> QED
      BY <1>1, <3>2, <3>4, <3>5 DEF DInv, ChoiceInv, restoring, plan
  <2> QED
    BY <1>1, <2>7, <2>11, <2>12 DEF PromotedInv, noted
<1> QED
  BY <1>2, <1>3

LEMMA SaveEndsChoice == ASSUME CInv, DInv, SaveEnds PROVE BeforeInv' /\ ChoiceInv' /\ PromotedInv'
<1>1. /\ UNCHANGED <<plan, listed, restoring, noted, clock, userSteps>>
      /\ cycle = "saving" /\ cycle' = "idle"
      /\ \/ history' = history
         \/ history' = [history EXCEPT !["auto"][seen.fub] = seen.before]
  BY DEF SaveEnds, CycleEnds
<1>2. BeforeInv' /\ PromotedInv'
  BY <1>1 DEF DInv, BeforeInv, PromotedInv, noted
<1>3. ASSUME restore # "idle" PROVE \A n \in Names : SameAsChosen(history[chosen.kind][n])'
  <2>1. /\ chosen' = chosen /\ chosen.kind \in Kinds
        /\ \A n \in Names : SameAsChosen(history[chosen.kind][n])
        /\ chosen.kind = "auto" => SameAsChosen(seen.before)
    BY <1>1, <1>3 DEF DInv, ChoiceInv, CInv, RestoreInv, restoring
  <2>2. \A n \in Names : \/ history'[chosen.kind][n] = history[chosen.kind][n]
                         \/ chosen.kind = "auto" /\ history'[chosen.kind][n] = seen.before
    BY <1>1, <2>1 DEF CInv, StoreInv, Filed
  <2> QED
    BY <2>1, <2>2 DEF SameAsChosen
<1>4. ChoiceInv'
  BY <1>1, <1>3 DEF DInv, ChoiceInv, restoring, plan
<1> QED
  BY <1>2, <1>4

LEMMA MovesChoice == ASSUME CInv, DInv, Moves PROVE BeforeInv' /\ ChoiceInv' /\ PromotedInv'
<1> DEFINE old == seen.old
           new == seen.fub
           k == chosen.kind
<1>1. /\ UNCHANGED <<plan, listed, restoring, clock, userSteps>>
      /\ cycle = "moving" /\ cycle' = "renames" /\ ~promoted'
  BY DEF Moves
<1>2. BeforeInv' /\ PromotedInv'
  BY <1>1 DEF BeforeInv, PromotedInv
<1>3. ASSUME restore # "idle" PROVE \A n \in Names : SameAsChosen(history[chosen.kind][n])'
  <2> DEFINE merged == Merged(history[k][new], history[k][old], SlotsOf(k))
  <2>1. /\ chosen' = chosen /\ k \in Kinds
        /\ \A n \in Names : SameAsChosen(history[k][n])
    BY <1>1, <1>3 DEF DInv, ChoiceInv, CInv, RestoreInv, restoring
  <2>2. old \in Names /\ new \in Names /\ old # new
    BY <1>1 DEF CInv, SeenInv
  <2>3. /\ clock \in Nat /\ Filed(history[k], Names, Storable, clock) /\ SlotsOf(k) \in Nat
    BY <2>1, CycleSlotsAssumption DEF CInv, StoreInv, SlotsOf
  <2>4. ToSet(merged) \subseteq ToSet(history[k][new]) \union ToSet(history[k][old])
    <3>1. /\ History(history[k][new], Storable, clock) /\ History(history[k][old], Storable, clock)
          /\ TimesOf(history[k][new]) \intersect TimesOf(history[k][old]) = {}
      BY <2>2, <2>3 DEF Filed
    <3> QED
      BY <2>3, <3>1, MergedHistory
  <2>5. \/ history'[k] = history[k]
        \/ history'[k] = [history[k] EXCEPT ![new] = merged, ![old] = <<>>]
    BY <2>1 DEF Moves
  <2> HIDE DEF merged
  <2>6. \A n \in Names : history'[k][n] \in {history[k][n], merged, <<>>}
    BY <2>3, <2>5 DEF Filed
  <2>7. ToSet(<<>>) = {}
    BY EmptyHistory
  <2>8. SameAsChosen(merged)
    BY <2>1, <2>2, <2>4 DEF SameAsChosen
  <2>9. SameAsChosen(<<>>)
    BY <2>7 DEF SameAsChosen
  <2> HIDE DEF k, old, new
  <2>10. \A n \in Names : SameAsChosen(history'[k][n])
    BY <2>1, <2>6, <2>8, <2>9
  <2> QED
    BY <2>1, <2>10 DEF SameAsChosen, k
<1>4. ChoiceInv'
  BY <1>1, <1>3 DEF DInv, ChoiceInv, restoring, plan
<1> QED
  BY <1>2, <1>4

LEMMA UserStepChoice == ASSUME CInv, DInv, UserStep PROVE BeforeInv' /\ ChoiceInv' /\ PromotedInv'
<1>1. /\ UNCHANGED <<store, cycle, seen, restoring>> /\ ~promoted'
      /\ userSteps' = userSteps + 1 /\ userSteps \in Nat
  BY DEF UserStep, cycling, DInv, UndoInv
<1>2. BeforeInv' /\ PromotedInv'
  BY <1>1 DEF DInv, BeforeInv, PromotedInv, store
<1>3. ASSUME restore # "idle" PROVE ChoiceInv'
  <2>1. chosen.since \in 0 .. userSteps' /\ chosen.since # userSteps'
    BY <1>1, <1>3 DEF DInv, ChoiceInv
  <2> QED
    BY <1>1, <1>3, <2>1 DEF DInv, ChoiceInv, restoring, store, SameAsChosen
<1> QED
  BY <1>1, <1>2, <1>3 DEF ChoiceInv, restoring
\* A step of the restore that leaves what the cycle has read.
LEMMA BeforeKept ==
  ASSUME CInv, DInv, UNCHANGED cycling, UNCHANGED store \/ StoreFree PROVE BeforeInv'
BY DEF DInv, BeforeInv, cycling, store, StoreFree

LEMMA RestoreBeginsChoice ==
  ASSUME CInv, DInv, RestoreBegins PROVE BeforeInv' /\ ChoiceInv' /\ PromotedInv'
<1>1. /\ UNCHANGED <<plan, listed, store, cycling, userSteps>> /\ ~promoted'
      /\ restore' = "fetching" /\ userSteps \in Nat
  BY DEF RestoreBegins, DInv, UndoInv
<1>2. BeforeInv' /\ PromotedInv'
  BY <1>1, BeforeKept DEF PromotedInv
<1>3. PICK k \in Kinds, n \in Names : \E i \in DOMAIN history[k][n] :
        chosen' = [kind |-> k, name |-> n, at |-> history[k][n][i].at,
                   content |-> history[k][n][i].content, since |-> userSteps,
                   secured |-> userSteps, unsecured |-> FALSE]
  BY DEF RestoreBegins
<1>4. PICK i \in DOMAIN history[k][n] :
        chosen' = [kind |-> k, name |-> n, at |-> history[k][n][i].at,
                   content |-> history[k][n][i].content, since |-> userSteps,
                   secured |-> userSteps, unsecured |-> FALSE]
  BY <1>3
<1> DEFINE x == history[k][n][i]
<1>5. /\ chosen'.kind = k /\ chosen'.at = x.at /\ chosen'.content = x.content
      /\ chosen'.since = userSteps
  BY <1>4
<1>6. /\ Filed(history[k], Names, Storable, clock) /\ x \in ToSet(history[k][n])
      /\ History(history[k][n], Storable, clock)
  BY DEF CInv, StoreInv, Filed, ToSet
<1> HIDE DEF x
<1>7. x.at \in 1 .. clock /\ x.at \in TimesOf(history[k][n])
  BY <1>6, TimesOfChosen
<1>8. ASSUME NEW m \in Names, NEW y \in ToSet(history[k][m]), y.at = x.at
      PROVE  y.content = x.content
  <2>1. y.at \in TimesOf(history[k][m])
    BY <1>8, TimesOfElements
  <2>2. m = n
    BY <1>6, <1>7, <1>8, <2>1 DEF Filed
  <2> QED
    BY <1>6, <1>8, <2>2 DEF History, Distinct, ToSet
<1>9. ASSUME cycle = "saving", k = "auto", NEW y \in ToSet(seen.before), y.at = x.at
      PROVE  y.content = x.content
  <2>1. /\ seen.fub \in Names
        /\ \A m \in Names \ {seen.fub} :
               TimesOf(seen.before) \cap TimesOf(history["auto"][m]) = {}
    BY <1>9 DEF CInv, SavingInv
  <2>2. y.at \in TimesOf(seen.before)
    BY <1>9, TimesOfElements
  <2>3. n = seen.fub
    BY <1>7, <1>9, <2>1, <2>2
  <2> QED
    BY <1>6, <1>9, <2>3 DEF DInv, BeforeInv
<1>10. ChoiceInv'
  BY <1>1, <1>5, <1>7, <1>8, <1>9 DEF ChoiceInv, SameAsChosen, store, cycling
<1> QED
  BY <1>2, <1>10

\* A step of a restore that leaves its choice alone.
LEMMA ChoiceGoesOn ==
  ASSUME CInv, DInv, UNCHANGED <<store, cycling, userSteps, promoted>>, restore # "idle",
         chosen'.at = chosen.at, chosen'.kind = chosen.kind, chosen'.content = chosen.content,
         restore' # "idle" =>
             /\ chosen'.since \in 0 .. userSteps
             /\ restore' # "fetching" /\ userSteps = chosen'.since /\ ~mismatch'
                => name' = chosen'.name /\ listed' = name'
             /\ restore' = "promoting" =>
                    ~mismatch' /\ (userSteps = chosen'.since => content' = chosen'.content)
  PROVE  BeforeInv' /\ ChoiceInv' /\ PromotedInv'
<1>1. BeforeInv' /\ PromotedInv'
  BY BeforeKept DEF DInv, PromotedInv
<1>2. ChoiceInv'
  BY DEF DInv, ChoiceInv, SameAsChosen, store, cycling
<1> QED
  BY <1>1, <1>2

LEMMA FetchPlanChoice ==
  ASSUME CInv, DInv, FetchPlan PROVE BeforeInv' /\ ChoiceInv' /\ PromotedInv'
<1>1. /\ UNCHANGED <<store, cycling, userSteps, promoted, name>> /\ restore = "fetching"
      /\ listed' = IF name = NoName THEN listed ELSE name
      /\ mismatch' = (name # chosen.name)
      /\ chosen' = [chosen EXCEPT !.since = userSteps]
      /\ restore' \in {"securing", "idle"}
  BY DEF FetchPlan, Goto, Ends, plan
<1>2. /\ DOMAIN chosen = ChosenFields /\ chosen.name # NoName /\ userSteps \in Nat
  BY <1>1, CycleNamesAssumption DEF CInv, RestoreInv, DInv, UndoInv
<1>3. /\ chosen'.at = chosen.at /\ chosen'.kind = chosen.kind /\ chosen'.content = chosen.content
      /\ chosen'.name = chosen.name /\ chosen'.since = userSteps
  BY <1>1, <1>2 DEF ChosenFields
<1>4. ~mismatch' => name' = chosen'.name /\ listed' = name'
  BY <1>1, <1>2, <1>3
<1>5. userSteps \in 0 .. userSteps
  BY <1>2
<1> QED
  BY <1>1, <1>3, <1>4, <1>5, ChoiceGoesOn

LEMMA RestoreChoice ==
  ASSUME CInv, DInv, Align \/ RunFup \/ Complete \/ Verify \/ RestoreAborts
  PROVE  BeforeInv' /\ ChoiceInv' /\ PromotedInv'
<1>1. /\ UNCHANGED <<store, cycling, userSteps, promoted, chosen, mismatch>> /\ restore # "idle"
  BY DEF Align, RunFup, Complete, Verify, RestoreAborts
<1>2. /\ chosen.since \in 0 .. userSteps
      /\ restore # "fetching" /\ userSteps = chosen.since /\ ~mismatch
         => name = chosen.name /\ listed = name
  BY <1>1 DEF DInv, ChoiceInv
<1>3. CASE Align
  <2>1. /\ restore = "aligning" /\ restore' = "running"
        /\ \/ name' = chosen.name /\ listed' = chosen.name
           \/ name' = name /\ listed' = listed
    BY <1>3 DEF Align, Goto
  <2> QED
    BY <1>1, <1>2, <2>1, ChoiceGoesOn
<1>4. CASE RunFup \/ Complete
  <2>1. /\ UNCHANGED <<name, listed>> /\ restore # "fetching"
        /\ restore' \in {"completing", "verifying"}
    BY <1>4 DEF RunFup, Complete, Goto
  <2> QED
    BY <1>1, <1>2, <2>1, ChoiceGoesOn
<1>5. CASE Verify \/ RestoreAborts
  <2>1. /\ UNCHANGED <<name, listed, content>>
        /\ \/ restore' = "idle"
           \/ /\ restore = "verifying" /\ restore' = "promoting"
              /\ content = chosen.content /\ ~mismatch
    BY <1>5 DEF Verify, RestoreAborts, Goto, Ends, plan
  <2> QED
    BY <1>1, <1>2, <2>1, ChoiceGoesOn
<1> QED
  BY <1>3, <1>4, <1>5

LEMMA SecureChoice ==
  ASSUME CInv, DInv, Secure PROVE BeforeInv' /\ ChoiceInv' /\ PromotedInv'
<1>1. /\ UNCHANGED <<plan, listed, cycling, mismatch, promoted, userSteps>>
      /\ restore = "securing" /\ restore' = "aligning" /\ StoreFree
      /\ \/ chosen' = [chosen EXCEPT !.secured = userSteps]
         \/ chosen' = [chosen EXCEPT !.unsecured = TRUE]
  BY DEF Secure, Goto
<1>2. DOMAIN chosen = ChosenFields
  BY <1>1 DEF CInv, RestoreInv
<1>3. /\ chosen'.at = chosen.at /\ chosen'.kind = chosen.kind /\ chosen'.content = chosen.content
      /\ chosen'.name = chosen.name /\ chosen'.since = chosen.since
  BY <1>1, <1>2 DEF ChosenFields
<1>4. /\ chosen.at \in 1 .. clock /\ chosen.since \in 0 .. userSteps /\ chosen.kind \in Kinds
      /\ \A n \in Names : SameAsChosen(history[chosen.kind][n])
      /\ userSteps = chosen.since /\ ~mismatch => name = chosen.name /\ listed = name
  BY <1>1 DEF DInv, ChoiceInv, CInv, RestoreInv
<1>5. CASE UNCHANGED store
  BY <1>1, <1>3, <1>4, <1>5, ChoiceGoesOn DEF plan
<1>6. CASE ~UNCHANGED store
  <2> DEFINE new == [at |-> clock + 1, content |-> content, restored |-> FALSE]
             change == history["change"]
             chain == Rotated(change[listed], new, ChangeSlots)
  <2>1. /\ name # NoName /\ listed # NoName /\ clock' = clock + 1
        /\ history' = [history EXCEPT !["change"][listed] = chain]
    BY <1>6 DEF Secure
  <2>2. listed \in Names /\ content \in Storable
    BY <1>1, <2>1 DEF CInv, PlanInv, Idents, AllContents, Storable, Rewriting
  <2>3. /\ clock \in Nat /\ DOMAIN history = Kinds /\ Filed(change, Names, Storable, clock)
        /\ ChangeSlots \in Nat
    BY CycleSlotsAssumption DEF CInv, StoreInv, Kinds
  <2>4. History(change[listed], Storable, clock)
    BY <2>2, <2>3 DEF Filed
  <2>5. ToSet(chain) \subseteq ToSet(change[listed]) \union {new}
    BY <2>2, <2>3, <2>4, NextRotated
  <2>6. \A k \in Kinds, n \in Names :
            history'[k][n] = IF k = "change" /\ n = listed THEN chain ELSE history[k][n]
    BY <2>1, <2>2, <2>3 DEF Filed, Kinds
  <2>7. new.at = clock + 1
    OBVIOUS
  <2> HIDE DEF new, chain, change
  <2>8. chosen.at # clock + 1 /\ chosen.at \in 1 .. clock'
    BY <1>4, <2>1, <2>3
  <2>9. \A n \in Names : SameAsChosen(history[chosen.kind][n])'
    BY <1>3, <1>4, <2>5, <2>6, <2>7, <2>8 DEF SameAsChosen, change
  <2>10. cycle' # "saving"
    BY <1>1 DEF StoreFree, cycling
  <2>11. ChoiceInv'
    BY <1>1, <1>3, <1>4, <2>8, <2>9, <2>10 DEF ChoiceInv, plan
  <2>12. BeforeInv' /\ PromotedInv'
    BY <1>1, BeforeKept DEF DInv, PromotedInv
  <2> QED
    BY <2>11, <2>12
<1> QED
  BY <1>5, <1>6

LEMMA PromoteChoice ==
  ASSUME CInv, DInv, Promote PROVE BeforeInv' /\ ChoiceInv' /\ PromotedInv'
<1> DEFINE k == chosen.kind
           n == chosen.name
           h == history[k]
           s == Promoted(h[n], chosen.at)
<1>1. /\ UNCHANGED <<plan, listed, clock, cycling, chosen, mismatch, userSteps>>
      /\ restore = "promoting" /\ restore' = "idle" /\ StoreFree /\ UNCHANGED generation
      /\ \/ promoted' = promoted
         \/ /\ Holds(h[n], chosen.at) /\ history' = [history EXCEPT ![k][n] = s]
            /\ promoted' = (k = "auto" /\ userSteps = chosen.since)
  BY DEF Promote, Ends
<1>2. BeforeInv' /\ ChoiceInv'
  BY <1>1, BeforeKept DEF ChoiceInv
<1>3. CASE ~promoted'
  BY <1>2, <1>3 DEF PromotedInv
<1>4. CASE promoted'
  <2>1. ~promoted
    BY <1>1 DEF DInv, PromotedInv
  <2>2. /\ Holds(h[n], chosen.at) /\ history' = [history EXCEPT ![k][n] = s]
        /\ k = "auto" /\ userSteps = chosen.since
    BY <1>1, <1>4, <2>1
  <2>3. /\ n \in Names /\ name = n /\ listed = n /\ content = chosen.content
        /\ SameAsChosen(h[n])
    BY <1>1, <2>2 DEF DInv, ChoiceInv, CInv, RestoreInv
  <2>4. /\ DOMAIN history = Kinds /\ k \in Kinds /\ Filed(h, Names, Storable, clock)
        /\ clock \in Nat
    BY <2>2 DEF CInv, StoreInv, Kinds
  <2>5. History(h[n], Storable, clock)
    BY <2>3, <2>4 DEF Filed
  <2>6. /\ s # <<>>
        /\ \E y \in ToSet(h[n]) : y.at = chosen.at /\ Head(s).content = y.content
    BY <2>2, <2>4, <2>5, PromotedFirst
  <2>7. history'["auto"][n] = s
    BY <2>2, <2>3, <2>4 DEF Filed
  <2> HIDE DEF s
  <2>8. Head(s).content = content
    BY <2>3, <2>6 DEF SameAsChosen
  <2>9. name' = n /\ content' = content
    BY <1>1, <2>3 DEF plan
  <2>10. NewestAuto(name)' = content'
    BY <2>6, <2>7, <2>8, <2>9 DEF NewestAuto
  <2>11. ~(Active' /\ seen'.generation = generation')
    BY <1>1 DEF CInv, PauseInv, Active, cycling
  <2> QED
    BY <1>1, <1>2, <2>3, <2>9, <2>10, <2>11 DEF PromotedInv, StoreFree, cycling
<1> QED
  BY <1>3, <1>4

LEMMA NextDInv == ASSUME CInv, DInv, [Next]_vars PROVE DInv'
<1>1. UndoInv'
  BY UndoStays DEF DInv
<1>2. CASE \/ Poll \/ CycleBegins \/ Loads \/ Judge \/ FollowRenames \/ FollowRename
           \/ RenamesDone \/ LoadFails \/ MoveFails \/ CycleTimeout \/ UNCHANGED vars
  BY <1>1, <1>2, CycleGoes, ChoiceKept, PromotedKept DEF DInv
<1> QED
  BY <1>1, <1>2, StoreAutoChooses, SaveEndsChoice, MovesChoice, UserStepChoice,
     RestoreBeginsChoice, FetchPlanChoice, RestoreChoice, SecureChoice, PromoteChoice
     DEF DInv, Next, CycleStep, RestoreStep

LEMMA NothingNewAfterRestore ==
  ASSUME CInv, DInv, [Next]_vars, promoted, promoted' PROVE history' = history
<1>1. restore = "idle" /\ cycle # "saving"
  BY DEF DInv, PromotedInv
<1>2. CASE \/ Poll \/ CycleBegins \/ Loads \/ Judge \/ FollowRenames \/ FollowRename
           \/ RenamesDone \/ LoadFails \/ MoveFails \/ CycleTimeout \/ UNCHANGED vars
  BY <1>2, CycleGoes DEF CycleGoesOn
<1>3. CASE StoreAuto
  <2>1. ASSUME Steady, ~HeldBack(seen.generation), Unstored(seen.fub, seen.got) PROVE FALSE
    <3>1. seen.generation = generation /\ seen.fub = seen.atLoad /\ NewestAuto(seen.fub) # seen.got
      BY <2>1 DEF HeldBack, Steady, Unstored
    <3> QED
      BY <1>3, <3>1 DEF DInv, PromotedInv, Active, StoreAuto
  <2> QED
    BY <1>3, <2>1 DEF StoreAuto, store
<1>4. ~(Moves \/ SaveEnds \/ UserStep \/ RestoreBegins)
  BY <1>1 DEF Moves, SaveEnds, UserStep, RestoreBegins
<1>5. ~(RestoreStep \/ RestoreAborts)
  BY <1>1 DEF RestoreStep, FetchPlan, Secure, Align, RunFup, Complete, Verify, Promote,
              RestoreAborts
<1> QED
  BY <1>2, <1>3, <1>4, <1>5 DEF Next, CycleStep

\* An automatic backup that was restored is not stored a second time: until the
\* plan changes again or backups of a former name join its own, no cycle adds a
\* snapshot, whichever cycle was under way (async_mark_restored).
THEOREM RestoredIsNotStoredAgain == Spec => NoDuplicateAfterRestore
<1>1. Init => DInv
  BY DEF Init, DInv, UndoInv, Overwriting, BeforeInv, ChoiceInv, PromotedInv
<1>2. CInv /\ DInv /\ [Next]_vars => DInv'
  BY NextDInv
<1>3. CInv /\ DInv /\ [Next]_vars =>
        [promoted /\ promoted' => AutoTimes' \subseteq AutoTimes]_vars
  BY NothingNewAfterRestore DEF AutoTimes
<1> QED
  BY <1>1, <1>2, <1>3, CInvHolds, PTL DEF Spec, NoDuplicateAfterRestore

==============================================================================
