-------------------------- MODULE ValuePathProofs --------------------------
(* Guard R1 for any number of sources, overlapping polls, changes and          *)
(* failures. What makes it inductive: no reading anywhere is newer than        *)
(* Comexio's value (so what a poll reads is not older than what is shown by    *)
(* then), and what changed since without a mark is unknown or is the snapshot. *)
(* The proofs about KnxBridges, a module of its own, follow at the end.         *)
EXTENDS ValuePath, KnxBridges, FiniteSetTheorems, SequenceTheorems, WellFoundedInduction, TLAPS

-----------------------------------------------------------------------------
(* Readings                                                                    *)

\* What is behind an ID can be read while something is.
LEMMA ExistsReading ==
    ASSUME TypeOK, NEW s \in Sources, Exists(s) PROVE value[s] \in Reading
BY DEF TypeOK, Exists, Reading

\* An answer of Comexio is a reading or none.
LEMMA AnswerType ==
    ASSUME TypeOK, NEW p \in Polls, NEW s \in Sources PROVE Answer(p, s) \in MaybeReading
BY ExistsReading DEF Answer, MaybeReading

\* What a change makes of a source.
LEMMA BecomesType ==
    ASSUME TypeOK, NEW s \in Sources, NEW t \in Things \union {NoThing}, Becomes(s, t),
           s \in Markers => t \in Things
    PROVE  /\ value' \in [Sources -> [of : Things \union {NoThing}, at : Nat]]
           /\ \A m \in Markers : value'[m].of \in Things
           /\ clock' \in Nat /\ setting' \in Cases
           /\ value'[s] = [of |-> t, at |-> clock + 1]
BY DEF TypeOK, Becomes, Sources

\* A stored reading leaves the caches well-typed.
LEMMA StoreType ==
    ASSUME TypeOK, NEW s \in Sources, NEW v \in MaybeReading, Store(s, v)
    PROVE  shown' \in [Sources -> MaybeReading] /\ dirty' \subseteq Sources /\ real' \subseteq Ios
BY DEF TypeOK, Store, MarkReceived, Sources

-----------------------------------------------------------------------------
(* Types                                                                       *)

LEMMA TypeInit == ASSUME Init PROVE TypeOK
<1> USE ValuePathAssumption
<1>1. PICK t \in Things : value = [s \in Sources |-> [of |-> t, at |-> 0]]
  BY DEF Init
<1>2. value \in [Sources -> Reading]
  BY <1>1 DEF Reading
<1>3. shown \in [Sources -> MaybeReading] /\ NothingRead \in [Sources -> MaybeReading]
  BY <1>2 DEF Init, MaybeReading, NothingRead
<1>4. EmptyPage \in [Sources -> Things \union {NoThing}]
  BY DEF EmptyPage
<1>5. value \in [Sources -> [of : Things \union {NoThing}, at : Nat]] /\ \A m \in Markers : value[m].of \in Things
  BY <1>2 DEF Reading, Sources
<1>6. identity \in [Ios -> Things \union {NoThing}]
  BY <1>5 DEF Init, Sources
<1> QED
  BY <1>3, <1>4, <1>5, <1>6 DEF Init, TypeOK, Push

\* What Comexio and its users do.
LEMMA TypeChanges ==
    ASSUME TypeOK, NEW s \in Sources, Changes(s) PROVE TypeOK'
<1> USE ValuePathAssumption
<1>1. Exists(s) /\ Becomes(s, value[s].of)
  BY DEF Changes
<1>2. value[s] \in Reading
  BY <1>1, ExistsReading
<1>3. value[s].of \in Things
  BY <1>2 DEF Reading
<1>4. /\ value' \in [Sources -> [of : Things \union {NoThing}, at : Nat]]
      /\ \A m \in Markers : value'[m].of \in Things
      /\ clock' \in Nat /\ setting' \in Cases
      /\ value'[s] = [of |-> value[s].of, at |-> clock + 1]
  BY <1>1, <1>3, BecomesType
<1>5. pushes' \subseteq Push
  BY <1>3, <1>4 DEF Changes, Push, Reading, TypeOK
<1> QED
  BY <1>4, <1>5 DEF Changes, TypeOK, cache, polls, writes, history

LEMMA TypeReassigns ==
    ASSUME TypeOK, NEW s \in Sources, NEW t \in Things \union {NoThing}, Reassigns(s, t) PROVE TypeOK'
<1> USE ValuePathAssumption
<1>1. Becomes(s, t) /\ s \notin Markers
  BY DEF Reassigns
<1>2. /\ value' \in [Sources -> [of : Things \union {NoThing}, at : Nat]]
      /\ \A m \in Markers : value'[m].of \in Things
      /\ clock' \in Nat /\ setting' \in Cases
  BY <1>1, BecomesType
<1> QED
  BY <1>2 DEF Reassigns, TypeOK, cache, polls, writes, history

\* What the webhook and HA's own writes store.
LEMMA TypeDelivery ==
    ASSUME TypeOK, Delivery PROVE TypeOK'
<1>1. PICK m \in pushes : PushArrives(m) \/ PushUnreadable(m) \/ PushLost(m)
  BY DEF Delivery
<1>2. m \in Push /\ m.src \in Sources /\ m.val \in MaybeReading
  BY <1>1 DEF TypeOK, Push, MaybeReading
<1>3. CASE PushArrives(m)
  <2>1. Store(m.src, m.val)
    BY <1>3 DEF PushArrives
  <2>2. shown' \in [Sources -> MaybeReading] /\ dirty' \subseteq Sources /\ real' \subseteq Ios
    BY <1>2, <2>1, StoreType
  <2> QED
    BY <1>2, <1>3, <2>2 DEF PushArrives, TypeOK, comexio, polls, history
<1>4. CASE PushUnreadable(m)
  BY <1>2, <1>4, ValuePathAssumption DEF PushUnreadable, Fault, TypeOK, comexio, polls, writes, history, MaybeReading
<1>5. CASE PushLost(m)
  BY <1>5, ValuePathAssumption DEF PushLost, Fault, TypeOK, comexio, cache, polls, writes, history
<1> QED
  BY <1>1, <1>3, <1>4, <1>5

LEMMA TypeWrites ==
    ASSUME TypeOK, NEW s \in Sources, WriteSent(s) \/ WriteEnds(s) PROVE TypeOK'
<1>1. CASE WriteSent(s)
  BY <1>1 DEF WriteSent, TypeOK, comexio, cache, polls, history
<1>2. CASE WriteApplied(s)
  <2>1. Exists(s) /\ Becomes(s, value[s].of)
    BY <1>2 DEF WriteApplied
  <2>2. value[s].of \in Things
    BY <2>1, ExistsReading DEF Reading
  <2>3. /\ value' \in [Sources -> [of : Things \union {NoThing}, at : Nat]]
        /\ \A m \in Markers : value'[m].of \in Things
        /\ clock' \in Nat /\ setting' \in Cases
        /\ value'[s] = [of |-> value[s].of, at |-> clock + 1]
    BY <2>1, <2>2, BecomesType
  <2>4. value'[s] \in Reading
    BY <2>2, <2>3 DEF Reading, TypeOK
  <2>5. pushes' \subseteq Push /\ written' \in [Sources -> MaybeReading]
    BY <1>2, <2>4 DEF WriteApplied, Push, MaybeReading, TypeOK
  <2> QED
    BY <1>2, <2>3, <2>5 DEF WriteApplied, TypeOK, cache, polls, history
<1>3. CASE WriteConfirmed(s)
  <2>1. shown' \in [Sources -> MaybeReading] /\ dirty' \subseteq Sources /\ real' \subseteq Ios
    <3>1. CASE s \in Ios \intersect pushed
      BY <1>3, <3>1 DEF WriteConfirmed, TypeOK
    <3>2. CASE s \notin Ios \intersect pushed
      <4>1. Store(s, written[s]) /\ written[s] \in MaybeReading
        BY <1>3, <3>2 DEF WriteConfirmed, TypeOK
      <4> QED
        BY <4>1, StoreType
    <3> QED
      BY <3>1, <3>2
  <2> QED
    BY <1>3, <2>1 DEF WriteConfirmed, TypeOK, comexio, polls, history, MaybeReading
<1>4. CASE WriteFails(s)
  BY <1>4 DEF WriteFails, TypeOK, comexio, cache, polls, history, MaybeReading
<1> QED
  BY <1>1, <1>2, <1>3, <1>4 DEF WriteEnds

\* What a poll does.
LEMMA PollOverType ==
    ASSUME TypeOK, NEW p \in Polls, PollOver(p)
    PROVE  /\ page' \in [Polls -> [Sources -> Things \union {NoThing}]] /\ scraped' \in [Polls -> BOOLEAN]
           /\ read' \in [Polls -> [Sources -> MaybeReading]]
           /\ pageAt' \in [Polls -> Nat] /\ alone' \subseteq Polls
BY DEF PollOver, TypeOK, EmptyPage, NothingRead, MaybeReading

LEMMA TypePollBegins ==
    ASSUME TypeOK, NEW p \in Polls, PollBegins(p) PROVE TypeOK'
BY DEF PollBegins, Goes, ClearMarks, TypeOK, comexio, writes

LEMMA TypeConfigRead ==
    ASSUME TypeOK, NEW p \in Polls, ConfigRead(p) PROVE TypeOK'
<1>1. [s \in Sources |-> value[s].of] \in [Sources -> Things \union {NoThing}]
  BY DEF TypeOK
<1>2. page' \in [Polls -> [Sources -> Things \union {NoThing}]] /\ scraped' \in [Polls -> BOOLEAN] /\ faults' \in Nat
  <2>1. CASE /\ page' = [page EXCEPT ![p] = [s \in Sources |-> value[s].of]]
             /\ scraped' = [scraped EXCEPT ![p] = TRUE] /\ UNCHANGED faults
    BY <1>1, <2>1 DEF TypeOK
  <2>2. CASE UNCHANGED <<page, scraped>> /\ Fault
    BY <2>2 DEF Fault, TypeOK
  <2> QED
    BY <2>1, <2>2 DEF ConfigRead
<1>3. pc' \in [Polls -> {"idle", "config", "live", "ios", "merge"}] /\ pageAt' \in [Polls -> Nat]
  BY DEF ConfigRead, Goes, TypeOK
<1> QED
  BY <1>2, <1>3 DEF ConfigRead, TypeOK, comexio, cache, writes

LEMMA TypeLiveRead ==
    ASSUME TypeOK, NEW p \in Polls, LiveRead(p) PROVE TypeOK'
<1>1. read' \in [Polls -> [Sources -> MaybeReading]] /\ faults' \in Nat
  <2>1. CASE \E missing \in SUBSET Knx :
                /\ IF missing = {} THEN UNCHANGED faults ELSE Fault
                /\ read' = [read EXCEPT ![p] = [s \in Sources |-> IF s \in missing THEN Unknown ELSE Answer(p, s)]]
    <3>1. PICK missing \in SUBSET Knx :
                /\ IF missing = {} THEN UNCHANGED faults ELSE Fault
                /\ read' = [read EXCEPT ![p] = [s \in Sources |-> IF s \in missing THEN Unknown ELSE Answer(p, s)]]
      BY <2>1
    <3>2. [s \in Sources |-> IF s \in missing THEN Unknown ELSE Answer(p, s)] \in [Sources -> MaybeReading]
      BY AnswerType DEF MaybeReading
    <3> QED
      BY <3>1, <3>2, ValuePathAssumption DEF Fault, TypeOK
  <2>2. CASE /\ Fault
             /\ read' = [read EXCEPT ![p] = [s \in Sources |-> IF s \in Ios THEN Answer(p, s) ELSE shown[s]]]
    <3>1. [s \in Sources |-> IF s \in Ios THEN Answer(p, s) ELSE shown[s]] \in [Sources -> MaybeReading]
      BY AnswerType DEF TypeOK
    <3> QED
      BY <2>2, <3>1, ValuePathAssumption DEF Fault, TypeOK
  <2> QED
    BY <2>1, <2>2 DEF LiveRead
<1>2. pc' \in [Polls -> {"idle", "config", "live", "ios", "merge"}]
  BY DEF LiveRead, Goes, TypeOK
<1> QED
  BY <1>1, <1>2 DEF LiveRead, TypeOK, comexio, cache, writes, history

LEMMA ForgetType ==
    ASSUME TypeOK, NEW p \in Polls, Forget(p)
    PROVE  /\ shown' \in [Sources -> MaybeReading] /\ real' \subseteq Ios /\ dirty' \subseteq Sources
           /\ identity' \in [Ios -> Things \union {NoThing}] /\ namedAt' \in [Ios -> Nat]
BY DEF Forget, TypeOK, Sources, Named, MaybeReading

\* The readings a poll has once the IOs were asked.
LEMMA IosReadGot ==
    ASSUME TypeOK, NEW p \in Polls, IosRead(p)
    PROVE  \E missing \in SUBSET Ios, answer \in {read[p], [s \in Sources |-> Answer(p, s)]} :
              /\ read' = [read EXCEPT ![p] = Got(p, missing, answer)]
              /\ polledReal' \subseteq Ios
              /\ faults' \in Nat
<1>1. PICK missing \in SUBSET {i \in Ios : Named(p, i)}, answer \in {read[p], [s \in Sources |-> Answer(p, s)]} :
          /\ IF missing = {} THEN UNCHANGED faults ELSE Fault
          /\ read' = [read EXCEPT ![p] = Got(p, missing, answer)]
          /\ polledReal' = {i \in Ios : Named(p, i) /\ (Got(p, missing, answer)[i] # Unknown \/ i \in real')}
  BY DEF IosRead
<1>2. missing \in SUBSET Ios /\ polledReal' \subseteq Ios
  BY <1>1
<1>3. faults' \in Nat
  BY <1>1, ValuePathAssumption DEF Fault, TypeOK
<1> QED
  BY <1>1, <1>2, <1>3

LEMMA TypeIosRead ==
    ASSUME TypeOK, NEW p \in Polls, IosRead(p) PROVE TypeOK'
<1>1. /\ shown' \in [Sources -> MaybeReading] /\ real' \subseteq Ios /\ dirty' \subseteq Sources
      /\ identity' \in [Ios -> Things \union {NoThing}] /\ namedAt' \in [Ios -> Nat]
  BY ForgetType DEF IosRead
<1>2. PICK missing \in SUBSET Ios, answer \in {read[p], [s \in Sources |-> Answer(p, s)]} :
              /\ read' = [read EXCEPT ![p] = Got(p, missing, answer)]
              /\ polledReal' \subseteq Ios
              /\ faults' \in Nat
  BY IosReadGot
<1>3. answer \in [Sources -> MaybeReading] /\ read[p] \in [Sources -> MaybeReading]
  BY <1>2, AnswerType DEF TypeOK
<1>4. KnownIos \in [Ios -> MaybeReading]
  BY <1>1 DEF KnownIos, MaybeReading, Sources
<1>5. Got(p, missing, answer) \in [Sources -> MaybeReading]
  BY <1>3, <1>4 DEF Got
<1>6. pc' \in [Polls -> {"idle", "config", "live", "ios", "merge"}]
  BY DEF IosRead, Goes, TypeOK
<1> QED
  BY <1>1, <1>2, <1>5, <1>6 DEF IosRead, TypeOK, comexio, writes

LEMMA TypeMerge ==
    ASSUME TypeOK, NEW p \in Polls, Merge(p) PROVE TypeOK'
<1>1. /\ page' \in [Polls -> [Sources -> Things \union {NoThing}]] /\ scraped' \in [Polls -> BOOLEAN]
      /\ read' \in [Polls -> [Sources -> MaybeReading]]
      /\ pageAt' \in [Polls -> Nat] /\ alone' \subseteq Polls
  BY PollOverType DEF Merge
<1>2. shown' \in [Sources -> MaybeReading]
  BY DEF Merge, TypeOK, MaybeReading
<1>3. real' \subseteq Ios /\ identity' \in [Ios -> Things \union {NoThing}] /\ index' \in [Ios -> Things \union {NoThing}]
  BY DEF Merge, TypeOK, Sources
<1>4. pc' \in [Polls -> {"idle", "config", "live", "ios", "merge"}]
  BY DEF Merge, Goes, TypeOK
<1> QED
  BY <1>1, <1>2, <1>3, <1>4 DEF Merge, TypeOK, comexio, writes

LEMMA TypePollFails ==
    ASSUME TypeOK, NEW p \in Polls, PollFails(p) PROVE TypeOK'
<1>1. /\ page' \in [Polls -> [Sources -> Things \union {NoThing}]] /\ scraped' \in [Polls -> BOOLEAN]
      /\ read' \in [Polls -> [Sources -> MaybeReading]]
      /\ pageAt' \in [Polls -> Nat] /\ alone' \subseteq Polls
  BY PollOverType DEF PollFails
<1>2. pc' \in [Polls -> {"idle", "config", "live", "ios", "merge"}] /\ faults' \in Nat
  BY ValuePathAssumption DEF PollFails, Fault, TypeOK
<1> QED
  BY <1>1, <1>2 DEF PollFails, TypeOK, comexio, cache, writes

LEMMA TypeNext == ASSUME TypeOK, [Next]_vars PROVE TypeOK'
<1>1. CASE Next
  BY <1>1, TypeChanges, TypeReassigns, TypeDelivery, TypeWrites, TypePollBegins, TypeConfigRead,
     TypeLiveRead, TypeIosRead, TypeMerge, TypePollFails DEF Next, PollGoesOn
<1>2. CASE UNCHANGED vars
  BY <1>2 DEF vars, TypeOK, comexio, cache, polls, writes, history
<1> QED
  BY <1>1, <1>2

\* Every behaviour keeps to the types of the state.
THEOREM TypeCorrect == Spec => []TypeOK
BY TypeInit, TypeNext, PTL DEF Spec

-----------------------------------------------------------------------------
(* No reading is newer than what it was read from                              *)

AtMost(r, s) == r = Unknown \/ r.at <= value[s].at

ShownNotNewer == \A s \in Sources : AtMost(shown[s], s)
WrittenNotNewer == \A s \in Sources : AtMost(written[s], s)
PushesNotNewer == \A m \in pushes : AtMost(m.val, m.src)
ReadNotNewer == \A p \in Polls : \A s \in Sources : AtMost(read[p][s], s)
ValueNotNewer == \A s \in Sources : value[s].at <= clock

NothingNewer == ValueNotNewer /\ ShownNotNewer /\ WrittenNotNewer /\ PushesNotNewer /\ ReadNotNewer

LEMMA NewerInit == ASSUME Init PROVE NothingNewer
<1>1. PICK t \in Things : value = [s \in Sources |-> [of |-> t, at |-> 0]]
  BY DEF Init
<1> QED
  BY <1>1 DEF Init, NothingNewer, ValueNotNewer, ShownNotNewer, WrittenNotNewer, PushesNotNewer, ReadNotNewer,
     AtMost, NothingRead

\* Comexio's values only grow newer, and so does the room of every reading.
LEMMA BecomesNewer ==
    ASSUME TypeOK, ValueNotNewer, NEW s \in Sources, NEW t \in Things \union {NoThing}, Becomes(s, t)
    PROVE  /\ ValueNotNewer'
           /\ \A x \in Sources : value[x].at <= value'[x].at
           /\ value'[s] = [of |-> t, at |-> clock + 1]
BY DEF TypeOK, ValueNotNewer, Becomes

Grows == \A x \in Sources : value[x].at <= value'[x].at

LEMMA AtMostGrows ==
    ASSUME TypeOK, TypeOK', Grows, NEW s \in Sources, NEW r \in MaybeReading, AtMost(r, s)
    PROVE  r = Unknown \/ r.at <= value'[s].at
BY DEF TypeOK, Grows, AtMost, MaybeReading, Reading

\* Where nothing new is read, readings stay not newer.
LEMMA OldPushes ==
    ASSUME TypeOK, TypeOK', PushesNotNewer, Grows, \A m \in pushes' : m \in pushes \/ m.val = value'[m.src]
    PROVE  PushesNotNewer'
<1> SUFFICES ASSUME NEW m \in pushes' PROVE m.val = Unknown \/ m.val.at <= value'[m.src].at
  BY DEF PushesNotNewer, AtMost
<1>1. m.src \in Sources /\ m.val \in Reading /\ value'[m.src].at \in Nat
  BY DEF TypeOK, Push
<1>2. CASE m.val = value'[m.src]
  BY <1>1, <1>2
<1>3. CASE m \in pushes
  <2>1. AtMost(m.val, m.src) /\ m.val \in MaybeReading
    BY <1>1, <1>3 DEF PushesNotNewer, MaybeReading
  <2> QED
    BY <1>1, <2>1, AtMostGrows
<1> QED
  BY <1>2, <1>3

LEMMA OldReadings ==
    ASSUME TypeOK, TypeOK', NothingNewer, Grows, ValueNotNewer',
           shown' = shown, written' = written, read' = read,
           \A m \in pushes' : m \in pushes \/ m.val = value'[m.src]
    PROVE  NothingNewer'
<1>1. ShownNotNewer' /\ WrittenNotNewer' /\ ReadNotNewer'
  BY DEF NothingNewer, ShownNotNewer, WrittenNotNewer, ReadNotNewer, AtMost, Grows, TypeOK, MaybeReading, Reading
<1>2. PushesNotNewer'
  BY OldPushes DEF NothingNewer
<1> QED
  BY <1>1, <1>2 DEF NothingNewer

LEMMA NewerChanges ==
    ASSUME TypeOK, TypeOK', NothingNewer, NEW s \in Sources, Changes(s) PROVE NothingNewer'
<1>1. Becomes(s, value[s].of) /\ value[s].of \in Things \union {NoThing} /\ ValueNotNewer
  BY DEF Changes, NothingNewer, TypeOK
<1>2. ValueNotNewer' /\ Grows
  BY <1>1, BecomesNewer DEF Grows
<1>3. \A m \in pushes' : m \in pushes \/ m.val = value'[m.src]
  BY DEF Changes
<1> QED
  BY <1>2, <1>3, OldReadings DEF Changes, cache, polls, writes

LEMMA NewerReassigns ==
    ASSUME TypeOK, TypeOK', NothingNewer, NEW s \in Sources, NEW t \in Things \union {NoThing}, Reassigns(s, t)
    PROVE  NothingNewer'
<1>1. ValueNotNewer' /\ Grows
  BY BecomesNewer DEF Reassigns, NothingNewer, Grows
<1> QED
  BY <1>1, OldReadings DEF Reassigns, cache, polls, writes

LEMMA NewerApplied ==
    ASSUME TypeOK, TypeOK', NothingNewer, NEW s \in Sources, WriteApplied(s) PROVE NothingNewer'
<1>1. Becomes(s, value[s].of) /\ value[s].of \in Things \union {NoThing} /\ ValueNotNewer
  BY DEF WriteApplied, NothingNewer, TypeOK
<1>2. ValueNotNewer' /\ Grows
  BY <1>1, BecomesNewer DEF Grows
<1>3. ShownNotNewer' /\ ReadNotNewer'
  BY <1>2 DEF WriteApplied, cache, polls, NothingNewer, ShownNotNewer, ReadNotNewer, AtMost, Grows, TypeOK,
     MaybeReading, Reading
<1>4. PushesNotNewer'
  <2>1. \A m \in pushes' : m \in pushes \/ m.val = value'[m.src]
    BY DEF WriteApplied
  <2> QED
    BY <1>2, <2>1, OldPushes DEF NothingNewer
<1>5. WrittenNotNewer'
  BY <1>2 DEF WriteApplied, NothingNewer, WrittenNotNewer, AtMost, Grows, TypeOK, MaybeReading, Reading
<1> QED
  BY <1>2, <1>3, <1>4, <1>5 DEF NothingNewer

\* What is stored was on its way, what is forgotten is unknown.
LEMMA NewerStored ==
    ASSUME TypeOK, NothingNewer, UNCHANGED value, NEW s \in Sources, NEW v, AtMost(v, s), Store(s, v)
    PROVE  ShownNotNewer'
BY DEF Store, NothingNewer, ShownNotNewer, AtMost, TypeOK

LEMMA NewerDelivery ==
    ASSUME TypeOK, NothingNewer, Delivery PROVE NothingNewer'
<1>1. PICK m \in pushes : PushArrives(m) \/ PushUnreadable(m) \/ PushLost(m)
  BY DEF Delivery
<1>2. m.src \in Sources /\ AtMost(m.val, m.src)
  BY <1>1 DEF TypeOK, Push, NothingNewer, PushesNotNewer
<1>3. UNCHANGED <<value, clock, read, written>> /\ pushes' \subseteq pushes
  BY <1>1 DEF PushArrives, PushUnreadable, PushLost, comexio, polls, writes
<1>4. ShownNotNewer'
  <2>1. CASE PushArrives(m)
    BY <1>2, <1>3, <2>1, NewerStored DEF PushArrives
  <2>2. CASE PushUnreadable(m)
    BY <1>3, <2>2 DEF PushUnreadable, NothingNewer, ShownNotNewer, AtMost, TypeOK
  <2>3. CASE PushLost(m)
    BY <1>3, <2>3 DEF PushLost, cache, NothingNewer, ShownNotNewer, AtMost
  <2> QED
    BY <1>1, <2>1, <2>2, <2>3
<1> QED
  BY <1>3, <1>4 DEF NothingNewer, ValueNotNewer, WrittenNotNewer, PushesNotNewer, ReadNotNewer, AtMost

LEMMA NewerWrites ==
    ASSUME TypeOK, NothingNewer, NEW s \in Sources, WriteSent(s) \/ WriteConfirmed(s) \/ WriteFails(s)
    PROVE  NothingNewer'
<1>1. UNCHANGED <<value, clock, read, pushes>>
  BY DEF WriteSent, WriteConfirmed, WriteFails, comexio, polls
<1>2. WrittenNotNewer'
  BY <1>1 DEF WriteSent, WriteConfirmed, WriteFails, NothingNewer, WrittenNotNewer, AtMost, TypeOK
<1>3. ShownNotNewer'
  <2>1. CASE UNCHANGED shown
    BY <1>1, <2>1 DEF NothingNewer, ShownNotNewer, AtMost
  <2>2. CASE WriteConfirmed(s) /\ Store(s, written[s])
    <3>1. AtMost(written[s], s)
      BY DEF NothingNewer, WrittenNotNewer
    <3> QED
      BY <1>1, <2>2, <3>1, NewerStored
  <2> QED
    BY <2>1, <2>2 DEF WriteSent, WriteConfirmed, WriteFails, cache
<1> QED
  BY <1>1, <1>2, <1>3 DEF NothingNewer, ValueNotNewer, PushesNotNewer, ReadNotNewer, AtMost

\* What Comexio answers is what it holds by then.
LEMMA AnswerNotNewer ==
    ASSUME TypeOK, NEW p \in Polls, NEW s \in Sources PROVE AtMost(Answer(p, s), s)
BY DEF AtMost, Answer, TypeOK

LEMMA NewerPollOver ==
    ASSUME TypeOK, NothingNewer, NEW p \in Polls, PollOver(p), UNCHANGED <<comexio, pushes, writes>>, ShownNotNewer'
    PROVE  NothingNewer'
<1>1. ReadNotNewer'
  BY DEF PollOver, NothingRead, NothingNewer, ReadNotNewer, AtMost, TypeOK, comexio
<1> QED
  BY <1>1 DEF NothingNewer, ValueNotNewer, WrittenNotNewer, PushesNotNewer, AtMost, comexio, writes

\* What is merged was read before, what vanished is unknown.
LEMMA NewerMerge ==
    ASSUME TypeOK, NothingNewer, NEW p \in Polls, Merge(p) PROVE NothingNewer'
<1>1. ShownNotNewer'
  BY DEF Merge, NothingNewer, ShownNotNewer, ReadNotNewer, AtMost, TypeOK, comexio
<1> QED
  BY <1>1, NewerPollOver DEF Merge

\* What a live answer, or the values known without one, leave of each source.
LEMMA LiveReadOneOf ==
    ASSUME TypeOK, NEW p \in Polls, LiveRead(p)
    PROVE  \E r \in [Sources -> MaybeReading] :
              /\ read' = [read EXCEPT ![p] = r]
              /\ \A s \in Sources : r[s] \in {Unknown, Answer(p, s), shown[s]}
<1>1. CASE \E missing \in SUBSET Knx :
              read' = [read EXCEPT ![p] = [s \in Sources |-> IF s \in missing THEN Unknown ELSE Answer(p, s)]]
  <2>1. PICK missing \in SUBSET Knx :
              read' = [read EXCEPT ![p] = [s \in Sources |-> IF s \in missing THEN Unknown ELSE Answer(p, s)]]
    BY <1>1
  <2>2. [s \in Sources |-> IF s \in missing THEN Unknown ELSE Answer(p, s)] \in [Sources -> MaybeReading]
    BY AnswerType DEF MaybeReading
  <2> QED
    BY <2>1, <2>2
<1>2. CASE read' = [read EXCEPT ![p] = [s \in Sources |-> IF s \in Ios THEN Answer(p, s) ELSE shown[s]]]
  <2>1. [s \in Sources |-> IF s \in Ios THEN Answer(p, s) ELSE shown[s]] \in [Sources -> MaybeReading]
    BY AnswerType DEF TypeOK
  <2> QED
    BY <1>2, <2>1
<1> QED
  BY <1>1, <1>2 DEF LiveRead

LEMMA NewerLiveRead ==
    ASSUME TypeOK, NothingNewer, NEW p \in Polls, LiveRead(p) PROVE NothingNewer'
<1>1. PICK r \in [Sources -> MaybeReading] :
         /\ read' = [read EXCEPT ![p] = r]
         /\ \A s \in Sources : r[s] \in {Unknown, Answer(p, s), shown[s]}
  BY LiveReadOneOf
<1>2. \A s \in Sources : AtMost(r[s], s)
  BY <1>1, AnswerNotNewer DEF NothingNewer, ShownNotNewer, AtMost
<1>3. ReadNotNewer'
  BY <1>1, <1>2 DEF LiveRead, comexio, NothingNewer, ReadNotNewer, AtMost, TypeOK
<1> QED
  BY <1>3 DEF LiveRead, comexio, cache, writes, NothingNewer, ValueNotNewer, ShownNotNewer, WrittenNotNewer,
     PushesNotNewer, AtMost

\* Forgetting changes what is shown to unknown, and takes marks from what is unknown.
LEMMA ForgetShown ==
    ASSUME TypeOK, NEW p \in Polls, Forget(p)
    PROVE  /\ \A s \in Sources : shown'[s] \in {Unknown, shown[s]}
           /\ \A s \in Sources : s \in dirty \ dirty' => shown'[s] = Unknown
           /\ dirty' \subseteq dirty
BY DEF Forget, Reassigned, Sources, TypeOK

\* The readings of an IO poll are the answer, what was asked for, what is shown, or none.
LEMMA GotOneOf ==
    ASSUME TypeOK, NEW p \in Polls, Forget(p), NEW missing, NEW s \in Sources,
           NEW answer \in {read[p], [x \in Sources |-> Answer(p, x)]}
    PROVE  Got(p, missing, answer)[s] \in {read[p][s], Answer(p, s), shown[s], Unknown}
<1>1. Got(p, missing, answer)[s] =
         IF s \notin Ios \/ ~Named(p, s) THEN read[p][s]
         ELSE IF s \in missing \/ answer[s] = Unknown THEN KnownIos[s] ELSE answer[s]
  BY DEF Got
<1>2. s \in Ios => KnownIos[s] \in {Unknown, shown[s]}
  BY ForgetShown DEF KnownIos
<1>3. answer[s] \in {read[p][s], Answer(p, s)}
  OBVIOUS
<1> QED
  BY <1>1, <1>2, <1>3

LEMMA NewerIosRead ==
    ASSUME TypeOK, NothingNewer, NEW p \in Polls, IosRead(p) PROVE NothingNewer'
<1>1. PICK missing \in SUBSET Ios, answer \in {read[p], [s \in Sources |-> Answer(p, s)]} :
         read' = [read EXCEPT ![p] = Got(p, missing, answer)]
  BY IosReadGot
<1>2. Forget(p)
  BY DEF IosRead
<1>3. \A s \in Sources : AtMost(Got(p, missing, answer)[s], s)
  <2>1. \A s \in Sources : Got(p, missing, answer)[s] \in {read[p][s], Answer(p, s), shown[s], Unknown}
    BY <1>1, <1>2, GotOneOf
  <2> QED
    BY <2>1, AnswerNotNewer DEF NothingNewer, ShownNotNewer, ReadNotNewer, AtMost
<1>4. ReadNotNewer'
  BY <1>1, <1>3 DEF IosRead, comexio, NothingNewer, ReadNotNewer, AtMost, TypeOK
<1>5. ShownNotNewer'
  BY <1>2, ForgetShown DEF IosRead, comexio, NothingNewer, ShownNotNewer, AtMost
<1> QED
  BY <1>4, <1>5 DEF IosRead, comexio, writes, NothingNewer, ValueNotNewer, WrittenNotNewer, PushesNotNewer, AtMost

LEMMA NewerNext == ASSUME TypeOK, TypeOK', NothingNewer, [Next]_vars PROVE NothingNewer'
<1>1. ASSUME NEW s \in Sources, Changes(s) \/ WriteSent(s) \/ WriteEnds(s) PROVE NothingNewer'
  BY <1>1, NewerChanges, NewerApplied, NewerWrites DEF WriteEnds
<1>2. ASSUME NEW p \in Polls, PollBegins(p) \/ ConfigRead(p) PROVE NothingNewer'
  BY <1>2 DEF PollBegins, ConfigRead, comexio, cache, writes, NothingNewer, ValueNotNewer, ShownNotNewer,
     WrittenNotNewer, PushesNotNewer, ReadNotNewer, AtMost
<1>3. ASSUME NEW p \in Polls, PollFails(p) PROVE NothingNewer'
  <2>1. ShownNotNewer'
    BY <1>3 DEF PollFails, comexio, cache, NothingNewer, ShownNotNewer, AtMost
  <2> QED
    BY <1>3, <2>1, NewerPollOver DEF PollFails
<1>4. CASE UNCHANGED vars
  BY <1>4 DEF vars, comexio, cache, polls, writes, NothingNewer, ValueNotNewer, ShownNotNewer, WrittenNotNewer,
     PushesNotNewer, ReadNotNewer, AtMost
<1> QED
  BY <1>1, <1>2, <1>3, <1>4, NewerReassigns, NewerDelivery, NewerLiveRead, NewerIosRead, NewerMerge
     DEF Next, PollGoesOn

-----------------------------------------------------------------------------
(* The snapshot of a poll that runs alone                                      *)

NoneBeside == \A p \in alone : \A q \in Polls : q # p => pc[q] = "idle"

HasSnapshot(p) == pc[p] \in {"ios", "merge"}
Covers(p) == \A s \in Sources \ dirty : NotOlder(shown[s], read[p][s])
SnapshotCovers == \A p \in alone : HasSnapshot(p) => Covers(p)

IInv == TypeOK /\ NothingNewer /\ NoneBeside /\ SnapshotCovers

LEMMA IInvInit == ASSUME Init PROVE IInv
BY TypeInit, NewerInit DEF Init, IInv, NoneBeside, SnapshotCovers

LEMMA NoneBesideNext == ASSUME TypeOK, NoneBeside, [Next]_vars PROVE NoneBeside'
<1>1. ASSUME NEW p \in Polls, PollBegins(p) PROVE NoneBeside'
  BY <1>1 DEF PollBegins, Goes, Running, NoneBeside, TypeOK
<1>2. ASSUME NEW p \in Polls, ConfigRead(p) \/ LiveRead(p) \/ IosRead(p) PROVE NoneBeside'
  <2>1. pc[p] # "idle" /\ UNCHANGED alone /\ \A q \in Polls : q # p => pc'[q] = pc[q]
    BY <1>2 DEF ConfigRead, LiveRead, IosRead, Goes, history, TypeOK
  <2> QED
    BY <2>1 DEF NoneBeside, TypeOK
<1>3. ASSUME NEW p \in Polls, Merge(p) \/ PollFails(p) PROVE NoneBeside'
  <2>1. alone' \subseteq alone /\ pc' = [pc EXCEPT ![p] = "idle"]
    BY <1>3 DEF Merge, PollFails, Goes, PollOver
  <2> QED
    BY <2>1 DEF NoneBeside, TypeOK
<1>4. CASE UNCHANGED <<alone, pc>>
  BY <1>4 DEF NoneBeside
<1>5. ASSUME NEW s \in Sources, Changes(s) \/ WriteSent(s) \/ WriteEnds(s) PROVE UNCHANGED <<alone, pc>>
  BY <1>5 DEF Changes, WriteSent, WriteEnds, WriteApplied, WriteConfirmed, WriteFails, polls, history
<1>6. ASSUME NEW s \in Sources, NEW t \in Things \union {NoThing}, Reassigns(s, t) PROVE UNCHANGED <<alone, pc>>
  BY <1>6 DEF Reassigns, polls, history
<1>7. CASE Delivery
  BY <1>4, <1>7 DEF Delivery, PushArrives, PushUnreadable, PushLost, polls, history
<1>8. CASE UNCHANGED vars
  BY <1>4, <1>8 DEF vars, polls, history
<1> QED
  BY <1>1, <1>2, <1>3, <1>4, <1>5, <1>6, <1>7, <1>8 DEF Next, PollGoesOn

\* A poll keeps what it covers while it reads nothing and what changes is marked or unknown.
StoresMarked ==
    \A s \in Sources : s \notin dirty' => shown'[s] = Unknown \/ (s \notin dirty /\ shown'[s] = shown[s])

LEMMA StoredMarked ==
    ASSUME TypeOK, UNCHANGED <<pc, read, alone>>, StoresMarked, SnapshotCovers PROVE SnapshotCovers'
BY DEF StoresMarked, SnapshotCovers, HasSnapshot, Covers, NotOlder

LEMMA StoreMarks ==
    ASSUME TypeOK, NEW s \in Sources, NEW v, Store(s, v) PROVE StoresMarked
BY DEF TypeOK, Store, MarkReceived, StoresMarked

LEMMA DeliveryCovered ==
    ASSUME TypeOK, SnapshotCovers, Delivery PROVE SnapshotCovers'
<1>1. PICK m \in pushes : PushArrives(m) \/ PushUnreadable(m) \/ PushLost(m)
  BY DEF Delivery
<1>2. m.src \in Sources
  BY <1>1 DEF TypeOK, Push
<1>3. UNCHANGED <<pc, read, alone>>
  BY <1>1 DEF PushArrives, PushUnreadable, PushLost, polls, history
<1>4. StoresMarked
  <2>1. CASE PushArrives(m)
    BY <1>2, <2>1, StoreMarks DEF PushArrives
  <2>2. CASE PushUnreadable(m)
    BY <1>2, <2>2 DEF PushUnreadable, StoresMarked, TypeOK
  <2>3. CASE PushLost(m)
    BY <2>3 DEF PushLost, cache, StoresMarked
  <2> QED
    BY <1>1, <2>1, <2>2, <2>3
<1> QED
  BY <1>3, <1>4, StoredMarked

LEMMA ConfirmedCovered ==
    ASSUME TypeOK, SnapshotCovers, NEW s \in Sources, WriteConfirmed(s) PROVE SnapshotCovers'
<1>1. UNCHANGED <<pc, read, alone>>
  BY DEF WriteConfirmed, polls, history
<1>2. StoresMarked
  <2>1. CASE UNCHANGED <<shown, dirty, real>>
    BY <2>1 DEF StoresMarked
  <2>2. CASE Store(s, written[s])
    BY <2>2, StoreMarks
  <2> QED
    BY <2>1, <2>2 DEF WriteConfirmed
<1> QED
  BY <1>1, <1>2, StoredMarked

\* A poll that runs alone is the one that moves.
LEMMA OnlyIt ==
    ASSUME NoneBeside, NEW p \in alone, NEW q \in Polls, pc[q] # "idle" PROVE p = q
BY DEF NoneBeside

LEMMA LiveReadCovers ==
    ASSUME TypeOK, ShownNotNewer, NEW p \in Polls, LiveRead(p) PROVE Covers(p)'
<1>1. PICK r \in [Sources -> MaybeReading] :
         /\ read' = [read EXCEPT ![p] = r]
         /\ \A s \in Sources : r[s] \in {Unknown, Answer(p, s), shown[s]}
  BY LiveReadOneOf
<1>2. UNCHANGED <<shown, dirty>>
  BY DEF LiveRead, cache
<1> SUFFICES ASSUME NEW s \in Sources PROVE NotOlder(shown[s], r[s])
  BY <1>1, <1>2 DEF Covers, NotOlder, TypeOK
<1>3. AtMost(shown[s], s) /\ shown[s] \in MaybeReading
  BY DEF ShownNotNewer, TypeOK
<1>4. Answer(p, s) \in {Unknown, value[s]}
  BY DEF Answer
<1>5. shown[s] = Unknown \/ shown[s].at \in Nat
  BY <1>3 DEF MaybeReading, Reading
<1> QED
  BY <1>1, <1>3, <1>4, <1>5 DEF NotOlder, AtMost

LEMMA IosReadCovers ==
    ASSUME TypeOK, ShownNotNewer, NEW p \in Polls, Covers(p), IosRead(p) PROVE Covers(p)'
<1>1. PICK missing \in SUBSET Ios, answer \in {read[p], [s \in Sources |-> Answer(p, s)]} :
         read' = [read EXCEPT ![p] = Got(p, missing, answer)]
  BY IosReadGot
<1>2. Forget(p)
  BY DEF IosRead
<1> SUFFICES ASSUME NEW s \in Sources, s \notin dirty' PROVE NotOlder(shown'[s], Got(p, missing, answer)[s])
  BY <1>1 DEF Covers, NotOlder, TypeOK
<1>3. CASE shown'[s] = Unknown
  BY <1>3 DEF NotOlder
<1>4. CASE shown'[s] = shown[s] /\ s \notin dirty
  <2>1. NotOlder(shown[s], read[p][s])
    BY <1>4 DEF Covers
  <2>2. Got(p, missing, answer)[s] \in {read[p][s], Answer(p, s), shown[s], Unknown}
    BY <1>1, <1>2, GotOneOf
  <2>3. AtMost(shown[s], s) /\ shown[s] \in MaybeReading
    BY DEF ShownNotNewer, TypeOK
  <2>4. Answer(p, s) \in {Unknown, value[s]}
    BY DEF Answer
  <2>5. shown[s] = Unknown \/ shown[s].at \in Nat
    BY <2>3 DEF MaybeReading, Reading
  <2> QED
    BY <1>4, <2>1, <2>2, <2>3, <2>4, <2>5 DEF NotOlder, AtMost
<1> QED
  BY <1>2, <1>3, <1>4, ForgetShown

LEMMA CoveredNext == ASSUME IInv, [Next]_vars PROVE SnapshotCovers'
<1>1. TypeOK /\ ShownNotNewer /\ NoneBeside /\ SnapshotCovers
  BY DEF IInv, NothingNewer
<1>2. ASSUME NEW p \in Polls, PollBegins(p) PROVE SnapshotCovers'
  BY <1>1, <1>2 DEF PollBegins, Goes, SnapshotCovers, HasSnapshot, TypeOK
<1>3. ASSUME NEW p \in Polls, ConfigRead(p) PROVE SnapshotCovers'
  <2>1. pc[p] # "idle" /\ pc'[p] = "live" /\ UNCHANGED alone
    BY <1>1, <1>3 DEF ConfigRead, Goes, TypeOK
  <2> QED
    BY <1>1, <2>1, OnlyIt DEF SnapshotCovers, HasSnapshot
<1>4. ASSUME NEW p \in Polls, LiveRead(p) PROVE SnapshotCovers'
  <2>1. pc[p] # "idle" /\ UNCHANGED alone
    BY <1>4 DEF LiveRead, Goes, history
  <2>2. Covers(p)'
    BY <1>1, <1>4, LiveReadCovers
  <2> QED
    BY <1>1, <2>1, <2>2, OnlyIt DEF SnapshotCovers
<1>5. ASSUME NEW p \in Polls, IosRead(p) PROVE SnapshotCovers'
  <2>1. pc[p] = "ios" /\ UNCHANGED alone
    BY <1>5 DEF IosRead, Goes
  <2> SUFFICES ASSUME p \in alone PROVE Covers(p)'
    BY <1>1, <2>1, OnlyIt DEF SnapshotCovers
  <2>2. Covers(p)
    BY <1>1, <2>1 DEF SnapshotCovers, HasSnapshot
  <2> QED
    BY <1>1, <1>5, <2>2, IosReadCovers
<1>6. ASSUME NEW p \in Polls, Merge(p) \/ PollFails(p) PROVE SnapshotCovers'
  <2>1. pc[p] # "idle" /\ alone' = alone \ {p}
    BY <1>6 DEF Merge, PollFails, Goes, PollOver
  <2>2. alone' = {}
    BY <1>1, <2>1, OnlyIt
  <2> QED
    BY <2>2 DEF SnapshotCovers
<1>7. CASE UNCHANGED <<shown, dirty, pc, read, alone>>
  BY <1>1, <1>7 DEF SnapshotCovers, HasSnapshot, Covers, NotOlder
<1>8. ASSUME NEW s \in Sources, Changes(s) \/ WriteSent(s) \/ WriteApplied(s) \/ WriteFails(s)
      PROVE  UNCHANGED <<shown, dirty, pc, read, alone>>
  BY <1>8 DEF Changes, WriteSent, WriteApplied, WriteFails, cache, polls, history
<1>9. ASSUME NEW s \in Sources, NEW t \in Things \union {NoThing}, Reassigns(s, t)
      PROVE  UNCHANGED <<shown, dirty, pc, read, alone>>
  BY <1>9 DEF Reassigns, cache, polls, history
<1>10. CASE UNCHANGED vars
  BY <1>7, <1>10 DEF vars, cache, polls, history
<1> QED
  BY <1>1, <1>2, <1>3, <1>4, <1>5, <1>6, <1>7, <1>8, <1>9, <1>10, DeliveryCovered, ConfirmedCovered
     DEF Next, PollGoesOn, WriteEnds

LEMMA IInvNext == ASSUME IInv, [Next]_vars PROVE IInv'
<1>1. TypeOK /\ NothingNewer /\ NoneBeside
  BY DEF IInv
<1>2. TypeOK'
  BY <1>1, TypeNext
<1> QED
  BY <1>1, <1>2, NewerNext, NoneBesideNext, CoveredNext DEF IInv

-----------------------------------------------------------------------------
(* Guard R1                                                                    *)

KeepsPushes ==
    \A p \in Polls : p \in alone /\ pc'[p] # pc[p] => \A s \in Sources : NotOlder(shown[s], shown'[s])

LEMMA NotOlderSelf ==
    ASSUME TypeOK, NEW s \in Sources PROVE NotOlder(shown[s], shown[s])
BY DEF NotOlder, TypeOK, MaybeReading, Reading

LEMMA MergeKeeps ==
    ASSUME TypeOK, NEW p \in Polls, Covers(p), Merge(p)
    PROVE  \A s \in Sources : NotOlder(shown[s], shown'[s])
<1> SUFFICES ASSUME NEW s \in Sources PROVE NotOlder(shown[s], shown'[s])
  OBVIOUS
<1>1. shown'[s] = IF s \in Vanished(p) THEN Unknown ELSE IF Merged(p, s) THEN read[p][s] ELSE shown[s]
  BY DEF Merge
<1>2. Merged(p, s) => NotOlder(shown[s], read[p][s])
  BY DEF Merged, Covers
<1> QED
  BY <1>1, <1>2, NotOlderSelf DEF NotOlder

LEMMA KeepsPushesNext == ASSUME IInv, [Next]_vars PROVE KeepsPushes
<1>1. TypeOK /\ NoneBeside /\ SnapshotCovers
  BY DEF IInv
<1>2. CASE UNCHANGED shown
  BY <1>1, <1>2, NotOlderSelf DEF KeepsPushes
<1>3. CASE UNCHANGED pc
  BY <1>3 DEF KeepsPushes
<1>4. ASSUME NEW p \in Polls, PollBegins(p) \/ ConfigRead(p) \/ LiveRead(p) \/ PollFails(p) PROVE UNCHANGED shown
  BY <1>4 DEF PollBegins, ConfigRead, LiveRead, PollFails, cache
<1>5. ASSUME NEW p \in Polls, IosRead(p) PROVE KeepsPushes
  <2>1. \A s \in Sources : shown'[s] \in {Unknown, shown[s]}
    BY <1>1, <1>5, ForgetShown DEF IosRead
  <2> QED
    BY <1>1, <2>1, NotOlderSelf DEF KeepsPushes, NotOlder
<1>6. ASSUME NEW p \in Polls, Merge(p) PROVE KeepsPushes
  <2>1. pc[p] = "merge" /\ \A q \in Polls : q # p => pc'[q] = pc[q]
    BY <1>1, <1>6 DEF Merge, Goes, TypeOK
  <2> SUFFICES ASSUME p \in alone PROVE \A s \in Sources : NotOlder(shown[s], shown'[s])
    BY <2>1 DEF KeepsPushes
  <2>2. Covers(p)
    BY <1>1, <2>1 DEF SnapshotCovers, HasSnapshot
  <2> QED
    BY <1>1, <1>6, <2>2, MergeKeeps
<1>7. ASSUME NEW s \in Sources, Changes(s) \/ WriteSent(s) \/ WriteEnds(s) PROVE UNCHANGED pc
  BY <1>7 DEF Changes, WriteSent, WriteEnds, WriteApplied, WriteConfirmed, WriteFails, polls
<1>8. ASSUME NEW s \in Sources, NEW t \in Things \union {NoThing}, Reassigns(s, t) PROVE UNCHANGED pc
  BY <1>8 DEF Reassigns, polls
<1>9. CASE Delivery
  BY <1>3, <1>9 DEF Delivery, PushArrives, PushUnreadable, PushLost, polls
<1>10. CASE UNCHANGED vars
  BY <1>3, <1>10 DEF vars, polls
<1> QED
  BY <1>2, <1>3, <1>4, <1>5, <1>6, <1>7, <1>8, <1>9, <1>10 DEF Next, PollGoesOn

\* No step of a poll that ran alone shows an older value than was pushed, written or polled before,
\* whatever was lost, failed, reassigned or written meanwhile.
THEOREM PollKeepsPushesHolds == Spec => PollKeepsPushes
<1>1. Spec => []IInv
  BY IInvInit, IInvNext, PTL DEF Spec
<1>2. ASSUME IInv, [Next]_vars
      PROVE  [\A p \in Polls :
                p \in alone /\ pc'[p] # pc[p] => \A s \in Sources : NotOlder(shown[s], shown'[s])]_vars
  BY <1>2, KeepsPushesNext DEF KeepsPushes
<1> QED
  BY <1>1, <1>2, PTL DEF Spec, PollKeepsPushes
-----------------------------------------------------------------------------
(* No IO inherits a reading: while no polls overlapped, an ID without an IO    *)
(* shows nothing, a poll's readings are of what its page named or newer than   *)
(* the page, and the IOs of the page are those of the cache once it merges.    *)

HasPage(p) == pc[p] \in {"live", "ios", "merge"}
OfOrSince(r, t, at) == r = Unknown \/ r.of = t \/ r.at > at

Clocks == (\A p \in Polls : pageAt[p] <= clock) /\ (\A i \in Ios : namedAt[i] <= clock)
NoPageYet == \A p \in Polls : pc[p] \in {"idle", "config"} => page[p] = EmptyPage

OnePoll == \A p \in Polls, q \in Polls : pc[p] # "idle" /\ pc[q] # "idle" => p = q
UnnamedUnknown == \A i \in Ios : identity[i] = NoThing => index[i] = NoThing /\ shown[i] = Unknown
ShownOfNamed == \A i \in Ios : identity[i] # NoThing => OfOrSince(shown[i], identity[i], namedAt[i])
NamedBeforePage == \A p \in Polls, i \in Ios : HasPage(p) => namedAt[i] <= pageAt[p]
PageHolds ==
    \A p \in Polls, i \in Ios :
        HasPage(p) /\ Named(p, i) => value[i].of = page[p][i] \/ value[i].at > pageAt[p]
ReadSincePage ==
    \A p \in Polls, i \in Ios : pc[p] = "ios" /\ Named(p, i) => OfOrSince(read[p][i], page[p][i], pageAt[p])
MergesNamed ==
    \A p \in Polls, i \in Ios :
        pc[p] = "merge" /\ Named(p, i)
            => identity[i] = page[p][i] /\ OfOrSince(read[p][i], identity[i], namedAt[i])

Lone ==
    /\ OnePoll /\ UnnamedUnknown /\ ShownOfNamed /\ NamedBeforePage
    /\ PageHolds /\ ReadSincePage /\ MergesNamed
NInv == TypeOK /\ ValueNotNewer /\ Clocks /\ NoPageYet /\ (~met => Lone)

LEMMA NInvInit == ASSUME Init PROVE NInv
<1>1. PICK t \in Things : value = [s \in Sources |-> [of |-> t, at |-> 0]]
  BY DEF Init
<1>2. \A i \in Ios : shown[i].of = t /\ identity[i] = t /\ t # NoThing
  BY <1>1, ValuePathAssumption DEF Init, Sources
<1>3. Lone
  BY <1>2 DEF Init, Lone, OnePoll, UnnamedUnknown, ShownOfNamed, NamedBeforePage, PageHolds, ReadSincePage,
     MergesNamed, HasPage, OfOrSince
<1>4. Clocks /\ NoPageYet
  BY DEF Init, Clocks, NoPageYet
<1> QED
  BY <1>3, <1>4, TypeInit, NewerInit DEF NInv, NothingNewer

\* The clock goes on, and no page or name is of later.
LEMMA ClocksNext == ASSUME TypeOK, Clocks, [Next]_vars PROVE Clocks'
<1>1. CASE UNCHANGED <<pageAt, namedAt>> /\ clock' \in Nat /\ clock' >= clock
  BY <1>1 DEF Clocks, TypeOK
<1>2. ASSUME NEW s \in Sources, NEW t \in Things \union {NoThing},
             Changes(s) \/ WriteSent(s) \/ WriteEnds(s) \/ Reassigns(s, t)
      PROVE  Clocks'
  BY <1>1, <1>2 DEF Changes, WriteSent, WriteEnds, WriteApplied, WriteConfirmed, WriteFails, Reassigns, Becomes,
     comexio, history, TypeOK
<1>3. CASE Delivery
  BY <1>1, <1>3 DEF Delivery, PushArrives, PushUnreadable, PushLost, comexio, history, TypeOK
<1>4. ASSUME NEW p \in Polls, PollBegins(p) \/ LiveRead(p) PROVE Clocks'
  BY <1>1, <1>4 DEF PollBegins, LiveRead, comexio, history, TypeOK
<1>5. ASSUME NEW p \in Polls, ConfigRead(p) PROVE Clocks'
  BY <1>5 DEF ConfigRead, comexio, Clocks, TypeOK
<1>6. ASSUME NEW p \in Polls, IosRead(p) PROVE Clocks'
  BY <1>6 DEF IosRead, Forget, comexio, Clocks, TypeOK
<1>7. ASSUME NEW p \in Polls, Merge(p) \/ PollFails(p) PROVE Clocks'
  <2>1. pageAt' = [pageAt EXCEPT ![p] = 0] /\ UNCHANGED <<clock, namedAt>>
    BY <1>7 DEF Merge, PollFails, PollOver, comexio
  <2>2. \A q \in Polls : pageAt'[q] \in {0, pageAt[q]}
    BY <2>1 DEF TypeOK
  <2> QED
    BY <2>1, <2>2 DEF Clocks, TypeOK
<1>8. CASE UNCHANGED vars
  BY <1>1, <1>8 DEF vars, comexio, history, TypeOK
<1> QED
  BY <1>2, <1>3, <1>4, <1>5, <1>6, <1>7, <1>8 DEF Next, PollGoesOn

\* A poll has no page before it read one, and none afterwards.
LEMMA NoPageNext == ASSUME TypeOK, NoPageYet, [Next]_vars PROVE NoPageYet'
<1>1. CASE UNCHANGED <<pc, page>>
  BY <1>1 DEF NoPageYet
<1>2. ASSUME NEW s \in Sources, NEW t \in Things \union {NoThing},
             Changes(s) \/ WriteSent(s) \/ WriteEnds(s) \/ Reassigns(s, t)
      PROVE  UNCHANGED <<pc, page>>
  BY <1>2 DEF Changes, WriteSent, WriteEnds, WriteApplied, WriteConfirmed, WriteFails, Reassigns, polls
<1>3. CASE Delivery
  BY <1>1, <1>3 DEF Delivery, PushArrives, PushUnreadable, PushLost, polls
<1>4. ASSUME NEW p \in Polls, PollBegins(p) PROVE NoPageYet'
  BY <1>4 DEF PollBegins, Goes, NoPageYet, TypeOK
<1>5. ASSUME NEW p \in Polls, ConfigRead(p) PROVE NoPageYet'
  BY <1>5 DEF ConfigRead, Goes, NoPageYet, TypeOK
<1>6. ASSUME NEW p \in Polls, LiveRead(p) \/ IosRead(p) PROVE NoPageYet'
  BY <1>6 DEF LiveRead, IosRead, Goes, NoPageYet, TypeOK
<1>7. ASSUME NEW p \in Polls, Merge(p) \/ PollFails(p) PROVE NoPageYet'
  BY <1>7 DEF Merge, PollFails, Goes, PollOver, NoPageYet, TypeOK
<1>8. CASE UNCHANGED vars
  BY <1>1, <1>8 DEF vars, polls
<1> QED
  BY <1>1, <1>2, <1>3, <1>4, <1>5, <1>6, <1>7, <1>8 DEF Next, PollGoesOn

\* What happens to a source between the steps of a poll keeps what its page named: the source is the
\* same, or has changed since.
LEMMA LoneHolds ==
    ASSUME TypeOK, TypeOK', Clocks, Lone, UNCHANGED <<pc, page, pageAt, read, identity, index, namedAt>>,
           \A i \in Ios : value'[i] = value[i] \/ value'[i].at > clock,
           \A i \in Ios : shown'[i] \in {shown[i], Unknown}
                             \/ (identity[i] # NoThing /\ shown'[i].of = identity[i])
    PROVE  Lone'
<1>1. PageHolds'
  <2> SUFFICES ASSUME NEW p \in Polls, NEW i \in Ios, HasPage(p), page[p][i] # NoThing
      PROVE  value'[i].of = page[p][i] \/ value'[i].at > pageAt[p]
    BY DEF PageHolds, HasPage, Named
  <2>1. value[i].of = page[p][i] \/ value[i].at > pageAt[p]
    BY DEF Lone, PageHolds, Named
  <2>2. value[i].at \in Nat /\ value'[i].at \in Nat /\ pageAt[p] \in Nat /\ clock \in Nat /\ pageAt[p] <= clock
    BY DEF TypeOK, Sources, Clocks
  <2> QED
    BY <2>1, <2>2
<1>2. UnnamedUnknown' /\ ShownOfNamed'
  BY DEF Lone, UnnamedUnknown, ShownOfNamed, OfOrSince
<1> QED
  BY <1>1, <1>2 DEF Lone, OnePoll, NamedBeforePage, ReadSincePage, MergesNamed, HasPage, Named, OfOrSince

LEMMA LoneBecomes ==
    ASSUME TypeOK, TypeOK', Clocks, Lone, NEW s \in Sources, NEW t \in Things \union {NoThing}, Becomes(s, t),
           UNCHANGED <<pc, page, pageAt, read, identity, index, namedAt, shown>>
    PROVE  Lone'
<1>1. \A i \in Ios : value'[i] = value[i] \/ value'[i].at > clock
  BY DEF Becomes, TypeOK, Sources
<1> QED
  BY <1>1, LoneHolds

\* What is stored for an IO is of the IO HA takes its ID for.
LEMMA LoneStores ==
    ASSUME TypeOK, TypeOK', Clocks, Lone, NEW s \in Sources, NEW v \in MaybeReading, Store(s, v),
           UNCHANGED <<pc, page, pageAt, read, identity, index, namedAt, value>>
    PROVE  Lone'
<1>1. \A i \in Ios : shown'[i] \in {shown[i], Unknown} \/ (identity[i] # NoThing /\ shown'[i].of = identity[i])
  <2> SUFFICES ASSUME NEW i \in Ios, i = s, FindsIo(s, v.of), v # Unknown, shown' = [shown EXCEPT ![s] = v]
      PROVE  identity[i] # NoThing /\ shown'[i].of = identity[i]
    BY DEF Store, TypeOK, Sources
  <2>1. v.of \in Things /\ v.of # NoThing
    BY ValuePathAssumption DEF MaybeReading, Reading
  <2>2. identity[i] = v.of
    BY <2>1 DEF FindsIo, Lone, UnnamedUnknown
  <2> QED
    BY <2>1, <2>2 DEF TypeOK
<1> QED
  BY <1>1, LoneHolds

LEMMA LoneDelivery ==
    ASSUME TypeOK, TypeOK', Clocks, Lone, Delivery PROVE Lone'
<1>1. PICK m \in pushes : PushArrives(m) \/ PushUnreadable(m) \/ PushLost(m)
  BY DEF Delivery
<1>2. m.src \in Sources /\ m.val \in MaybeReading
  BY <1>1 DEF TypeOK, Push, MaybeReading
<1>3. UNCHANGED <<pc, page, pageAt, read, identity, index, namedAt, value>>
  BY <1>1 DEF PushArrives, PushUnreadable, PushLost, comexio, cache, polls, history
<1>4. CASE PushArrives(m)
  BY <1>2, <1>3, <1>4, LoneStores DEF PushArrives
<1>5. CASE PushUnreadable(m)
  <2>1. \A i \in Ios : shown'[i] \in {shown[i], Unknown}
    BY <1>5 DEF PushUnreadable, TypeOK, Sources
  <2> QED
    BY <1>3, <2>1, LoneHolds
<1>6. CASE PushLost(m)
  BY <1>3, <1>6, LoneHolds DEF PushLost, cache
<1> QED
  BY <1>1, <1>4, <1>5, <1>6

LEMMA LoneSources ==
    ASSUME TypeOK, TypeOK', Clocks, Lone, NEW s \in Sources, NEW t \in Things \union {NoThing},
           Changes(s) \/ WriteSent(s) \/ WriteEnds(s) \/ Reassigns(s, t)
    PROVE  Lone'
<1>1. CASE WriteConfirmed(s)
  <2>1. UNCHANGED <<pc, page, pageAt, read, identity, index, namedAt, value>> /\ written[s] \in MaybeReading
    BY <1>1 DEF WriteConfirmed, comexio, polls, history, TypeOK
  <2>2. UNCHANGED shown \/ Store(s, written[s])
    BY <1>1 DEF WriteConfirmed
  <2> QED
    BY <2>1, <2>2, LoneStores, LoneHolds
<1>2. CASE WriteSent(s) \/ WriteFails(s)
  BY <1>2, LoneHolds DEF WriteSent, WriteFails, comexio, cache, polls, history
<1>3. ASSUME NEW u \in Things \union {NoThing}, Becomes(s, u), Changes(s) \/ WriteApplied(s) \/ Reassigns(s, u)
      PROVE  Lone'
  BY <1>3, LoneBecomes DEF Changes, WriteApplied, Reassigns, cache, polls, history
<1>4. value[s].of \in Things \union {NoThing}
  BY DEF TypeOK
<1> QED
  BY <1>1, <1>2, <1>3, <1>4 DEF WriteEnds, Changes, WriteApplied, Reassigns

LEMMA LonePollBegins ==
    ASSUME TypeOK, Lone, NEW p \in Polls, PollBegins(p), ~met' PROVE Lone'
<1>1. Running = {} /\ pc' = [pc EXCEPT ![p] = "config"]
  BY DEF PollBegins, Goes
<1>2. \A q \in Polls : pc[q] = "idle" /\ pc'[q] \in {"idle", "config"} /\ (pc'[q] # "idle" => q = p)
  BY <1>1 DEF Running, TypeOK
<1>3. UNCHANGED <<shown, identity, index, namedAt>>
  BY DEF PollBegins
<1> QED
  BY <1>2, <1>3 DEF Lone, OnePoll, UnnamedUnknown, ShownOfNamed, NamedBeforePage, PageHolds, ReadSincePage,
     MergesNamed, HasPage, OfOrSince

\* A poll that goes on is the only one.
LEMMA OnlyOne ==
    ASSUME TypeOK, Lone, NEW p \in Polls, pc[p] # "idle", NEW to, pc' = [pc EXCEPT ![p] = to]
    PROVE  /\ OnePoll'
           /\ \A q \in Polls : q # p => pc[q] = "idle" /\ pc'[q] = "idle"
           /\ pc'[p] = to
BY DEF Lone, OnePoll, TypeOK

LEMMA LoneConfigRead ==
    ASSUME TypeOK, Clocks, NoPageYet, Lone, NEW p \in Polls, ConfigRead(p) PROVE Lone'
<1>1. pc[p] = "config" /\ pc' = [pc EXCEPT ![p] = "live"] /\ UNCHANGED <<shown, identity, index, namedAt, value>>
  BY DEF ConfigRead, Goes, cache, comexio
<1>2. OnePoll' /\ (\A q \in Polls : q # p => pc'[q] = "idle") /\ pc'[p] = "live"
  BY <1>1, OnlyOne
<1>3. pageAt'[p] = clock
  BY DEF ConfigRead, TypeOK
<1>4. \A i \in Ios : page'[p][i] # NoThing => value[i].of = page'[p][i]
  <2>1. page[p] = EmptyPage
    BY <1>1 DEF NoPageYet
  <2> QED
    BY <2>1 DEF ConfigRead, EmptyPage, TypeOK, Sources
<1>5. NamedBeforePage'
  BY <1>1, <1>2, <1>3 DEF NamedBeforePage, HasPage, Clocks
<1>6. PageHolds'
  BY <1>1, <1>2, <1>4 DEF PageHolds, HasPage, Named
<1>7. ReadSincePage' /\ MergesNamed'
  BY <1>2 DEF ReadSincePage, MergesNamed
<1> QED
  BY <1>1, <1>2, <1>5, <1>6, <1>7 DEF Lone, UnnamedUnknown, ShownOfNamed, OfOrSince

\* An answer is of what the page named, or newer than the page.
LEMMA AnswerSincePage ==
    ASSUME TypeOK, PageHolds, NEW p \in Polls, HasPage(p), NEW i \in Ios, Named(p, i)
    PROVE  OfOrSince(Answer(p, i), page[p][i], pageAt[p])
BY DEF PageHolds, Answer, OfOrSince

LEMMA LoneLiveRead ==
    ASSUME TypeOK, Lone, NEW p \in Polls, LiveRead(p) PROVE Lone'
<1>1. pc[p] = "live" /\ pc' = [pc EXCEPT ![p] = "ios"]
      /\ UNCHANGED <<shown, identity, index, namedAt, value, page, pageAt>>
  BY DEF LiveRead, Goes, cache, comexio, history
<1>2. OnePoll' /\ (\A q \in Polls : q # p => pc[q] = "idle" /\ pc'[q] = "idle") /\ pc'[p] = "ios" /\ HasPage(p)
  BY <1>1, OnlyOne DEF HasPage
<1>3. \A i \in Ios : read'[p][i] = Answer(p, i) \/ read'[p][i] = Unknown
  BY DEF LiveRead, TypeOK, Sources
<1>4. ReadSincePage'
  <2> SUFFICES ASSUME NEW i \in Ios, Named(p, i) PROVE OfOrSince(read'[p][i], page[p][i], pageAt[p])
    BY <1>1, <1>2 DEF ReadSincePage, Named, OfOrSince
  <2> QED
    BY <1>2, <1>3, AnswerSincePage DEF Lone, OfOrSince
<1>5. NamedBeforePage' /\ PageHolds'
  BY <1>1, <1>2 DEF Lone, NamedBeforePage, PageHolds, HasPage, Named
<1>6. MergesNamed'
  BY <1>2 DEF MergesNamed
<1> QED
  BY <1>1, <1>2, <1>4, <1>5, <1>6 DEF Lone, UnnamedUnknown, ShownOfNamed, OfOrSince

\* What the page names otherwise is forgotten before the IOs are read.
LEMMA LoneForget ==
    ASSUME TypeOK, Lone, NEW p \in Polls, HasPage(p), Forget(p), UNCHANGED index
    PROVE  /\ UnnamedUnknown' /\ ShownOfNamed'
           /\ \A i \in Ios : Named(p, i) => identity'[i] = page[p][i]
           /\ \A i \in Ios : namedAt'[i] <= pageAt[p]
<1> DEFINE Fate(i) ==
        /\ shown'[i] = IF i \in Reassigned(p) THEN Unknown ELSE shown[i]
        /\ identity'[i] = IF Named(p, i) THEN page[p][i] ELSE identity[i]
        /\ namedAt'[i] = IF identity'[i] = identity[i] THEN namedAt[i] ELSE pageAt[p]
<1>1. \A i \in Ios : Fate(i)
  BY DEF Forget, Sources
<1>2. \A i \in Ios : identity'[i] = identity[i] \/ shown'[i] = Unknown
  <2> SUFFICES ASSUME NEW i \in Ios, identity'[i] # identity[i] PROVE shown'[i] = Unknown
    OBVIOUS
  <2>1. Named(p, i) /\ identity[i] # page[p][i]
    BY <1>1
  <2>2. CASE identity[i] = NoThing
    BY <1>1, <2>2 DEF Lone, UnnamedUnknown
  <2>3. CASE identity[i] # NoThing
    BY <1>1, <2>1, <2>3 DEF Reassigned
  <2> QED
    BY <2>2, <2>3
<1>3. UnnamedUnknown'
  BY <1>1 DEF Lone, UnnamedUnknown, Named
<1>4. ShownOfNamed'
  BY <1>1, <1>2 DEF Lone, ShownOfNamed, OfOrSince
<1>5. \A i \in Ios : namedAt'[i] <= pageAt[p]
  BY <1>1 DEF Lone, NamedBeforePage, TypeOK
<1> QED
  BY <1>1, <1>3, <1>4, <1>5

LEMMA LoneIosRead ==
    ASSUME TypeOK, TypeOK', Lone, NEW p \in Polls, IosRead(p) PROVE Lone'
<1>1. /\ pc[p] = "ios" /\ pc' = [pc EXCEPT ![p] = "merge"] /\ Forget(p)
      /\ UNCHANGED <<index, value, page, pageAt>>
  BY DEF IosRead, Goes, comexio
<1>2. OnePoll' /\ (\A q \in Polls : q # p => pc[q] = "idle" /\ pc'[q] = "idle") /\ pc'[p] = "merge" /\ HasPage(p)
  BY <1>1, OnlyOne DEF HasPage
<1>3. /\ UnnamedUnknown' /\ ShownOfNamed'
      /\ \A i \in Ios : Named(p, i) => identity'[i] = page[p][i]
      /\ \A i \in Ios : namedAt'[i] <= pageAt[p]
  BY <1>1, <1>2, LoneForget
<1>4. PICK missing \in SUBSET Ios, answer \in {read[p], [s \in Sources |-> Answer(p, s)]} :
         read' = [read EXCEPT ![p] = Got(p, missing, answer)]
  BY IosReadGot
<1>5. MergesNamed'
  <2> SUFFICES ASSUME NEW i \in Ios, Named(p, i)
      PROVE  identity'[i] = page[p][i] /\ OfOrSince(Got(p, missing, answer)[i], identity'[i], namedAt'[i])
    BY <1>1, <1>2, <1>4 DEF MergesNamed, Named, OfOrSince, TypeOK
  <2>1. identity'[i] = page[p][i] /\ identity'[i] # NoThing /\ namedAt'[i] <= pageAt[p]
    BY <1>3 DEF Named
  <2>2. /\ i \in Sources
        /\ Got(p, missing, answer)[i] = IF i \in missing \/ answer[i] = Unknown THEN KnownIos[i] ELSE answer[i]
    BY DEF Got, Sources
  <2>3. KnownIos[i] \in {Unknown, shown'[i]} /\ OfOrSince(shown'[i], identity'[i], namedAt'[i])
    BY <1>3, <2>1 DEF KnownIos, ShownOfNamed, OfOrSince
  <2>4. answer[i] \in {read[p][i], Answer(p, i)} /\ answer[i] \in MaybeReading
    BY <1>4, <2>2, AnswerType DEF TypeOK
  <2>5. OfOrSince(answer[i], page[p][i], pageAt[p])
    BY <1>1, <1>2, <2>4, AnswerSincePage DEF Lone, ReadSincePage, OfOrSince
  <2>6. OfOrSince(answer[i], identity'[i], namedAt'[i])
    <3>1. answer[i] # Unknown => answer[i].at \in Nat
      BY <2>4 DEF MaybeReading, Reading
    <3>2. pageAt[p] \in Nat /\ namedAt'[i] \in Nat
      BY DEF TypeOK
    <3> QED
      BY <2>1, <2>5, <3>1, <3>2 DEF OfOrSince
  <2> QED
    BY <2>1, <2>2, <2>3, <2>6 DEF OfOrSince
<1>6. NamedBeforePage' /\ PageHolds' /\ ReadSincePage'
  BY <1>1, <1>2, <1>3 DEF Lone, NamedBeforePage, PageHolds, ReadSincePage, HasPage, Named
<1> QED
  BY <1>2, <1>3, <1>5, <1>6 DEF Lone

LEMMA LoneMerge ==
    ASSUME TypeOK, Lone, NEW p \in Polls, Merge(p) PROVE Lone'
<1>1. pc[p] = "merge" /\ pc' = [pc EXCEPT ![p] = "idle"] /\ UNCHANGED namedAt
  BY DEF Merge, Goes
<1>2. OnePoll' /\ \A q \in Polls : pc'[q] = "idle"
  BY <1>1, OnlyOne
<1>3. \A i \in Ios :
        /\ shown'[i] = IF i \in Vanished(p) THEN Unknown ELSE IF Merged(p, i) THEN read[p][i] ELSE shown[i]
        /\ identity'[i] = IF i \in Vanished(p) THEN NoThing ELSE identity[i]
        /\ index'[i] = page[p][i]
  BY DEF Merge, Sources
<1>4. \A i \in Ios : Named(p, i) => identity[i] = page[p][i] /\ OfOrSince(read[p][i], identity[i], namedAt[i])
  BY <1>1 DEF Lone, MergesNamed
<1>5. \A i \in Ios : i \in Vanished(p) => ~Named(p, i)
  BY DEF Vanished
<1>6. UnnamedUnknown'
  <2> SUFFICES ASSUME NEW i \in Ios, identity'[i] = NoThing PROVE index'[i] = NoThing /\ shown'[i] = Unknown
    BY DEF UnnamedUnknown
  <2>1. ~Named(p, i)
    BY <1>3, <1>4, <1>5 DEF Named
  <2> QED
    BY <1>3, <2>1 DEF Named, Merged, Lone, UnnamedUnknown
<1>7. ShownOfNamed'
  <2> SUFFICES ASSUME NEW i \in Ios, identity'[i] # NoThing PROVE OfOrSince(shown'[i], identity'[i], namedAt[i])
    BY <1>1 DEF ShownOfNamed, OfOrSince
  <2>1. identity'[i] = identity[i] /\ i \notin Vanished(p)
    BY <1>3
  <2> QED
    BY <1>3, <1>4, <2>1 DEF Merged, Lone, ShownOfNamed
<1>8. NamedBeforePage' /\ PageHolds' /\ ReadSincePage' /\ MergesNamed'
  BY <1>2 DEF NamedBeforePage, PageHolds, ReadSincePage, MergesNamed, HasPage
<1> QED
  BY <1>2, <1>6, <1>7, <1>8 DEF Lone

LEMMA LonePollFails ==
    ASSUME TypeOK, Lone, NEW p \in Polls, PollFails(p) PROVE Lone'
<1>1. pc[p] # "idle" /\ pc' = [pc EXCEPT ![p] = "idle"] /\ UNCHANGED <<shown, identity, index, namedAt>>
  BY DEF PollFails, cache
<1>2. OnePoll' /\ \A q \in Polls : pc'[q] = "idle"
  BY <1>1, OnlyOne
<1> QED
  BY <1>1, <1>2 DEF Lone, UnnamedUnknown, ShownOfNamed, OfOrSince, NamedBeforePage, PageHolds, ReadSincePage,
     MergesNamed, HasPage

LEMMA LoneNext ==
    ASSUME NInv, TypeOK', [Next]_vars, ~met' PROVE Lone'
<1>1. TypeOK /\ Clocks /\ NoPageYet
  BY DEF NInv
<1>2. ~met
  <2>1. met \in BOOLEAN
    BY DEF NInv, TypeOK
  <2>2. ASSUME NEW p \in Polls, PollBegins(p) PROVE ~met
    BY <2>1, <2>2 DEF PollBegins
  <2>3. ASSUME NEW p \in Polls, PollGoesOn(p) PROVE ~met
    BY <2>1, <2>3 DEF PollGoesOn, ConfigRead, LiveRead, IosRead, Merge, PollFails, history
  <2>4. ASSUME NEW s \in Sources, NEW t \in Things \union {NoThing},
               Changes(s) \/ WriteSent(s) \/ WriteEnds(s) \/ Reassigns(s, t)
        PROVE  ~met
    BY <2>1, <2>4 DEF Changes, WriteSent, WriteEnds, WriteApplied, WriteConfirmed, WriteFails, Reassigns, history
  <2>5. CASE Delivery
    BY <2>1, <2>5 DEF Delivery, PushArrives, PushUnreadable, PushLost, history
  <2> QED
    BY <2>2, <2>3, <2>4, <2>5 DEF Next, vars, history
<1>3. Lone
  BY <1>2 DEF NInv
<1>4. CASE UNCHANGED vars
  BY <1>1, <1>3, <1>4, LoneHolds DEF vars, comexio, cache, polls, history
<1>5. ASSUME NEW s \in Sources, Changes(s) \/ WriteSent(s) \/ WriteEnds(s) PROVE Lone'
  BY <1>1, <1>3, <1>5, LoneSources
<1> QED
  BY <1>1, <1>3, <1>4, <1>5, LoneSources, LoneDelivery, LonePollBegins, LoneConfigRead, LoneLiveRead, LoneIosRead,
     LoneMerge, LonePollFails DEF Next, PollGoesOn

LEMMA NInvNext == ASSUME NInv, IInv, [Next]_vars PROVE NInv'
<1>1. TypeOK' /\ NothingNewer'
  BY IInvNext DEF IInv
<1> QED
  BY <1>1, ClocksNext, NoPageNext, LoneNext DEF NInv, NothingNewer

\* No IO comes to show the value of another one that had its ID, whatever is pushed, written, lost or
\* reassigned between and during the polls, as long as none of them overlap.
THEOREM NothingInherited == Spec => []NoInheritedReading
<1>1. Init => NInv /\ IInv
  BY NInvInit, IInvInit
<1>2. NInv /\ IInv /\ [Next]_vars => (NInv /\ IInv)'
  BY NInvNext, IInvNext
<1>3. NInv => NoInheritedReading
  BY DEF NInv, Lone, ShownOfNamed, OfOrSince, NoInheritedReading
<1> QED
  BY <1>1, <1>2, <1>3, PTL DEF Spec

-----------------------------------------------------------------------------
(***************************************************************************)
(* KnxBridges: who may get which marker, which command is made, and what a  *)
(* clean-up may take away.                                                 *)
(*                                                                         *)
(* The argument: a marker is known as a K's by its title, and nothing that  *)
(* is free to be given out stands in a plan or is prepared for a K.  A K    *)
(* that was found without a bridge has none until it is wired, as a plan    *)
(* loaded before has only lost wires since.  A command that is not listed   *)
(* yet went up with the class or belongs to a K that is done, so no second  *)
(* one is saved.  A clean-up resets markers only when the trigger plan has   *)
(* no KNX pair any more.                                                   *)
(***************************************************************************)

AllTitles == {Blank, <<"trig">>, <<"own">>, <<"named">>, <<"made">>} \cup (Ks \X {"plain", "trig", "stripped"})
Marker == [title : AllTitles, factory : BOOLEAN, set : BOOLEAN]
Cluster == [elem : SUBSET Nat, bridge : SUBSET Nat, sink : SUBSET Nat]
TriggerPlan == [elem : SUBSET Nat, pair : SUBSET Nat]

\* A sync prepares markers and wires clusters, looks after the trigger plan, or a clean-up runs.
Batches == {"fill", "free", "obtain"}
Legs == {"read path", "bridge", "loopback", "command", "fan out"}
WiringStages == Batches \cup Legs \cup {"upload", "plan"}
TriggerStages == {"triggers", "trigger plan", "pair", "drop"}
CleanStages == {"clean triggers", "clean pairs", "clean plans", "clean web", "clean read", "clean marker"}
Stages == {"idle", "audit", "clusters", "done"} \cup WiringStages \cup TriggerStages \cup CleanStages

StateTypes ==
    /\ marker \in Seq(Marker)
    /\ plan \in [Ks -> Cluster \cup {None}]
    /\ trig \in TriggerPlan \cup {None}
    /\ command \in Seq(Ks \X Nat) /\ listed \subseteq Ids(command)
    /\ mapped \subseteq Plans /\ own \subseteq Nat
    /\ knx \in [Ks -> {"plain", "trig"}]
    /\ DOMAIN planCache = Plans /\ \A k \in Ks : planCache[k] \in Cluster \cup {None}
    /\ stage \in Stages /\ edits \in Nat

Fields == {"op", "kind", "read", "gaps", "miss", "loop", "applies", "snap", "left", "k", "batch", "ms",
           "free", "alloc", "m", "pre", "fresh", "pairs", "drops", "used", "waits", "failed"}

\* What the sync or clean-up at work holds.
HeldTypes ==
    /\ DOMAIN ctx = Fields
    /\ ctx.op \in {"sync", "knx", "full"}
    /\ ctx.read \subseteq Ks /\ ctx.miss \subseteq Ks /\ ctx.left \subseteq Plans
    /\ ctx.k \in Ks \cup {0} /\ ctx.m \in Nat
    /\ ctx.free \subseteq Nat /\ ctx.batch \subseteq Nat /\ ctx.used \subseteq Nat
    /\ ctx.pairs \subseteq Nat
    /\ ctx.ms \in Seq(Marker)
    /\ ctx.loop \subseteq Ks \X Nat /\ IsFiniteSet(ctx.loop)

ByStage ==
    /\ stage = "idle" => ctx = NoContext
    /\ stage \in {"audit", "clusters"} \cup WiringStages \cup TriggerStages => ctx.op = "sync"
    /\ stage \in CleanStages => ctx.op # "sync"
    /\ stage \in {"audit", "clusters"} \cup WiringStages =>
         ctx.kind \in [Ks -> {"plain", "trig"}] /\ ctx.alloc \in [Ks -> Nat] /\ ctx.left \subseteq Ks
    /\ stage \in {"audit", "clusters", "upload"} => ctx.k = 0 /\ ctx.m = 0
    /\ stage \in {"audit", "clusters"} => ctx.alloc = [k \in Ks |-> 0]
    /\ stage = "audit" => ctx.miss = {} /\ ctx.loop = {}
    /\ stage \in Legs => ctx.k # 0
    /\ stage \in WiringStages => ctx.left \cup ({ctx.k} \ {0}) \subseteq mapped /\ ctx.k \notin ctx.left

\* The markers a K still wants, and the one it has.
Wants ==
    /\ stage \in Batches /\ ctx.k = 0 => ctx.batch \subseteq Ks /\ ctx.m = 0
    /\ stage \in Batches \cup {"read path"} /\ ctx.k # 0 => ctx.batch \subseteq {ctx.k} \cap ctx.miss
    /\ stage \in Batches \cup {"read path"} /\ ctx.batch # {} => ctx.m = 0
    /\ stage \in Batches \cup {"bridge"} /\ ctx.m # 0 => ctx.k \in ctx.miss
    /\ stage = "bridge" => ctx.m # 0

\* Whose bridge a marker is can be told by its title, and a plan with a bridge is known to Home Assistant.
TitlesTell ==
    \A k \in Ks : plan[k] # None =>
        /\ plan[k].bridge \subseteq plan[k].elem
        /\ \A m \in plan[k].bridge : m \in Ids(marker) /\ \E s \in {"plain", "trig", "stripped"} : marker[m].title = <<k, s>>
        /\ plan[k].bridge # {} => k \in mapped

\* A plan loaded before an audit has at most lost bridges since.
CacheCovers ==
    stage \in {"idle", "audit"} =>
        \A k \in Ks : planCache[k] # None /\ plan[k] # None => plan[k].bridge \subseteq planCache[k].bridge

\* A K found without a bridge has none until its leg is wired.
Awaits(k) == k \in ctx.miss /\ (k \in ctx.left \/ (k = ctx.k /\ stage \in Batches \cup {"read path", "bridge"}))
Unbridged ==
    stage \in {"clusters"} \cup WiringStages => \A k \in Ks : Awaits(k) /\ plan[k] # None => plan[k].bridge = {}

OneEach == \A k \in Ks : plan[k] # None => \A m, n \in plan[k].bridge : m = n

\* A marker prepared for a K has its title.
Prepared ==
    stage \in WiringStages =>
        /\ \A k \in Ks : ctx.alloc[k] # 0 =>
             ctx.alloc[k] \in Ids(marker) /\ marker[ctx.alloc[k]].title = BridgeTitle(k, ctx.kind[k])
        /\ ctx.m # 0 => ctx.k # 0 /\ ctx.m \in Ids(marker) /\ marker[ctx.m].title = BridgeTitle(ctx.k, ctx.kind[ctx.k])

\* What the titles read say still holds, but for what users did since; what is free is nobody's.
Obtaining ==
    /\ stage \in {"free", "obtain"} => Ids(ctx.ms) \subseteq Ids(marker)
    /\ stage = "free" => \A m \in Ids(ctx.ms) : (m \in late /\ ctx.ms[m].title = Blank) \/ marker[m].title = ctx.ms[m].title
    /\ stage = "obtain" =>
         /\ \A m \in ctx.free : /\ m \in Ids(marker)
                                /\ \A k \in Ks : m \notin InPlan(plan[k]) /\ m # ctx.alloc[k]
                                /\ m \in late \/ (m \notin Placed /\ (marker[m].title = Blank \/ IsBridge(marker[m].title)))
         /\ \A k \in ctx.batch, m \in Ids(ctx.ms) : ctx.ms[m].title = BridgeTitle(k, ctx.kind[k]) =>
              m \notin ctx.free /\ marker[m].title = ctx.ms[m].title

\* Commands: none without the class; what is not listed yet went up with the class or is a K's seen to.
Handled(k) == k \notin ctx.left /\ (k # ctx.k \/ stage \in {"plan", "fan out"} \/ (stage = "command" /\ ctx.fresh))
CommandsInv ==
    /\ ~class => command = <<>> /\ stage # "command"
    /\ stage \in {"idle", "audit", "clusters"} => Ids(command) \subseteq listed
    /\ stage \in WiringStages => unsure \/ \A c \in Ids(command) \ listed : command[c] \in ctx.pre \/ Handled(command[c][1])
    /\ stage \in {"command", "fan out"} => Looping # {}
    /\ unsure \/ \A c, d \in Ids(command) : command[c] = command[d] => c = d

\* A clean-up resets markers only when the trigger plan has no KNX pair left.
PairsInv ==
    /\ Trigger \notin mapped => InPlan(trig) = {} /\ stage # "pair"
    /\ stage \in {"clean plans", "clean web", "clean read", "clean marker"} =>
         ctx.waits \/ (stage = "clean plans" /\ Trigger \in ctx.left) \/ KnxPairs = {}
    /\ stage \in {"clean read", "clean marker"} => ~ctx.waits
ResetsInv ==
    stage = "clean marker" =>
        /\ ctx.batch \subseteq Bridges(marker) \cap Ids(ctx.ms)
        /\ \A m \in ctx.batch : marker[m].title = ctx.ms[m].title /\ (m \in late \/ marker[m] = ctx.ms[m])
        /\ own \ late \subseteq ctx.used
        /\ \A k \in Ks : InPlan(plan[k]) \subseteq ctx.used

BridgesInv ==
    /\ StateTypes /\ HeldTypes /\ ByStage /\ Wants /\ TitlesTell /\ CacheCovers /\ Unbridged /\ OneEach
    /\ Prepared /\ Obtaining /\ CommandsInv /\ PairsInv /\ ResetsInv

-----------------------------------------------------------------------------
\* A set of numbers has a least one.
LEMMA Smallest ==
  ASSUME NEW S \in SUBSET Nat, S # {}
  PROVE  \E x \in S : \A y \in S : x <= y
<1>1. \E x \in S : \A y \in S : ~(<<y, x>> \in OpToRel(<, Nat))
  BY NatLessThanWellFounded, WFMin
<1>2. ASSUME NEW x \in S, NEW y \in S, ~(<<y, x>> \in OpToRel(<, Nat))
      PROVE  x <= y
  <2>1. x \in Nat /\ y \in Nat
    OBVIOUS
  <2>2. <<y, x>> \in Nat \X Nat /\ <<y, x>>[1] = y /\ <<y, x>>[2] = x
    BY <2>1
  <2>3. ~(y < x)
    BY <1>2, <2>2 DEF OpToRel
  <2> QED
    BY <2>1, <2>3
<1> QED
  BY <1>1, <1>2

\* The least number of a set is in it.
LEMMA MinIn ==
  ASSUME NEW S \in SUBSET Nat, S # {}
  PROVE  Min(S) \in S
BY Smallest DEF Min

\* An entry changed leaves a sequence as long as it was.
LEMMA ChangedEntry ==
  ASSUME NEW S, NEW s \in Seq(S), NEW c, NEW x \in S
  PROVE  /\ [s EXCEPT ![c] = x] \in Seq(S)
         /\ Len([s EXCEPT ![c] = x]) = Len(s)
<1>1. Len(s) \in Nat /\ s \in [1 .. Len(s) -> S]
  OBVIOUS
<1>2. [s EXCEPT ![c] = x] \in [1 .. Len(s) -> S]
  BY <1>1
<1> QED
  BY <1>1, <1>2

\* Between a sync and the next nothing is held.
LEMMA NothingHeld ==
    /\ DOMAIN NoContext = Fields
    /\ NoContext.op = "sync" /\ NoContext.miss = {} /\ NoContext.loop = {} /\ NoContext.read = {}
    /\ NoContext.left = {} /\ NoContext.k = 0 /\ NoContext.m = 0 /\ NoContext.batch = {} /\ NoContext.ms = <<>>
    /\ NoContext.free = {} /\ NoContext.pre = {} /\ NoContext.used = {} /\ NoContext.waits = FALSE
    /\ NoContext.pairs = {}
BY DEF NoContext, Fields

\* What the constants are.
LEMMA Types ==
    /\ Ks \subseteq Nat \ {0} /\ Ks # {} /\ IsFiniteSet(Ks) /\ Trigger \notin Ks
    /\ None \notin Cluster /\ None \notin TriggerPlan
    /\ Block \in Nat \ {0} /\ Factory \in Nat \ {0}
BY BridgeAssumption DEF Cluster, TriggerPlan

\* A bridge is told by its title, which names its K; no other title is taken for one.
LEMMA TitleKinds ==
    /\ \A t \in AllTitles : IsBridge(t) <=> t \in Ks \X {"plain", "trig"}
    /\ \A t \in AllTitles : IsBridge(t) => Stripped(t) \in AllTitles /\ Stripped(t) # Blank /\ ~IsBridge(Stripped(t))
                                        /\ Stripped(t) = <<t[1], "stripped">>
    /\ \A k \in Ks, s \in {"plain", "trig"} : BridgeTitle(k, s) \in AllTitles /\ IsBridge(BridgeTitle(k, s))
                                        /\ BridgeTitle(k, s) # Blank /\ BridgeTitle(k, s)[1] = k
    /\ \A k \in Ks, s \in {"plain", "trig", "stripped"} : <<k, s>> # Blank
    /\ {Blank, <<"named">>, <<"made">>} \subseteq AllTitles /\ ~IsBridge(Blank) /\ ~IsBridge(<<"named">>)
    /\ Titled(Blank) \in Marker /\ Titled(<<"made">>) \in Marker
<1>1. \A k \in Ks, s \in {"plain", "trig", "stripped"} :
        Len(<<k, s>>) = 2 /\ <<k, s>>[2] = s /\ <<k, s>>[1] = k /\ <<k, s>> # <<>>
  OBVIOUS
<1>2. \A x : Len(<<x>>) = 1
  OBVIOUS
<1>3. \A t \in AllTitles : IsBridge(t) <=> t \in Ks \X {"plain", "trig"}
  BY <1>1, <1>2 DEF AllTitles, IsBridge, Blank
<1>4. \A t \in AllTitles : IsBridge(t) => Stripped(t) \in AllTitles /\ Stripped(t) # Blank /\ ~IsBridge(Stripped(t))
                                        /\ Stripped(t) = <<t[1], "stripped">>
  BY <1>1, <1>3 DEF Stripped, AllTitles, Blank, IsBridge
<1>5. \A k \in Ks, s \in {"plain", "trig"} : BridgeTitle(k, s) \in AllTitles /\ IsBridge(BridgeTitle(k, s))
                                        /\ BridgeTitle(k, s) # Blank /\ BridgeTitle(k, s)[1] = k
  BY <1>1 DEF BridgeTitle, AllTitles, IsBridge, Blank
<1>6. \A k \in Ks, s \in {"plain", "trig", "stripped"} : <<k, s>> # Blank
  BY <1>1 DEF Blank
<1>7. {Blank, <<"named">>, <<"made">>} \subseteq AllTitles /\ ~IsBridge(Blank) /\ ~IsBridge(<<"named">>)
  BY <1>2 DEF AllTitles, IsBridge, Blank
<1>8. Titled(Blank) \in Marker /\ Titled(<<"made">>) \in Marker
  BY <1>7 DEF Titled, Marker
<1> QED
  BY <1>3, <1>4, <1>5, <1>6, <1>7, <1>8

-----------------------------------------------------------------------------
(* What users' steps leave of the state.                                       *)

\* A user takes no marker away, and names or uses one only behind the sync's look at it.
TouchedByUser ==
    /\ Len(marker) <= Len(marker')
    /\ \A m \in Ids(marker) : /\ marker'[m] = marker[m] \/ m \in late'
                              /\ \/ marker'[m].title = marker[m].title
                                 \/ marker[m].title = Blank /\ marker'[m].title = <<"named">> /\ m \in late'
    /\ \A m \in Ids(marker') \ Ids(marker) : ~IsBridge(marker'[m].title)
    /\ late \subseteq late' /\ own \subseteq own' /\ own' \ own \subseteq late'
    /\ InPlan(trig)' \subseteq InPlan(trig)
    /\ \A k \in Ks : plan'[k] # None =>
         /\ plan[k] # None /\ plan'[k].bridge \subseteq plan[k].bridge /\ plan'[k].elem \subseteq plan[k].elem
         /\ plan[k].bridge \subseteq plan[k].elem => plan'[k].bridge \subseteq plan'[k].elem
    /\ UNCHANGED <<stage, ctx, command, listed, device, class, mapped, planCache, loading, unsure>>

\* What users' steps change.
LEMMA UserTouches ==
  ASSUME StateTypes, User
  PROVE  /\ TouchedByUser /\ marker' \in Seq(Marker) /\ trig' \in TriggerPlan \cup {None}
         /\ plan' \in [Ks -> Cluster \cup {None}] /\ knx' \in [Ks -> {"plain", "trig"}]
<1> DEFINE MarkerPart ==
             /\ marker' \in Seq(Marker) /\ Len(marker) <= Len(marker')
             /\ \A m \in Ids(marker) : /\ marker'[m] = marker[m] \/ m \in late'
                                       /\ \/ marker'[m].title = marker[m].title
                                          \/ marker[m].title = Blank /\ marker'[m].title = <<"named">> /\ m \in late'
             /\ \A m \in Ids(marker') \ Ids(marker) : ~IsBridge(marker'[m].title)
             /\ late \subseteq late' /\ own \subseteq own' /\ own' \ own \subseteq late'
           PlanPart ==
             /\ trig' \in TriggerPlan \cup {None} /\ plan' \in [Ks -> Cluster \cup {None}]
             /\ InPlan(trig)' \subseteq InPlan(trig)
             /\ \A k \in Ks : plan'[k] # None =>
                  /\ plan[k] # None /\ plan'[k].bridge \subseteq plan[k].bridge /\ plan'[k].elem \subseteq plan[k].elem
                  /\ plan[k].bridge \subseteq plan[k].elem => plan'[k].bridge \subseteq plan'[k].elem
           Rest == UNCHANGED <<stage, ctx, command, listed, device, class, mapped, planCache, loading, unsure>>
                   /\ knx' \in [Ks -> {"plain", "trig"}]
<1>0. /\ marker \in Seq(Marker) /\ Len(marker) \in Nat /\ \A m \in Ids(marker) : marker[m] \in Marker
      /\ trig \in TriggerPlan \cup {None} /\ plan \in [Ks -> Cluster \cup {None}] /\ knx \in [Ks -> {"plain", "trig"}]
  BY DEF Ids, StateTypes
<1> SUFFICES MarkerPart /\ PlanPart /\ Rest
  BY DEF TouchedByUser
<1>a. UNCHANGED <<marker, late, own>> => MarkerPart
  BY <1>0
<1>b. UNCHANGED <<plan, trig>> => PlanPart
  BY <1>0 DEF InPlan
<1>c. \A kind : Edit(kind) /\ UNCHANGED knx => Rest
  BY <1>0 DEF Edit, loopback, memory
<1> HIDE DEF MarkerPart, PlanPart, Rest
<1>1. CASE RetitlesKnx
  <2>1. Rest
    BY <1>0, <1>1 DEF RetitlesKnx, Edit, loopback, memory, Rest
  <2> QED
    BY <1>1, <1>a, <1>b, <2>1 DEF RetitlesKnx, plans
<1>2. CASE UsesMarker
  <2>1. PICK m \in Ids(marker) : marker' = [marker EXCEPT ![m].set = TRUE] /\ late' = late \cup {m} /\ own' = own \cup {m}
    BY <1>2 DEF UsesMarker
  <2>2. [marker[m] EXCEPT !.set = TRUE] \in Marker /\ [marker[m] EXCEPT !.set = TRUE].title = marker[m].title
    BY <1>0 DEF Marker
  <2>3. marker' = [marker EXCEPT ![m] = [marker[m] EXCEPT !.set = TRUE]]
    BY <2>1
  <2>4. marker' \in Seq(Marker) /\ Len(marker') = Len(marker)
    BY <1>0, <2>2, <2>3, ChangedEntry
  <2>5. MarkerPart
    BY <1>0, <2>1, <2>2, <2>3, <2>4 DEF Ids, MarkerPart
  <2> QED
    BY <1>2, <1>b, <1>c, <2>5 DEF UsesMarker, plans
<1>3. CASE NamesMarker
  <2>1. PICK m \in Ids(marker) : /\ marker[m].title = Blank
                                 /\ marker' = [marker EXCEPT ![m].title = <<"named">>] /\ late' = late \cup {m}
    BY <1>3 DEF NamesMarker
  <2>2. [marker[m] EXCEPT !.title = <<"named">>] \in Marker /\ [marker[m] EXCEPT !.title = <<"named">>].title = <<"named">>
    BY <1>0, TitleKinds DEF Marker
  <2>3. marker' = [marker EXCEPT ![m] = [marker[m] EXCEPT !.title = <<"named">>]]
    BY <2>1
  <2>4. marker' \in Seq(Marker) /\ Len(marker') = Len(marker)
    BY <1>0, <2>2, <2>3, ChangedEntry
  <2>5. \A n \in Ids(marker) : n # m => marker'[n] = marker[n]
    BY <1>0, <2>3 DEF Ids
  <2>a. marker'[m] = [marker[m] EXCEPT !.title = <<"named">>]
    BY <1>0, <2>3 DEF Ids
  <2>b. marker'[m].title = <<"named">>
    BY <2>2, <2>a
  <2>6. m \in late' /\ own' = own /\ late \subseteq late'
    BY <1>3, <2>1 DEF NamesMarker
  <2>7. MarkerPart
    BY <1>0, <2>1, <2>4, <2>5, <2>6, <2>b DEF Ids, MarkerPart
  <2> QED
    BY <1>3, <1>b, <1>c, <2>7 DEF NamesMarker, plans
<1>4. CASE MakesMarker
  <2>1. marker' = Append(marker, Titled(<<"made">>)) /\ Titled(<<"made">>) \in Marker /\ ~IsBridge(Titled(<<"made">>).title)
        /\ own' = own /\ late' = late
    BY <1>4, TitleKinds DEF MakesMarker, IsBridge, Titled
  <2>2. marker' \in Seq(Marker) /\ Len(marker') = Len(marker) + 1 /\ marker'[Len(marker) + 1] = Titled(<<"made">>)
        /\ \A m \in Ids(marker) : marker'[m] = marker[m]
    BY <1>0, <2>1 DEF Ids
  <2>3. \A m \in Ids(marker') \ Ids(marker) : m = Len(marker) + 1
    BY <1>0, <2>2 DEF Ids
  <2>a. \A m \in Ids(marker') \ Ids(marker) : ~IsBridge(marker'[m].title)
    <3> SUFFICES ASSUME NEW m \in Ids(marker') \ Ids(marker) PROVE ~IsBridge(marker'[m].title)
      OBVIOUS
    <3>1. marker'[m] = Titled(<<"made">>)
      BY <2>2, <2>3
    <3> QED
      BY <2>1, <3>1
  <2>4. MarkerPart
    <3>1. Len(marker) <= Len(marker')
      BY <1>0, <2>2
    <3> QED
      BY <2>1, <2>2, <2>a, <3>1 DEF MarkerPart
  <2> QED
    BY <1>4, <1>b, <1>c, <2>4 DEF MakesMarker, plans
<1>5. CASE Unbridges
  <2>1. PICK k \in Ks : /\ plan[k] # None
                        /\ \E m \in plan[k].bridge, gone \in SUBSET {"element"} :
                             plan' = [plan EXCEPT ![k].bridge = @ \ {m}, ![k].elem = IF gone = {} THEN @ ELSE @ \ {m}]
    BY <1>5 DEF Unbridges
  <2>2. PICK m \in plan[k].bridge, gone \in SUBSET {"element"} :
               plan' = [plan EXCEPT ![k].bridge = @ \ {m}, ![k].elem = IF gone = {} THEN @ ELSE @ \ {m}]
    BY <2>1
  <2> DEFINE p == [plan[k] EXCEPT !.bridge = @ \ {m}, !.elem = IF gone = {} THEN @ ELSE @ \ {m}]
  <2>3. plan[k] \in Cluster
    BY <1>0, <2>1
  <2>4. p \in Cluster /\ p.bridge = plan[k].bridge \ {m} /\ p.elem \in {plan[k].elem, plan[k].elem \ {m}}
    BY <2>3 DEF Cluster
  <2>5. plan' = [plan EXCEPT ![k] = p]
    BY <1>0, <2>2, <2>3 DEF Cluster
  <2> HIDE DEF p
  <2>6. \A l \in Ks : l # k => plan'[l] = plan[l]
    BY <1>0, <2>5
  <2>7. plan'[k] = p /\ plan' \in [Ks -> Cluster \cup {None}]
    BY <1>0, <2>4, <2>5
  <2>8. trig' = trig
    BY <1>5 DEF Unbridges
  <2>9. PlanPart
    BY <1>0, <2>1, <2>4, <2>6, <2>7, <2>8 DEF PlanPart, InPlan
  <2> QED
    BY <1>5, <1>a, <1>c, <2>9 DEF Unbridges
<1>6. CASE Unpairs
  <2>1. PICK m \in trig.pair : trig' = [trig EXCEPT !.pair = @ \ {m}]
    BY <1>6 DEF Unpairs
  <2>2. trig \in TriggerPlan /\ trig # None
    BY <1>0, <1>6 DEF Unpairs, Edit
  <2>3. trig' \in TriggerPlan /\ trig'.elem = trig.elem
    BY <2>1, <2>2 DEF TriggerPlan
  <2>4. PlanPart
    BY <1>0, <1>6, <2>2, <2>3, Types DEF PlanPart, InPlan, Unpairs
  <2> QED
    BY <1>6, <1>a, <1>c, <2>4 DEF Unpairs
<1>7. CASE DeletesPlan
  <2>1. PlanPart
    BY <1>0, <1>7 DEF DeletesPlan, PlanPart, InPlan
  <2> QED
    BY <1>7, <1>a, <1>c, <2>1 DEF DeletesPlan
<1>8. CASE Cancels
  <2>1. Rest
    BY <1>0, <1>8 DEF Cancels, loopback, memory, Rest
  <2> QED
    BY <1>8, <1>a, <1>b, <2>1 DEF Cancels, plans
<1> QED
  BY <1>1, <1>2, <1>3, <1>4, <1>5, <1>6, <1>7, <1>8 DEF User

-----------------------------------------------------------------------------
(* What each other step leaves alone.                                          *)

MarkersStay == UNCHANGED <<marker, own, late>>
PlansStay == UNCHANGED <<plan, trig>>
CommandsStay == UNCHANGED <<command, listed, class, unsure>>
MemoryStays == UNCHANGED <<mapped, planCache, loading>>

\* The sync's step each action is, and what it leaves alone.
LEMMA SyncFrames ==
    /\ Press => stage = "idle" /\ MarkersStay /\ PlansStay /\ CommandsStay /\ MemoryStays /\ UNCHANGED knx
    /\ Audits => stage = "audit" /\ MarkersStay /\ PlansStay /\ CommandsStay /\ UNCHANGED <<knx, mapped, loading>>
    /\ ResolvesClusters => stage = "clusters" /\ MarkersStay /\ CommandsStay /\ UNCHANGED <<knx, trig, loading>>
    /\ FillsGap => stage = "fill" /\ PlansStay /\ CommandsStay /\ MemoryStays /\ UNCHANGED <<knx, own>>
    /\ FindsFree => stage = "free" /\ PlansStay /\ CommandsStay /\ MemoryStays /\ UNCHANGED <<knx, marker, own>>
    /\ Obtains => stage = "obtain" /\ stage' = "obtain" /\ PlansStay /\ CommandsStay /\ MemoryStays /\ UNCHANGED <<knx, own, late>>
    /\ HasBatch => stage = "obtain" /\ MarkersStay /\ PlansStay /\ CommandsStay /\ MemoryStays /\ UNCHANGED knx
    /\ Prestages => stage = "upload" /\ stage' = "plan" /\ MarkersStay /\ PlansStay /\ MemoryStays /\ UNCHANGED knx
    /\ TakesPlan => stage = "plan" /\ MarkersStay /\ PlansStay /\ CommandsStay /\ MemoryStays /\ UNCHANGED knx
    /\ WiresReadPath => stage = "read path" /\ MarkersStay /\ CommandsStay /\ MemoryStays /\ UNCHANGED <<knx, trig>>
    /\ WiresBridge => stage = "bridge" /\ MarkersStay /\ CommandsStay /\ MemoryStays /\ UNCHANGED <<knx, trig>>
    /\ EnsuresLoopback => stage = "loopback" /\ MarkersStay /\ PlansStay /\ MemoryStays /\ UNCHANGED knx
    /\ SavesCommand => stage = "command" /\ MarkersStay /\ PlansStay /\ MemoryStays /\ UNCHANGED <<knx, class, unsure>>
    /\ FansOut => stage = "fan out" /\ MarkersStay /\ MemoryStays /\ UNCHANGED <<knx, trig, command, class, unsure>>
    /\ AuditsTriggers => stage = "triggers" /\ MarkersStay /\ PlansStay /\ CommandsStay /\ UNCHANGED <<knx, mapped, loading>>
    /\ ResolvesTrigger => stage = "trigger plan" /\ MarkersStay /\ CommandsStay /\ UNCHANGED <<knx, plan, loading>>
    /\ AddsPair => stage = "pair" /\ MarkersStay /\ CommandsStay /\ MemoryStays /\ UNCHANGED <<knx, plan>>
    /\ DropsPairs => stage = "drop" /\ MarkersStay /\ CommandsStay /\ MemoryStays /\ UNCHANGED <<knx, plan>>
<1> USE DEF Step, users, plans, loopback, memory, MarkersStay, PlansStay, CommandsStay, MemoryStays
<1>1. Press => stage = "idle" /\ MarkersStay /\ PlansStay /\ CommandsStay /\ MemoryStays /\ UNCHANGED knx
  BY DEF Press
<1>2. Audits => stage = "audit" /\ MarkersStay /\ PlansStay /\ CommandsStay /\ UNCHANGED <<knx, mapped, loading>>
  BY DEF Audits
<1>3. ResolvesClusters => stage = "clusters" /\ MarkersStay /\ CommandsStay /\ UNCHANGED <<knx, trig, loading>>
  BY DEF ResolvesClusters
<1>4. FillsGap => stage = "fill" /\ PlansStay /\ CommandsStay /\ MemoryStays /\ UNCHANGED <<knx, own>>
  BY DEF FillsGap
<1>5. FindsFree => stage = "free" /\ PlansStay /\ CommandsStay /\ MemoryStays /\ UNCHANGED <<knx, marker, own>>
  BY DEF FindsFree
<1>6. Obtains => stage = "obtain" /\ stage' = "obtain" /\ PlansStay /\ CommandsStay /\ MemoryStays /\ UNCHANGED <<knx, own, late>>
  BY DEF Obtains
<1>7. HasBatch => stage = "obtain" /\ MarkersStay /\ PlansStay /\ CommandsStay /\ MemoryStays /\ UNCHANGED knx
  BY DEF HasBatch
<1>8. Prestages => stage = "upload" /\ stage' = "plan" /\ MarkersStay /\ PlansStay /\ MemoryStays /\ UNCHANGED knx
  BY DEF Prestages
<1>9. TakesPlan => stage = "plan" /\ MarkersStay /\ PlansStay /\ CommandsStay /\ MemoryStays /\ UNCHANGED knx
  BY DEF TakesPlan
<1>10. WiresReadPath => stage = "read path" /\ MarkersStay /\ CommandsStay /\ MemoryStays /\ UNCHANGED <<knx, trig>>
  BY DEF WiresReadPath
<1>11. WiresBridge => stage = "bridge" /\ MarkersStay /\ CommandsStay /\ MemoryStays /\ UNCHANGED <<knx, trig>>
  BY DEF WiresBridge
<1>12. EnsuresLoopback => stage = "loopback" /\ MarkersStay /\ PlansStay /\ MemoryStays /\ UNCHANGED knx
  BY DEF EnsuresLoopback
<1>13. SavesCommand => stage = "command" /\ MarkersStay /\ PlansStay /\ MemoryStays /\ UNCHANGED <<knx, class, unsure>>
  BY DEF SavesCommand
<1>14. FansOut => stage = "fan out" /\ MarkersStay /\ MemoryStays /\ UNCHANGED <<knx, trig, command, class, unsure>>
  BY DEF FansOut
<1>15. AuditsTriggers => stage = "triggers" /\ MarkersStay /\ PlansStay /\ CommandsStay /\ UNCHANGED <<knx, mapped, loading>>
  BY DEF AuditsTriggers
<1>16. ResolvesTrigger => stage = "trigger plan" /\ MarkersStay /\ CommandsStay /\ UNCHANGED <<knx, plan, loading>>
  BY DEF ResolvesTrigger
<1>17. AddsPair => stage = "pair" /\ MarkersStay /\ CommandsStay /\ MemoryStays /\ UNCHANGED <<knx, plan>>
  BY DEF AddsPair
<1>18. DropsPairs => stage = "drop" /\ MarkersStay /\ CommandsStay /\ MemoryStays /\ UNCHANGED <<knx, plan>>
  BY DEF DropsPairs
<1> HIDE DEF Step, users, plans, loopback, memory, MarkersStay, PlansStay, CommandsStay, MemoryStays
<1> QED
  BY <1>1, <1>2, <1>3, <1>4, <1>5, <1>6, <1>7, <1>8, <1>9, <1>10, <1>11, <1>12, <1>13, <1>14, <1>15, <1>16,
     <1>17, <1>18

\* The clean-up's step each action is, and what it leaves alone.
LEMMA CleaningFrames ==
    /\ \A scope \in {"knx", "full"} : CleanUp(scope) =>
         stage = "idle" /\ stage' = "clean triggers" /\ MarkersStay /\ PlansStay /\ CommandsStay /\ MemoryStays /\ UNCHANGED knx
    /\ DecidesTriggers => stage = "clean triggers" /\ MarkersStay /\ PlansStay /\ CommandsStay /\ MemoryStays /\ UNCHANGED knx
    /\ RemovesPairs => stage = "clean pairs" /\ stage' = "clean plans"
                       /\ MarkersStay /\ CommandsStay /\ MemoryStays /\ UNCHANGED <<knx, plan>>
    /\ DeletesPlans => stage = "clean plans" /\ MarkersStay /\ CommandsStay /\ UNCHANGED <<knx, planCache, loading>>
    /\ DeletesWebIo => stage = "clean web" /\ MarkersStay /\ PlansStay /\ MemoryStays /\ UNCHANGED <<knx, unsure>>
    /\ ReadsBridges => stage = "clean read" /\ PlansStay /\ CommandsStay /\ MemoryStays /\ UNCHANGED <<knx, marker, own>>
    /\ ResetsMarker => stage = "clean marker" /\ PlansStay /\ CommandsStay /\ MemoryStays /\ UNCHANGED <<knx, own, late>>
    /\ Finishes => stage = "done" /\ stage' = "idle" /\ PlansStay /\ UNCHANGED <<knx, marker, own, command, class, mapped, unsure>>
    /\ BulkLoads => MarkersStay /\ PlansStay /\ CommandsStay /\ UNCHANGED <<knx, mapped, stage, ctx>>
<1> USE DEF Step, users, plans, loopback, memory, MarkersStay, PlansStay, CommandsStay, MemoryStays
<1>1. \A scope \in {"knx", "full"} : CleanUp(scope) =>
         stage = "idle" /\ stage' = "clean triggers" /\ MarkersStay /\ PlansStay /\ CommandsStay /\ MemoryStays /\ UNCHANGED knx
  BY DEF CleanUp
<1>2. DecidesTriggers => stage = "clean triggers" /\ MarkersStay /\ PlansStay /\ CommandsStay /\ MemoryStays /\ UNCHANGED knx
  BY DEF DecidesTriggers
<1>3. RemovesPairs => stage = "clean pairs" /\ stage' = "clean plans"
                      /\ MarkersStay /\ CommandsStay /\ MemoryStays /\ UNCHANGED <<knx, plan>>
  BY DEF RemovesPairs
<1>4. DeletesPlans => stage = "clean plans" /\ MarkersStay /\ CommandsStay /\ UNCHANGED <<knx, planCache, loading>>
  BY DEF DeletesPlans
<1>5. DeletesWebIo => stage = "clean web" /\ MarkersStay /\ PlansStay /\ MemoryStays /\ UNCHANGED <<knx, unsure>>
  BY DEF DeletesWebIo
<1>6. ReadsBridges => stage = "clean read" /\ PlansStay /\ CommandsStay /\ MemoryStays /\ UNCHANGED <<knx, marker, own>>
  BY DEF ReadsBridges
<1>7. ResetsMarker => stage = "clean marker" /\ PlansStay /\ CommandsStay /\ MemoryStays /\ UNCHANGED <<knx, own, late>>
  BY DEF ResetsMarker
<1>8. Finishes => stage = "done" /\ stage' = "idle" /\ PlansStay /\ UNCHANGED <<knx, marker, own, command, class, mapped, unsure>>
  BY DEF Finishes
<1>9. BulkLoads => MarkersStay /\ PlansStay /\ CommandsStay /\ UNCHANGED <<knx, mapped, stage, ctx>>
  BY DEF BulkLoads
<1> HIDE DEF Step, users, plans, loopback, memory, MarkersStay, PlansStay, CommandsStay, MemoryStays
<1> QED
  BY <1>1, <1>2, <1>3, <1>4, <1>5, <1>6, <1>7, <1>8, <1>9

\* What is held changes in these fields only, and the step after is one of these.
Only(fields, next) ==
    DOMAIN ctx' = Fields /\ (\A f \in Fields \ fields : ctx'[f] = ctx[f]) /\ stage' \in next

\* Which fields of what is held each action changes, and where it goes on.
LEMMA HeldFrames ==
  ASSUME DOMAIN ctx = Fields
  PROVE
    /\ Audits => Only({"applies", "kind", "miss", "loop", "snap", "failed", "left"},
                {"triggers", "clusters", "done"})
    /\ ResolvesClusters => Only({"left", "failed", "batch"},
                {"triggers", "fill", "upload"})
    /\ FillsGap => Only({"ms", "batch", "failed"},
                {"free", "upload", "loopback", "done"})
    /\ FindsFree => Only({"free"},
                {"obtain"})
    /\ Obtains => Only({"batch", "free", "alloc", "m", "failed"},
                {"obtain"})
    /\ HasBatch => Only({"ms", "free"},
                {"upload", "loopback", "bridge"})
    /\ Prestages => Only({"pre"},
                {"plan"})
    /\ TakesPlan => Only({"left", "k", "m", "fresh", "free", "batch", "failed", "alloc", "loop", "pre"},
                {"plan", "done", "triggers", "read path"})
    /\ WiresReadPath => Only({"failed"},
                {"fill", "loopback", "done"})
    /\ WiresBridge => Only({"failed", "m"},
                {"loopback", "done"})
    /\ EnsuresLoopback => Only({"fresh", "failed"},
                {"plan", "command", "done"})
    /\ SavesCommand => Only({"failed"},
                {"fan out", "plan", "done"})
    /\ FansOut => Only({"failed"},
                {"plan", "done"})
    /\ AuditsTriggers => Only({"kind", "pairs", "drops", "failed"},
                {"trigger plan", "done"})
    /\ ResolvesTrigger => Only({"pairs", "failed"},
                {"pair", "drop"})
    /\ AddsPair => Only({"pairs", "failed"},
                {"pair", "drop", "done"})
    /\ DropsPairs => Only({"drops", "failed"},
                {"drop", "done"})
    /\ DecidesTriggers => Only({"left", "failed", "waits"},
                {"clean pairs", "clean plans"})
    /\ RemovesPairs => Only({"failed", "waits"},
                {"clean plans"})
    /\ DeletesPlans => Only({"left", "failed", "waits"},
                {"clean plans", "clean web"})
    /\ DeletesWebIo => Only({"failed"},
                {"clean read", "done"})
    /\ ReadsBridges => Only({"batch", "ms", "used", "failed"},
                {"clean marker", "done"})
    /\ ResetsMarker => Only({"batch", "failed"},
                {"clean marker", "done"})
<1>1. Audits => Only({"applies", "kind", "miss", "loop", "snap", "failed", "left"},
                {"triggers", "clusters", "done"})
  BY DEF Audits, Only, Step, Finds
<1>2. ResolvesClusters => Only({"left", "failed", "batch"},
                {"triggers", "fill", "upload"})
  BY DEF ResolvesClusters, Only, Step
<1>3. FillsGap => Only({"ms", "batch", "failed"},
                {"free", "upload", "loopback", "done"})
  BY DEF FillsGap, Only, Step, NoBatch, AfterBatch, Upfront
<1>4. FindsFree => Only({"free"},
                {"obtain"})
  BY DEF FindsFree, Only, Step
<1>5. Obtains => Only({"batch", "free", "alloc", "m", "failed"},
                {"obtain"})
  BY DEF Obtains, Only, Step, Obtained, ObtainedNone, Upfront
<1>6. HasBatch => Only({"ms", "free"},
                {"upload", "loopback", "bridge"})
  BY DEF HasBatch, Only, Step, Upfront
<1>7. Prestages => Only({"pre"},
                {"plan"})
  BY DEF Prestages, Only, Step, Answered, There, Made, NotEnsured
<1>8. TakesPlan => Only({"left", "k", "m", "fresh", "free", "batch", "failed", "alloc", "loop", "pre"},
                {"plan", "done", "triggers", "read path"})
  BY DEF TakesPlan, Only, Step
<1>9. WiresReadPath => Only({"failed"},
                {"fill", "loopback", "done"})
  BY DEF WiresReadPath, Only, Step, LegFails, LegRefused, Reported
<1>10. WiresBridge => Only({"failed", "m"},
                {"loopback", "done"})
  BY DEF WiresBridge, Only, Step
<1>11. EnsuresLoopback => Only({"fresh", "failed"},
                {"plan", "command", "done"})
  BY DEF EnsuresLoopback, Only, Step, Reported
<1>12. SavesCommand => Only({"failed"},
                {"fan out", "plan", "done"})
  BY DEF SavesCommand, Only, Step, LegFails, Reported
<1>13. FansOut => Only({"failed"},
                {"plan", "done"})
  BY DEF FansOut, Only, Step, LegFails, LegRefused, Reported
<1>14. AuditsTriggers => Only({"kind", "pairs", "drops", "failed"},
                {"trigger plan", "done"})
  BY DEF AuditsTriggers, Only, Step, Pairing, Reported
<1>15. ResolvesTrigger => Only({"pairs", "failed"},
                {"pair", "drop"})
  BY DEF ResolvesTrigger, Only, Step, Reported
<1>16. AddsPair => Only({"pairs", "failed"},
                {"pair", "drop", "done"})
  BY DEF AddsPair, Only, Step, Reported
<1>17. DropsPairs => Only({"drops", "failed"},
                {"drop", "done"})
  BY DEF DropsPairs, Only, Step
<1>18. DecidesTriggers => Only({"left", "failed", "waits"},
                {"clean pairs", "clean plans"})
  BY DEF DecidesTriggers, Only, Step, Stuck, Reported
<1>19. RemovesPairs => Only({"failed", "waits"},
                {"clean plans"})
  BY DEF RemovesPairs, Only, Step, Stuck, Reported
<1>20. DeletesPlans => Only({"left", "failed", "waits"},
                {"clean plans", "clean web"})
  BY DEF DeletesPlans, Only, Step
<1>21. DeletesWebIo => Only({"failed"},
                {"clean read", "done"})
  BY DEF DeletesWebIo, Only, Step, Reported
<1>22. ReadsBridges => Only({"batch", "ms", "used", "failed"},
                {"clean marker", "done"})
  BY DEF ReadsBridges, Only, Step, Reported
<1>23. ResetsMarker => Only({"batch", "failed"},
                {"clean marker", "done"})
  BY DEF ResetsMarker, Only, Step, Reported
<1> QED
  BY <1>1, <1>2, <1>3, <1>4, <1>5, <1>6, <1>7, <1>8, <1>9, <1>10, <1>11, <1>12, <1>13, <1>14, <1>15, <1>16, <1>17, <1>18, <1>19, <1>20, <1>21, <1>22, <1>23

\* What a marker got, or not got, for K k changes.
LEMMA GotFields ==
  ASSUME DOMAIN ctx = Fields, NEW k, NEW n, NEW next, next = Obtained(k, n)
  PROVE  /\ next.batch = ctx.batch \ {k} /\ next.free = ctx.free \ {n}
         /\ next.m = (IF ctx.k = 0 THEN ctx.m ELSE n)
<1>1. next.batch = ctx.batch \ {k} /\ next.free = ctx.free \ {n}
  BY DEF Obtained, Fields
<1>2. next.m = (IF ctx.k = 0 THEN ctx.m ELSE n)
  BY DEF Obtained, Fields, Upfront
<1> QED
  BY <1>1, <1>2

\* Up front the marker a K got is noted for its turn.
LEMMA GotAlloc ==
  ASSUME DOMAIN ctx = Fields, NEW k, NEW n, NEW next, next = Obtained(k, n)
  PROVE  next.alloc = IF ctx.k = 0 THEN [ctx.alloc EXCEPT ![k] = n] ELSE ctx.alloc
BY DEF Obtained, Fields, Upfront

\* A K that got no marker leaves what was prepared.
LEMMA GotNoneFields ==
  ASSUME DOMAIN ctx = Fields, NEW k, NEW n, NEW next, next = ObtainedNone(k, n)
  PROVE  next.batch = ctx.batch \ {k} /\ next.free = ctx.free \ {n} /\ next.alloc = ctx.alloc /\ next.m = ctx.m
BY DEF ObtainedNone, Fields

Same(k) == {m \in Ids(ctx.ms) : ctx.ms[m].title = BridgeTitle(k, ctx.kind[k])}
Target == IF ctx.free # {} THEN Min(ctx.free) ELSE Len(marker) + 1
WithTarget == IF ctx.free # {} THEN marker ELSE Append(marker, Titled(Blank))

\* A K gets the marker prepared for it, one of its title, or a free or new one that is given the title.
LEMMA ObtainsMarker ==
  ASSUME Obtains, NEW k, k = Min(ctx.batch)
  PROVE  /\ ctx.batch # {}
         /\ \/ ctx.alloc[k] # 0 /\ ctx' = Obtained(k, ctx.alloc[k]) /\ marker' = marker
            \/ ctx.alloc[k] = 0 /\ Same(k) # {} /\ ctx' = Obtained(k, Min(Same(k))) /\ marker' = marker
            \/ /\ ctx.alloc[k] = 0 /\ Same(k) = {}
               /\ \/ /\ marker' = Renamed(WithTarget, Target, BridgeTitle(k, ctx.kind[k]))
                     /\ ctx' = Obtained(k, Target)
                  \/ /\ marker' \in {marker, WithTarget, Renamed(WithTarget, Target, BridgeTitle(k, ctx.kind[k]))}
                     /\ ctx' = ObtainedNone(k, Target)
BY DEF Obtains, Same, Target, WithTarget

\* What an audit works on.
LEMMA AuditFinds ==
  ASSUME DOMAIN ctx = Fields, Audits
  PROVE  \/ stage' = "done" /\ ctx' = ctx /\ planCache' = planCache
         \/ \E found :
              /\ Finds(found) /\ DOMAIN found = Fields /\ found.read = ctx.read /\ found.kind \in {ctx.kind, knx}
              /\ \/ planCache' = planCache /\ found.miss = ctx.miss /\ found.loop = ctx.loop
                 \/ \E c : /\ planCache' = c /\ \E failed : \E wanted \in SUBSET Existing : c = Refetched(wanted, failed)
                           /\ found.miss = (IF Loaded(c) THEN Ks \ Bridged(c) ELSE {})
                           /\ found.loop \in {{}, LoopbackMissing(c)}
<1> DEFINE wanted == IF creds THEN mapped \cap Existing ELSE {p \in mapped \cap Existing : planCache[p] = None}
           known == [ctx EXCEPT !.applies = TRUE, !.kind = knx]
           reported == [ctx EXCEPT !.failed = TRUE, !.applies = TRUE]
           fresh(failed) == creds /\ failed = {}
           seen(failed, c) == [known EXCEPT
                                 !.miss = IF Loaded(c) THEN Ks \ Bridged(c) ELSE {},
                                 !.loop = IF fresh(failed) /\ Loaded(c) THEN LoopbackMissing(c) ELSE {},
                                 !.snap = fresh(failed) /\ Loaded(c),
                                 !.failed = ~Loaded(c) \/ (creds /\ failed # {})]
<1>1. \/ stage' = "done" /\ ctx' = ctx /\ planCache' = planCache
      \/ Finds(ctx) /\ planCache' = planCache
      \/ Finds(reported) /\ planCache' = planCache
      \/ \E failed \in SUBSET wanted : \E c : planCache' = c /\ c = Refetched(wanted, failed) /\ Finds(seen(failed, c))
  BY DEF Audits
<1>2. wanted \in SUBSET Existing
  OBVIOUS
<1> HIDE DEF wanted
<1>3. CASE Finds(reported) /\ planCache' = planCache
  <2>1. /\ DOMAIN reported = Fields /\ reported.read = ctx.read /\ reported.kind = ctx.kind
        /\ reported.miss = ctx.miss /\ reported.loop = ctx.loop
    OBVIOUS
  <2> QED
    BY <1>3, <2>1
<1>4. ASSUME NEW failed \in SUBSET wanted, NEW c, planCache' = c, c = Refetched(wanted, failed), Finds(seen(failed, c))
      PROVE  \E found : /\ Finds(found) /\ DOMAIN found = Fields /\ found.read = ctx.read /\ found.kind \in {ctx.kind, knx}
                        /\ planCache' = c /\ c = Refetched(wanted, failed)
                        /\ found.miss = (IF Loaded(c) THEN Ks \ Bridged(c) ELSE {})
                        /\ found.loop \in {{}, LoopbackMissing(c)}
  <2>1. DOMAIN seen(failed, c) = Fields /\ seen(failed, c).read = ctx.read
    BY DEF Fields
  <2>2. seen(failed, c).kind = knx
    BY DEF Fields
  <2>3. seen(failed, c).miss = (IF Loaded(c) THEN Ks \ Bridged(c) ELSE {})
    BY DEF Fields
  <2>4. seen(failed, c).loop \in {{}, LoopbackMissing(c)}
    BY DEF Fields
  <2> HIDE DEF seen
  <2> QED
    BY <1>4, <2>1, <2>2, <2>3, <2>4
<1>5. CASE Finds(ctx) /\ planCache' = planCache
  BY <1>5
<1> HIDE DEF seen, reported
<1> QED
  BY <1>1, <1>2, <1>3, <1>4, <1>5

\* An audit keeps what it found, and leaves the clusters with something to do.
LEMMA FindsLeft ==
  ASSUME NEW found, DOMAIN found = Fields, Finds(found)
  PROVE  /\ DOMAIN ctx' = Fields /\ \A f \in Fields \ {"left", "snap"} : ctx'[f] = found[f]
         /\ ctx'.left = found.read \cup found.miss \cup {b[1] : b \in found.loop}
         /\ stage' = (IF ctx'.left = {} THEN "triggers" ELSE "clusters")
<1>1. DOMAIN ctx' = Fields /\ \A f \in Fields \ {"left", "snap"} : ctx'[f] = found[f]
  BY DEF Finds
<1>2. ctx'.left = found.read \cup found.miss \cup {b[1] : b \in found.loop}
  BY DEF Finds, Fields
<1> QED
  BY <1>1, <1>2 DEF Finds

\* Finitely many bridges lack a loopback.
LEMMA LoopbackPairs ==
  ASSUME StateTypes, NEW c
  PROVE  LoopbackMissing(c) \subseteq Ks \X Ids(marker) /\ LoopbackMissing(c) \subseteq Ks \X Nat /\ IsFiniteSet(LoopbackMissing(c))
<1>1. LoopbackMissing(c) \subseteq Ks \X Ids(marker)
  BY DEF LoopbackMissing, BridgeMap
<1>2. Ids(marker) \subseteq Nat /\ IsFiniteSet(Ids(marker))
  BY FS_Interval DEF StateTypes, Ids
<1>3. IsFiniteSet(Ks \X Ids(marker))
  BY <1>2, Types, FS_Product
<1>4. IsFiniteSet(LoopbackMissing(c))
  BY <1>1, <1>3, FS_Subset
<1> QED
  BY <1>1, <1>2, <1>4

\* The next cluster, if there is one.
LEMMA NextPlan ==
  ASSUME DOMAIN ctx = Fields, TakesPlan, NEW k, k = Min(ctx.left)
  PROVE  \/ stage' = "done" /\ ctx' = ctx
         \/ /\ stage' = "triggers" /\ ctx.left = {} /\ ctx'.left = {} /\ ctx'.k = 0 /\ ctx'.m = 0
            /\ ctx'.free = ctx.free /\ ctx'.batch = ctx.batch /\ ctx'.loop = {}
         \/ /\ ctx.left # {} /\ ctx'.left = ctx.left \ {k} /\ ctx'.m = 0 /\ ctx'.free = {} /\ ctx'.batch = {k} \cap ctx.miss
            /\ ctx'.loop = ctx.loop /\ ctx'.pre = ctx.pre /\ ctx'.alloc = ctx.alloc /\ ctx'.fresh = FALSE
            /\ \/ stage' = "read path" /\ ctx'.k = k
               \/ stage' = "plan" /\ ctx'.k = ctx.k
<1> DEFINE last == [ctx EXCEPT !.k = 0, !.m = 0, !.alloc = <<>>, !.loop = {}, !.pre = {}, !.fresh = FALSE]
           goes == [ctx EXCEPT !.left = @ \ {k}, !.k = k, !.m = 0, !.fresh = FALSE, !.free = {}, !.batch = {k} \cap ctx.miss]
           skips == [goes EXCEPT !.k = ctx.k, !.failed = TRUE]
<1>1. \/ stage' = "done" /\ ctx' = ctx
      \/ stage' = "triggers" /\ ctx.left = {} /\ ctx' = last
      \/ stage' = "read path" /\ ctx.left # {} /\ ctx' = goes
      \/ stage' = "plan" /\ ctx.left # {} /\ ctx' = skips
  BY DEF TakesPlan, Step
<1>2. last.left = ctx.left /\ last.k = 0 /\ last.m = 0 /\ last.free = ctx.free /\ last.batch = ctx.batch /\ last.loop = {}
  BY DEF Fields
<1>3. goes.left = ctx.left \ {k} /\ goes.m = 0 /\ goes.free = {} /\ goes.batch = {k} \cap ctx.miss
  BY DEF Fields
<1>4. /\ goes.loop = ctx.loop /\ goes.pre = ctx.pre /\ goes.alloc = ctx.alloc /\ goes.fresh = FALSE /\ goes.k = k
      /\ DOMAIN goes = Fields
  BY DEF Fields
<1> HIDE DEF last, goes
<1>5. skips.left = ctx.left \ {k} /\ skips.m = 0 /\ skips.free = {} /\ skips.batch = {k} \cap ctx.miss
  BY <1>3, <1>4 DEF Fields
<1>6. skips.loop = ctx.loop /\ skips.pre = ctx.pre /\ skips.alloc = ctx.alloc /\ skips.fresh = FALSE /\ skips.k = ctx.k
  BY <1>4 DEF Fields
<1> HIDE DEF skips
<1> QED
  BY <1>1, <1>2, <1>3, <1>4, <1>5, <1>6

-----------------------------------------------------------------------------
(* What is held has its type, and a step is reached with what it takes.        *)

\* While markers are given out, those who wait for one are Ks.
LEMMA BatchOfKs ==
  ASSUME HeldTypes, ByStage, Wants, stage \in Batches
  PROVE  /\ ctx.batch \subseteq Ks /\ ctx.alloc \in [Ks -> Nat] /\ ctx.kind \in [Ks -> {"plain", "trig"}]
         /\ ctx.batch # {} => Min(ctx.batch) \in ctx.batch
<1>1. ctx.batch \subseteq Ks
  BY DEF HeldTypes, Wants
<1>2. ctx.alloc \in [Ks -> Nat] /\ ctx.kind \in [Ks -> {"plain", "trig"}]
  BY DEF ByStage, WiringStages
<1> QED
  BY <1>1, <1>2, MinIn DEF HeldTypes

\* Only markers there are get paired.
LEMMA PairedIds ==
  ASSUME StateTypes, HeldTypes, AuditsTriggers
  PROVE  ctx'.pairs \subseteq Nat
<1>0. DOMAIN ctx = Fields /\ ctx.pairs \subseteq Nat
  BY DEF HeldTypes
<1>1. \A k, c : MarkersOf(k, c, marker) \subseteq Ids(marker)
  BY DEF MarkersOf, BridgeMap, Bridges
<1>2. Ids(marker) \subseteq Nat
  BY DEF StateTypes, Ids
<1>3. \A k, c : MarkersOf(k, c, marker) # {} => Min(MarkersOf(k, c, marker)) \in Nat
  BY <1>1, <1>2, MinIn
<1>4. ASSUME NEW c, NEW known, NEW base, DOMAIN base = Fields, NEW next, next = Pairing(c, marker, known, base)
      PROVE  next.pairs \subseteq Nat
  <2> DEFINE t == IF known THEN c[Trigger] ELSE EmptyTrigger
             unpaired == {k \in TrigKs : ~\E b \in BridgeMap(c) : b[1] = k /\ b[2] \in t.pair}
             found == {k \in unpaired : MarkersOf(k, c, marker) # {}}
  <2>1. next.pairs = (Plain(marker) \ t.pair) \cup {Min(MarkersOf(k, c, marker)) : k \in found}
    BY <1>4 DEF Pairing, Fields
  <2>2. Plain(marker) \subseteq Nat
    BY <1>2 DEF Plain
  <2> QED
    BY <1>3, <2>1, <2>2
<1>5. \/ ctx'.pairs = ctx.pairs
      \/ \E c, known, base : DOMAIN base = Fields /\ ctx' = Pairing(c, marker, known, base)
  <2>1. DOMAIN [ctx EXCEPT !.kind = knx] = Fields
    BY <1>0
  <2> QED
    BY <1>0, <2>1 DEF AuditsTriggers, Reported, Fields
<1>6. PICK next : next = ctx'
  OBVIOUS
<1> QED
  BY <1>0, <1>4, <1>5, <1>6

\* What is held keeps its types.
LEMMA HeldTypesKept ==
  ASSUME StateTypes, HeldTypes, ByStage, Wants, BridgesNext
  PROVE  HeldTypes'
<1>0. DOMAIN ctx = Fields
  BY DEF HeldTypes
<1> DEFINE Small == ctx'.pairs \subseteq Nat /\ \E next : Only({"kind", "pairs", "drops", "failed", "waits", "pre", "fresh"}, next)
<1>a. Small => HeldTypes'
  BY DEF HeldTypes, Only, Fields
<1>b. Prestages \/ WiresReadPath \/ EnsuresLoopback \/ SavesCommand \/ FansOut \/ DropsPairs \/ RemovesPairs \/ DeletesWebIo => Small
  <2>1. ctx.pairs \subseteq Nat
    BY DEF HeldTypes
  <2> QED
    BY <1>0, <2>1, HeldFrames DEF Only, Fields
<1>c. ResolvesTrigger \/ AddsPair => Small
  <2>1. ResolvesTrigger => ctx' = ctx \/ ctx' = [Reported EXCEPT !.pairs = {}]
    BY DEF ResolvesTrigger
  <2>2. ASSUME AddsPair
        PROVE  \/ ctx' = ctx \/ ctx' = Reported
               \/ \E m : \/ ctx' = [ctx EXCEPT !.pairs = @ \ {m}]
                         \/ ctx' = [ctx EXCEPT !.pairs = @ \ {m}, !.failed = TRUE]
    <3>1. PICK m : m = Min(ctx.pairs)
      OBVIOUS
    <3>2. \/ ctx' = ctx \/ ctx' = Reported
          \/ ctx' = [ctx EXCEPT !.pairs = @ \ {m}]
          \/ ctx' = [[ctx EXCEPT !.pairs = @ \ {m}] EXCEPT !.failed = TRUE]
      BY <2>2, <3>1 DEF AddsPair
    <3> QED
      BY <1>0, <3>2 DEF Fields
  <2>3. ResolvesTrigger \/ AddsPair => ctx'.pairs \subseteq ctx.pairs
    BY <1>0, <2>1, <2>2 DEF Reported, Fields
  <2> QED
    BY <1>0, <2>3, HeldFrames DEF Only, Fields, HeldTypes
<1>d. AuditsTriggers => Small
  BY <1>0, PairedIds, HeldFrames DEF Only, Fields
<1> HIDE DEF Small
<1>1. CASE User \/ BulkLoads
  BY <1>1, UserTouches, CleaningFrames DEF TouchedByUser, HeldTypes
<1>2. CASE Press
  <2>1. DOMAIN ctx' = Fields /\ \A f \in Fields \ {"read", "gaps", "kind", "alloc"} : ctx'[f] = NoContext[f]
    BY <1>2, NothingHeld DEF Press
  <2>2. ctx'.read = ReadMissing
    BY <1>2, NothingHeld DEF Press, Fields
  <2>3. ReadMissing \subseteq Ks
    BY DEF ReadMissing
  <2>4. /\ ctx'.op = "sync" /\ ctx'.miss = {} /\ ctx'.loop = {} /\ ctx'.left = {} /\ ctx'.k = 0 /\ ctx'.m = 0
        /\ ctx'.batch = {} /\ ctx'.ms = <<>> /\ ctx'.free = {} /\ ctx'.used = {} /\ ctx'.pairs = {}
    BY <2>1, NothingHeld DEF Fields
  <2> QED
    BY <2>1, <2>2, <2>3, <2>4, FS_EmptySet, EmptySeq DEF HeldTypes
<1>3. CASE Audits
  <2>0. Only({"applies", "kind", "miss", "loop", "snap", "failed", "left"}, {"triggers", "clusters", "done"})
    BY <1>0, <1>3, HeldFrames
  <2>1. CASE ctx' = ctx
    BY <2>1 DEF HeldTypes
  <2>2. ASSUME NEW found, Finds(found), DOMAIN found = Fields, found.read = ctx.read,
               \/ found.miss = ctx.miss /\ found.loop = ctx.loop
               \/ found.miss \subseteq Ks /\ \E c : found.loop \in {{}, LoopbackMissing(c)}
        PROVE  HeldTypes'
    <3>1. found.miss \subseteq Ks
      BY <2>2 DEF HeldTypes
    <3>2. found.loop \subseteq Ks \X Nat /\ IsFiniteSet(found.loop)
      <4>1. \A c : LoopbackMissing(c) \subseteq Ks \X Nat /\ IsFiniteSet(LoopbackMissing(c))
        BY LoopbackPairs
      <4>2. ctx.loop \subseteq Ks \X Nat /\ IsFiniteSet(ctx.loop)
        BY DEF HeldTypes
      <4> QED
        BY <2>2, <4>1, <4>2, FS_EmptySet
    <3>3. /\ ctx'.miss = found.miss /\ ctx'.loop = found.loop
          /\ ctx'.left = found.read \cup found.miss \cup {b[1] : b \in found.loop}
      BY <2>2, FindsLeft DEF Fields
    <3>4. ctx'.left \subseteq Plans
      BY <2>2, <3>1, <3>2, <3>3 DEF HeldTypes, Plans
    <3> QED
      BY <2>0, <3>1, <3>2, <3>3, <3>4 DEF HeldTypes, Only, Fields
  <2> QED
    BY <1>0, <1>3, <2>1, <2>2, AuditFinds
<1>4. CASE ResolvesClusters
  <2>0. Only({"left", "failed", "batch"}, {"triggers", "fill", "upload"})
    BY <1>0, <1>4, HeldFrames
  <2>1. ctx'.left \subseteq ctx.left /\ ctx'.batch = ctx.miss
    BY <1>0, <1>4 DEF Fields, ResolvesClusters
  <2> QED
    BY <2>1, <2>0, Types DEF HeldTypes, Only, Fields
<1>5. CASE FillsGap
  <2>0. Only({"ms", "batch", "failed"}, {"free", "upload", "loopback", "done"})
    BY <1>0, <1>5, HeldFrames
  <2>1. ctx'.ms \in {marker, ctx.ms} /\ ctx'.batch \subseteq ctx.batch
    BY <1>0, <1>5 DEF Fields, FillsGap, NoBatch
  <2> QED
    BY <2>1, <2>0 DEF HeldTypes, Only, Fields, StateTypes
<1>6. CASE FindsFree
  <2>0. Only({"free"}, {"obtain"})
    BY <1>0, <1>6, HeldFrames
  <2>1. ctx'.free \subseteq Ids(ctx.ms)
    BY <1>0, <1>6 DEF Fields, FindsFree, FreeMarkers, Reusable
  <2>2. Ids(ctx.ms) \subseteq Nat
    BY DEF HeldTypes, Ids
  <2> QED
    BY <2>1, <2>2, <2>0 DEF HeldTypes, Only, Fields
<1>7. CASE Obtains
  <2>0. Only({"batch", "free", "alloc", "m", "failed"}, {"obtain"})
    BY <1>0, <1>7, HeldFrames
  <2>1. PICK k, m : k = Min(ctx.batch) /\ ctx.batch # {} /\ (ctx' = ObtainedNone(k, m) \/ (ctx' = Obtained(k, m) /\ m \in Nat))
    <3>a. \A k : Same(k) \subseteq Nat
      BY DEF Same, Ids, HeldTypes
    <3>1. \A k : Same(k) # {} => Min(Same(k)) \in Nat
      BY <3>a, MinIn
    <3>b. ctx.free # {} => Min(ctx.free) \in Nat
      BY MinIn DEF HeldTypes
    <3>2. Target \in Nat
      BY <3>b DEF Target, StateTypes
    <3>3. ctx.alloc[Min(ctx.batch)] \in Nat
      <4>1. stage = "obtain"
        BY <1>7, SyncFrames
      <4>2. ctx.batch # {}
        BY <1>7 DEF Obtains
      <4> QED
        BY <4>1, <4>2, BatchOfKs DEF Batches
    <3> QED
      BY <1>7, <3>1, <3>2, <3>3, ObtainsMarker
  <2>2. ctx'.batch \subseteq ctx.batch /\ ctx'.free \subseteq ctx.free /\ ctx'.m \in Nat
    <3>1. ctx.m \in Nat
      BY DEF HeldTypes
    <3>2. CASE ctx' = ObtainedNone(k, m)
      <4>1. PICK next : next = ctx'
        OBVIOUS
      <4> QED
        BY <1>0, <3>1, <3>2, <4>1, GotNoneFields
    <3>3. CASE ctx' = Obtained(k, m) /\ m \in Nat
      <4>1. PICK next : next = ctx'
        OBVIOUS
      <4> QED
        BY <1>0, <3>1, <3>3, <4>1, GotFields
    <3> QED
      BY <2>1, <3>2, <3>3
  <2> QED
    BY <2>1, <2>2, <2>0 DEF HeldTypes, Only, Fields
<1>8. CASE HasBatch
  <2>0. Only({"ms", "free"}, {"upload", "loopback", "bridge"})
    BY <1>0, <1>8, HeldFrames
  <2>1. ctx'.ms = <<>> /\ ctx'.free = {}
    BY <1>0, <1>8 DEF Fields, HasBatch
  <2> QED
    BY <2>1, <2>0, EmptySeq DEF HeldTypes, Only, Fields
<1>9. CASE TakesPlan
  <2>0. Only({"left", "k", "m", "fresh", "free", "batch", "failed", "alloc", "loop", "pre"}, {"plan", "done", "triggers", "read path"})
    BY <1>0, <1>9, HeldFrames
  <2>1. ctx.left \subseteq Ks
    BY <1>9, SyncFrames DEF ByStage, WiringStages
  <2>2. ctx.left # {} => Min(ctx.left) \in ctx.left
    BY <2>1, MinIn, Types
  <2>3. /\ ctx'.left \subseteq ctx.left /\ ctx'.k \in {0, ctx.k} \cup ctx.left /\ ctx'.m \in {0, ctx.m}
        /\ ctx'.free \subseteq ctx.free /\ ctx'.batch \subseteq ctx.batch \cup ctx.miss /\ ctx'.loop \in {{}, ctx.loop}
    BY <1>0, <1>9, <2>2, NextPlan
  <2>a. ctx.k \in Ks \cup {0} /\ ctx.m \in Nat /\ ctx.batch \subseteq Nat /\ ctx.miss \subseteq Nat
    BY Types DEF HeldTypes
  <2>4. ctx'.k \in Ks \cup {0} /\ ctx'.m \in Nat /\ ctx'.batch \subseteq Nat
    BY <2>1, <2>3, <2>a
  <2> QED
    BY <2>0, <2>3, <2>4, FS_EmptySet DEF HeldTypes, Only, Fields
<1>10. CASE WiresBridge
  <2>0. Only({"failed", "m"}, {"loopback", "done"})
    BY <1>0, <1>10, HeldFrames
  <2>1. ctx'.m \in {0, ctx.m}
    BY <1>0, <1>10 DEF Fields, WiresBridge
  <2> QED
    BY <2>1, <2>0 DEF HeldTypes, Only, Fields
<1>11. ASSUME NEW scope \in {"knx", "full"}, CleanUp(scope) PROVE HeldTypes'
  <2>1. DOMAIN ctx' = Fields /\ \A f \in Fields \ {"op", "left"} : ctx'[f] = NoContext[f]
    BY <1>11, NothingHeld DEF CleanUp
  <2>2. ctx'.op = scope /\ ctx'.left = mapped \cap Ks
    BY <1>11, NothingHeld DEF CleanUp, Fields
  <2>3. /\ ctx'.read = {} /\ ctx'.miss = {} /\ ctx'.loop = {} /\ ctx'.k = 0 /\ ctx'.m = 0
        /\ ctx'.batch = {} /\ ctx'.ms = <<>> /\ ctx'.free = {} /\ ctx'.used = {} /\ ctx'.pairs = {}
    BY <2>1, NothingHeld DEF Fields
  <2> QED
    BY <2>1, <2>2, <2>3, FS_EmptySet, EmptySeq DEF HeldTypes, Plans
<1>12. CASE DecidesTriggers
  <2>0. Only({"left", "failed", "waits"}, {"clean pairs", "clean plans"})
    BY <1>0, <1>12, HeldFrames
  <2>1. ctx'.left \subseteq ctx.left \cup {Trigger}
    BY <1>0, <1>12 DEF Fields, DecidesTriggers, Stuck, Reported
  <2> QED
    BY <2>1, <2>0 DEF HeldTypes, Only, Fields, Plans
<1>13. CASE DeletesPlans
  <2>0. Only({"left", "failed", "waits"}, {"clean plans", "clean web"})
    BY <1>0, <1>13, HeldFrames
  <2>1. ctx'.left \subseteq ctx.left
    BY <1>0, <1>13 DEF Fields, DeletesPlans
  <2> QED
    BY <2>1, <2>0 DEF HeldTypes, Only, Fields
<1>14. CASE ReadsBridges
  <2>0. Only({"batch", "ms", "used", "failed"}, {"clean marker", "done"})
    BY <1>0, <1>14, HeldFrames
  <2>1. /\ ctx'.ms \in {marker, ctx.ms} /\ ctx'.batch \subseteq ctx.batch \cup Bridges(marker)
        /\ ctx'.used \subseteq ctx.used \cup own \cup UNION {InPlan(plan[k]) : k \in Ks}
    BY <1>0, <1>14 DEF Fields, ReadsBridges, Reported
  <2>2. Bridges(marker) \subseteq Nat /\ \A k \in Ks : InPlan(plan[k]) \subseteq Nat
    BY DEF StateTypes, Bridges, InPlan, Cluster, Ids
  <2>3. own \subseteq Nat
    BY DEF StateTypes
  <2>4. UNION {InPlan(plan[k]) : k \in Ks} \subseteq Nat
    BY <2>2
  <2>5. ctx'.used \subseteq Nat /\ ctx'.batch \subseteq Nat /\ ctx'.ms \in Seq(Marker)
    BY <2>1, <2>2, <2>3, <2>4 DEF HeldTypes, StateTypes
  <2> QED
    BY <2>0, <2>5 DEF HeldTypes, Only, Fields
<1>15. CASE ResetsMarker
  <2>0. Only({"batch", "failed"}, {"clean marker", "done"})
    BY <1>0, <1>15, HeldFrames
  <2>1. ctx'.batch \subseteq ctx.batch
    BY <1>0, <1>15 DEF Fields, ResetsMarker, Reported
  <2> QED
    BY <2>1, <2>0 DEF HeldTypes, Only, Fields
<1>16. CASE Finishes
  BY <1>16, NothingHeld, Types, FS_EmptySet, EmptySeq DEF HeldTypes, Finishes
<1> QED
  BY <1>a, <1>b, <1>c, <1>d, <1>1, <1>2, <1>3, <1>4, <1>5, <1>6, <1>7, <1>8, <1>9, <1>10, <1>11, <1>12, <1>13, <1>14, <1>15, <1>16
     DEF BridgesNext, Sync, Cleaning, WiresTriggers

\* Each step leaves the next what it takes.
LEMMA ByStageKept ==
  ASSUME StateTypes, HeldTypes, ByStage, Wants, BridgesNext
  PROVE  ByStage'
<1>0. DOMAIN ctx = Fields
  BY DEF HeldTypes
<1> USE DEF Batches, Legs, WiringStages, TriggerStages, CleanStages
<1>1. CASE User \/ BulkLoads
  BY <1>1, UserTouches, CleaningFrames DEF TouchedByUser, ByStage, CommandsStay
<1>2. CASE Press
  <2>1. DOMAIN ctx' = Fields /\ \A f \in Fields \ {"read", "gaps", "kind", "alloc"} : ctx'[f] = NoContext[f]
    BY <1>2, NothingHeld DEF Press
  <2>2. ctx'.kind = knx /\ ctx'.alloc = [k \in Ks |-> 0] /\ stage' = "audit"
    BY <1>2, NothingHeld DEF Press, Fields
  <2>3. ctx'.op = "sync" /\ ctx'.miss = {} /\ ctx'.loop = {} /\ ctx'.left = {} /\ ctx'.k = 0 /\ ctx'.m = 0
    BY <2>1, NothingHeld DEF Fields
  <2>4. knx \in [Ks -> {"plain", "trig"}] /\ [k \in Ks |-> 0] \in [Ks -> Nat]
    BY DEF StateTypes
  <2> QED
    BY <2>2, <2>3, <2>4 DEF ByStage
<1>3. CASE Audits
  <2>0. Only({"applies", "kind", "miss", "loop", "snap", "failed", "left"}, {"triggers", "clusters", "done"})
    BY <1>0, <1>3, HeldFrames
  <2>1. CASE stage' = "done"
    BY <2>1 DEF ByStage
  <2>2. ASSUME NEW found, Finds(found), DOMAIN found = Fields, found.kind \in {ctx.kind, knx}
        PROVE  ByStage'
    <3>1. ctx'.kind \in {ctx.kind, knx} /\ stage' \in {"triggers", "clusters"}
      BY <2>2, FindsLeft DEF Fields
    <3>2. ctx'.op = ctx.op /\ ctx'.k = ctx.k /\ ctx'.m = ctx.m /\ ctx'.alloc = ctx.alloc
      BY <2>0 DEF Only, Fields
    <3>3. stage = "audit" /\ knx \in [Ks -> {"plain", "trig"}]
      BY <1>3, SyncFrames DEF StateTypes
    <3>4. ctx'.left \subseteq Ks
      <4>1. HeldTypes'
        BY HeldTypesKept
      <4>2. ctx'.left = found.read \cup found.miss \cup {b[1] : b \in found.loop} /\ ctx'.read = found.read
            /\ ctx'.miss = found.miss /\ ctx'.loop = found.loop
        BY <2>2, FindsLeft DEF Fields
      <4> QED
        BY <4>1, <4>2 DEF HeldTypes
    <3> QED
      BY <3>1, <3>2, <3>3, <3>4 DEF ByStage
  <2> QED
    BY <1>0, <1>3, <2>1, <2>2, AuditFinds
<1>4. CASE ResolvesClusters
  <2>0. Only({"left", "failed", "batch"}, {"triggers", "fill", "upload"})
    BY <1>0, <1>4, HeldFrames
  <2>1. ctx'.left \subseteq ctx.left /\ ctx'.left \subseteq mapped' /\ stage = "clusters"
    BY <1>0, <1>4 DEF Fields, ResolvesClusters, Step
  <2>2. ctx'.op = ctx.op /\ ctx'.k = ctx.k /\ ctx'.m = ctx.m /\ ctx'.alloc = ctx.alloc /\ ctx'.kind = ctx.kind
    BY <2>0 DEF Only, Fields
  <2>3. [k \in Ks |-> 0] \in [Ks -> Nat]
    OBVIOUS
  <2>4. ctx.k = 0 /\ ctx.left \subseteq Ks /\ 0 \notin ctx'.left
    BY <2>1, Types DEF ByStage
  <2> QED
    BY <2>0, <2>1, <2>2, <2>3, <2>4 DEF ByStage, Only
<1>5. CASE FillsGap
  <2>0. Only({"ms", "batch", "failed"}, {"free", "upload", "loopback", "done"})
    BY <1>0, <1>5, HeldFrames
  <2>1. /\ ctx'.op = ctx.op /\ ctx'.k = ctx.k /\ ctx'.m = ctx.m /\ ctx'.alloc = ctx.alloc /\ ctx'.kind = ctx.kind
        /\ ctx'.left = ctx.left
    BY <2>0 DEF Only, Fields
  <2>2. stage = "fill" /\ mapped' = mapped
    BY <1>5, SyncFrames DEF MemoryStays
  <2>3. stage' \in {"free", "done"} \/ stage' = (IF ctx.k = 0 THEN "upload" ELSE "loopback")
    BY <1>5 DEF FillsGap, AfterBatch, Upfront
  <2> QED
    BY <2>1, <2>2, <2>3 DEF ByStage, Wants
<1>6. CASE FindsFree
  <2>0. Only({"free"}, {"obtain"})
    BY <1>0, <1>6, HeldFrames
  <2>1. /\ ctx'.op = ctx.op /\ ctx'.k = ctx.k /\ ctx'.alloc = ctx.alloc /\ ctx'.kind = ctx.kind /\ ctx'.left = ctx.left
        /\ stage' = "obtain"
    BY <2>0 DEF Only, Fields
  <2>2. stage = "free" /\ mapped' = mapped
    BY <1>6, SyncFrames DEF MemoryStays
  <2> QED
    BY <2>1, <2>2 DEF ByStage
<1>7. CASE Obtains
  <2>0. Only({"batch", "free", "alloc", "m", "failed"}, {"obtain"})
    BY <1>0, <1>7, HeldFrames
  <2>1. ctx'.op = ctx.op /\ ctx'.k = ctx.k /\ ctx'.kind = ctx.kind /\ ctx'.left = ctx.left /\ stage' = "obtain"
    BY <2>0 DEF Only, Fields
  <2>2. stage = "obtain" /\ mapped' = mapped
    BY <1>7, SyncFrames DEF MemoryStays
  <2>3. PICK k \in Ks : k = Min(ctx.batch)
    BY <1>7, <2>2, BatchOfKs DEF Obtains
  <2>4. ctx'.alloc \in [Ks -> Nat]
    <3>1. ctx.alloc \in [Ks -> Nat]
      BY <2>2, BatchOfKs
    <3>2. Target \in Nat
      <4>1. ctx.free # {} => Min(ctx.free) \in Nat
        BY MinIn DEF HeldTypes
      <4> QED
        BY <4>1 DEF Target, StateTypes
    <3>3. Same(k) # {} => Min(Same(k)) \in Nat
      <4>1. Same(k) \subseteq Nat
        BY DEF Same, Ids, HeldTypes
      <4> QED
        BY <4>1, MinIn
    <3>4. PICK n \in Nat : ctx' = Obtained(k, n) \/ ctx' = ObtainedNone(k, n)
      BY <1>7, <2>3, <3>1, <3>2, <3>3, ObtainsMarker
    <3>5. PICK next : next = ctx'
      OBVIOUS
    <3>6. ctx'.alloc = ctx.alloc \/ ctx'.alloc = [ctx.alloc EXCEPT ![k] = n]
      BY <1>0, <3>4, <3>5, GotAlloc, GotNoneFields
    <3> QED
      BY <3>1, <3>6
  <2> QED
    BY <2>1, <2>2, <2>4 DEF ByStage
<1>8. CASE HasBatch
  <2>0. Only({"ms", "free"}, {"upload", "loopback", "bridge"})
    BY <1>0, <1>8, HeldFrames
  <2>1. /\ ctx'.op = ctx.op /\ ctx'.k = ctx.k /\ ctx'.m = ctx.m /\ ctx'.alloc = ctx.alloc /\ ctx'.kind = ctx.kind
        /\ ctx'.left = ctx.left
    BY <2>0 DEF Only, Fields
  <2>2. stage = "obtain" /\ mapped' = mapped
    BY <1>8, SyncFrames DEF MemoryStays
  <2>3. stage' = (IF ctx.k = 0 THEN "upload" ELSE IF ctx.m = 0 THEN "loopback" ELSE "bridge")
    BY <1>8 DEF HasBatch, Upfront
  <2> QED
    BY <2>1, <2>2, <2>3 DEF ByStage, Wants
<1>9. CASE Prestages
  <2>0. Only({"pre"}, {"plan"})
    BY <1>0, <1>9, HeldFrames
  <2>1. /\ ctx'.op = ctx.op /\ ctx'.k = ctx.k /\ ctx'.alloc = ctx.alloc /\ ctx'.kind = ctx.kind
        /\ ctx'.left = ctx.left /\ stage' = "plan"
    BY <2>0 DEF Only, Fields
  <2>2. stage = "upload" /\ mapped' = mapped
    BY <1>9, SyncFrames DEF MemoryStays
  <2> QED
    BY <2>1, <2>2 DEF ByStage
<1>10. CASE TakesPlan
  <2>0. Only({"left", "k", "m", "fresh", "free", "batch", "failed", "alloc", "loop", "pre"}, {"plan", "done", "triggers", "read path"})
    BY <1>0, <1>10, HeldFrames
  <2>1. stage = "plan" /\ mapped' = mapped
    BY <1>10, SyncFrames DEF MemoryStays
  <2>2. ctx'.op = ctx.op /\ ctx'.kind = ctx.kind
    BY <2>0 DEF Only, Fields
  <2>3. ctx.left # {} => Min(ctx.left) \in ctx.left /\ Min(ctx.left) # 0
    BY <2>1, MinIn, Types DEF ByStage
  <2>4. \/ stage' \in {"triggers", "done"}
        \/ /\ ctx'.left \subseteq ctx.left /\ ctx'.alloc = ctx.alloc
           /\ \/ stage' = "read path" /\ ctx'.k \in ctx.left /\ ctx'.k # 0
              \/ stage' = "plan" /\ ctx'.k = ctx.k
           /\ ctx.k \notin ctx.left => ctx'.k \notin ctx'.left
    BY <1>0, <1>10, <2>3, NextPlan
  <2> QED
    BY <2>1, <2>2, <2>4 DEF ByStage
<1>11. CASE WiresReadPath
  <2>0. Only({"failed"}, {"fill", "loopback", "done"})
    BY <1>0, <1>11, HeldFrames
  <2>1. /\ ctx'.op = ctx.op /\ ctx'.k = ctx.k /\ ctx'.alloc = ctx.alloc /\ ctx'.kind = ctx.kind /\ ctx'.left = ctx.left
        /\ stage' \in {"fill", "loopback", "done"}
    BY <2>0 DEF Only, Fields
  <2>2. stage = "read path" /\ mapped' = mapped
    BY <1>11, SyncFrames DEF MemoryStays
  <2> QED
    BY <2>1, <2>2 DEF ByStage
<1>12. CASE WiresBridge
  <2>0. Only({"failed", "m"}, {"loopback", "done"})
    BY <1>0, <1>12, HeldFrames
  <2>1. /\ ctx'.op = ctx.op /\ ctx'.k = ctx.k /\ ctx'.alloc = ctx.alloc /\ ctx'.kind = ctx.kind /\ ctx'.left = ctx.left
        /\ stage' \in {"loopback", "done"}
    BY <2>0 DEF Only, Fields
  <2>2. stage = "bridge" /\ mapped' = mapped
    BY <1>12, SyncFrames DEF MemoryStays
  <2> QED
    BY <2>1, <2>2 DEF ByStage
<1>13. CASE EnsuresLoopback
  <2>0. Only({"fresh", "failed"}, {"plan", "command", "done"})
    BY <1>0, <1>13, HeldFrames
  <2>1. /\ ctx'.op = ctx.op /\ ctx'.k = ctx.k /\ ctx'.alloc = ctx.alloc /\ ctx'.kind = ctx.kind /\ ctx'.left = ctx.left
        /\ stage' \in {"plan", "command", "done"}
    BY <2>0 DEF Only, Fields
  <2>2. stage = "loopback" /\ mapped' = mapped
    BY <1>13, SyncFrames DEF MemoryStays
  <2> QED
    BY <2>1, <2>2 DEF ByStage
<1>14. CASE SavesCommand
  <2>0. Only({"failed"}, {"fan out", "plan", "done"})
    BY <1>0, <1>14, HeldFrames
  <2>1. /\ ctx'.op = ctx.op /\ ctx'.k = ctx.k /\ ctx'.alloc = ctx.alloc /\ ctx'.kind = ctx.kind /\ ctx'.left = ctx.left
        /\ stage' \in {"fan out", "plan", "done"}
    BY <2>0 DEF Only, Fields
  <2>2. stage = "command" /\ mapped' = mapped
    BY <1>14, SyncFrames DEF MemoryStays
  <2> QED
    BY <2>1, <2>2 DEF ByStage
<1>15. CASE FansOut
  <2>0. Only({"failed"}, {"plan", "done"})
    BY <1>0, <1>15, HeldFrames
  <2>1. /\ ctx'.op = ctx.op /\ ctx'.k = ctx.k /\ ctx'.alloc = ctx.alloc /\ ctx'.kind = ctx.kind /\ ctx'.left = ctx.left
        /\ stage' \in {"plan", "done"}
    BY <2>0 DEF Only, Fields
  <2>2. stage = "fan out" /\ mapped' = mapped
    BY <1>15, SyncFrames DEF MemoryStays
  <2> QED
    BY <2>1, <2>2 DEF ByStage
<1>16. CASE WiresTriggers
  <2>1. stage' \in TriggerStages \cup {"done"} /\ ctx'.op = ctx.op
    BY <1>0, <1>16, HeldFrames DEF WiresTriggers, Only, Fields
  <2>2. stage \in TriggerStages
    BY <1>16, SyncFrames DEF WiresTriggers
  <2> QED
    BY <2>1, <2>2 DEF ByStage
<1>17. ASSUME NEW scope \in {"knx", "full"}, CleanUp(scope) PROVE ByStage'
  <2>1. stage' = "clean triggers"
    BY <1>17, CleaningFrames
  <2>2. ctx'.op = scope
    BY <1>17, NothingHeld DEF CleanUp, Fields
  <2> QED
    BY <2>1, <2>2 DEF ByStage
<1>18. CASE DecidesTriggers \/ RemovesPairs \/ DeletesPlans \/ DeletesWebIo \/ ReadsBridges \/ ResetsMarker
  <2>1. stage' \in CleanStages \cup {"done"} /\ ctx'.op = ctx.op
    BY <1>0, <1>18, HeldFrames DEF Only, Fields
  <2>2. stage \in CleanStages
    BY <1>18, CleaningFrames
  <2> QED
    BY <2>1, <2>2 DEF ByStage
<1>19. CASE Finishes
  BY <1>19 DEF Finishes, ByStage
<1> QED
  BY <1>1, <1>2, <1>3, <1>4, <1>5, <1>6, <1>7, <1>8, <1>9, <1>10, <1>11, <1>12, <1>13, <1>14, <1>15, <1>16,
     <1>17, <1>18, <1>19 DEF BridgesNext, Sync, Cleaning

\* Who waits for a marker is missing a bridge and has no marker yet.
LEMMA WantsKept ==
  ASSUME StateTypes, HeldTypes, ByStage, Wants, BridgesNext
  PROVE  Wants'
<1>0. DOMAIN ctx = Fields
  BY DEF HeldTypes
<1> DEFINE other == Stages \ (Batches \cup {"read path", "bridge"})
<1>a. stage' \in other => Wants'
  BY DEF Wants, Stages, WiringStages, Batches, Legs
<1>b. {"idle", "audit", "clusters", "done", "upload", "plan", "loopback", "command", "fan out"} \cup TriggerStages \cup CleanStages \subseteq other
  BY DEF Stages, WiringStages, Batches, Legs, TriggerStages, CleanStages
<1> HIDE DEF other
<1>1. CASE User \/ BulkLoads
  <2>1. UNCHANGED <<stage, ctx>>
    BY <1>1, UserTouches, CleaningFrames DEF TouchedByUser
  <2> QED
    BY <2>1 DEF Wants
<1>2. CASE Press
  BY <1>2, <1>a, <1>b DEF Press
<1>3. CASE Audits
  <2>0. Only({"applies", "kind", "miss", "loop", "snap", "failed", "left"}, {"triggers", "clusters", "done"})
    BY <1>0, <1>3, HeldFrames
  <2> QED
    BY <2>0, <1>a, <1>b DEF Only, TriggerStages
<1>4. CASE ResolvesClusters
  <2>0. Only({"left", "failed", "batch"}, {"triggers", "fill", "upload"})
    BY <1>0, <1>4, HeldFrames
  <2>1. stage = "clusters"
    BY <1>4, SyncFrames
  <2>2. ctx'.k = 0 /\ ctx'.m = 0
    BY <2>0, <2>1 DEF Only, Fields, ByStage
  <2>3. ctx'.batch = ctx.miss
    BY <1>0, <1>4 DEF ResolvesClusters, Fields
  <2>4. ctx'.batch \subseteq Ks
    BY <2>3 DEF HeldTypes
  <2>5. stage' # "bridge"
    BY <2>0 DEF Only
  <2> QED
    BY <2>2, <2>4, <2>5 DEF Wants
<1>5. CASE FillsGap
  <2>0. Only({"ms", "batch", "failed"}, {"free", "upload", "loopback", "done"})
    BY <1>0, <1>5, HeldFrames
  <2>1. stage = "fill"
    BY <1>5, SyncFrames
  <2>2. CASE stage' = "free"
    <3>1. ctx'.batch = ctx.batch
      BY <1>0, <1>5, <2>2 DEF FillsGap, AfterBatch, Fields
    <3>2. ctx'.k = ctx.k /\ ctx'.m = ctx.m /\ ctx'.miss = ctx.miss
      BY <2>0 DEF Only, Fields
    <3> QED
      BY <2>1, <2>2, <3>1, <3>2 DEF Wants, Batches
  <2> QED
    BY <2>0, <2>2, <1>a, <1>b DEF Only
<1>6. CASE FindsFree
  <2>0. Only({"free"}, {"obtain"})
    BY <1>0, <1>6, HeldFrames
  <2>1. ctx'.batch = ctx.batch /\ ctx'.k = ctx.k /\ ctx'.m = ctx.m /\ ctx'.miss = ctx.miss /\ stage' = "obtain"
    BY <2>0 DEF Only, Fields
  <2>2. stage = "free"
    BY <1>6, SyncFrames
  <2> QED
    BY <2>1, <2>2 DEF Wants, Batches
<1>7. CASE Obtains
  <2>0. Only({"batch", "free", "alloc", "m", "failed"}, {"obtain"})
    BY <1>0, <1>7, HeldFrames
  <2>1. stage = "obtain" /\ stage' = "obtain"
    BY <1>7, SyncFrames
  <2>2. ctx'.k = ctx.k /\ ctx'.miss = ctx.miss
    BY <2>0 DEF Only, Fields
  <2>3. PICK k : k \in ctx.batch /\ k = Min(ctx.batch)
    BY <1>7, <2>1, BatchOfKs DEF Obtains, Batches
  <2>4. PICK n : ctx' = Obtained(k, n) \/ ctx' = ObtainedNone(k, n)
    BY <1>7, <2>3, ObtainsMarker
  <2>5. PICK next : next = ctx'
    OBVIOUS
  <2>6. ctx'.batch = ctx.batch \ {k} /\ ctx'.m \in {ctx.m, n} /\ (ctx.k = 0 => ctx'.m = ctx.m)
    BY <1>0, <2>4, <2>5, GotFields, GotNoneFields
  <2>7. CASE ctx.k = 0
    BY <2>1, <2>2, <2>6, <2>7 DEF Wants, Batches
  <2>8. CASE ctx.k # 0
    <3>1. ctx.batch \subseteq {ctx.k} \cap ctx.miss
      BY <2>1, <2>8 DEF Wants, Batches
    <3>2. ctx'.batch = {} /\ ctx.k \in ctx.miss
      BY <2>3, <2>6, <3>1
    <3> QED
      BY <2>1, <2>2, <2>8, <3>2 DEF Wants
  <2> QED
    BY <2>7, <2>8
<1>8. CASE HasBatch
  <2>0. Only({"ms", "free"}, {"upload", "loopback", "bridge"})
    BY <1>0, <1>8, HeldFrames
  <2>1. stage = "obtain"
    BY <1>8, SyncFrames
  <2>2. ctx'.m = ctx.m /\ ctx'.k = ctx.k /\ ctx'.miss = ctx.miss
    BY <2>0 DEF Only, Fields
  <2>3. stage' = "bridge" => ctx.m # 0
    BY <1>8 DEF HasBatch, Upfront
  <2>4. stage' \in {"upload", "loopback", "bridge"}
    BY <2>0 DEF Only
  <2>5. CASE stage' = "bridge"
    BY <2>1, <2>2, <2>3, <2>5 DEF Wants, Batches
  <2> QED
    BY <2>4, <2>5, <1>a, <1>b
<1>9. CASE TakesPlan
  <2>0. Only({"left", "k", "m", "fresh", "free", "batch", "failed", "alloc", "loop", "pre"}, {"plan", "done", "triggers", "read path"})
    BY <1>0, <1>9, HeldFrames
  <2>1. CASE stage' = "read path"
    <3>1. ctx'.batch = {Min(ctx.left)} \cap ctx.miss /\ ctx'.k = Min(ctx.left) /\ ctx'.m = 0
      BY <1>0, <1>9, <2>1, NextPlan
    <3>2. ctx'.miss = ctx.miss
      BY <2>0 DEF Only, Fields
    <3> QED
      BY <2>1, <3>1, <3>2 DEF Wants, Batches
  <2> QED
    BY <2>0, <2>1, <1>a, <1>b DEF Only, TriggerStages
<1>10. CASE WiresReadPath
  <2>0. Only({"failed"}, {"fill", "loopback", "done"})
    BY <1>0, <1>10, HeldFrames
  <2>1. /\ ctx'.batch = ctx.batch /\ ctx'.k = ctx.k /\ ctx'.m = ctx.m /\ ctx'.miss = ctx.miss
        /\ stage' \in {"fill", "loopback", "done"}
    BY <2>0 DEF Only, Fields
  <2>2. stage = "read path" /\ ctx.k # 0
    BY <1>10, SyncFrames DEF ByStage, Legs
  <2>3. CASE stage' = "fill"
    <3>1. ctx.batch # {}
      BY <1>10, <2>3 DEF WiresReadPath, LegFails, LegRefused
    <3> QED
      BY <2>1, <2>2, <2>3, <3>1 DEF Wants, Batches
  <2> QED
    BY <2>1, <2>3, <1>a, <1>b
<1>11. CASE WiresBridge \/ EnsuresLoopback \/ SavesCommand \/ FansOut \/ Prestages
  <2>1. stage' \in {"loopback", "done", "plan", "command", "fan out"}
    BY <1>0, <1>11, HeldFrames DEF Only
  <2> QED
    BY <2>1, <1>a, <1>b
<1>12. CASE WiresTriggers
  <2>1. stage' \in TriggerStages \cup {"done"}
    BY <1>0, <1>12, HeldFrames DEF WiresTriggers, Only, TriggerStages
  <2> QED
    BY <2>1, <1>a, <1>b
<1>13. ASSUME NEW scope \in {"knx", "full"}, CleanUp(scope) PROVE Wants'
  BY <1>13, <1>a, <1>b, CleaningFrames DEF CleanStages
<1>14. CASE DecidesTriggers \/ RemovesPairs \/ DeletesPlans \/ DeletesWebIo \/ ReadsBridges \/ ResetsMarker
  <2>1. stage' \in CleanStages \cup {"done"}
    BY <1>0, <1>14, HeldFrames DEF Only, CleanStages
  <2> QED
    BY <2>1, <1>a, <1>b
<1>15. CASE Finishes
  BY <1>15, <1>a, <1>b DEF Finishes
<1> QED
  BY <1>1, <1>2, <1>3, <1>4, <1>5, <1>6, <1>7, <1>8, <1>9, <1>10, <1>11, <1>12, <1>13, <1>14, <1>15
     DEF BridgesNext, Sync, Cleaning

-----------------------------------------------------------------------------
(* Markers: how a sync or clean-up changes them.                               *)

\* The greatest of finitely many numbers is one of them.
LEMMA MaxIn ==
  ASSUME NEW n \in Nat, NEW S \in SUBSET (0 .. n), S # {}
  PROVE  Max(S) \in S
<1> DEFINE mirror == {n - x : x \in S}
<1>1. mirror \in SUBSET Nat /\ mirror # {}
  <2>1. \A x \in S : x \in 0 .. n /\ n - x \in Nat
    OBVIOUS
  <2> QED
    BY <2>1
<1> HIDE DEF mirror
<1>3. \E x \in mirror : \A y \in mirror : x <= y
  BY <1>1, Smallest
<1>4. PICK z \in S : \A y \in S : n - z <= n - y
  BY <1>3 DEF mirror
<1>5. \A y \in S : z >= y
  BY <1>4
<1> QED
  BY <1>5 DEF Max

\* A block starts at an id.
LEMMA BlockStartIsId ==
  ASSUME NEW ms \in Seq(Marker)
  PROVE  BlockStart(ms) \in Nat
<1> DEFINE above == {m \in Ids(ms) : ms[m].factory /\ ms[m].title # Blank} \cup {0}
<1>1. Bridges(ms) # {} => Min(Bridges(ms)) \in Nat
  <2>1. Bridges(ms) \in SUBSET Nat
    BY DEF Bridges, Ids
  <2> QED
    BY <2>1, MinIn
<1>2. Max(above) \in Nat
  <2>1. Len(ms) \in Nat /\ above \in SUBSET (0 .. Len(ms)) /\ above # {}
    BY DEF Ids
  <2>2. Max(above) \in above
    BY <2>1, MaxIn
  <2> QED
    BY <2>1, <2>2
<1>3. \A a \in Nat : (a \div Block) * Block \in Nat /\ ((a \div Block) + 1) * Block \in Nat
  <2>1. \A a \in Nat : a \div Block \in Nat
    BY Types
  <2>2. \A a, b \in Nat : a * b \in Nat
    OBVIOUS
  <2> QED
    BY <2>1, <2>2, Types
<1> QED
  BY <1>1, <1>2, <1>3 DEF BlockStart

\* Blank markers are added, to the end.
MarkersAdded(n) ==
    /\ marker' \in Seq(Marker) /\ Len(marker') = Len(marker) + n
    /\ \A m \in Ids(marker) : m \in Ids(marker') /\ marker'[m] = marker[m]
    /\ \A m \in Ids(marker') \ Ids(marker) : marker'[m] = Titled(Blank)

\* Markers appended blank leave the others as they are.
LEMMA AddsMarkers ==
  ASSUME StateTypes, NEW n \in Nat, marker' = marker \o [i \in 1..n |-> Titled(Blank)]
  PROVE  MarkersAdded(n)
<1> DEFINE blanks == [i \in 1..n |-> Titled(Blank)]
<1>1. marker \in Seq(Marker) /\ Len(marker) \in Nat
  BY DEF StateTypes
<1>2. blanks \in Seq(Marker) /\ Len(blanks) = n /\ \A i \in 1..n : blanks[i] = Titled(Blank)
  BY TitleKinds
<1> HIDE DEF blanks
<1>3. /\ marker \o blanks \in Seq(Marker) /\ Len(marker \o blanks) = Len(marker) + n
      /\ \A i \in 1..(Len(marker) + n) : (marker \o blanks)[i] = IF i <= Len(marker) THEN marker[i] ELSE blanks[i - Len(marker)]
  BY <1>1, <1>2, ConcatProperties
<1>4. marker' = marker \o blanks
  BY DEF blanks
<1>5. \A m \in Ids(marker) : m \in Ids(marker') /\ marker'[m] = marker[m]
  BY <1>1, <1>2, <1>3, <1>4 DEF Ids
<1>6. \A m \in Ids(marker') \ Ids(marker) : marker'[m] = Titled(Blank)
  BY <1>1, <1>2, <1>3, <1>4 DEF Ids
<1> QED
  BY <1>3, <1>4, <1>5, <1>6 DEF MarkersAdded

\* Filling the gap only appends blank markers.
LEMMA GapMarkers ==
  ASSUME StateTypes, FillsGap
  PROVE  \E n \in Nat : MarkersAdded(n)
<1> DEFINE from == BlockStart(marker)
           wanted == IF Len(marker) >= from - 1 THEN 0 ELSE from - 1 - Len(marker)
<1>1. wanted \in Nat
  BY BlockStartIsId DEF StateTypes
<1> HIDE DEF wanted
<1>2. \E n \in 0..wanted : marker' = marker \o [i \in 1..n |-> Titled(Blank)]
  <2>1. wanted \in 0..wanted
    BY <1>1
  <2>2. marker' = marker \o [i \in 1..wanted |-> Titled(Blank)] \/ \E n \in 0..wanted : marker' = marker \o [i \in 1..n |-> Titled(Blank)]
    BY DEF FillsGap, wanted
  <2> QED
    BY <2>1, <2>2
<1>3. PICK n \in 0..wanted : marker' = marker \o [i \in 1..n |-> Titled(Blank)]
  BY <1>2
<1> QED
  BY <1>1, <1>3, AddsMarkers

\* One marker, perhaps a new one, is given a K's title.
LEMMA RenamedMarkers ==
  ASSUME StateTypes, NEW m \in Ids(marker), NEW title \in AllTitles, marker' = Renamed(marker, m, title)
  PROVE  /\ marker' \in Seq(Marker) /\ Len(marker') = Len(marker)
         /\ marker'[m].title = title /\ \A n \in Ids(marker) \ {m} : marker'[n] = marker[n]
<1>1. marker \in Seq(Marker) /\ marker[m] \in Marker
  BY DEF StateTypes, Ids
<1>2. PICK x : x = [marker[m] EXCEPT !.title = title, !.set = FALSE]
  OBVIOUS
<1>3. x \in Marker /\ x.title = title
  BY <1>1, <1>2 DEF Marker
<1>4. marker' = [marker EXCEPT ![m] = x]
  BY <1>2 DEF Renamed
<1> QED
  BY <1>1, <1>3, <1>4, ChangedEntry DEF Ids

\* A marker appended and titled leaves the others as they are.
LEMMA NewMarker ==
  ASSUME StateTypes, NEW title \in AllTitles,
         marker' = Append(marker, Titled(Blank)) \/ marker' = Renamed(Append(marker, Titled(Blank)), Len(marker) + 1, title)
  PROVE  /\ marker' \in Seq(Marker) /\ Len(marker') = Len(marker) + 1
         /\ \A n \in Ids(marker) : marker'[n] = marker[n]
         /\ marker' = Renamed(Append(marker, Titled(Blank)), Len(marker) + 1, title) => marker'[Len(marker) + 1].title = title
<1>1. PICK longer, new : longer = Append(marker, Titled(Blank)) /\ new = Len(marker) + 1
  OBVIOUS
<1>2. /\ longer \in Seq(Marker) /\ Len(longer) = new /\ \A n \in Ids(marker) : longer[n] = marker[n]
      /\ longer[new] \in Marker /\ new \in 1..Len(longer) /\ new \notin Ids(marker)
  BY <1>1, TitleKinds DEF StateTypes, Ids
<1>3. ASSUME marker' = Renamed(longer, new, title)
      PROVE  /\ marker' \in Seq(Marker) /\ Len(marker') = Len(longer)
             /\ \A n \in Ids(marker) : marker'[n] = marker[n]
             /\ marker'[new].title = title
  <2>1. PICK x : x = [longer[new] EXCEPT !.title = title, !.set = FALSE]
    OBVIOUS
  <2>2. x \in Marker /\ x.title = title
    BY <1>2, <2>1 DEF Marker
  <2>3. marker' = [longer EXCEPT ![new] = x]
    BY <1>3, <2>1 DEF Renamed
  <2>4. marker' \in Seq(Marker) /\ Len(marker') = Len(longer)
    BY <1>2, <2>2, <2>3, ChangedEntry
  <2>5. marker'[new] = x /\ \A n \in Ids(marker) : marker'[n] = longer[n]
    BY <1>2, <2>3 DEF Ids
  <2> QED
    BY <1>2, <2>2, <2>4, <2>5
<1> QED
  BY <1>1, <1>2, <1>3

\* What a K's turn changes of the markers: only the one it was to get, and that gets its title.
ObtainChanges(k) ==
    /\ marker' \in Seq(Marker) /\ Len(marker) <= Len(marker')
    /\ \A m \in Ids(marker) : marker'[m] = marker[m]
                              \/ (m = Target /\ m \in ctx.free /\ marker'[m].title = BridgeTitle(k, ctx.kind[k]))

\* A K's turn changes no marker but the one it is to get, which gets its title.
LEMMA ObtainMarkers ==
  ASSUME StateTypes, HeldTypes, ByStage, Wants, ctx.free \subseteq Ids(marker), Obtains, NEW k, k = Min(ctx.batch)
  PROVE  /\ ObtainChanges(k) /\ k \in Ks
         /\ \/ ctx.alloc[k] # 0 /\ ctx' = Obtained(k, ctx.alloc[k]) /\ marker' = marker
            \/ Same(k) # {} /\ ctx' = Obtained(k, Min(Same(k))) /\ marker' = marker
            \/ /\ ctx' = Obtained(k, Target) /\ Target \in Ids(marker') /\ Target \in ctx.free \cup {Len(marker) + 1}
               /\ marker'[Target].title = BridgeTitle(k, ctx.kind[k])
            \/ ctx' = ObtainedNone(k, Target)
<1>1. k \in Ks /\ ctx.batch # {} /\ ctx.kind \in [Ks -> {"plain", "trig"}]
  BY BatchOfKs, SyncFrames DEF Batches, Obtains
<1>2. PICK title : title = BridgeTitle(k, ctx.kind[k])
  OBVIOUS
<1>3. title \in AllTitles
  BY <1>1, <1>2, TitleKinds
<1>4. Len(marker) \in Nat /\ marker \in Seq(Marker)
  BY DEF StateTypes
<1>5. Target \in ctx.free \cup {Len(marker) + 1}
  BY MinIn DEF Target, HeldTypes
\* The marker that is to be renamed is one to give out, or the next id.
<1>6. marker' = marker => ObtainChanges(k)
  BY <1>4 DEF ObtainChanges
<1>7. ASSUME marker' = Renamed(WithTarget, Target, title)
      PROVE  ObtainChanges(k) /\ Target \in Ids(marker') /\ marker'[Target].title = title
  <2>1. CASE ctx.free # {}
    <3>1. Target \in ctx.free /\ Target \in Ids(marker) /\ WithTarget = marker
      BY <2>1, MinIn DEF Target, WithTarget, HeldTypes
    <3>2. /\ marker' \in Seq(Marker) /\ Len(marker') = Len(marker) /\ marker'[Target].title = title
          /\ \A n \in Ids(marker) \ {Target} : marker'[n] = marker[n]
      BY <1>3, <1>7, <3>1, RenamedMarkers
    <3> QED
      BY <1>2, <1>4, <3>1, <3>2 DEF ObtainChanges, Ids
  <2>2. CASE ctx.free = {}
    <3>1. Target = Len(marker) + 1 /\ WithTarget = Append(marker, Titled(Blank))
      BY <2>2 DEF Target, WithTarget
    <3>2. /\ marker' \in Seq(Marker) /\ Len(marker') = Len(marker) + 1 /\ \A n \in Ids(marker) : marker'[n] = marker[n]
          /\ marker'[Target].title = title
      BY <1>3, <1>7, <3>1, NewMarker
    <3> QED
      BY <1>4, <3>1, <3>2 DEF ObtainChanges, Ids
  <2> QED
    BY <2>1, <2>2
<1>8. ASSUME marker' = WithTarget PROVE ObtainChanges(k)
  <2>1. CASE ctx.free # {}
    BY <1>6, <1>8, <2>1 DEF WithTarget
  <2>2. CASE ctx.free = {}
    <3>1. marker' = Append(marker, Titled(Blank))
      BY <1>8, <2>2 DEF WithTarget
    <3>2. /\ marker' \in Seq(Marker) /\ Len(marker') = Len(marker) + 1 /\ \A n \in Ids(marker) : marker'[n] = marker[n]
      BY <1>3, <3>1, NewMarker
    <3> QED
      BY <1>4, <3>2 DEF ObtainChanges
  <2> QED
    BY <2>1, <2>2
<1> QED
  BY <1>1, <1>2, <1>5, <1>6, <1>7, <1>8, ObtainsMarker

\* A reset marker is no K's any more; one in use keeps its settings.
LEMMA ResetMarkers ==
  ASSUME StateTypes, HeldTypes, ResetsInv, ResetsMarker
  PROVE  \/ marker' = marker /\ ctx'.batch \subseteq ctx.batch
         \/ \E m \in ctx.batch :
              /\ m \in Ids(marker) /\ Reset(m) \in Marker /\ ~IsBridge(Reset(m).title)
              /\ m \in ctx.used => Reset(m).title = <<marker[m].title[1], "stripped">> /\ Reset(m).set = ctx.ms[m].set
              /\ marker' = [marker EXCEPT ![m] = Reset(m)]
              /\ stage' = "done" \/ ctx'.batch = ctx.batch \ {m}
<1>0. DOMAIN ctx = Fields /\ stage = "clean marker"
  BY SyncFrames, CleaningFrames DEF HeldTypes
<1>1. ctx'.batch \subseteq ctx.batch
  BY <1>0 DEF ResetsMarker, Reported, Fields
<1>2. SUFFICES ASSUME marker' # marker
               PROVE  \E m \in ctx.batch :
                        /\ m \in Ids(marker) /\ Reset(m) \in Marker /\ ~IsBridge(Reset(m).title)
                        /\ m \in ctx.used => Reset(m).title = <<marker[m].title[1], "stripped">> /\ Reset(m).set = ctx.ms[m].set
                        /\ marker' = [marker EXCEPT ![m] = Reset(m)]
                        /\ stage' = "done" \/ ctx'.batch = ctx.batch \ {m}
  BY <1>1
<1>3. PICK m : m = Min(ctx.batch)
  OBVIOUS
<1>4. ctx.batch # {} /\ marker' = [marker EXCEPT ![m] = Reset(m)] /\ (stage' = "done" \/ ctx'.batch = ctx.batch \ {m})
  BY <1>0, <1>2, <1>3 DEF ResetsMarker, Reported, Fields
<1>5. m \in ctx.batch /\ m \in Ids(marker) /\ m \in Ids(ctx.ms) /\ IsBridge(marker[m].title) /\ ctx.ms[m].title = marker[m].title
  BY <1>0, <1>3, <1>4, MinIn DEF HeldTypes, ResetsInv, Bridges
<1>6. ctx.ms[m] \in Marker
  BY <1>5 DEF HeldTypes, Ids
<1>7. PICK t : t = ctx.ms[m].title
  OBVIOUS
<1>8. t \in AllTitles /\ Stripped(t) \in AllTitles /\ ~IsBridge(Stripped(t)) /\ Stripped(t) = <<t[1], "stripped">>
  BY <1>5, <1>6, <1>7, TitleKinds DEF Marker
<1>9. CASE m \in ctx.used
  <2>1. Reset(m) = [ctx.ms[m] EXCEPT !.title = Stripped(t)]
    BY <1>7, <1>9 DEF Reset
  <2>2. Reset(m) \in Marker /\ Reset(m).title = Stripped(t) /\ Reset(m).set = ctx.ms[m].set
    BY <1>6, <1>8, <2>1 DEF Marker
  <2> QED
    BY <1>4, <1>5, <1>7, <1>8, <2>2
<1>10. CASE m \notin ctx.used
  <2>1. Reset(m) = [ctx.ms[m] EXCEPT !.title = Blank, !.set = FALSE]
    BY <1>10 DEF Reset
  <2>2. Reset(m) \in Marker /\ Reset(m).title = Blank
    BY <1>6, <2>1, TitleKinds DEF Marker
  <2> QED
    BY <1>4, <1>5, <1>10, <2>2, TitleKinds
<1> QED
  BY <1>9, <1>10

-----------------------------------------------------------------------------
(* Plans: how a sync or clean-up changes them.                                 *)

\* A plan made anew is empty, and typed.
LEMMA NewPlans ==
    /\ EmptyPlan \in Cluster /\ EmptyPlan.elem = {} /\ EmptyPlan.bridge = {} /\ EmptyPlan # None
    /\ EmptyTrigger \in TriggerPlan /\ EmptyTrigger.elem = {} /\ EmptyTrigger.pair = {} /\ EmptyTrigger # None
<1>1. EmptyPlan \in Cluster /\ EmptyPlan.elem = {} /\ EmptyPlan.bridge = {}
  BY DEF EmptyPlan, Cluster
<1>2. EmptyTrigger \in TriggerPlan /\ EmptyTrigger.elem = {} /\ EmptyTrigger.pair = {}
  BY DEF EmptyTrigger, TriggerPlan
<1> QED
  BY <1>1, <1>2, Types

\* A changed plan is typed as the old one was.
LEMMA ClusterChange ==
  ASSUME StateTypes, NEW k \in Ks, plan[k] # None, NEW p \in Cluster
  PROVE  /\ [plan EXCEPT ![k] = p] \in [Ks -> Cluster \cup {None}] /\ p # None
         /\ [plan EXCEPT ![k] = p][k] = p /\ \A l \in Ks \ {k} : [plan EXCEPT ![k] = p][l] = plan[l]
BY Types DEF StateTypes

PlanTyped == plan' \in [Ks -> Cluster \cup {None}]
OnlySinks == PlanTyped /\ \A l \in Ks : \/ plan'[l] = plan[l]
                                       \/ /\ plan[l] # None /\ plan'[l] # None
                                          /\ plan'[l].elem = plan[l].elem /\ plan'[l].bridge = plan[l].bridge

\* Another Web-IO a K feeds is no change of the plan's bridges.
LEMMA FeedsSink ==
  ASSUME StateTypes, NEW k \in Ks, plan[k] # None, NEW c \in Nat, plan' = [plan EXCEPT ![k].sink = @ \cup {c}]
  PROVE  OnlySinks
<1>1. plan[k] \in Cluster
  BY DEF StateTypes
<1>2. PICK p : p = [plan[k] EXCEPT !.sink = @ \cup {c}]
  OBVIOUS
<1>3. p \in Cluster /\ p.elem = plan[k].elem /\ p.bridge = plan[k].bridge
  BY <1>1, <1>2 DEF Cluster
<1>4. plan' = [plan EXCEPT ![k] = p]
  BY <1>2
<1>5. PlanTyped /\ p # None /\ plan'[k] = p /\ \A l \in Ks \ {k} : plan'[l] = plan[l]
  BY <1>3, <1>4, ClusterChange DEF PlanTyped
<1> QED
  BY <1>3, <1>5 DEF OnlySinks

\* The read path and the fan-out leave the bridges of a plan alone.
LEMMA SinkSteps ==
  ASSUME StateTypes, HeldTypes, ByStage, WiresReadPath \/ FansOut
  PROVE  OnlySinks
<1>1. ctx.k \in Ks
  BY SyncFrames DEF HeldTypes, ByStage, Legs
<1>2. UNCHANGED plan => OnlySinks
  BY DEF OnlySinks, PlanTyped, StateTypes
<1>3. CASE WiresReadPath
  <2>1. plan' = plan \/ (plan[ctx.k] # None /\ plan' = [plan EXCEPT ![ctx.k].sink = @ \cup {0}])
    BY <1>3 DEF WiresReadPath
  <2> QED
    BY <1>1, <1>2, <2>1, FeedsSink
<1>4. CASE FansOut
  <2>1. plan' = plan \/ \E c \in Ids(command) : plan[ctx.k] # None /\ plan' = [plan EXCEPT ![ctx.k].sink = @ \cup {c}]
    BY <1>4 DEF FansOut, Fed, Feedable
  <2>2. Ids(command) \subseteq Nat
    BY DEF StateTypes, Ids
  <2> QED
    BY <1>1, <1>2, <2>1, <2>2, FeedsSink
<1> QED
  BY <1>3, <1>4

BridgeWired ==
    /\ PlanTyped
    /\ \A l \in Ks : \/ plan'[l] = plan[l]
                     \/ /\ l = ctx.k /\ plan[l] # None /\ plan'[l] # None /\ plan'[l].elem = plan[l].elem \cup {ctx.m}
                        /\ plan'[l].bridge \in {plan[l].bridge, plan[l].bridge \cup {ctx.m}}

\* The bridge leg wires the K's marker, or nothing.
LEMMA BridgeSteps ==
  ASSUME StateTypes, HeldTypes, ByStage, WiresBridge
  PROVE  BridgeWired
<1>1. ctx.k \in Ks /\ ctx.m \in Nat
  BY SyncFrames DEF HeldTypes, ByStage, Legs
<1>2. UNCHANGED plan => BridgeWired
  BY DEF BridgeWired, PlanTyped, StateTypes
<1>3. PICK k, m : k = ctx.k /\ m = ctx.m
  OBVIOUS
<1> DEFINE placed == [plan EXCEPT ![k].elem = @ \cup {m}]
           wired == [placed EXCEPT ![k].bridge = @ \cup {m}]
<1>4. plan' = plan \/ (plan[k] # None /\ plan' \in {placed, wired})
  BY <1>3 DEF WiresBridge
<1>5. ASSUME plan[k] # None, plan' \in {placed, wired} PROVE BridgeWired
  <2>1. plan[k] \in Cluster /\ plan \in [Ks -> Cluster \cup {None}]
    BY <1>1, <1>3, <1>5 DEF StateTypes
  <2>2. PICK p : p = [plan[k] EXCEPT !.elem = @ \cup {m}]
    OBVIOUS
  <2>3. PICK q : q = [p EXCEPT !.bridge = @ \cup {m}]
    OBVIOUS
  <2>4. p \in Cluster /\ p.elem = plan[k].elem \cup {m} /\ p.bridge = plan[k].bridge
    BY <1>1, <1>3, <2>1, <2>2 DEF Cluster
  <2>5. q \in Cluster /\ q.elem = plan[k].elem \cup {m} /\ q.bridge = plan[k].bridge \cup {m}
    BY <1>1, <1>3, <2>3, <2>4 DEF Cluster
  <2>6. placed = [plan EXCEPT ![k] = p]
    BY <2>2
  <2>a. placed[k] = p /\ wired = [placed EXCEPT ![k] = q]
    BY <1>1, <1>3, <2>1, <2>3, <2>6
  <2>7. wired = [plan EXCEPT ![k] = q]
    <3> HIDE DEF placed, wired
    <3> QED
      BY <1>1, <1>3, <2>1, <2>6, <2>a
  <2>8. PICK r : r \in {p, q} /\ plan' = [plan EXCEPT ![k] = r]
    BY <1>5, <2>6, <2>7
  <2>9. PlanTyped /\ r # None /\ plan'[k] = r /\ \A l \in Ks \ {k} : plan'[l] = plan[l]
    BY <1>1, <1>3, <1>5, <2>4, <2>5, <2>8, ClusterChange DEF PlanTyped
  <2> QED
    BY <1>3, <1>5, <2>4, <2>5, <2>8, <2>9 DEF BridgeWired
<1> HIDE DEF placed, wired
<1> QED
  BY <1>2, <1>4, <1>5

\* Clusters found missing get an empty plan.
LEMMA ClusterSteps ==
  ASSUME StateTypes, HeldTypes, ByStage, ResolvesClusters
  PROVE  PlanTyped /\ \A l \in Ks : plan'[l] = plan[l] \/ (plan[l] = None /\ plan'[l] \in {None, EmptyPlan})
<1>1. plan \in [Ks -> Cluster \cup {None}]
  BY DEF StateTypes
<1>2. PICK failed, left :
        /\ failed \in SUBSET {k \in ctx.left : plan[k] = None} /\ left \in {None, EmptyPlan}
        /\ plan' = [k \in Ks |-> IF k \in {l \in ctx.left \ failed : plan[l] = None} THEN EmptyPlan
                                ELSE IF k \in failed THEN left ELSE plan[k]]
  BY DEF ResolvesClusters, LeftBehind
<1> QED
  BY <1>1, <1>2, NewPlans DEF PlanTyped

\* A deletion takes whole plans.
LEMMA DeletingSteps ==
  ASSUME StateTypes, HeldTypes, ByStage, DeletesPlans
  PROVE  /\ PlanTyped /\ \A l \in Ks : plan'[l] \in {plan[l], None}
         /\ trig' \in {trig, None} /\ mapped' \subseteq mapped
         /\ \A l \in Ks : l \in mapped \ mapped' => plan'[l] = None
         /\ Trigger \in mapped \ mapped' => trig' = None
<1>1. plan \in [Ks -> Cluster \cup {None}] /\ Trigger \notin Ks
  BY Types DEF StateTypes
<1>2. UNCHANGED <<plan, trig, mapped>> => PlanTyped
  BY <1>1 DEF PlanTyped
<1>3. ASSUME ~UNCHANGED <<plan, trig, mapped>>
      PROVE  \E p \in ctx.left :
               /\ plan' = plan \/ (p # Trigger /\ plan' = [plan EXCEPT ![p] = None])
               /\ trig' = trig \/ (p = Trigger /\ trig' = None)
               /\ mapped' \in {mapped, mapped \ {p}}
               /\ mapped' # mapped => IF p = Trigger THEN trig' = None ELSE plan'[p] = None
  <2>0. ctx.left \subseteq Plans
    BY DEF HeldTypes
  <2>1. PICK p \in ctx.left : \/ At(p) # None /\ Removed(p) /\ mapped' = mapped \ {p}
                              \/ At(p) = None /\ UNCHANGED plans /\ mapped' \in {mapped, mapped \ {p}}
                              \/ mapped' = mapped /\ (UNCHANGED plans \/ Removed(p))
    BY <1>3 DEF DeletesPlans, plans
  <2>2. p \in Ks \/ p = Trigger
    BY <2>0 DEF Plans
  <2> QED
    BY <1>1, <2>1, <2>2 DEF Removed, plans, At
<1>4. CASE UNCHANGED <<plan, trig, mapped>>
  BY <1>2, <1>4
<1>5. CASE ~UNCHANGED <<plan, trig, mapped>>
  <2>1. PICK p \in ctx.left :
               /\ plan' = plan \/ (p # Trigger /\ plan' = [plan EXCEPT ![p] = None])
               /\ trig' = trig \/ (p = Trigger /\ trig' = None)
               /\ mapped' \in {mapped, mapped \ {p}}
               /\ mapped' # mapped => IF p = Trigger THEN trig' = None ELSE plan'[p] = None
    BY <1>3, <1>5
  <2>2. p \in Plans
    BY DEF HeldTypes
  <2> QED
    BY <1>1, <2>1, <2>2 DEF PlanTyped, Plans
<1> QED
  BY <1>4, <1>5

-----------------------------------------------------------------------------
(* The trigger plan.                                                           *)

TriggerTyped == trig' \in TriggerPlan \cup {None}

\* The trigger plan is one, or there is none.
LEMMA TriggerPlans ==
  ASSUME StateTypes
  PROVE  /\ trig \in TriggerPlan \cup {None} /\ (trig \in TriggerPlan => trig # None)
         /\ \A m \in Nat : \A ms : trig # None =>
              /\ [trig EXCEPT !.elem = @ \cup {m}] \in TriggerPlan
              /\ [[trig EXCEPT !.elem = @ \cup {m}] EXCEPT !.pair = @ \cup {m}] \in TriggerPlan
              /\ Unpaired(ms) \in TriggerPlan /\ Unpaired(ms).elem = trig.elem \ ms
<1>1. trig \in TriggerPlan \cup {None} /\ (trig \in TriggerPlan => trig # None)
  BY Types DEF StateTypes
<1>2. ASSUME NEW m \in Nat, NEW t \in TriggerPlan
      PROVE  /\ [t EXCEPT !.elem = @ \cup {m}] \in TriggerPlan
             /\ [t EXCEPT !.pair = @ \cup {m}] \in TriggerPlan
  BY DEF TriggerPlan
<1>3. ASSUME NEW ms, trig # None
      PROVE  Unpaired(ms) \in TriggerPlan /\ Unpaired(ms).elem = trig.elem \ ms
  BY <1>1, <1>3 DEF Unpaired, TriggerPlan
<1> QED
  BY <1>1, <1>2, <1>3

\* A sync adds pairs only to a plan Home Assistant knows; nothing else puts a marker into it.
LEMMA TriggerSteps ==
  ASSUME StateTypes, HeldTypes, ResolvesTrigger \/ AddsPair \/ DropsPairs \/ RemovesPairs
  PROVE  TriggerTyped /\ (~AddsPair => InPlan(trig)' \subseteq InPlan(trig))
<1>0. trig \in TriggerPlan \cup {None} /\ (trig \in TriggerPlan => trig # None)
  BY TriggerPlans
<1>1. ASSUME trig' = trig PROVE TriggerTyped /\ InPlan(trig)' \subseteq InPlan(trig)
  <2>1. InPlan(trig)' = InPlan(trig)
    BY <1>1 DEF InPlan
  <2> QED
    BY <1>0, <1>1, <2>1 DEF TriggerTyped
<1>2. CASE ResolvesTrigger
  <2>1. trig' = trig \/ trig' = EmptyTrigger \/ trig' = None
    BY <1>2 DEF ResolvesTrigger, LeftBehind
  <2> QED
    BY <1>1, <2>1, NewPlans DEF TriggerTyped, InPlan
<1>3. CASE AddsPair
  <2>1. PICK m : m = Min(ctx.pairs)
    OBVIOUS
  <2>2. \/ trig' = trig
        \/ /\ ctx.pairs # {} /\ trig # None
           /\ \/ trig' = [trig EXCEPT !.elem = @ \cup {m}]
              \/ trig' = [[trig EXCEPT !.elem = @ \cup {m}] EXCEPT !.pair = @ \cup {m}]
    BY <1>3, <2>1 DEF AddsPair
  <2>3. ctx.pairs # {} => m \in Nat
    BY <2>1, MinIn DEF HeldTypes
  <2>4. TriggerTyped
    BY <1>1, <2>2, <2>3, TriggerPlans DEF TriggerTyped
  <2> QED
    BY <1>3, <2>4
<1>4. CASE DropsPairs \/ RemovesPairs
  <2>1. trig' = trig \/ (trig # None /\ \E ms : trig' = Unpaired(ms))
    BY <1>4 DEF DropsPairs, RemovesPairs
  <2> QED
    BY <1>1, <2>1, TriggerPlans DEF TriggerTyped, InPlan
<1> QED
  BY <1>2, <1>3, <1>4

-----------------------------------------------------------------------------
(* Loopback commands.                                                          *)

\* A finite set has an order that lists its elements, each once.
LEMMA SetToSeqOrders ==
  ASSUME NEW S, IsFiniteSet(S)
  PROVE  /\ SetToSeq(S) \in Seq(S)
         /\ \A x \in S : \E i \in 1..Len(SetToSeq(S)) : SetToSeq(S)[i] = x
         /\ \A i, j \in 1..Len(SetToSeq(S)) : SetToSeq(S)[i] = SetToSeq(S)[j] => i = j
<1>1. Cardinality(S) \in Nat /\ ExistsBijection(1 .. Cardinality(S), S)
  BY FS_CardinalityType
<1>2. \E f \in [1 .. Cardinality(S) -> S] : IsInjective(f)
  BY <1>1 DEF ExistsBijection, Bijection, Injection
<1>3. SetToSeq(S) \in [1 .. Cardinality(S) -> S] /\ IsInjective(SetToSeq(S))
  BY <1>2 DEF SetToSeq
<1>4. SetToSeq(S) \in Injection(1 .. Cardinality(S), S)
  BY <1>3 DEF Injection
<1>5. Cardinality(1 .. Cardinality(S)) = Cardinality(S)
  <2>1. 1 \in Int /\ Cardinality(S) \in Int
    BY <1>1
  <2>2. Cardinality(1 .. Cardinality(S)) = IF 1 > Cardinality(S) THEN 0 ELSE Cardinality(S) - 1 + 1
    BY <2>1, FS_Interval
  <2> QED
    BY <1>1, <2>2
<1>6. SetToSeq(S) \in Surjection(1 .. Cardinality(S), S)
  BY <1>4, <1>5, FS_Injection
<1>7. SetToSeq(S) \in Seq(S) /\ Len(SetToSeq(S)) = Cardinality(S)
  BY <1>1, <1>3
<1>8. \A i, j \in 1 .. Cardinality(S) : SetToSeq(S)[i] = SetToSeq(S)[j] => i = j
  BY <1>3 DEF IsInjective
<1> QED
  BY <1>6, <1>7, <1>8 DEF Surjection

Prepares == ctx.loop \cup {<<k, ctx.alloc[k]>> : k \in {l \in Ks : ctx.alloc[l] # 0}}

\* The bridges that go up with the class, and those of a K's leg.
LEMMA UploadsPairs ==
  ASSUME HeldTypes, ByStage
  PROVE  /\ stage = "upload" => Prepares \subseteq Ks \X Nat /\ IsFiniteSet(Prepares)
         /\ stage \in Legs => Looping \subseteq {ctx.k} \X Nat /\ ctx.k \in Ks /\ IsFiniteSet(Looping)
<1>1. ctx.loop \subseteq Ks \X Nat /\ IsFiniteSet(ctx.loop) /\ ctx.m \in Nat
  BY DEF HeldTypes
<1>2. ASSUME stage = "upload" PROVE Prepares \subseteq Ks \X Nat /\ IsFiniteSet(Prepares)
  <2>1. ctx.alloc \in [Ks -> Nat]
    BY <1>2 DEF ByStage, WiringStages
  <2> DEFINE wanting == {l \in Ks : ctx.alloc[l] # 0}
             f == [k \in wanting |-> <<k, ctx.alloc[k]>>]
             pairs == {<<k, ctx.alloc[k]>> : k \in wanting}
  <2>2. IsFiniteSet(wanting)
    BY Types, FS_Subset
  <2>3. f \in Surjection(wanting, pairs)
    BY DEF Surjection
  <2>4. IsFiniteSet(pairs)
    BY <2>2, <2>3, FS_Surjection
  <2>5. pairs \subseteq Ks \X Nat
    BY <2>1
  <2>6. Prepares = ctx.loop \cup pairs
    BY DEF Prepares
  <2> HIDE DEF pairs
  <2> QED
    BY <1>1, <2>4, <2>5, <2>6, FS_Union
<1>3. ASSUME stage \in Legs PROVE Looping \subseteq {ctx.k} \X Nat /\ ctx.k \in Ks /\ IsFiniteSet(Looping)
  <2>1. ctx.k \in Ks
    BY <1>3 DEF ByStage, HeldTypes
  <2>2. Looping \subseteq {<<ctx.k, ctx.m>>} \cup ctx.loop
    BY DEF Looping
  <2>3. IsFiniteSet({<<ctx.k, ctx.m>>} \cup ctx.loop)
    BY <1>1, FS_Singleton, FS_Union
  <2>4. \A b \in Looping : b \in {ctx.k} \X Nat
    BY <1>1, <2>1 DEF Looping
  <2> QED
    BY <2>1, <2>2, <2>3, <2>4, FS_Subset
<1> QED
  BY <1>2, <1>3

\* An upload, whose answer may be lost, makes the first commands there are, each once.
LEMMA UploadsCommands ==
  ASSUME StateTypes, CommandsInv, NEW bridges, bridges \subseteq Ks \X Nat, IsFiniteSet(bridges),
         ~class, Uploaded(bridges)
  PROVE  /\ command' \in Seq(Ks \X Nat) /\ listed' \subseteq Ids(command')
         /\ \A c \in Ids(command') : command'[c] \in bridges
         /\ \A c, d \in Ids(command') : command'[c] = command'[d] => c = d
<1>1. command = <<>>
  BY DEF CommandsInv
<1>2. PICK added : added = SetToSeq(bridges)
  OBVIOUS
<1>3. /\ added \in Seq(bridges) /\ \A i, j \in 1..Len(added) : added[i] = added[j] => i = j
  BY <1>2, SetToSeqOrders
<1>4. command' = added /\ Len(added) \in Nat
  BY <1>1, <1>2, <1>3 DEF Uploaded
<1>5. listed' \subseteq Ids(command')
  <2>1. listed = {}
    BY <1>1 DEF StateTypes, Ids
  <2> QED
    BY <1>2, <1>4, <2>1, <1>1 DEF Uploaded
<1>6. \A c \in Ids(command') : command'[c] \in bridges
  BY <1>3, <1>4 DEF Ids
<1>7. command' \in Seq(Ks \X Nat)
  BY <1>3, <1>4
<1> QED
  BY <1>3, <1>4, <1>5, <1>6, <1>7 DEF Ids

\* What the two stages that see to the class do to the commands.
LEMMA EnsureSteps ==
  ASSUME StateTypes, HeldTypes, ByStage, CommandsInv, Prestages \/ EnsuresLoopback,
         NEW bridges, bridges = IF stage = "upload" THEN Prepares ELSE Looping
  PROVE  \/ UNCHANGED <<command, listed, class>> /\ unsure' \in {unsure, TRUE}
         \/ /\ class' = TRUE /\ command' \in Seq(Ks \X Nat) /\ listed' \subseteq Ids(command')
            /\ \A c \in Ids(command') : command'[c] \in bridges
            /\ \A c, d \in Ids(command') : command'[c] = command'[d] => c = d
            /\ command = <<>>
            /\ unsure' \/ (unsure' = unsure /\ Made(bridges))
<1>1. stage \in {"upload", "loopback"} /\ (stage = "upload" => Prestages) /\ (stage = "loopback" => EnsuresLoopback)
  BY SyncFrames
<1>2. bridges \subseteq Ks \X Nat /\ IsFiniteSet(bridges)
  BY <1>1, UploadsPairs DEF Legs
<1>3. UNCHANGED <<command, listed, class, unsure>> \/ Made(bridges) \/ There \/ NotEnsured(bridges)
  BY <1>1 DEF Prestages, EnsuresLoopback, loopback, Prepares
<1>4. There => UNCHANGED <<command, listed, class, unsure>>
  BY DEF There, OnlyDevice
<1>5. Made(bridges) => ~class /\ Uploaded(bridges) /\ unsure' = unsure
  BY DEF Made, Absent
<1>6. NotEnsured(bridges) => \/ UNCHANGED <<command, listed, class>> /\ unsure' \in {unsure, TRUE}
                             \/ ~class /\ Uploaded(bridges) /\ unsure' = TRUE
  BY DEF NotEnsured, loopback, OnlyDevice, Absent
<1>7. ~class => command = <<>>
  BY DEF CommandsInv
<1>8. ASSUME ~class, Uploaded(bridges)
      PROVE  /\ class' = TRUE /\ command' \in Seq(Ks \X Nat) /\ listed' \subseteq Ids(command')
             /\ \A c \in Ids(command') : command'[c] \in bridges
             /\ \A c, d \in Ids(command') : command'[c] = command'[d] => c = d
  BY <1>2, <1>8, UploadsCommands DEF Uploaded
<1> QED
  BY <1>3, <1>4, <1>5, <1>6, <1>7, <1>8

\* One command more, a K's own, or none.
LEMMA SaveSteps ==
  ASSUME StateTypes, HeldTypes, ByStage, CommandsInv, SavesCommand
  PROVE  \/ command' = command /\ listed' = listed
         \/ /\ command' = Append(command, Loop) /\ ~KnownCommand(Loop) /\ Loop \in {ctx.k} \X Nat /\ ctx.k \in Ks
            /\ listed' \in {listed, Ids(command')}
<1>1. stage = "command" /\ Looping # {}
  BY SyncFrames DEF CommandsInv
<1>2. Loop \in Looping
  BY <1>1 DEF Loop
<1>3. Loop \in {ctx.k} \X Nat /\ ctx.k \in Ks
  BY <1>1, <1>2, UploadsPairs DEF Legs
<1> QED
  BY <1>3 DEF SavesCommand, LegFails

\* A marker more or one renamed: what a K's turn leaves of the markers.
LEMMA ObtainsKeeps ==
  ASSUME StateTypes, HeldTypes, ByStage, Wants, Obtaining, Obtains
  PROVE  ctx.free \subseteq Ids(marker) /\ \E k \in Ks : k = Min(ctx.batch) /\ ObtainChanges(k)
<1>1. stage = "obtain"
  BY SyncFrames
<1>2. ctx.free \subseteq Ids(marker)
  BY <1>1 DEF Obtaining
<1>3. PICK k : k = Min(ctx.batch)
  OBVIOUS
<1> QED
  BY <1>2, <1>3, ObtainMarkers

\* Markers stay markers.
LEMMA MarkerTypeKept ==
  ASSUME StateTypes, HeldTypes, ByStage, Wants, Obtaining, ResetsInv, BridgesNext
  PROVE  marker' \in Seq(Marker)
<1>1. marker \in Seq(Marker)
  BY DEF StateTypes
<1>2. UNCHANGED marker => marker' \in Seq(Marker)
  BY <1>1
<1>3. CASE User
  BY <1>3, UserTouches
<1>4. CASE FillsGap
  BY <1>4, GapMarkers DEF MarkersAdded
<1>5. CASE Obtains
  BY <1>5, ObtainsKeeps DEF ObtainChanges
<1>6. CASE ResetsMarker
  <2>1. ASSUME NEW m \in Ids(marker), Reset(m) \in Marker, marker' = [marker EXCEPT ![m] = Reset(m)]
        PROVE  marker' \in Seq(Marker)
    BY <1>1, <2>1, ChangedEntry
  <2> QED
    BY <1>2, <1>6, <2>1, ResetMarkers
<1>7. ~User /\ ~FillsGap /\ ~Obtains /\ ~ResetsMarker => UNCHANGED marker
  BY SyncFrames, CleaningFrames DEF MarkersStay, BridgesNext, Sync, Cleaning, WiresTriggers
<1> QED
  BY <1>2, <1>3, <1>4, <1>5, <1>6, <1>7

\* Plans stay plans.
LEMMA PlanTypesKept ==
  ASSUME StateTypes, HeldTypes, ByStage, BridgesNext
  PROVE  PlanTyped /\ TriggerTyped
<1>1. UNCHANGED plan => PlanTyped
  BY DEF PlanTyped, StateTypes
<1>2. UNCHANGED trig => TriggerTyped
  BY DEF TriggerTyped, StateTypes
<1>3. CASE User
  BY <1>3, UserTouches DEF PlanTyped, TriggerTyped
<1>4. WiresReadPath \/ FansOut \/ WiresBridge \/ ResolvesClusters \/ DeletesPlans => PlanTyped
  BY SinkSteps, BridgeSteps, ClusterSteps, DeletingSteps DEF OnlySinks, BridgeWired
<1>5. ResolvesTrigger \/ AddsPair \/ DropsPairs \/ RemovesPairs => TriggerTyped
  BY TriggerSteps
<1>6. DeletesPlans => TriggerTyped
  BY DeletingSteps DEF TriggerTyped, StateTypes
<1>7. ~User /\ ~WiresReadPath /\ ~FansOut /\ ~WiresBridge /\ ~ResolvesClusters /\ ~DeletesPlans => UNCHANGED plan
  BY SyncFrames, CleaningFrames DEF PlansStay, BridgesNext, Sync, Cleaning, WiresTriggers
<1>8. ~User /\ ~ResolvesTrigger /\ ~AddsPair /\ ~DropsPairs /\ ~RemovesPairs /\ ~DeletesPlans => UNCHANGED trig
  BY SyncFrames, CleaningFrames DEF PlansStay, BridgesNext, Sync, Cleaning, WiresTriggers
<1> QED
  BY <1>1, <1>2, <1>3, <1>4, <1>5, <1>6, <1>7, <1>8

\* Commands stay commands, and only what exists is listed.
LEMMA CommandTypesKept ==
  ASSUME StateTypes, HeldTypes, ByStage, CommandsInv, BridgesNext
  PROVE  command' \in Seq(Ks \X Nat) /\ listed' \subseteq Ids(command')
<1>1. command \in Seq(Ks \X Nat) /\ listed \subseteq Ids(command)
  BY DEF StateTypes
<1>2. CASE User
  BY <1>1, <1>2, UserTouches DEF TouchedByUser, Ids
<1>3. CASE Prestages \/ EnsuresLoopback
  <2>1. PICK bridges : bridges = IF stage = "upload" THEN Prepares ELSE Looping
    OBVIOUS
  <2> QED
    BY <1>1, <1>3, <2>1, EnsureSteps DEF Ids
<1>4. CASE SavesCommand
  <2>1. CASE command' = command /\ listed' = listed
    BY <1>1, <2>1 DEF Ids
  <2>2. CASE /\ command' = Append(command, Loop) /\ Loop \in {ctx.k} \X Nat /\ ctx.k \in Ks
             /\ listed' \in {listed, Ids(command')}
    <3>1. Loop \in Ks \X Nat
      BY <2>2
    <3>2. PICK b : b = Loop
      OBVIOUS
    <3>3. command' \in Seq(Ks \X Nat) /\ Len(command') = Len(command) + 1 /\ Len(command) \in Nat
      BY <1>1, <2>2, <3>1, <3>2
    <3>4. Ids(command) \subseteq Ids(command')
      BY <3>3 DEF Ids
    <3> QED
      BY <1>1, <2>2, <3>3, <3>4
  <2> QED
    BY <1>4, <2>1, <2>2, SaveSteps
<1>5. CASE FansOut
  <2>1. command' = command /\ listed' \in {listed, Ids(command)}
    BY <1>5, SyncFrames DEF FansOut, LegFails, CommandsStay
  <2> QED
    BY <1>1, <2>1 DEF Ids
<1>6. CASE Finishes
  <2>1. command' = command /\ listed' = Ids(command)
    BY <1>6 DEF Finishes
  <2> QED
    BY <1>1, <2>1 DEF Ids
<1>7. CASE DeletesWebIo
  <2>1. UNCHANGED <<command, listed>> \/ (command' = <<>> /\ listed' = {})
    BY <1>7 DEF DeletesWebIo, loopback
  <2>2. CASE UNCHANGED <<command, listed>>
    BY <1>1, <2>2 DEF Ids
  <2>3. CASE command' = <<>> /\ listed' = {}
    BY <2>3, EmptySeq
  <2> QED
    BY <2>1, <2>2, <2>3
<1>8. ~User /\ ~Prestages /\ ~EnsuresLoopback /\ ~SavesCommand /\ ~FansOut /\ ~Finishes /\ ~DeletesWebIo
      => UNCHANGED <<command, listed>>
  BY SyncFrames, CleaningFrames DEF CommandsStay, BridgesNext, Sync, Cleaning, WiresTriggers
<1> QED
  BY <1>1, <1>2, <1>3, <1>4, <1>5, <1>6, <1>7, <1>8 DEF Ids

\* Home Assistant's memory keeps its types.
LEMMA MapTypesKept ==
  ASSUME StateTypes, HeldTypes, ByStage, BridgesNext
  PROVE  mapped' \subseteq Plans /\ DOMAIN planCache' = Plans /\ \A k \in Ks : planCache'[k] \in Cluster \cup {None}
<1>1. mapped \subseteq Plans /\ DOMAIN planCache = Plans /\ (\A k \in Ks : planCache[k] \in Cluster \cup {None}) /\ plan \in [Ks -> Cluster \cup {None}]
  BY DEF StateTypes
<1>2. ctx.left \subseteq Plans /\ Ks \subseteq Plans /\ Trigger \in Plans /\ Trigger \notin Ks
  BY Types DEF HeldTypes, Plans
<1>3. UNCHANGED planCache => DOMAIN planCache' = Plans /\ \A k \in Ks : planCache'[k] \in Cluster \cup {None}
  BY <1>1
<1>4. ASSUME NEW c, NEW wanted, NEW failed, c = Refetched(wanted, failed)
      PROVE  DOMAIN c = Plans /\ \A k \in Ks : c[k] \in Cluster \cup {None}
  BY <1>1, <1>2, <1>4 DEF Refetched, At
<1>5. CASE User
  BY <1>1, <1>5, UserTouches DEF TouchedByUser
<1>6. CASE BulkLoads
  <2>1. mapped' = mapped /\ planCache' = [p \in Plans |-> At(p)]
    BY <1>6 DEF BulkLoads
  <2> QED
    BY <1>1, <1>2, <2>1 DEF At
<1>7. CASE Audits
  <2>1. mapped' = mapped
    BY <1>7, SyncFrames
  <2>2. planCache' = planCache \/ \E wanted, failed : planCache' = Refetched(wanted, failed)
    BY <1>7 DEF Audits
  <2>3. PICK c : c = planCache'
    OBVIOUS
  <2> QED
    BY <1>1, <1>3, <1>4, <2>1, <2>2, <2>3
<1>8. CASE AuditsTriggers
  <2>1. mapped' = mapped
    BY <1>8, SyncFrames
  <2>2. planCache' = planCache \/ \E wanted, failed : planCache' = Refetched(wanted, failed)
    BY <1>8 DEF AuditsTriggers
  <2>3. PICK c : c = planCache'
    OBVIOUS
  <2> QED
    BY <1>1, <1>3, <1>4, <2>1, <2>2, <2>3
<1>9. CASE ResolvesClusters
  <2>1. \E failed : mapped' = mapped \cup (ctx.left \ failed)
    BY <1>9 DEF ResolvesClusters
  <2>2. \E made : planCache' = [p \in Plans |-> IF p \in made THEN EmptyPlan ELSE planCache[p]]
    BY <1>9 DEF ResolvesClusters
  <2> QED
    BY <1>1, <1>2, <2>1, <2>2, NewPlans
<1>10. CASE ResolvesTrigger
  <2>1. mapped' \in {mapped, mapped \cup {Trigger}} /\ planCache' \in {planCache, [planCache EXCEPT ![Trigger] = EmptyTrigger]}
    BY <1>10 DEF ResolvesTrigger
  <2> QED
    BY <1>1, <1>2, <2>1
<1>11. CASE DeletesPlans
  <2>1. mapped' \subseteq mapped /\ planCache' = planCache
    BY <1>11, DeletingSteps, CleaningFrames
  <2> QED
    BY <1>1, <2>1
<1>12. CASE Finishes
  <2>1. mapped' = mapped /\ planCache' = [p \in Plans |-> None]
    BY <1>12 DEF Finishes
  <2> QED
    BY <1>1, <1>2, <2>1
<1>13. ~User /\ ~BulkLoads /\ ~Audits /\ ~AuditsTriggers /\ ~ResolvesClusters /\ ~ResolvesTrigger /\ ~DeletesPlans /\ ~Finishes
       => UNCHANGED <<mapped, planCache>>
  BY SyncFrames, CleaningFrames DEF MemoryStays, BridgesNext, Sync, Cleaning, WiresTriggers
<1> QED
  BY <1>1, <1>3, <1>5, <1>6, <1>7, <1>8, <1>9, <1>10, <1>11, <1>12, <1>13

\* A step on the bound of users' steps tells these from the others.
LEMMA EditCounts ==
  ASSUME edits \in Nat, BridgesNext
  PROVE  edits' \in Nat /\ (User => edits' # edits)
<1>1. User => edits' = edits + 1
  BY DEF User, RetitlesKnx, UsesMarker, NamesMarker, MakesMarker, Unbridges, Unpairs, DeletesPlan, Cancels, Edit
<1>2. Sync => edits' = edits
  BY DEF Sync, WiresTriggers, Press, Audits, ResolvesClusters, FillsGap, FindsFree, Obtains, HasBatch, Prestages,
         TakesPlan, WiresReadPath, WiresBridge, EnsuresLoopback, SavesCommand, FansOut, AuditsTriggers,
         ResolvesTrigger, AddsPair, DropsPairs, Step, users
<1>3. Cleaning => edits' = edits
  BY DEF Cleaning, CleanUp, DecidesTriggers, RemovesPairs, DeletesPlans, DeletesWebIo, ReadsBridges, ResetsMarker, Step, users
<1>4. BulkLoads \/ Finishes => edits' = edits
  BY DEF BulkLoads, Finishes
<1> QED
  BY <1>1, <1>2, <1>3, <1>4 DEF BridgesNext

\* A step leads to a step.
LEMMA StageKept ==
  ASSUME StateTypes, HeldTypes, BridgesNext
  PROVE  stage' \in Stages
<1>0. DOMAIN ctx = Fields /\ stage \in Stages
  BY DEF HeldTypes, StateTypes
<1>1. UNCHANGED stage => stage' \in Stages
  BY <1>0
<1>2. User \/ BulkLoads => UNCHANGED stage
  BY UserTouches, CleaningFrames DEF TouchedByUser
<1>3. Press => stage' = "audit"
  BY DEF Press
<1>6. Sync => stage' \in Stages
  BY <1>0, <1>3, HeldFrames
     DEF Sync, WiresTriggers, Only, Stages, WiringStages, TriggerStages, CleanStages, Batches, Legs
<1>7. Cleaning => stage' \in Stages
  BY <1>0, CleaningFrames, HeldFrames
     DEF Cleaning, Only, Stages, WiringStages, TriggerStages, CleanStages, Batches, Legs
<1>8. Finishes => stage' = "idle"
  BY CleaningFrames
<1> QED
  BY <1>1, <1>2, <1>6, <1>7, <1>8 DEF BridgesNext, Stages

\* All the state keeps its types.
LEMMA StateTypesKept ==
  ASSUME StateTypes, HeldTypes, ByStage, Wants, Obtaining, CommandsInv, ResetsInv, BridgesNext
  PROVE  StateTypes'
<1>1. own \subseteq Nat /\ knx \in [Ks -> {"plain", "trig"}] /\ edits \in Nat
  BY DEF StateTypes
<1>2. own' \subseteq Nat
  <2>1. User => own' \subseteq own \cup Ids(marker)
    BY DEF User, RetitlesKnx, UsesMarker, NamesMarker, MakesMarker, Unbridges, Unpairs, DeletesPlan, Cancels
  <2>2. ~User => own' = own
    BY SyncFrames, CleaningFrames DEF MarkersStay, BridgesNext, Sync, Cleaning, WiresTriggers
  <2>3. Ids(marker) \subseteq Nat
    BY DEF StateTypes, Ids
  <2> QED
    BY <1>1, <2>1, <2>2, <2>3
<1>3. knx' \in [Ks -> {"plain", "trig"}]
  <2>1. ~User => knx' = knx
    BY SyncFrames, CleaningFrames DEF BridgesNext, Sync, Cleaning, WiresTriggers
  <2> QED
    BY <1>1, <2>1, UserTouches
<1> QED
  BY <1>1, <1>2, <1>3, MarkerTypeKept, PlanTypesKept, CommandTypesKept, MapTypesKept, EditCounts, StageKept
     DEF StateTypes, PlanTyped, TriggerTyped

-----------------------------------------------------------------------------
(* What any step does to a plan and to a marker.                               *)

\* A plan loses bridges, is made anew, or gets the bridge that was prepared.
LEMMA PlanChanges ==
  ASSUME StateTypes, HeldTypes, ByStage, BridgesNext, NEW k \in Ks, plan'[k] # None
  PROVE  \/ /\ plan[k] # None /\ plan'[k].bridge \subseteq plan[k].bridge /\ plan'[k].elem \subseteq plan[k].elem
            /\ plan[k].bridge \subseteq plan[k].elem => plan'[k].bridge \subseteq plan'[k].elem
         \/ plan[k] = None /\ plan'[k] = EmptyPlan
         \/ /\ WiresBridge /\ k = ctx.k /\ plan[k] # None /\ plan'[k].elem = plan[k].elem \cup {ctx.m}
            /\ plan'[k].bridge \in {plan[k].bridge, plan[k].bridge \cup {ctx.m}}
<1>1. CASE User
  BY <1>1, UserTouches DEF TouchedByUser
<1>2. CASE WiresReadPath \/ FansOut
  BY <1>2, SinkSteps DEF OnlySinks
<1>3. CASE WiresBridge
  BY <1>3, BridgeSteps DEF BridgeWired
<1>4. CASE ResolvesClusters
  BY <1>4, ClusterSteps
<1>5. CASE DeletesPlans
  BY <1>5, DeletingSteps
<1>6. ~User /\ ~WiresReadPath /\ ~FansOut /\ ~WiresBridge /\ ~ResolvesClusters /\ ~DeletesPlans => UNCHANGED plan
  BY SyncFrames, CleaningFrames DEF PlansStay, BridgesNext, Sync, Cleaning, WiresTriggers
<1> QED
  BY <1>1, <1>2, <1>3, <1>4, <1>5, <1>6

\* Who changes a marker: a user, the turn of a K it is free for, or a reset.
LEMMA MarkerChanges ==
  ASSUME StateTypes, HeldTypes, ByStage, Wants, Obtaining, ResetsInv, BridgesNext, NEW m \in Ids(marker)
  PROVE  /\ m \in Ids(marker')
         /\ \/ marker'[m] = marker[m]
            \/ User /\ m \in late' /\ (marker'[m].title = marker[m].title \/ marker[m].title = Blank)
            \/ Obtains /\ m \in ctx.free
            \/ /\ ResetsMarker /\ m \in ctx.batch /\ ~IsBridge(marker'[m].title)
               /\ m \in ctx.used => /\ marker'[m].title = <<marker[m].title[1], "stripped">>
                                    /\ marker'[m].set = ctx.ms[m].set
<1>0. marker \in Seq(Marker) /\ Len(marker) \in Nat /\ Len(marker') \in Nat
  BY MarkerTypeKept DEF StateTypes
<1>1. CASE User
  BY <1>0, <1>1, UserTouches DEF TouchedByUser, Ids
<1>2. CASE FillsGap
  BY <1>2, GapMarkers DEF MarkersAdded
<1>3. CASE Obtains
  BY <1>0, <1>3, ObtainsKeeps DEF ObtainChanges, Ids
<1>4. CASE ResetsMarker
  <2>1. CASE marker' = marker
    BY <2>1
  <2>2. ASSUME NEW n \in ctx.batch, n \in Ids(marker), Reset(n) \in Marker, ~IsBridge(Reset(n).title),
               n \in ctx.used => Reset(n).title = <<marker[n].title[1], "stripped">> /\ Reset(n).set = ctx.ms[n].set,
               marker' = [marker EXCEPT ![n] = Reset(n)]
        PROVE  /\ m \in Ids(marker')
               /\ m # n => marker'[m] = marker[m]
               /\ m = n => marker'[m] = Reset(n)
    <3>1. Len(marker') = Len(marker)
      BY <1>0, <2>2, ChangedEntry
    <3> QED
      BY <1>0, <2>2, <3>1 DEF Ids
  <2> QED
    BY <1>4, <2>1, <2>2, ResetMarkers
<1>5. ~User /\ ~FillsGap /\ ~Obtains /\ ~ResetsMarker => UNCHANGED marker
  BY SyncFrames, CleaningFrames DEF MarkersStay, BridgesNext, Sync, Cleaning, WiresTriggers
<1> QED
  BY <1>1, <1>2, <1>3, <1>4, <1>5

-----------------------------------------------------------------------------
(* Bridges.                                                                    *)

\* A plan in the map stays in it as long as it exists.
LEMMA MapKeeps ==
  ASSUME StateTypes, HeldTypes, ByStage, BridgesNext, NEW k \in Ks, k \in mapped, plan'[k] # None
  PROVE  k \in mapped'
<1>1. CASE User
  BY <1>1, UserTouches DEF TouchedByUser
<1>2. CASE ResolvesClusters
  BY <1>2 DEF ResolvesClusters
<1>3. CASE ResolvesTrigger
  BY <1>3 DEF ResolvesTrigger
<1>4. CASE DeletesPlans
  BY <1>4, DeletingSteps
<1>5. ~User /\ ~ResolvesClusters /\ ~ResolvesTrigger /\ ~DeletesPlans => UNCHANGED mapped
  BY SyncFrames, CleaningFrames DEF MemoryStays, BridgesNext, Sync, Cleaning, WiresTriggers
<1> QED
  BY <1>1, <1>2, <1>3, <1>4, <1>5

\* The marker about to be wired.
LEMMA WiresPrepared ==
  ASSUME StateTypes, HeldTypes, ByStage, Wants, Prepared, Unbridged, WiresBridge
  PROVE  /\ ctx.k \in Ks /\ ctx.k \in mapped /\ ctx.k \in ctx.miss /\ ctx.k \notin ctx.left
         /\ ctx.m \in Ids(marker) /\ \E s \in {"plain", "trig"} : marker[ctx.m].title = <<ctx.k, s>>
         /\ plan[ctx.k] # None => plan[ctx.k].bridge = {}
<1>1. stage = "bridge"
  BY SyncFrames
<1>2. ctx.k \in Ks /\ ctx.k \in mapped /\ ctx.k \notin ctx.left /\ ctx.kind \in [Ks -> {"plain", "trig"}]
  BY <1>1, Types DEF ByStage, HeldTypes, WiringStages, Legs
<1>3. ctx.m # 0 /\ ctx.k \in ctx.miss
  BY <1>1 DEF Wants
<1>4. ctx.m \in Ids(marker) /\ marker[ctx.m].title = BridgeTitle(ctx.k, ctx.kind[ctx.k])
  BY <1>1, <1>3 DEF Prepared, WiringStages, Legs
<1>5. plan[ctx.k] # None => plan[ctx.k].bridge = {}
  BY <1>1, <1>2, <1>3 DEF Unbridged, Awaits, WiringStages, Legs
<1> QED
  BY <1>2, <1>3, <1>4, <1>5 DEF BridgeTitle

\* Bridges stay told by their markers' titles.
LEMMA TitlesTellKept ==
  ASSUME StateTypes, HeldTypes, ByStage, Wants, Prepared, Obtaining, Unbridged, ResetsInv, TitlesTell, BridgesNext
  PROVE  TitlesTell'
<1> SUFFICES ASSUME NEW k \in Ks, plan'[k] # None
             PROVE  /\ plan'[k].bridge \subseteq plan'[k].elem
                    /\ \A m \in plan'[k].bridge : /\ m \in Ids(marker')
                                                  /\ \E s \in {"plain", "trig", "stripped"} : marker'[m].title = <<k, s>>
                    /\ plan'[k].bridge # {} => k \in mapped'
  BY DEF TitlesTell, Ids
<1> DEFINE Good(m) == m \in Ids(marker) /\ \E s \in {"plain", "trig", "stripped"} : marker[m].title = <<k, s>>
\* A marker that is a bridge of K keeps a title of K's.
<1>1. ASSUME plan[k] # None, NEW m \in plan[k].bridge
      PROVE  m \in Ids(marker') /\ \E s \in {"plain", "trig", "stripped"} : marker'[m].title = <<k, s>>
  <2>1. PICK s \in {"plain", "trig", "stripped"} : marker[m].title = <<k, s>>
    BY <1>1 DEF TitlesTell
  <2>2. m \in Ids(marker) /\ m \in plan[k].elem /\ marker[m].title # Blank /\ marker[m].title[1] = k
    BY <1>1, <2>1, TitleKinds DEF TitlesTell
  <2>3. ~(Obtains /\ m \in ctx.free)
    BY <1>1, <2>2, SyncFrames DEF Obtaining, InPlan
  <2>4. ResetsMarker => m \in ctx.used
    BY <1>1, <2>2, CleaningFrames DEF ResetsInv, InPlan
  <2> QED
    BY <2>1, <2>2, <2>3, <2>4, MarkerChanges
<1>2. CASE /\ plan[k] # None /\ plan'[k].bridge \subseteq plan[k].bridge
           /\ plan[k].bridge \subseteq plan[k].elem => plan'[k].bridge \subseteq plan'[k].elem
  <2>1. plan[k].bridge \subseteq plan[k].elem /\ (plan[k].bridge # {} => k \in mapped)
    BY <1>2 DEF TitlesTell
  <2> QED
    BY <1>1, <1>2, <2>1, MapKeeps
<1>3. CASE plan'[k] = EmptyPlan
  BY <1>3, NewPlans
<1>4. CASE /\ WiresBridge /\ k = ctx.k /\ plan[k] # None /\ plan'[k].elem = plan[k].elem \cup {ctx.m}
           /\ plan'[k].bridge \in {plan[k].bridge, plan[k].bridge \cup {ctx.m}}
  <2>1. marker' = marker /\ mapped' = mapped
    BY <1>4, SyncFrames DEF MarkersStay, MemoryStays
  <2>2. k \in mapped /\ ctx.m \in Ids(marker) /\ \E s \in {"plain", "trig"} : marker[ctx.m].title = <<k, s>>
    BY <1>4, WiresPrepared
  <2>3. plan[k].bridge \subseteq plan[k].elem
    BY <1>4 DEF TitlesTell
  <2> QED
    BY <1>1, <1>4, <2>1, <2>2, <2>3
<1> QED
  BY <1>2, <1>3, <1>4, PlanChanges

\* A K with a bridge gets no second one.
LEMMA OneEachKept ==
  ASSUME StateTypes, HeldTypes, ByStage, Wants, Prepared, Unbridged, OneEach, BridgesNext
  PROVE  OneEach'
<1> SUFFICES ASSUME NEW k \in Ks, plan'[k] # None, NEW m \in plan'[k].bridge, NEW n \in plan'[k].bridge
             PROVE  m = n
  BY DEF OneEach
<1>1. plan[k] # None => \A x, y \in plan[k].bridge : x = y
  BY DEF OneEach
<1>2. CASE plan[k] # None /\ plan'[k].bridge \subseteq plan[k].bridge
  BY <1>1, <1>2
<1>3. CASE plan'[k] = EmptyPlan
  BY <1>3, NewPlans
<1>4. CASE WiresBridge /\ k = ctx.k /\ plan[k] # None /\ plan'[k].bridge \in {plan[k].bridge, plan[k].bridge \cup {ctx.m}}
  BY <1>4, WiresPrepared
<1> QED
  BY <1>2, <1>3, <1>4, PlanChanges

\* Until an audit, plans that were loaded have at most lost bridges.
LEMMA CacheCoversKept ==
  ASSUME StateTypes, HeldTypes, ByStage, CacheCovers, BridgesNext
  PROVE  CacheCovers'
<1>0. DOMAIN ctx = Fields
  BY DEF HeldTypes
<1> SUFFICES ASSUME stage' \in {"idle", "audit"}, NEW k \in Ks, planCache'[k] # None, plan'[k] # None
             PROVE  plan'[k].bridge \subseteq planCache'[k].bridge
  BY DEF CacheCovers
<1>1. stage' \in {"idle", "audit"} => User \/ BulkLoads \/ Press \/ Finishes
  BY <1>0, HeldFrames, CleaningFrames, SyncFrames DEF Only, BridgesNext, Sync, Cleaning, WiresTriggers
<1>2. CASE User
  BY <1>2, UserTouches DEF TouchedByUser, CacheCovers
<1>3. CASE BulkLoads
  <2>1. planCache' = [p \in Plans |-> At(p)] /\ plan' = plan
    BY <1>3 DEF BulkLoads, plans
  <2>2. planCache'[k] = plan[k]
    BY <2>1, Types DEF Plans, At
  <2> QED
    BY <2>1, <2>2
<1>4. CASE Press
  BY <1>4, SyncFrames DEF PlansStay, MemoryStays, CacheCovers
<1>5. CASE Finishes
  BY <1>5 DEF Finishes, Plans
<1> QED
  BY <1>1, <1>2, <1>3, <1>4, <1>5

\* A K an audit found without a bridge has none.
LEMMA AuditMisses ==
  ASSUME StateTypes, TitlesTell, CacheCovers, stage = "audit", NEW c, NEW failed, NEW wanted,
         c = Refetched(wanted, failed), Loaded(c), NEW k \in Ks \ Bridged(c), plan[k] # None
  PROVE  plan[k].bridge = {}
<1> SUFFICES ASSUME NEW m \in plan[k].bridge PROVE FALSE
  OBVIOUS
<1>1. k \in mapped /\ m \in Ids(marker)
  BY DEF TitlesTell
<1>2. k \in Plans /\ At(k) = plan[k]
  BY Types DEF At, Plans
<1>3. k \in Existing
  BY <1>2 DEF Existing
<1>4. c[k] # None
  BY <1>1, <1>3 DEF Loaded
<1>5. c[k] = plan[k] \/ c[k] = planCache[k]
  BY <1>2 DEF Refetched
<1>6. m \in c[k].bridge
  BY <1>4, <1>5 DEF CacheCovers
<1>7. <<k, m>> \in BridgeMap(c)
  BY <1>1, <1>4, <1>6 DEF BridgeMap
<1> QED
  BY <1>7 DEF Bridged

\* A K found without a bridge has none until its leg is wired.
LEMMA UnbridgedKept ==
  ASSUME StateTypes, HeldTypes, ByStage, Wants, TitlesTell, CacheCovers, Unbridged, Prepared, BridgesNext
  PROVE  Unbridged'
<1>0. DOMAIN ctx = Fields
  BY DEF HeldTypes
<1> DEFINE Waits(k, what, at) == k \in what.miss /\ (k \in what.left \/ (k = what.k /\ at \in Batches \cup {"read path", "bridge"}))
<1>a. Unbridged' <=> (stage' \in {"clusters"} \cup WiringStages =>
                        \A k \in Ks : Waits(k, ctx', stage') /\ plan'[k] # None => plan'[k].bridge = {})
  BY DEF Unbridged, Awaits
<1>b. stage \in {"clusters"} \cup WiringStages => \A k \in Ks : Waits(k, ctx, stage) /\ plan[k] # None => plan[k].bridge = {}
  BY DEF Unbridged, Awaits
<1> SUFFICES ASSUME stage' \in {"clusters"} \cup WiringStages, NEW k \in Ks, Waits(k, ctx', stage'), plan'[k] # None
             PROVE  plan'[k].bridge = {}
  BY <1>a
<1>1. CASE Audits
  <2>1. PICK found : /\ Finds(found) /\ DOMAIN found = Fields
                     /\ \/ found.miss = ctx.miss
                        \/ \E c, failed, wanted : c = Refetched(wanted, failed) /\ found.miss = (IF Loaded(c) THEN Ks \ Bridged(c) ELSE {})
    BY <1>0, <1>1, AuditFinds DEF WiringStages, Batches, Legs
  <2>2. ctx'.miss = found.miss
    BY <2>1, FindsLeft DEF Fields
  <2>3. ctx.miss = {} /\ plan' = plan /\ stage = "audit"
    BY <1>1, SyncFrames DEF ByStage, PlansStay
  <2> QED
    BY <2>1, <2>2, <2>3, AuditMisses
<1>2. CASE ResolvesClusters
  <2>0. Only({"left", "failed", "batch"}, {"triggers", "fill", "upload"})
    BY <1>0, <1>2, HeldFrames
  <2>1. ctx'.miss = ctx.miss /\ ctx'.k = ctx.k /\ stage = "clusters"
    BY <1>2, <2>0, SyncFrames DEF Only, Fields
  <2>2. ctx'.left \subseteq ctx.left /\ ctx.k = 0
    BY <1>0, <1>2, <2>1 DEF ResolvesClusters, ByStage, Fields
  <2>3. Waits(k, ctx, stage)
    BY <2>1, <2>2, Types
  <2> QED
    BY <1>b, <1>2, <2>1, <2>3, ClusterSteps, NewPlans
<1> DEFINE Lasts == ctx'.miss = ctx.miss /\ stage \in WiringStages /\ Waits(k, ctx, stage)
<1>3. CASE FillsGap
  <2>0. Only({"ms", "batch", "failed"}, {"free", "upload", "loopback", "done"})
    BY <1>0, <1>3, HeldFrames
  <2>1. ctx'.miss = ctx.miss /\ ctx'.k = ctx.k /\ ctx'.left = ctx.left /\ stage = "fill"
    BY <1>3, <2>0, SyncFrames DEF Only, Fields
  <2> QED
    BY <1>b, <1>3, <2>1, SyncFrames DEF PlansStay, Batches, WiringStages
<1>4. CASE FindsFree \/ Obtains
  <2>0. Only({"batch", "free", "alloc", "m", "failed"}, {"obtain"}) /\ stage \in {"free", "obtain"}
    BY <1>0, <1>4, HeldFrames, SyncFrames DEF Only
  <2>1. ctx'.miss = ctx.miss /\ ctx'.k = ctx.k /\ ctx'.left = ctx.left
    BY <2>0 DEF Only, Fields
  <2> QED
    BY <1>b, <1>4, <2>0, <2>1, SyncFrames DEF PlansStay, Batches, WiringStages
<1>5. CASE HasBatch
  <2>0. Only({"ms", "free"}, {"upload", "loopback", "bridge"})
    BY <1>0, <1>5, HeldFrames
  <2>1. ctx'.miss = ctx.miss /\ ctx'.k = ctx.k /\ ctx'.left = ctx.left /\ stage = "obtain"
    BY <1>5, <2>0, SyncFrames DEF Only, Fields
  <2> QED
    BY <1>b, <1>5, <2>1, SyncFrames DEF PlansStay, Batches, WiringStages
<1>6. CASE Prestages \/ EnsuresLoopback \/ SavesCommand \/ FansOut
  <2>0. Only({"pre", "fresh", "failed"}, {"plan", "command", "fan out", "done"})
        /\ stage \in {"upload", "loopback", "command", "fan out"}
    BY <1>0, <1>6, HeldFrames, SyncFrames DEF Only
  <2>1. ctx'.miss = ctx.miss /\ ctx'.k = ctx.k /\ ctx'.left = ctx.left
    BY <2>0 DEF Only, Fields
  <2>2. Waits(k, ctx, stage) /\ stage \in WiringStages
    BY <2>0, <2>1 DEF Only, Batches, WiringStages, Legs
  <2>3. plan'[k] = plan[k] \/ (plan[k] # None /\ plan'[k].bridge = plan[k].bridge)
    BY <1>6, SyncFrames, SinkSteps DEF PlansStay, OnlySinks
  <2> QED
    BY <1>b, <2>2, <2>3
<1>7. CASE TakesPlan
  <2>0. /\ Only({"left", "k", "m", "fresh", "free", "batch", "failed", "alloc", "loop", "pre"},
                {"plan", "done", "triggers", "read path"})
        /\ stage = "plan" /\ plan' = plan
    BY <1>0, <1>7, HeldFrames, SyncFrames DEF PlansStay
  <2>1. ctx'.miss = ctx.miss
    BY <2>0 DEF Only, Fields
  <2>2. ctx.left \subseteq Ks
    BY <2>0 DEF ByStage, WiringStages
  <2>3. ctx.left # {} => Min(ctx.left) \in ctx.left
    BY <2>2, MinIn, Types
  <2>4. \/ stage' = "read path" /\ ctx'.left \subseteq ctx.left /\ ctx'.k \in ctx.left
        \/ stage' = "plan" /\ ctx'.left \subseteq ctx.left
    BY <1>0, <1>7, <2>3, NextPlan DEF WiringStages, Batches, Legs
  <2>5. Waits(k, ctx, stage)
    BY <2>0, <2>1, <2>4 DEF Batches
  <2> QED
    BY <1>b, <2>0, <2>5 DEF WiringStages
<1>8. CASE WiresReadPath
  <2>0. Only({"failed"}, {"fill", "loopback", "done"}) /\ stage = "read path"
    BY <1>0, <1>8, HeldFrames, SyncFrames
  <2>1. ctx'.miss = ctx.miss /\ ctx'.k = ctx.k /\ ctx'.left = ctx.left
    BY <2>0 DEF Only, Fields
  <2>2. plan'[k] = plan[k] \/ (plan[k] # None /\ plan'[k].bridge = plan[k].bridge)
    BY <1>8, SinkSteps DEF OnlySinks
  <2> QED
    BY <1>b, <2>0, <2>1, <2>2 DEF Batches, WiringStages, Legs
<1>9. CASE WiresBridge
  <2>0. Only({"failed", "m"}, {"loopback", "done"}) /\ stage = "bridge"
    BY <1>0, <1>9, HeldFrames, SyncFrames
  <2>1. ctx'.miss = ctx.miss /\ ctx'.k = ctx.k /\ ctx'.left = ctx.left
    BY <2>0 DEF Only, Fields
  <2>2. ctx.k \notin ctx.left
    BY <1>9, WiresPrepared
  <2>3. k \in ctx.left /\ k # ctx.k
    BY <2>0, <2>1, <2>2 DEF Only, Batches, WiringStages, Legs
  <2>4. plan'[k] = plan[k]
    BY <1>9, <2>3, BridgeSteps DEF BridgeWired
  <2> QED
    BY <1>b, <2>0, <2>1, <2>3, <2>4 DEF WiringStages, Legs
<1>10. CASE User \/ BulkLoads
  <2>1. UNCHANGED <<ctx, stage>> /\ (plan[k] # None /\ plan'[k].bridge \subseteq plan[k].bridge)
    BY <1>10, UserTouches, CleaningFrames DEF TouchedByUser, PlansStay
  <2> QED
    BY <1>b, <2>1
<1>11. ~(stage' \in {"clusters"} \cup WiringStages) \/ User \/ BulkLoads \/ Audits \/ ResolvesClusters \/ FillsGap \/ FindsFree
       \/ Obtains \/ HasBatch \/ Prestages \/ EnsuresLoopback \/ SavesCommand \/ FansOut \/ TakesPlan \/ WiresReadPath \/ WiresBridge
  <2>1. Press => stage' = "audit"
    BY DEF Press
  <2> QED
    BY <1>0, <2>1, HeldFrames, CleaningFrames
       DEF Only, BridgesNext, Sync, Cleaning, WiresTriggers, WiringStages, Batches, Legs
<1> QED
  BY <1>1, <1>2, <1>3, <1>4, <1>5, <1>6, <1>7, <1>8, <1>9, <1>10, <1>11

-----------------------------------------------------------------------------
(* Markers prepared, and those that may be given out.                          *)

\* A title of a K's stays while a sync prepares and wires, but for a marker that is given out.
LEMMA BridgeTitleStays ==
  ASSUME StateTypes, HeldTypes, ByStage, Wants, Obtaining, ResetsInv, BridgesNext, stage \in WiringStages,
         NEW k \in Ks, NEW s \in {"plain", "trig"}, NEW m \in Ids(marker), marker[m].title = BridgeTitle(k, s),
         ~(Obtains /\ m \in ctx.free)
  PROVE  m \in Ids(marker') /\ marker'[m].title = marker[m].title
<1>1. ~ResetsMarker
  BY CleaningFrames DEF WiringStages, Batches, Legs
<1>2. marker[m].title # Blank
  BY TitleKinds
<1> QED
  BY <1>1, <1>2, MarkerChanges

PreparedFor(k, m, what, ms) == m # 0 => m \in Ids(ms) /\ ms[m].title = BridgeTitle(k, what.kind[k])

\* Which marker a K's turn prepares.
LEMMA ObtainPrepares ==
  ASSUME StateTypes, HeldTypes, ByStage, Wants, Prepared, Obtaining, Obtains
  PROVE  \E k \in ctx.batch : \E n :
           /\ k \in Ks /\ ctx.m = 0
           /\ \/ ctx' = ObtainedNone(k, n)
              \/ ctx' = Obtained(k, n) /\ PreparedFor(k, n, ctx, marker')
<1>0. stage = "obtain" /\ ctx.batch # {} /\ DOMAIN ctx = Fields
  BY SyncFrames DEF Obtains, HeldTypes
<1>1. PICK k : k = Min(ctx.batch)
  OBVIOUS
<1>2. ctx.free \subseteq Ids(marker)
  BY <1>0 DEF Obtaining
<1>3. /\ k \in Ks
      /\ \/ ctx.alloc[k] # 0 /\ ctx' = Obtained(k, ctx.alloc[k]) /\ marker' = marker
         \/ Same(k) # {} /\ ctx' = Obtained(k, Min(Same(k))) /\ marker' = marker
         \/ /\ ctx' = Obtained(k, Target) /\ Target \in Ids(marker')
            /\ marker'[Target].title = BridgeTitle(k, ctx.kind[k])
         \/ ctx' = ObtainedNone(k, Target)
  BY <1>1, <1>2, ObtainMarkers
<1>4. k \in ctx.batch /\ ctx.m = 0
  BY <1>0, <1>1, BatchOfKs DEF Wants, Batches
<1>5. PreparedFor(k, ctx.alloc[k], ctx, marker)
  BY <1>0, <1>3 DEF Prepared, WiringStages, Batches, PreparedFor
<1>6. Same(k) # {} => PreparedFor(k, Min(Same(k)), ctx, marker)
  <2>1. Same(k) \in SUBSET Nat
    BY DEF Same, Ids, HeldTypes
  <2>2. Same(k) # {} => Min(Same(k)) \in Same(k)
    BY <2>1, MinIn
  <2>3. Same(k) # {} => /\ Min(Same(k)) \in Ids(ctx.ms)
                        /\ ctx.ms[Min(Same(k))].title = BridgeTitle(k, ctx.kind[k])
    BY <2>2 DEF Same
  <2> QED
    BY <1>0, <1>4, <2>3 DEF Obtaining, PreparedFor
<1>7. ctx' = Obtained(k, ctx.alloc[k]) /\ marker' = marker => PreparedFor(k, ctx.alloc[k], ctx, marker')
  BY <1>5 DEF PreparedFor
<1>8. Same(k) # {} /\ ctx' = Obtained(k, Min(Same(k))) /\ marker' = marker => PreparedFor(k, Min(Same(k)), ctx, marker')
  BY <1>6 DEF PreparedFor
<1>9. Target \in Ids(marker') /\ marker'[Target].title = BridgeTitle(k, ctx.kind[k]) => PreparedFor(k, Target, ctx, marker')
  BY DEF PreparedFor
<1> QED
  BY <1>3, <1>4, <1>7, <1>8, <1>9

\* A prepared marker keeps its title until it is wired.
LEMMA PreparedKept ==
  ASSUME StateTypes, HeldTypes, ByStage, Wants, Prepared, Obtaining, ResetsInv, BridgesNext
  PROVE  Prepared'
<1>0. DOMAIN ctx = Fields
  BY DEF HeldTypes
<1> SUFFICES ASSUME stage' \in WiringStages
             PROVE  /\ \A k \in Ks : PreparedFor(k, ctx'.alloc[k], ctx', marker')
                    /\ ctx'.m # 0 => ctx'.k # 0 /\ PreparedFor(ctx'.k, ctx'.m, ctx', marker')
  BY DEF Prepared, PreparedFor, Ids
<1>a. stage \in WiringStages =>
        /\ \A k \in Ks : PreparedFor(k, ctx.alloc[k], ctx, marker)
        /\ ctx.m # 0 => ctx.k # 0 /\ PreparedFor(ctx.k, ctx.m, ctx, marker)
  BY DEF Prepared, PreparedFor
<1>b. stage \in WiringStages => ctx.kind \in [Ks -> {"plain", "trig"}] /\ ctx.k \in Ks \cup {0} /\ ctx.alloc \in [Ks -> Nat]
  BY DEF ByStage, HeldTypes
\* What was prepared stays so.
<1>c. ASSUME stage \in WiringStages, ~Obtains, NEW k \in Ks, NEW m, PreparedFor(k, m, ctx, marker)
      PROVE  PreparedFor(k, m, ctx, marker')
  BY <1>b, <1>c, BridgeTitleStays DEF PreparedFor
<1>1. CASE ResolvesClusters
  <2>1. Only({"left", "failed", "batch"}, {"triggers", "fill", "upload"}) /\ stage = "clusters"
    BY <1>0, <1>1, HeldFrames, SyncFrames
  <2>2. ctx'.alloc = [k \in Ks |-> 0] /\ ctx'.m = 0
    BY <2>1 DEF Only, Fields, ByStage
  <2> QED
    BY <2>2 DEF PreparedFor
<1>2. CASE Obtains
  <2>0. stage = "obtain" /\ stage \in WiringStages
    BY <1>2, SyncFrames DEF WiringStages, Batches
  <2>a. PICK k \in ctx.batch : \E n : /\ k \in Ks /\ ctx.m = 0
                                     /\ \/ ctx' = ObtainedNone(k, n)
                                        \/ ctx' = Obtained(k, n) /\ PreparedFor(k, n, ctx, marker')
    BY <1>2, ObtainPrepares
  <2>1. PICK n : /\ k \in Ks /\ ctx.m = 0
                 /\ \/ ctx' = ObtainedNone(k, n)
                    \/ ctx' = Obtained(k, n) /\ PreparedFor(k, n, ctx, marker')
    BY <2>a
  <2>2. PICK next : next = ctx'
    OBVIOUS
  <2>3. next.k = ctx.k /\ next.kind = ctx.kind
    <3>1. Only({"batch", "free", "alloc", "m", "failed"}, {"obtain"})
      BY <1>0, <1>2, HeldFrames
    <3> QED
      BY <2>2, <3>1 DEF Only, Fields
  <2>4. ctx.k # 0 => k = ctx.k
    BY <2>0, <2>1 DEF Wants, Batches
  \* No marker prepared is given out.
  <2>5. ASSUME NEW l \in Ks PROVE PreparedFor(l, ctx.alloc[l], ctx, marker')
    <3>1. ctx.alloc[l] # 0 => ~(ctx.alloc[l] \in ctx.free)
      BY <2>0 DEF Obtaining
    <3>2. PreparedFor(l, ctx.alloc[l], ctx, marker)
      BY <1>a, <2>0
    <3>3. CASE ctx.alloc[l] = 0
      BY <3>3 DEF PreparedFor
    <3>4. CASE ctx.alloc[l] # 0
      BY <1>b, <2>0, <3>1, <3>2, <3>4, BridgeTitleStays DEF PreparedFor
    <3> QED
      BY <3>3, <3>4
  <2>6. CASE ctx' = ObtainedNone(k, n)
    <3>1. next.alloc = ctx.alloc /\ next.m = 0
      BY <1>0, <2>1, <2>2, <2>6, GotNoneFields
    <3> QED
      BY <2>2, <2>3, <2>5, <3>1 DEF PreparedFor
  <2>7. CASE ctx' = Obtained(k, n) /\ PreparedFor(k, n, ctx, marker')
    <3>d. next = Obtained(k, n)
      BY <2>2, <2>7
    <3>e. next.m = (IF ctx.k = 0 THEN 0 ELSE n)
      BY <1>0, <2>1, <3>d, GotFields
    <3>1. next.alloc = IF ctx.k = 0 THEN [ctx.alloc EXCEPT ![k] = n] ELSE ctx.alloc
      BY <1>0, <3>d, GotAlloc
    <3>a. DOMAIN ctx.alloc = Ks
      BY <1>b, <2>0
    <3>b. PICK alloc : alloc = ctx.alloc
      OBVIOUS
    <3>c. \A l \in Ks : [alloc EXCEPT ![k] = n][l] = IF l = k THEN n ELSE alloc[l]
      BY <3>a, <3>b
    <3>2. \A l \in Ks : next.alloc[l] = ctx.alloc[l] \/ (l = k /\ next.alloc[l] = n)
      BY <3>1, <3>b, <3>c
    <3>3. \A l \in Ks : PreparedFor(l, next.alloc[l], ctx, marker')
      BY <2>5, <2>7, <3>2
    <3>4. next.m # 0 => ctx.k # 0 /\ PreparedFor(ctx.k, next.m, ctx, marker')
      BY <2>4, <2>7, <3>e
    <3> QED
      BY <2>2, <2>3, <3>3, <3>4 DEF PreparedFor
  <2> QED
    BY <2>1, <2>6, <2>7
<1>3. CASE TakesPlan
  <2>0. /\ Only({"left", "k", "m", "fresh", "free", "batch", "failed", "alloc", "loop", "pre"},
                {"plan", "done", "triggers", "read path"})
        /\ stage = "plan" /\ ~Obtains
    BY <1>0, <1>3, HeldFrames, SyncFrames
  <2>1. ctx'.kind = ctx.kind
    BY <2>0 DEF Only, Fields
  <2>2. ctx'.alloc = ctx.alloc /\ ctx'.m = 0
    BY <1>0, <1>3, NextPlan DEF WiringStages, Batches, Legs
  <2> QED
    BY <1>a, <1>c, <2>0, <2>1, <2>2 DEF WiringStages, PreparedFor
<1>4. CASE WiresBridge
  <2>0. Only({"failed", "m"}, {"loopback", "done"}) /\ stage = "bridge" /\ ~Obtains
    BY <1>0, <1>4, HeldFrames, SyncFrames
  <2>1. ctx'.kind = ctx.kind /\ ctx'.alloc = ctx.alloc /\ ctx'.k = ctx.k
    BY <2>0 DEF Only, Fields
  <2>2. ctx'.m \in {0, ctx.m}
    BY <1>0, <1>4 DEF Fields, WiresBridge
  <2> QED
    <3>1. stage \in WiringStages
      BY <2>0 DEF WiringStages, Legs
    <3>2. \A k \in Ks : PreparedFor(k, ctx.alloc[k], ctx, marker')
      BY <1>a, <1>c, <2>0, <3>1
    <3>3. ctx.m # 0 => ctx.k # 0 /\ ctx.k \in Ks
      BY <1>a, <1>b, <3>1
    <3>4. ctx.m # 0 => PreparedFor(ctx.k, ctx.m, ctx, marker')
      BY <1>a, <1>c, <2>0, <3>1, <3>3
    <3> QED
      BY <2>1, <2>2, <3>2, <3>3, <3>4 DEF PreparedFor
<1>5. CASE ~ResolvesClusters /\ ~Obtains /\ ~TakesPlan /\ ~WiresBridge
  <2>1. Press => stage' = "audit"
    BY DEF Press
  <2>2. stage \in WiringStages
    BY <1>0, <1>5, <2>1, HeldFrames, SyncFrames, CleaningFrames, UserTouches
       DEF Only, BridgesNext, Sync, Cleaning, WiresTriggers, WiringStages, Batches, Legs, TouchedByUser
  <2>3. User \/ BulkLoads \/ Only({"ms", "batch", "failed", "free", "pre", "fresh"}, Stages)
    BY <1>0, <1>5, <2>1, HeldFrames, CleaningFrames
       DEF Only, BridgesNext, Sync, Cleaning, WiresTriggers, WiringStages, Batches, Legs, Stages
  <2>4. ctx'.kind = ctx.kind /\ ctx'.alloc = ctx.alloc /\ ctx'.k = ctx.k /\ ctx'.m = ctx.m
    BY <2>3, UserTouches, CleaningFrames DEF Only, Fields, TouchedByUser
  <2> QED
    BY <1>a, <1>b, <1>c, <1>5, <2>2, <2>4 DEF PreparedFor
<1> QED
  BY <1>1, <1>2, <1>3, <1>4, <1>5

\* What is placed only shrinks by users' steps, but for what they did behind the sync's look.
LEMMA UserPlaces ==
  ASSUME StateTypes, User, NEW m, m \in Placed'
  PROVE  m \in Placed \/ m \in late'
<1>1. TouchedByUser
  BY UserTouches
<1>2. m \in own' \/ m \in InPlan(trig)' \/ \E k \in Ks : m \in InPlan(plan'[k])
  BY DEF Placed
<1>3. m \in own' => m \in own \/ m \in late'
  BY <1>1 DEF TouchedByUser
<1>4. m \in InPlan(trig)' => m \in InPlan(trig)
  BY <1>1 DEF TouchedByUser
<1>5. \A k \in Ks : m \in InPlan(plan'[k]) => m \in InPlan(plan[k])
  BY <1>1 DEF TouchedByUser, InPlan
<1> QED
  BY <1>2, <1>3, <1>4, <1>5 DEF Placed

\* What is given out stands in no plan and is prepared for no K.
LEMMA FreeOffered ==
  ASSUME StateTypes, HeldTypes, ByStage, Wants, Obtaining, FindsFree
  PROVE  /\ ctx'.free \subseteq Ids(ctx.ms)
         /\ \A m \in ctx'.free : /\ m \in Ids(marker)
                                 /\ \A k \in Ks : m \notin InPlan(plan[k]) /\ m # ctx.alloc[k]
                                 /\ m \in late' \/ (m \notin Placed /\ (marker[m].title = Blank \/ IsBridge(marker[m].title)))
         /\ \A k \in ctx.batch, m \in Ids(ctx.ms) : ctx.ms[m].title = BridgeTitle(k, ctx.kind[k]) =>
              m \notin ctx'.free /\ marker[m].title = ctx.ms[m].title
<1>0. DOMAIN ctx = Fields /\ stage = "free" /\ ctx.batch \subseteq Ks /\ ctx.kind \in [Ks -> {"plain", "trig"}]
  BY SyncFrames, BatchOfKs DEF HeldTypes, Batches
<1>1. (ctx'.free = FreeMarkers /\ late' = late \ Placed) \/ ctx'.free = {}
  BY <1>0 DEF FindsFree, Fields
<1>2. /\ Ids(ctx.ms) \subseteq Ids(marker)
      /\ \A m \in Ids(ctx.ms) : (m \in late /\ ctx.ms[m].title = Blank) \/ marker[m].title = ctx.ms[m].title
  BY <1>0 DEF Obtaining
<1>3. ASSUME NEW m \in FreeMarkers
      PROVE  /\ m \in Ids(ctx.ms) /\ m \notin Placed /\ m \notin Reserved
             /\ ctx.ms[m].title = Blank \/ (IsBridge(ctx.ms[m].title) /\ ctx.ms[m].title \notin Titles(ctx.batch))
  BY DEF FreeMarkers, Reusable
<1>4. ASSUME NEW m \in FreeMarkers, late' = late \ Placed
      PROVE  /\ m \in Ids(marker)
             /\ \A k \in Ks : m \notin InPlan(plan[k]) /\ m # ctx.alloc[k]
             /\ m \in late' \/ (m \notin Placed /\ (marker[m].title = Blank \/ IsBridge(marker[m].title)))
  <2>1. m # 0
    BY <1>3 DEF Ids
  <2>2. \A k \in Ks : m \notin InPlan(plan[k]) /\ m # ctx.alloc[k]
    BY <1>3, <2>1 DEF Placed, Reserved
  <2>3. m \in late' \/ (m \notin Placed /\ (marker[m].title = Blank \/ IsBridge(marker[m].title)))
    BY <1>2, <1>3, <1>4
  <2> QED
    BY <1>2, <1>3, <2>2, <2>3
<1>5. ASSUME NEW k \in ctx.batch, NEW m \in Ids(ctx.ms), ctx.ms[m].title = BridgeTitle(k, ctx.kind[k])
      PROVE  m \notin FreeMarkers /\ marker[m].title = ctx.ms[m].title
  <2>1. ctx.ms[m].title # Blank /\ ctx.ms[m].title \in Titles(ctx.batch)
    BY <1>0, <1>5, TitleKinds DEF Titles
  <2> QED
    BY <1>2, <1>3, <2>1
<1> QED
  BY <1>1, <1>3, <1>4, <1>5

\* What was given out to choose from stays nobody's, but for what users do.
LEMMA ObtainingKept ==
  ASSUME StateTypes, HeldTypes, ByStage, Wants, Prepared, Obtaining, ResetsInv, BridgesNext
  PROVE  Obtaining'
<1>0. DOMAIN ctx = Fields
  BY DEF HeldTypes
<1>a. stage' \in {"free", "obtain"} => User \/ BulkLoads \/ FillsGap \/ FindsFree \/ Obtains
  <2>1. Press => stage' = "audit"
    BY DEF Press
  <2> QED
    BY <1>0, <2>1, HeldFrames, CleaningFrames DEF Only, BridgesNext, Sync, Cleaning, WiresTriggers
<1>1. CASE stage' \notin {"free", "obtain"}
  BY <1>1 DEF Obtaining
<1>2. CASE User
  <2>1. TouchedByUser /\ ctx' = ctx /\ stage' = stage
    BY <1>2, UserTouches DEF TouchedByUser
  <2>2. Ids(marker) \subseteq Ids(marker')
    BY <1>2, MarkerChanges
  <2>3. stage = "free" =>
          \A m \in Ids(ctx.ms) : (m \in late' /\ ctx.ms[m].title = Blank) \/ marker'[m].title = ctx.ms[m].title
    BY <2>1 DEF Obtaining, TouchedByUser
  <2>4. ASSUME stage = "obtain", NEW m \in ctx.free
        PROVE  /\ m \in Ids(marker')
               /\ \A k \in Ks : m \notin InPlan(plan'[k]) /\ m # ctx.alloc[k]
               /\ m \in late' \/ (m \notin Placed' /\ (marker'[m].title = Blank \/ IsBridge(marker'[m].title)))
    <3>1. /\ m \in Ids(marker)
          /\ \A k \in Ks : m \notin InPlan(plan[k]) /\ m # ctx.alloc[k]
          /\ m \in late \/ (m \notin Placed /\ (marker[m].title = Blank \/ IsBridge(marker[m].title)))
      BY <2>4 DEF Obtaining
    <3>2. \A k \in Ks : m \notin InPlan(plan'[k])
      BY <2>1, <3>1 DEF TouchedByUser, InPlan
    <3>3. m \in late' \/ (m \notin Placed' /\ (marker'[m].title = Blank \/ IsBridge(marker'[m].title)))
      BY <1>2, <2>1, <3>1, UserPlaces DEF TouchedByUser
    <3> QED
      BY <2>2, <3>1, <3>2, <3>3
  <2>5. ASSUME stage = "obtain", NEW k \in ctx.batch, NEW m \in Ids(ctx.ms), ctx.ms[m].title = BridgeTitle(k, ctx.kind[k])
        PROVE  m \notin ctx.free /\ marker'[m].title = ctx.ms[m].title
    <3>1. k \in Ks /\ ctx.kind \in [Ks -> {"plain", "trig"}]
      BY <2>5, BatchOfKs DEF Batches
    <3>2. m \in Ids(marker) /\ m \notin ctx.free /\ marker[m].title = ctx.ms[m].title /\ ctx.ms[m].title # Blank
      BY <2>5, <3>1, TitleKinds DEF Obtaining
    <3> QED
      BY <2>1, <3>2 DEF TouchedByUser
  <2>6. stage' \in {"free", "obtain"} => Ids(ctx.ms) \subseteq Ids(marker')
    BY <2>1, <2>2 DEF Obtaining
  <2>7. Ids(ctx'.ms) = Ids(ctx.ms)
    BY <2>1
  <2> QED
    BY <2>1, <2>3, <2>4, <2>5, <2>6, <2>7 DEF Obtaining, Ids
<1>3. CASE BulkLoads
  <2>1. UNCHANGED <<marker, own, late, plan, trig, stage, ctx>>
    BY <1>3, CleaningFrames DEF MarkersStay, PlansStay
  <2> QED
    BY <2>1 DEF Obtaining, Ids, Placed, InPlan
<1>4. CASE FillsGap /\ stage' = "free"
  <2>1. ctx'.ms = marker
    BY <1>0, <1>4 DEF FillsGap, Fields, AfterBatch
  <2>2. Ids(marker) \subseteq Ids(marker') /\ \A m \in Ids(marker) : marker'[m] = marker[m]
    BY <1>4, GapMarkers DEF MarkersAdded
  <2> QED
    BY <1>4, <2>1, <2>2 DEF Obtaining, Ids
<1>5. CASE FindsFree
  <2>1. stage = "free" /\ stage' = "obtain" /\ UNCHANGED <<marker, own, plan, trig>>
    BY <1>5, SyncFrames DEF PlansStay, FindsFree
  <2>2. Only({"free"}, {"obtain"})
    BY <1>0, <1>5, HeldFrames
  <2>3. ctx'.ms = ctx.ms /\ ctx'.alloc = ctx.alloc /\ ctx'.batch = ctx.batch /\ ctx'.kind = ctx.kind
    BY <2>2 DEF Only, Fields
  <2>4. Ids(ctx.ms) \subseteq Ids(marker)
    BY <2>1 DEF Obtaining
  <2>5. Placed' = Placed /\ Ids(marker') = Ids(marker) /\ Ids(ctx'.ms) = Ids(ctx.ms)
    BY <2>1, <2>3 DEF Placed, Ids, InPlan
  <2>6. /\ \A m \in ctx'.free : /\ m \in Ids(marker')
                                /\ \A k \in Ks : m \notin InPlan(plan[k]) /\ m # ctx'.alloc[k]
                                /\ m \in late' \/ (m \notin Placed' /\ (marker'[m].title = Blank \/ IsBridge(marker'[m].title)))
        /\ \A k \in ctx'.batch, m \in Ids(ctx.ms) : ctx'.ms[m].title = BridgeTitle(k, ctx'.kind[k]) =>
              m \notin ctx'.free /\ marker'[m].title = ctx'.ms[m].title
    BY <1>5, <2>1, <2>3, <2>5, FreeOffered
  <2>7. \A k \in Ks : InPlan(plan[k])' = InPlan(plan[k])
    BY <2>1 DEF InPlan
  <2> QED
    BY <2>1, <2>3, <2>4, <2>5, <2>6, <2>7 DEF Obtaining
<1>6. CASE Obtains
  <2>1. stage = "obtain" /\ stage' = "obtain" /\ UNCHANGED <<own, late, plan, trig>>
    BY <1>6, SyncFrames DEF PlansStay
  <2>2. PICK next : next = ctx'
    OBVIOUS
  <2>3. next.ms = ctx.ms /\ next.kind = ctx.kind
    <3>1. Only({"batch", "free", "alloc", "m", "failed"}, {"obtain"})
      BY <1>0, <1>6, HeldFrames
    <3> QED
      BY <2>2, <3>1 DEF Only, Fields
  <2>4. ctx.free \subseteq Ids(marker)
    BY <2>1 DEF Obtaining
  <2>5. PICK k : k = Min(ctx.batch)
    OBVIOUS
  <2>6. k \in Ks /\ ObtainChanges(k)
    BY <1>6, <2>4, <2>5, ObtainMarkers
  \* What is left to give out is as it was, and prepared for no K.
  <2>7. \E n : /\ next.free = ctx.free \ {n} /\ next.batch \subseteq ctx.batch
               /\ next.alloc = ctx.alloc \/ next.alloc = [ctx.alloc EXCEPT ![k] = n]
               /\ \A m \in Ids(marker) \ {n} : marker'[m] = marker[m]
    <3>1. \E n : (next = Obtained(k, n) /\ marker' = marker) \/ ((next = Obtained(k, n) \/ next = ObtainedNone(k, n)) /\ n = Target)
      BY <1>6, <2>2, <2>4, <2>5, ObtainMarkers
    <3>2. PICK n : (next = Obtained(k, n) /\ marker' = marker) \/ ((next = Obtained(k, n) \/ next = ObtainedNone(k, n)) /\ n = Target)
      BY <3>1
    <3>3. next = Obtained(k, n) => /\ next.free = ctx.free \ {n} /\ next.batch \subseteq ctx.batch
                                   /\ next.alloc = ctx.alloc \/ next.alloc = [ctx.alloc EXCEPT ![k] = n]
      <4>1. next = Obtained(k, n) => next.free = ctx.free \ {n} /\ next.batch = ctx.batch \ {k}
        BY <1>0, GotFields
      <4>2. next = Obtained(k, n) => next.alloc = IF ctx.k = 0 THEN [ctx.alloc EXCEPT ![k] = n] ELSE ctx.alloc
        BY <1>0, GotAlloc
      <4> QED
        BY <4>1, <4>2
    <3>4. next = ObtainedNone(k, n) => next.free = ctx.free \ {n} /\ next.batch \subseteq ctx.batch /\ next.alloc = ctx.alloc
      BY <1>0, GotNoneFields
    <3>5. \A m \in Ids(marker) \ {n} : marker'[m] = marker[m]
      BY <2>6, <3>2 DEF ObtainChanges
    <3> QED
      BY <3>2, <3>3, <3>4, <3>5
  <2>8. PICK n : /\ next.free = ctx.free \ {n} /\ next.batch \subseteq ctx.batch
                 /\ next.alloc = ctx.alloc \/ next.alloc = [ctx.alloc EXCEPT ![k] = n]
                 /\ \A m \in Ids(marker) \ {n} : marker'[m] = marker[m]
    BY <2>7
  <2>9. Ids(marker) \subseteq Ids(marker') /\ Placed' = Placed
    BY <1>6, <2>1, MarkerChanges DEF Placed, InPlan
  <2>10. ctx.alloc \in [Ks -> Nat] /\ ctx.batch \subseteq Ks /\ ctx.kind \in [Ks -> {"plain", "trig"}]
    BY <2>1, BatchOfKs DEF Batches
  <2>11. \A l \in Ks : next.alloc[l] = ctx.alloc[l] \/ next.alloc[l] = n
    <3>1. PICK alloc : alloc = ctx.alloc
      OBVIOUS
    <3>2. \A l \in Ks : [alloc EXCEPT ![k] = n][l] = IF l = k THEN n ELSE alloc[l]
      BY <2>10, <3>1
    <3> QED
      BY <2>8, <3>1, <3>2
  <2>12. ASSUME NEW m \in next.free
         PROVE  /\ m \in Ids(marker')
                /\ \A l \in Ks : m \notin InPlan(plan[l]) /\ m # next.alloc[l]
                /\ m \in late \/ (m \notin Placed /\ (marker'[m].title = Blank \/ IsBridge(marker'[m].title)))
    <3>1. m \in ctx.free /\ m # n /\ m \in Ids(marker) /\ marker'[m] = marker[m]
      BY <2>4, <2>8, <2>12
    <3>2. /\ \A l \in Ks : m \notin InPlan(plan[l]) /\ m # ctx.alloc[l]
          /\ m \in late \/ (m \notin Placed /\ (marker[m].title = Blank \/ IsBridge(marker[m].title)))
      BY <2>1, <3>1 DEF Obtaining
    <3> QED
      BY <2>9, <2>11, <3>1, <3>2
  <2>13. ASSUME NEW l \in next.batch, NEW m \in Ids(ctx.ms), ctx.ms[m].title = BridgeTitle(l, ctx.kind[l])
         PROVE  m \notin next.free /\ marker'[m].title = ctx.ms[m].title
    <3>1. m \in Ids(marker) /\ m \notin ctx.free /\ marker[m].title = ctx.ms[m].title
      BY <2>1, <2>8, <2>13 DEF Obtaining
    <3>2. marker'[m] = marker[m]
      BY <2>6, <3>1 DEF ObtainChanges
    <3> QED
      BY <2>8, <3>1, <3>2
  <2>14. Ids(ctx'.ms) = Ids(ctx.ms) /\ \A l \in Ks : InPlan(plan[l])' = InPlan(plan[l])
    BY <2>1, <2>2, <2>3 DEF InPlan
  <2>15. Ids(ctx.ms) \subseteq Ids(marker')
    BY <2>1, <2>9 DEF Obtaining
  <2> QED
    BY <2>1, <2>2, <2>3, <2>9, <2>12, <2>13, <2>14, <2>15 DEF Obtaining
<1>7. FillsGap => stage' # "obtain"
  BY <1>0, HeldFrames DEF Only
<1> QED
  BY <1>a, <1>1, <1>2, <1>3, <1>4, <1>5, <1>6, <1>7

-----------------------------------------------------------------------------
(* Commands.                                                                   *)

\* An unlisted command went up with the class, or its K's leg has been seen to.
Accounted == \A c \in Ids(command) \ listed : command[c] \in ctx.pre \/ Handled(command[c][1])
Once == \A c, d \in Ids(command) : command[c] = command[d] => c = d

\* No command is made that is there.
LEMMA CommandsOnce ==
  ASSUME StateTypes, HeldTypes, ByStage, CommandsInv, BridgesNext
  PROVE  unsure' \/ Once'
<1>1. unsure \/ Once
  BY DEF CommandsInv, Once
<1>2. UNCHANGED <<command, unsure>> => unsure' \/ Once'
  BY <1>1 DEF Once, Ids
<1>3. CASE Prestages \/ EnsuresLoopback
  <2>1. PICK bridges : bridges = IF stage = "upload" THEN Prepares ELSE Looping
    OBVIOUS
  <2> QED
    BY <1>1, <1>3, <2>1, EnsureSteps DEF Once, Ids
<1>4. CASE SavesCommand
  <2>1. unsure' = unsure /\ stage = "command"
    BY <1>4, SyncFrames
  <2>2. CASE command' = command
    BY <1>2, <2>1, <2>2
  <2>3. CASE command' = Append(command, Loop) /\ ~KnownCommand(Loop) /\ Loop \in {ctx.k} \X Nat /\ ctx.k \in Ks
    <3>1. unsure \/ \A c \in Ids(command) \ listed : command[c] \in ctx.pre \/ Handled(command[c][1])
      BY <2>1 DEF CommandsInv, WiringStages, Legs
    <3>2. PICK b : b = Loop
      OBVIOUS
    <3>3. b \notin Names(listed) /\ b \notin ctx.pre /\ ~ctx.fresh /\ b[1] = ctx.k
      BY <2>3, <3>2 DEF KnownCommand
    <3>4. ~Handled(ctx.k)
      BY <2>1, <3>3 DEF Handled
    <3>5. ASSUME ~unsure, NEW c \in Ids(command) PROVE command[c] # b
      BY <3>1, <3>3, <3>4, <3>5 DEF Names
    <3>6. command \in Seq(Ks \X Nat) /\ Len(command) \in Nat /\ command' = Append(command, b)
      BY <2>3, <3>2 DEF StateTypes
    <3>7. /\ Len(command') = Len(command) + 1 /\ command'[Len(command) + 1] = b
          /\ \A c \in 1..Len(command) : command'[c] = command[c]
      BY <3>6
    <3>8. \A c \in 1..Len(command') : c \in 1..Len(command) \/ c = Len(command) + 1
      BY <3>6, <3>7
    <3> QED
      BY <1>1, <2>1, <3>5, <3>7, <3>8 DEF Once, Ids
  <2> QED
    BY <1>4, <2>2, <2>3, SaveSteps
<1>5. CASE DeletesWebIo
  <2>1. unsure' = unsure /\ (command' = command \/ command' = <<>>)
    BY <1>5, CleaningFrames DEF DeletesWebIo, loopback
  <2>2. command' = <<>> => Once'
    BY DEF Once, Ids
  <2> QED
    BY <1>2, <2>1, <2>2
<1>6. User => UNCHANGED <<command, unsure>>
  BY UserTouches DEF TouchedByUser
<1>7. ~User /\ ~Prestages /\ ~EnsuresLoopback /\ ~SavesCommand /\ ~DeletesWebIo => UNCHANGED <<command, unsure>>
  BY SyncFrames, CleaningFrames DEF CommandsStay, BridgesNext, Sync, Cleaning, WiresTriggers
<1> QED
  BY <1>2, <1>3, <1>4, <1>5, <1>6, <1>7

\* The class there must be for a command, and the loops that are at work.
LEMMA ClassKept ==
  ASSUME StateTypes, HeldTypes, ByStage, CommandsInv, BridgesNext
  PROVE  /\ ~class' => command' = <<>> /\ stage' # "command"
         /\ stage' \in {"command", "fan out"} => Looping' # {}
         /\ stage' \in {"idle", "audit", "clusters"} => Ids(command') \subseteq listed'
<1>0. DOMAIN ctx = Fields
  BY DEF HeldTypes
<1>a. /\ ~class => command = <<>> /\ stage # "command"
      /\ stage \in {"command", "fan out"} => Looping # {}
      /\ stage \in {"idle", "audit", "clusters"} => Ids(command) \subseteq listed
  BY DEF CommandsInv
<1>b. ctx'.m = ctx.m /\ ctx'.k = ctx.k /\ ctx'.loop = ctx.loop => Looping' = Looping
  BY DEF Looping
<1>1. CASE User \/ BulkLoads
  <2>1. UNCHANGED <<stage, ctx, command, listed, class>>
    BY <1>1, UserTouches, CleaningFrames DEF TouchedByUser, CommandsStay
  <2> QED
    BY <1>a, <1>b, <2>1 DEF Ids
<1>2. CASE EnsuresLoopback
  <2>0. Only({"fresh", "failed"}, {"plan", "command", "done"})
    BY <1>0, <1>2, HeldFrames
  <2>1. Looping' = Looping
    BY <1>b, <2>0 DEF Only, Fields
  <2>2. stage' = "command" => Looping # {} /\ class'
    <3>1. Made(Looping) => class'
      BY DEF Made, Uploaded
    <3>2. There => class'
      BY DEF There, OnlyDevice
    <3>3. EnsuresLoopback /\ stage' = "command" => Looping # {} /\ (Made(Looping) \/ There)
      BY DEF EnsuresLoopback
    <3> QED
      BY <1>2, <3>1, <3>2, <3>3
  <2>3. ~class' => command' = <<>>
    BY <1>a, <1>2, EnsureSteps
  <2> QED
    BY <2>0, <2>1, <2>2, <2>3 DEF Only
<1>3. CASE Prestages
  <2>1. stage' = "plan"
    BY <1>3, SyncFrames
  <2>2. ~class' => command' = <<>>
    BY <1>a, <1>3, EnsureSteps
  <2> QED
    BY <2>1, <2>2
<1>4. CASE SavesCommand
  <2>0. Only({"failed"}, {"fan out", "plan", "done"}) /\ stage = "command" /\ class' = class
    BY <1>0, <1>4, HeldFrames, SyncFrames
  <2>1. Looping' = Looping
    BY <1>b, <2>0 DEF Only, Fields
  <2> QED
    BY <1>a, <2>0, <2>1 DEF Only
<1>5. CASE DeletesWebIo
  <2>0. Only({"failed"}, {"clean read", "done"})
    BY <1>0, <1>5, HeldFrames
  <2>1. UNCHANGED <<class, command>> \/ (class' = FALSE /\ command' = <<>>)
    BY <1>5 DEF DeletesWebIo, loopback
  <2> QED
    BY <1>a, <2>0, <2>1 DEF Only
<1>6. CASE Finishes
  <2>1. listed' = Ids(command) /\ stage' = "idle" /\ command' = command /\ class' = class
    BY <1>6 DEF Finishes
  <2> QED
    BY <1>a, <2>1 DEF Ids
<1>7. CASE FansOut
  <2>0. Only({"failed"}, {"plan", "done"}) /\ class' = class /\ command' = command
    BY <1>0, <1>7, HeldFrames, SyncFrames
  <2> QED
    BY <1>a, <2>0 DEF Only
<1>8. CASE Press \/ \E scope \in {"knx", "full"} : CleanUp(scope)
  <2>1. stage = "idle" /\ stage' \in {"audit", "clean triggers"} /\ UNCHANGED <<command, listed, class>>
    BY <1>8, SyncFrames, CleaningFrames DEF CommandsStay, Press
  <2> QED
    BY <1>a, <2>1 DEF Ids
<1>9. CASE Audits \/ ResolvesClusters
  <2>1. stage \in {"audit", "clusters"} /\ UNCHANGED <<command, listed, class>>
    BY <1>9, SyncFrames DEF CommandsStay
  <2>2. stage' \notin {"command", "fan out"}
    BY <1>0, <1>9, HeldFrames DEF Only
  <2> QED
    BY <1>a, <2>1, <2>2 DEF Ids
<1>10. CASE \/ FillsGap \/ FindsFree \/ Obtains \/ HasBatch \/ TakesPlan \/ WiresReadPath \/ WiresBridge \/ WiresTriggers
            \/ DecidesTriggers \/ RemovesPairs \/ DeletesPlans \/ ReadsBridges \/ ResetsMarker
  <2>1. UNCHANGED <<command, class>>
    BY <1>10, SyncFrames, CleaningFrames DEF CommandsStay, WiresTriggers
  <2>2. stage' \notin {"command", "fan out", "idle", "audit", "clusters"}
    BY <1>0, <1>10, HeldFrames DEF Only, WiresTriggers
  <2> QED
    BY <1>a, <2>1, <2>2
<1> QED
  BY <1>1, <1>2, <1>3, <1>4, <1>5, <1>6, <1>7, <1>8, <1>9, <1>10 DEF BridgesNext, Sync, Cleaning

HandledIn(k, what, at) ==
    k \notin what.left /\ (k # what.k \/ at \in {"plan", "fan out"} \/ (at = "command" /\ what.fresh))

\* Each command not listed yet stays accounted for.
LEMMA AccountedKept ==
  ASSUME StateTypes, HeldTypes, ByStage, Wants, CommandsInv, BridgesNext
  PROVE  stage' \in WiringStages => unsure' \/ Accounted'
<1>0. DOMAIN ctx = Fields
  BY DEF HeldTypes
<1> SUFFICES ASSUME stage' \in WiringStages, ~unsure', NEW c \in Ids(command'), c \notin listed'
             PROVE  command'[c] \in ctx'.pre \/ HandledIn(command'[c][1], ctx', stage')
  BY DEF Accounted, Handled, HandledIn, Ids
<1>a. stage \in WiringStages => unsure \/ \A d \in Ids(command) \ listed : command[d] \in ctx.pre \/ HandledIn(command[d][1], ctx, stage)
  BY DEF CommandsInv, Handled, HandledIn
\* What was accounted for stays so.
<1> DEFINE Stays == ctx'.pre = ctx.pre /\ \A k : HandledIn(k, ctx, stage) => HandledIn(k, ctx', stage')
<1>c. stage \in WiringStages /\ UNCHANGED <<command, listed, unsure>> /\ Stays =>
        command'[c] \in ctx'.pre \/ HandledIn(command'[c][1], ctx', stage')
  <2> SUFFICES ASSUME stage \in WiringStages, UNCHANGED <<command, listed, unsure>>, Stays
               PROVE  command'[c] \in ctx'.pre \/ HandledIn(command'[c][1], ctx', stage')
    OBVIOUS
  <2>1. c \in Ids(command) \ listed
    BY DEF Ids
  <2>2. command[c] \in ctx.pre \/ HandledIn(command[c][1], ctx, stage)
    BY <1>a, <2>1
  <2> QED
    BY <2>2
<1> HIDE DEF Stays
<1>1. CASE User \/ BulkLoads
  <2>1. UNCHANGED <<stage, ctx, command, listed, unsure>>
    BY <1>1, UserTouches, CleaningFrames DEF TouchedByUser, CommandsStay
  <2>2. Stays
    BY <2>1 DEF Stays
  <2> QED
    BY <1>c, <2>1, <2>2
<1>2. CASE ResolvesClusters
  <2>1. stage = "clusters" /\ UNCHANGED <<command, listed>>
    BY <1>2, SyncFrames DEF CommandsStay
  <2> QED
    BY <2>1 DEF CommandsInv, Ids
<1>3. CASE FillsGap \/ FindsFree \/ Obtains \/ HasBatch \/ WiresReadPath \/ WiresBridge
  <2>0. Only({"ms", "batch", "failed", "free", "alloc", "m"}, Stages) /\ stage \in WiringStages
    BY <1>0, <1>3, HeldFrames, SyncFrames DEF Only, Stages, WiringStages, Batches, Legs
  <2>1. ctx'.left = ctx.left /\ ctx'.k = ctx.k /\ ctx'.fresh = ctx.fresh /\ ctx'.pre = ctx.pre
    BY <2>0 DEF Only, Fields
  <2>2. stage \notin {"plan", "fan out", "command"} /\ UNCHANGED <<command, listed, unsure>>
    BY <1>3, SyncFrames DEF CommandsStay
  <2>3. Stays
    BY <2>1, <2>2 DEF Stays, HandledIn
  <2> QED
    BY <1>c, <2>0, <2>2, <2>3
<1>4. CASE TakesPlan
  <2>1. stage = "plan" /\ stage \in WiringStages /\ UNCHANGED <<command, listed, unsure>>
    BY <1>4, SyncFrames DEF CommandsStay, WiringStages
  <2>2. ctx.left \subseteq Ks
    BY <2>1 DEF ByStage, WiringStages
  <2>3. ctx.left # {} => Min(ctx.left) \in ctx.left
    BY <2>2, MinIn, Types
  <2>4. /\ ctx'.pre = ctx.pre /\ ctx'.left \subseteq ctx.left
        /\ stage' = "plan" \/ (stage' = "read path" /\ ctx'.k \in ctx.left)
    BY <1>0, <1>4, <2>3, NextPlan DEF WiringStages, Batches, Legs
  <2>5. Stays
    BY <2>1, <2>4 DEF Stays, HandledIn
  <2> QED
    BY <1>c, <2>1, <2>5
<1>5. CASE Prestages
  <2>0. Only({"pre"}, {"plan"}) /\ stage = "upload" /\ stage' = "plan" /\ stage \in WiringStages
    BY <1>0, <1>5, HeldFrames, SyncFrames DEF WiringStages
  <2>1. ctx'.left = ctx.left
    BY <2>0 DEF Only, Fields
  <2>2. CASE UNCHANGED <<command, listed>>
    <3>1. unsure' = unsure
      BY <1>5, <2>0, EnsureSteps
    <3>2. c \in Ids(command) \ listed
      BY <2>2 DEF Ids
    <3>3. ~Made(Prepares)
      <4>1. Made(Prepares) => command = <<>>
        BY DEF Made, Absent, CommandsInv
      <4> QED
        BY <3>2, <4>1 DEF Ids
    <3>4. ctx' = ctx
      BY <1>5, <3>3 DEF Prestages, Prepares
    <3>5. Stays
      BY <2>0, <3>4 DEF Stays, HandledIn
    <3> QED
      BY <1>c, <2>0, <2>2, <3>1, <3>5
  <2>3. CASE Made(Prepares) /\ \A d \in Ids(command') : command'[d] \in Prepares
    <3>1. ~There /\ ~NotEnsured(Prepares)
      BY <2>3 DEF Made, There, NotEnsured, Absent
    <3>2. Prepares = {} \/ ctx' = [ctx EXCEPT !.pre = Prepares]
      BY <1>5, <3>1 DEF Prestages, Prepares
    <3>3. command'[c] \in Prepares
      BY <2>3
    <3>4. ctx'.pre = Prepares
      BY <1>0, <3>2, <3>3 DEF Fields
    <3> QED
      BY <3>3, <3>4
  <2> QED
    BY <1>5, <2>0, <2>2, <2>3, EnsureSteps
<1>6. CASE EnsuresLoopback
  <2>0. Only({"fresh", "failed"}, {"plan", "command", "done"}) /\ stage = "loopback" /\ stage \in WiringStages
    BY <1>0, <1>6, HeldFrames, SyncFrames DEF WiringStages, Legs
  <2>1. ctx'.left = ctx.left /\ ctx'.k = ctx.k /\ ctx'.pre = ctx.pre
    BY <2>0 DEF Only, Fields
  <2>2. CASE UNCHANGED <<command, listed>>
    <3>1. unsure' = unsure
      BY <1>6, <2>0, EnsureSteps
    <3>2. Stays
      BY <2>0, <2>1 DEF Stays, HandledIn, Only
    <3> QED
      BY <1>c, <2>0, <2>2, <3>1, <3>2
  <2>3. CASE Made(Looping) /\ \A d \in Ids(command') : command'[d] \in Looping
    <3>1. ~There /\ ~NotEnsured(Looping)
      BY <2>3 DEF Made, There, NotEnsured, Absent
    <3>2. command'[c] \in Looping
      BY <2>3
    <3>3. ctx' = [ctx EXCEPT !.fresh = TRUE] /\ stage' = "command"
      BY <1>6, <3>1, <3>2 DEF EnsuresLoopback
    <3>4. ctx'.fresh = TRUE
      BY <1>0, <3>3 DEF Fields
    <3>5. command'[c][1] = ctx.k /\ ctx.k \notin ctx.left
      BY <2>0, <3>2, UploadsPairs DEF Legs, ByStage
    <3> QED
      BY <2>1, <3>3, <3>4, <3>5 DEF HandledIn
  <2> QED
    BY <1>6, <2>0, <2>2, <2>3, EnsureSteps
<1>7. CASE SavesCommand
  <2>0. Only({"failed"}, {"fan out", "plan", "done"}) /\ stage = "command" /\ stage \in WiringStages /\ unsure' = unsure
    BY <1>0, <1>7, HeldFrames, SyncFrames DEF WiringStages, Legs
  <2>1. ctx'.left = ctx.left /\ ctx'.k = ctx.k /\ ctx'.pre = ctx.pre /\ ctx'.fresh = ctx.fresh /\ stage' \in {"fan out", "plan"}
    BY <2>0 DEF Only, Fields, WiringStages, Batches, Legs
  <2>2. \A k : HandledIn(k, ctx', stage') <=> k \notin ctx.left
    BY <2>1 DEF HandledIn
  <2>3. CASE command' = command /\ listed' = listed
    <3>1. Stays
      BY <2>1, <2>2 DEF Stays, HandledIn
    <3> QED
      BY <1>c, <2>0, <2>3, <3>1
  <2>4. CASE /\ command' = Append(command, Loop) /\ Loop \in {ctx.k} \X Nat /\ ctx.k \in Ks
             /\ listed' \in {listed, Ids(command')}
    <3>1. PICK b : b = Loop
      OBVIOUS
    <3>2. command \in Seq(Ks \X Nat) /\ Len(command) \in Nat /\ command' = Append(command, b) /\ b[1] = ctx.k
      BY <2>4, <3>1 DEF StateTypes
    <3>3. /\ Len(command') = Len(command) + 1 /\ command'[Len(command) + 1] = b
          /\ \A d \in 1..Len(command) : command'[d] = command[d]
      BY <3>2
    <3>4. c \in 1..Len(command) \/ c = Len(command) + 1
      BY <3>2, <3>3 DEF Ids
    <3>5. ctx.k \notin ctx.left
      BY <2>0 DEF ByStage
    <3>6. CASE c = Len(command) + 1
      BY <2>2, <3>2, <3>3, <3>5, <3>6
    <3>7. CASE c \in 1..Len(command)
      <4>1. c \in Ids(command) \ listed /\ command'[c] = command[c]
        BY <2>4, <3>3, <3>7 DEF Ids
      <4>2. command[c] \in ctx.pre \/ HandledIn(command[c][1], ctx, stage)
        BY <1>a, <2>0, <4>1
      <4> QED
        BY <2>1, <2>2, <4>1, <4>2 DEF HandledIn
    <3> QED
      BY <3>4, <3>6, <3>7
  <2> QED
    BY <1>7, <2>3, <2>4, SaveSteps
<1>8. CASE FansOut
  <2>0. Only({"failed"}, {"plan", "done"}) /\ stage \in WiringStages /\ command' = command /\ unsure' = unsure
    BY <1>0, <1>8, HeldFrames, SyncFrames DEF WiringStages, Legs
  <2>1. ctx'.left = ctx.left /\ ctx'.pre = ctx.pre /\ stage' = "plan"
    BY <2>0 DEF Only, Fields, WiringStages, Batches, Legs
  <2>2. listed' = listed \/ listed' = Ids(command)
    BY <1>8, SyncFrames DEF FansOut, LegFails
  <2>3. listed' = listed
    BY <2>0, <2>2 DEF Ids
  <2>4. Stays
    BY <2>1 DEF Stays, HandledIn
  <2> QED
    BY <1>c, <2>0, <2>3, <2>4
<1>9. User \/ BulkLoads \/ ResolvesClusters \/ FillsGap \/ FindsFree \/ Obtains \/ HasBatch \/ WiresReadPath \/ WiresBridge
      \/ TakesPlan \/ Prestages \/ EnsuresLoopback \/ SavesCommand \/ FansOut
  <2>1. Press => stage' = "audit"
    BY DEF Press
  <2> QED
    BY <1>0, <2>1, HeldFrames, CleaningFrames
       DEF Only, BridgesNext, Sync, Cleaning, WiresTriggers, WiringStages, Batches, Legs
<1> QED
  BY <1>1, <1>2, <1>3, <1>4, <1>5, <1>6, <1>7, <1>8, <1>9

\* All of it about commands is kept.
LEMMA CommandsInvKept ==
  ASSUME StateTypes, HeldTypes, ByStage, Wants, CommandsInv, BridgesNext
  PROVE  CommandsInv'
BY AccountedKept, ClassKept, CommandsOnce DEF CommandsInv, Accounted, Once

-----------------------------------------------------------------------------
(* The clean-up.                                                               *)

\* No step but the one that pairs puts a marker into the trigger plan.
LEMMA TriggerGrows ==
  ASSUME StateTypes, HeldTypes, ByStage, BridgesNext
  PROVE  AddsPair \/ InPlan(trig)' \subseteq InPlan(trig)
<1>1. UNCHANGED trig => InPlan(trig)' = InPlan(trig)
  BY DEF InPlan
<1>2. User => InPlan(trig)' \subseteq InPlan(trig)
  BY UserTouches DEF TouchedByUser
<1>3. ResolvesTrigger \/ DropsPairs \/ RemovesPairs => AddsPair \/ InPlan(trig)' \subseteq InPlan(trig)
  BY TriggerSteps
<1>4. DeletesPlans => InPlan(trig)' \subseteq InPlan(trig)
  BY DeletingSteps DEF InPlan
<1>5. ~User /\ ~ResolvesTrigger /\ ~AddsPair /\ ~DropsPairs /\ ~RemovesPairs /\ ~DeletesPlans => UNCHANGED trig
  BY SyncFrames, CleaningFrames DEF PlansStay, BridgesNext, Sync, Cleaning, WiresTriggers
<1> QED
  BY <1>1, <1>2, <1>3, <1>4, <1>5

\* During a clean-up markers only lose the titles of bridges.
LEMMA BridgesShrink ==
  ASSUME StateTypes, HeldTypes, ByStage, Wants, Obtaining, ResetsInv, BridgesNext, ~FillsGap, ~Obtains
  PROVE  Bridges(marker') \subseteq Bridges(marker)
<1> SUFFICES ASSUME NEW m \in Bridges(marker') PROVE m \in Bridges(marker)
  OBVIOUS
<1>0. m \in Ids(marker') /\ IsBridge(marker'[m].title) /\ ~IsBridge(Blank)
  BY TitleKinds DEF Bridges
<1>1. CASE m \in Ids(marker)
  <2>1. User => marker'[m].title \in {marker[m].title, <<"named">>}
    BY <1>1, UserTouches DEF TouchedByUser
  <2>2. \/ marker'[m] = marker[m]
        \/ User /\ m \in late' /\ (marker'[m].title = marker[m].title \/ marker[m].title = Blank)
        \/ Obtains /\ m \in ctx.free
        \/ ResetsMarker /\ m \in ctx.batch /\ ~IsBridge(marker'[m].title)
    BY <1>1, MarkerChanges
  <2>3. marker'[m] = marker[m] \/ User
    BY <1>0, <2>2
  <2>4. IsBridge(marker[m].title)
    BY <1>0, <2>1, <2>3, TitleKinds
  <2> QED
    BY <1>1, <2>4 DEF Bridges
<1>2. CASE m \notin Ids(marker)
  <2>1. ~User
    BY <1>0, <1>2, UserTouches DEF TouchedByUser
  <2>2. ~ResetsMarker
    <3>1. ASSUME NEW n \in Ids(marker), Reset(n) \in Marker, marker' = [marker EXCEPT ![n] = Reset(n)]
          PROVE  Ids(marker') = Ids(marker)
      BY <3>1, ChangedEntry DEF StateTypes, Ids
    <3>2. ResetsMarker => Ids(marker') = Ids(marker)
      BY <3>1, ResetMarkers DEF Ids
    <3> QED
      BY <1>0, <1>2, <3>2
  <2>3. marker' = marker
    BY <2>1, <2>2, SyncFrames, CleaningFrames DEF MarkersStay, BridgesNext, Sync, Cleaning, WiresTriggers
  <2> QED
    BY <1>0, <1>2, <2>3 DEF Ids
<1> QED
  BY <1>1, <1>2

\* A trigger plan out of the map has no pairs.
LEMMA MapOfTrigger ==
  ASSUME StateTypes, HeldTypes, ByStage, PairsInv, BridgesNext
  PROVE  Trigger \notin mapped' => InPlan(trig)' = {} /\ stage' # "pair"
<1>0. DOMAIN ctx = Fields /\ (Trigger \notin mapped => InPlan(trig) = {} /\ stage # "pair")
  BY DEF HeldTypes, PairsInv
<1> SUFFICES ASSUME Trigger \notin mapped' PROVE InPlan(trig)' = {} /\ stage' # "pair"
  OBVIOUS
<1>1. CASE DeletesPlans
  <2>1. Only({"left", "failed", "waits"}, {"clean plans", "clean web"})
    BY <1>0, <1>1, HeldFrames
  <2>2. CASE Trigger \in mapped
    BY <1>1, <2>1, <2>2, DeletingSteps DEF InPlan, Only
  <2>3. CASE Trigger \notin mapped
    BY <1>0, <1>1, <2>1, <2>3, TriggerGrows, SyncFrames, CleaningFrames DEF Only
  <2> QED
    BY <2>2, <2>3
<1>2. CASE ResolvesTrigger
  <2>1. Trigger \notin mapped /\ stage' = "drop" /\ ~AddsPair
    BY <1>2, SyncFrames DEF ResolvesTrigger
  <2> QED
    BY <1>0, <2>1, TriggerGrows
<1>3. CASE ~DeletesPlans /\ ~ResolvesTrigger
  <2>1. mapped \subseteq mapped'
    <3>1. User => mapped' = mapped
      BY UserTouches DEF TouchedByUser
    <3>2. ResolvesClusters => mapped \subseteq mapped'
      BY DEF ResolvesClusters
    <3>3. ~User /\ ~ResolvesClusters /\ ~ResolvesTrigger /\ ~DeletesPlans => UNCHANGED mapped
      BY SyncFrames, CleaningFrames DEF MemoryStays, BridgesNext, Sync, Cleaning, WiresTriggers
    <3> QED
      BY <1>3, <3>1, <3>2, <3>3
  <2>2. InPlan(trig) = {} /\ stage # "pair"
    BY <1>0, <2>1
  <2>3. ~AddsPair
    BY <2>2, SyncFrames
  <2>4. Press => stage' = "audit"
    BY DEF Press
  <2>5. stage' # "pair"
    BY <1>0, <1>3, <2>2, <2>3, <2>4, HeldFrames, CleaningFrames, UserTouches
       DEF Only, BridgesNext, Sync, Cleaning, WiresTriggers, TouchedByUser
  <2> QED
    BY <2>2, <2>3, <2>5, TriggerGrows
<1> QED
  BY <1>1, <1>2, <1>3

Cleared == {"clean plans", "clean web", "clean read", "clean marker"}

\* Once plans are deleted no KNX pair is left, or the clean-up waits or has yet to delete it.
LEMMA PairsCleared ==
  ASSUME StateTypes, HeldTypes, ByStage, Wants, Obtaining, ResetsInv, PairsInv, BridgesNext
  PROVE  /\ stage' \in Cleared => ctx'.waits \/ (stage' = "clean plans" /\ Trigger \in ctx'.left) \/ KnxPairs' = {}
         /\ stage' \in {"clean read", "clean marker"} => ~ctx'.waits
<1>0. DOMAIN ctx = Fields
  BY DEF HeldTypes
<1>a. /\ stage \in Cleared => ctx.waits \/ (stage = "clean plans" /\ Trigger \in ctx.left) \/ KnxPairs = {}
      /\ stage \in {"clean read", "clean marker"} => ~ctx.waits
      /\ Trigger \notin mapped => InPlan(trig) = {}
  BY DEF PairsInv, Cleared
<1>b. ~AddsPair /\ ~FillsGap /\ ~Obtains => KnxPairs' \subseteq KnxPairs
  <2>1. ~AddsPair /\ ~FillsGap /\ ~Obtains => InPlan(trig)' \subseteq InPlan(trig) /\ Bridges(marker') \subseteq Bridges(marker)
    BY TriggerGrows, BridgesShrink
  <2> QED
    BY <2>1 DEF KnxPairs
<1>c. stage \in CleanStages => ~AddsPair /\ ~FillsGap /\ ~Obtains
  BY SyncFrames DEF CleanStages
<1>1. CASE User \/ BulkLoads
  <2>1. UNCHANGED <<stage, ctx>>
    BY <1>1, UserTouches, CleaningFrames DEF TouchedByUser
  <2>2. stage \in Cleared => KnxPairs' \subseteq KnxPairs
    BY <1>b, <1>c DEF Cleared, CleanStages
  <2> QED
    BY <1>a, <2>1, <2>2
<1>2. CASE DecidesTriggers
  <2>0. Only({"left", "failed", "waits"}, {"clean pairs", "clean plans"}) /\ stage = "clean triggers"
    BY <1>0, <1>2, HeldFrames, CleaningFrames
  <2>1. KnxPairs' \subseteq KnxPairs
    BY <1>b, <1>c, <2>0 DEF CleanStages
  <2>2. ctx'.waits \/ Trigger \in ctx'.left \/ KnxPairs = {} \/ stage' = "clean pairs"
    <3>1. \/ Trigger \notin mapped
          \/ ctx' = [ctx EXCEPT !.left = @ \cup {Trigger}]
          \/ KnxPairs = {} \/ stage' = "clean pairs"
          \/ ctx' = Stuck
      BY <1>2 DEF DecidesTriggers
    <3>2. ctx' = Stuck => ctx'.waits
      BY <1>0 DEF Stuck, Reported, Fields
    <3>3. ctx' = [ctx EXCEPT !.left = @ \cup {Trigger}] => Trigger \in ctx'.left
      BY <1>0 DEF Fields
    <3>4. Trigger \notin mapped => KnxPairs = {}
      BY <1>a DEF KnxPairs
    <3> QED
      BY <3>1, <3>2, <3>3, <3>4
  <2> QED
    BY <2>0, <2>1, <2>2 DEF Only, Cleared
<1>3. CASE RemovesPairs
  <2>0. stage' = "clean plans"
    BY <1>3, CleaningFrames
  <2>1. ctx' = Stuck \/ (trig # None /\ trig' = Unpaired(KnxPairs))
    BY <1>3 DEF RemovesPairs
  <2>2. ctx' = Stuck => ctx'.waits
    BY <1>0 DEF Stuck, Reported, Fields
  <2>3. ASSUME trig # None, trig' = Unpaired(KnxPairs)
        PROVE  KnxPairs' = {}
    <3>1. InPlan(trig)' = InPlan(trig) \ KnxPairs
      BY <2>3, TriggerPlans, Types DEF InPlan
    <3>2. Bridges(marker)' = Bridges(marker)
      BY <1>3, CleaningFrames DEF MarkersStay, Bridges, Ids
    <3> QED
      BY <3>1, <3>2 DEF KnxPairs
  <2> QED
    BY <2>0, <2>1, <2>2, <2>3
<1>4. CASE DeletesPlans
  <2>0. Only({"left", "failed", "waits"}, {"clean plans", "clean web"}) /\ stage = "clean plans"
    BY <1>0, <1>4, HeldFrames, CleaningFrames
  <2>1. KnxPairs' \subseteq KnxPairs
    BY <1>b, <1>c, <2>0 DEF CleanStages
  <2>2. trig' = None => KnxPairs' = {}
    BY DEF KnxPairs, InPlan
  <2>3. CASE ctx.left = {} /\ ctx' = ctx
    BY <1>a, <2>0, <2>1, <2>3 DEF Only, Cleared
  <2>4. ASSUME NEW p \in ctx.left, stage' = stage,
               \/ ctx' = [ctx EXCEPT !.left = @ \ {p}] /\ (p = Trigger => trig' = None)
               \/ ctx' = [[ctx EXCEPT !.left = @ \ {p}] EXCEPT !.failed = TRUE, !.waits = @ \/ p = Trigger]
        PROVE  ctx'.waits \/ Trigger \in ctx'.left \/ KnxPairs' = {}
    <3>1. PICK next : next = ctx'
      OBVIOUS
    <3>2. CASE next = [ctx EXCEPT !.left = @ \ {p}] /\ (p = Trigger => trig' = None)
      <4>1. next.left = ctx.left \ {p} /\ next.waits = ctx.waits
        BY <1>0, <3>2 DEF Fields
      <4> QED
        BY <1>a, <2>0, <2>1, <2>2, <3>1, <3>2, <4>1 DEF Cleared
    <3>3. CASE next = [[ctx EXCEPT !.left = @ \ {p}] EXCEPT !.failed = TRUE, !.waits = @ \/ p = Trigger]
      <4>0. PICK goes : goes = [ctx EXCEPT !.left = @ \ {p}]
        OBVIOUS
      <4>1. goes.left = ctx.left \ {p} /\ goes.waits = ctx.waits /\ DOMAIN goes = Fields
        BY <1>0, <4>0 DEF Fields
      <4>2. next.left = ctx.left \ {p}
        BY <3>3, <4>0, <4>1 DEF Fields
      <4>3. next.waits = (ctx.waits \/ p = Trigger)
        BY <3>3, <4>0, <4>1 DEF Fields
      <4> QED
        BY <1>a, <2>0, <2>1, <3>1, <4>2, <4>3 DEF Cleared
    <3> QED
      BY <2>4, <3>1, <3>2, <3>3
  <2>5. \/ ctx.left = {} /\ ctx' = ctx
        \/ /\ stage' = stage
           /\ \E p \in ctx.left :
                \/ ctx' = [ctx EXCEPT !.left = @ \ {p}] /\ (p = Trigger => trig' = None)
                \/ ctx' = [[ctx EXCEPT !.left = @ \ {p}] EXCEPT !.failed = TRUE, !.waits = @ \/ p = Trigger]
    BY <1>4 DEF DeletesPlans, Removed, At, plans
  <2> QED
    BY <2>0, <2>3, <2>4, <2>5
<1>5. CASE DeletesWebIo
  <2>0. Only({"failed"}, {"clean read", "done"}) /\ stage = "clean web"
    BY <1>0, <1>5, HeldFrames, CleaningFrames
  <2>1. KnxPairs' \subseteq KnxPairs
    BY <1>b, <1>c, <2>0 DEF CleanStages
  <2>2. ctx'.waits = ctx.waits
    BY <2>0 DEF Only, Fields
  <2>3. stage' = IF ctx.waits THEN "done" ELSE "clean read"
    BY <1>5 DEF DeletesWebIo
  <2> QED
    BY <1>a, <2>0, <2>1, <2>2, <2>3 DEF Cleared
<1>6. CASE ReadsBridges \/ ResetsMarker
  <2>0. Only({"batch", "ms", "used", "failed"}, {"clean marker", "done"}) /\ stage \in {"clean read", "clean marker"}
    BY <1>0, <1>6, HeldFrames, CleaningFrames DEF Only
  <2>1. KnxPairs' \subseteq KnxPairs
    BY <1>b, <1>c, <2>0 DEF CleanStages
  <2>2. ctx'.waits = ctx.waits
    BY <2>0 DEF Only, Fields
  <2> QED
    BY <1>a, <2>0, <2>1, <2>2 DEF Only, Cleared
<1>7. stage' \in Cleared => User \/ BulkLoads \/ DecidesTriggers \/ RemovesPairs \/ DeletesPlans \/ DeletesWebIo \/ ReadsBridges
                            \/ ResetsMarker
  <2>1. Press => stage' = "audit"
    BY DEF Press
  <2> QED
    BY <1>0, <2>1, HeldFrames, CleaningFrames DEF Only, BridgesNext, Sync, Cleaning, WiresTriggers, Cleared
<1> QED
  BY <1>1, <1>2, <1>3, <1>4, <1>5, <1>6, <1>7 DEF Cleared

\* All of it about the pairs is kept.
LEMMA PairsInvKept ==
  ASSUME StateTypes, HeldTypes, ByStage, Wants, Obtaining, ResetsInv, PairsInv, BridgesNext
  PROVE  PairsInv'
BY MapOfTrigger, PairsCleared DEF PairsInv, Cleared

\* Markers to be reset stay as read, but for what users do.
LEMMA ResetsInvKept ==
  ASSUME StateTypes, HeldTypes, ByStage, Wants, Obtaining, ResetsInv, BridgesNext
  PROVE  ResetsInv'
<1>0. DOMAIN ctx = Fields
  BY DEF HeldTypes
<1>1. CASE User
  <2>1. TouchedByUser /\ ctx' = ctx /\ stage' = stage
    BY <1>1, UserTouches DEF TouchedByUser
  <2> SUFFICES ASSUME stage = "clean marker"
               PROVE  /\ ctx.batch \subseteq Bridges(marker') \cap Ids(ctx.ms)
                      /\ \A m \in ctx.batch : marker'[m].title = ctx.ms[m].title /\ (m \in late' \/ marker'[m] = ctx.ms[m])
                      /\ own' \ late' \subseteq ctx.used
                      /\ \A k \in Ks : InPlan(plan'[k]) \subseteq ctx.used
    BY <2>1 DEF ResetsInv, Ids
  <2>2. /\ ctx.batch \subseteq Bridges(marker) \cap Ids(ctx.ms)
        /\ \A m \in ctx.batch : marker[m].title = ctx.ms[m].title /\ (m \in late \/ marker[m] = ctx.ms[m])
        /\ own \ late \subseteq ctx.used
        /\ \A k \in Ks : InPlan(plan[k]) \subseteq ctx.used
    BY DEF ResetsInv
  <2>3. ASSUME NEW m \in ctx.batch
        PROVE  m \in Bridges(marker') /\ marker'[m].title = ctx.ms[m].title /\ (m \in late' \/ marker'[m] = ctx.ms[m])
    <3>1. m \in Ids(marker) /\ IsBridge(marker[m].title) /\ marker[m].title # Blank
      BY <2>2, TitleKinds DEF Bridges
    <3>2. m \in Ids(marker') /\ marker'[m].title = marker[m].title /\ (m \in late' \/ marker'[m] = marker[m])
      BY <1>1, <2>1, <3>1, MarkerChanges DEF TouchedByUser
    <3> QED
      BY <2>1, <2>2, <3>1, <3>2 DEF Bridges, TouchedByUser
  <2>4. own' \ late' \subseteq ctx.used
    BY <2>1, <2>2 DEF TouchedByUser
  <2>5. \A k \in Ks : InPlan(plan'[k]) \subseteq ctx.used
    BY <2>1, <2>2 DEF TouchedByUser, InPlan
  <2> QED
    BY <2>2, <2>3, <2>4, <2>5
<1>2. CASE BulkLoads
  <2>1. UNCHANGED <<marker, own, late, plan, stage, ctx>>
    BY <1>2, CleaningFrames DEF MarkersStay, PlansStay
  <2> QED
    BY <2>1 DEF ResetsInv, Ids, Bridges, InPlan
<1>3. CASE ReadsBridges /\ stage' = "clean marker"
  <2>0. UNCHANGED <<marker, own, plan>>
    BY <1>3, CleaningFrames DEF PlansStay
  <2>1. /\ late' = {} /\ ctx' = [ctx EXCEPT !.batch = Bridges(marker), !.ms = marker,
                                           !.used = own \cup UNION {InPlan(plan[k]) : k \in Ks}]
    BY <1>3 DEF ReadsBridges
  <2>2. PICK next : next = ctx'
    OBVIOUS
  <2>3. next.batch = Bridges(marker) /\ next.ms = marker
    BY <1>0, <2>1, <2>2 DEF Fields
  <2>4. next.used = own \cup UNION {InPlan(plan[k]) : k \in Ks}
    BY <1>0, <2>1, <2>2 DEF Fields
  <2>5. Bridges(marker) \subseteq Ids(marker)
    BY DEF Bridges
  <2> QED
    BY <2>0, <2>1, <2>2, <2>3, <2>4, <2>5 DEF ResetsInv, Ids, Bridges, InPlan
<1>4. CASE ResetsMarker /\ stage' = "clean marker"
  <2>0. UNCHANGED <<own, late, plan>> /\ stage = "clean marker"
    BY <1>4, CleaningFrames DEF PlansStay
  <2>1. Only({"batch", "failed"}, {"clean marker", "done"})
    BY <1>0, <1>4, HeldFrames
  <2>2. PICK next : next = ctx'
    OBVIOUS
  <2>3. next.ms = ctx.ms /\ next.used = ctx.used
    BY <2>1, <2>2 DEF Only, Fields
  <2>4. /\ ctx.batch \subseteq Bridges(marker) \cap Ids(ctx.ms)
        /\ \A m \in ctx.batch : marker[m].title = ctx.ms[m].title /\ (m \in late \/ marker[m] = ctx.ms[m])
        /\ own \ late \subseteq ctx.used
        /\ \A k \in Ks : InPlan(plan[k]) \subseteq ctx.used
    BY <2>0 DEF ResetsInv
  <2>5. next.batch \subseteq ctx.batch /\ \A m \in next.batch : m \in Ids(marker') /\ marker'[m] = marker[m]
    <3>1. CASE marker' = marker /\ next.batch \subseteq ctx.batch
      BY <2>4, <3>1 DEF Bridges, Ids
    <3>2. ASSUME NEW n \in ctx.batch, n \in Ids(marker), Reset(n) \in Marker,
                 marker' = [marker EXCEPT ![n] = Reset(n)], next.batch = ctx.batch \ {n}
          PROVE  next.batch \subseteq ctx.batch /\ \A m \in next.batch : m \in Ids(marker') /\ marker'[m] = marker[m]
      <4>1. marker \in Seq(Marker) /\ Ids(marker') = Ids(marker)
        BY <3>2, ChangedEntry DEF StateTypes, Ids
      <4>2. \A m \in next.batch : m \in Ids(marker) /\ m # n
        BY <2>4, <3>2 DEF Bridges
      <4> QED
        BY <3>2, <4>1, <4>2 DEF Ids
    <3> QED
      BY <1>4, <2>2, <3>1, <3>2, ResetMarkers
  <2>6. next.batch \subseteq Bridges(marker') \cap Ids(ctx.ms)
    BY <2>4, <2>5 DEF Bridges
  <2>7. \A m \in next.batch : marker'[m].title = ctx.ms[m].title /\ (m \in late \/ marker'[m] = ctx.ms[m])
    BY <2>4, <2>5
  <2>8. ResetsInv' <=>
          (stage' = "clean marker" =>
            /\ ctx'.batch \subseteq Bridges(marker') \cap Ids(ctx'.ms)
            /\ \A m \in ctx'.batch : marker'[m].title = ctx'.ms[m].title /\ (m \in late' \/ marker'[m] = ctx'.ms[m])
            /\ own' \ late' \subseteq ctx'.used
            /\ \A k \in Ks : InPlan(plan'[k]) \subseteq ctx'.used)
    BY DEF ResetsInv, Bridges, Ids, InPlan
  <2> QED
    BY <2>0, <2>2, <2>3, <2>4, <2>6, <2>7, <2>8
<1>5. stage' = "clean marker" => User \/ BulkLoads \/ ReadsBridges \/ ResetsMarker
  <2>1. Press => stage' = "audit"
    BY DEF Press
  <2> QED
    BY <1>0, <2>1, HeldFrames, CleaningFrames DEF Only, BridgesNext, Sync, Cleaning, WiresTriggers
<1> QED
  BY <1>1, <1>2, <1>3, <1>4, <1>5 DEF ResetsInv

-----------------------------------------------------------------------------
(* The invariant.                                                              *)

\* What does not change keeps the invariant.
LEMMA StutterKept ==
  ASSUME BridgesInv, UNCHANGED bridgesVars
  PROVE  BridgesInv'
<1> USE DEF bridgesVars, users, plans, loopback, memory
<1>1. StateTypes' /\ HeldTypes' /\ ByStage' /\ Wants' /\ OneEach'
  BY DEF BridgesInv, StateTypes, HeldTypes, ByStage, Wants, OneEach, Ids
<1>2. TitlesTell' /\ CacheCovers' /\ Unbridged'
  BY DEF BridgesInv, TitlesTell, CacheCovers, Unbridged, Awaits, Ids
<1>3. Prepared'
  BY DEF BridgesInv, Prepared, Ids
<1>4. Obtaining'
  BY DEF BridgesInv, Obtaining, Ids, InPlan, Placed
<1>5. CommandsInv'
  <2>1. UNCHANGED <<class, command, listed, stage, ctx, unsure>>
    OBVIOUS
  <2>2. Looping' = Looping /\ (class' <=> class) /\ (unsure' <=> unsure)
    BY <2>1 DEF Looping
  <2>3. CommandsInv
    BY DEF BridgesInv
  <2> HIDE DEF bridgesVars, users, plans, loopback, memory
  <2>4. Accounted => Accounted'
    BY <2>1 DEF Accounted, Ids, Handled
  <2>5. Once => Once'
    BY <2>1 DEF Once, Ids
  <2>6. Ids(command') = Ids(command)
    BY <2>1 DEF Ids
  <2> QED
    BY <2>1, <2>2, <2>3, <2>4, <2>5, <2>6 DEF CommandsInv, Accounted, Once
<1>6. PairsInv' /\ ResetsInv'
  BY DEF BridgesInv, PairsInv, ResetsInv, Ids, InPlan, KnxPairs, Bridges
<1> QED
  BY <1>1, <1>2, <1>3, <1>4, <1>5, <1>6 DEF BridgesInv

\* Every step keeps the invariant.
LEMMA BridgesInvKept ==
  ASSUME BridgesInv, BridgesNext
  PROVE  BridgesInv'
<1>0. /\ StateTypes /\ HeldTypes /\ ByStage /\ Wants /\ TitlesTell /\ CacheCovers /\ Unbridged /\ OneEach
      /\ Prepared /\ Obtaining /\ CommandsInv /\ PairsInv /\ ResetsInv
  BY DEF BridgesInv
<1>1. StateTypes' /\ HeldTypes' /\ ByStage' /\ Wants'
  BY <1>0, StateTypesKept, HeldTypesKept, ByStageKept, WantsKept
<1>2. TitlesTell' /\ CacheCovers' /\ Unbridged' /\ OneEach'
  BY <1>0, TitlesTellKept, CacheCoversKept, UnbridgedKept, OneEachKept
<1>3. Prepared' /\ Obtaining' /\ CommandsInv'
  BY <1>0, PreparedKept, ObtainingKept, CommandsInvKept
<1>4. PairsInv' /\ ResetsInv'
  BY <1>0, PairsInvKept, ResetsInvKept
<1> QED
  BY <1>1, <1>2, <1>3, <1>4 DEF BridgesInv

-----------------------------------------------------------------------------
(* The states behaviours begin in.                                             *)

\* The order of the Ks lists each of them once.
LEMMA OrderOfKs ==
    /\ Order \in Seq(Ks) /\ \A i, j \in 1..Len(Order) : Order[i] = Order[j] => i = j
    /\ \A k \in Ks : Rank(k) \in 1..Len(Order) /\ Order[Rank(k)] = k
<1>1. /\ Order \in Seq(Ks) /\ \A i, j \in 1..Len(Order) : Order[i] = Order[j] => i = j
      /\ \A k \in Ks : \E i \in 1..Len(Order) : Order[i] = k
  BY Types, SetToSeqOrders DEF Order
<1>2. \A k \in Ks : Rank(k) \in 1..Len(Order) /\ Order[Rank(k)] = k
  BY <1>1 DEF Rank
<1> QED
  BY <1>1, <1>2

\* A Comexio is delivered without a bridge, and the block begins above its markers.
LEMMA FactoryBlock ==
    /\ FactoryMarkers \in Seq(Marker) /\ Len(FactoryMarkers) = Factory
    /\ FirstBridge \in Nat /\ FirstBridge > Factory
<1>0. Factory \in Nat /\ Factory # 0 /\ Block \in Nat /\ Block # 0
  BY Types
<1>1. \A x : Len(<<x>>) = 1 /\ <<x>> # <<>>
  OBVIOUS
<1>2. /\ FactoryMarkers \in Seq(Marker) /\ Len(FactoryMarkers) = Factory
      /\ \A m \in 1..Factory : FactoryMarkers[m].factory /\ FactoryMarkers[m].title \in {<<"trig">>, <<"own">>}
  <2>1. \A m \in 1..Factory : [title |-> IF m = 1 THEN <<"trig">> ELSE <<"own">>, factory |-> TRUE, set |-> TRUE] \in Marker
    BY DEF Marker, AllTitles
  <2> QED
    BY <1>0, <2>1 DEF FactoryMarkers
<1>3. Bridges(FactoryMarkers) = {}
  BY <1>1, <1>2 DEF Bridges, Ids, IsBridge
<1>4. {m \in Ids(FactoryMarkers) : FactoryMarkers[m].factory /\ FactoryMarkers[m].title # Blank} \cup {0} = 0..Factory
  <2>1. {m \in Ids(FactoryMarkers) : FactoryMarkers[m].factory /\ FactoryMarkers[m].title # Blank} = 1..Factory
    BY <1>1, <1>2 DEF Ids, Blank
  <2>2. 1..Factory \cup {0} = 0..Factory
    BY <1>0
  <2> QED
    BY <2>1, <2>2
<1>5. Max(0..Factory) = Factory
  BY <1>0 DEF Max
<1>6. FirstBridge = ((Factory \div Block) + 1) * Block
  BY <1>3, <1>4, <1>5 DEF FirstBridge, BlockStart
<1>7. ((Factory \div Block) + 1) * Block \in Nat /\ Factory < ((Factory \div Block) + 1) * Block
  <2>1. ASSUME NEW a \in Nat, NEW b \in Nat, b # 0 PROVE a < ((a \div b) + 1) * b /\ a \div b \in Nat
    BY <2>1
  <2>2. ASSUME NEW a \in Nat, NEW b \in Nat PROVE (a + 1) * b \in Nat
    BY <2>2
  <2> QED
    BY <1>0, <2>1, <2>2
<1> QED
  BY <1>2, <1>6, <1>7

\* The markers of a Comexio an earlier sync saw to: each K's bridge has its title.
LEMMA StartMarkers ==
  ASSUME NEW setup \in {"new", "kept", "wired"}
  PROVE  /\ MarkersOfSetup(setup) \in Seq(Marker)
         /\ setup = "wired" => \A k \in Ks : /\ BridgeOf(k) \in Ids(MarkersOfSetup(setup)) /\ BridgeOf(k) \in Nat
                                             /\ MarkersOfSetup(setup)[BridgeOf(k)].title = <<k, Suffix[k]>>
<1>1. CASE setup = "new"
  BY <1>1, FactoryBlock DEF MarkersOfSetup
<1>2. CASE setup = "kept"
  <2>1. Min(Ks) \in Ks
    BY Types, MinIn
  <2>2. PICK t : t = BridgeTitle(Min(Ks), "plain")
    OBVIOUS
  <2>3. t \in AllTitles /\ IsBridge(t)
    BY <2>1, <2>2, TitleKinds
  <2>4. Stripped(t) \in AllTitles
    BY <2>3, TitleKinds
  <2>5. Titled(Stripped(t)) \in Marker
    BY <2>4 DEF Titled, Marker
  <2>6. Append(FactoryMarkers, Titled(Stripped(t))) \in Seq(Marker)
    BY <2>5, FactoryBlock
  <2> QED
    BY <1>2, <2>2, <2>6 DEF MarkersOfSetup
<1>3. CASE setup = "wired"
  <2> DEFINE third == [i \in 1..Len(Order) |-> Titled(BridgeTitle(Order[i], Suffix[Order[i]]))]
             n == FirstBridge - 1 - Factory
  <2>1. Len(Order) \in Nat /\ n \in Nat /\ Factory \in Nat /\ FirstBridge \in Nat /\ FirstBridge > Factory
    BY OrderOfKs, FactoryBlock, Types
  <2>2. \A i \in 1..Len(Order) : /\ Titled(BridgeTitle(Order[i], Suffix[Order[i]])) \in Marker
                                 /\ Titled(BridgeTitle(Order[i], Suffix[Order[i]])).title = <<Order[i], Suffix[Order[i]]>>
    <3> SUFFICES ASSUME NEW i \in 1..Len(Order)
                 PROVE  /\ Titled(BridgeTitle(Order[i], Suffix[Order[i]])) \in Marker
                        /\ Titled(BridgeTitle(Order[i], Suffix[Order[i]])).title = <<Order[i], Suffix[Order[i]]>>
      OBVIOUS
    <3>1. Order[i] \in Ks /\ Suffix[Order[i]] \in {"plain", "trig"}
      BY OrderOfKs DEF Suffix
    <3>2. BridgeTitle(Order[i], Suffix[Order[i]]) \in AllTitles
      BY <3>1, TitleKinds
    <3> QED
      BY <3>2 DEF Titled, Marker, BridgeTitle
  <2>3. third \in Seq(Marker) /\ Len(third) = Len(Order)
    BY <2>1, <2>2
  <2>4. Given \in Seq(Marker) /\ Len(Given) = n
    BY <2>1, TitleKinds DEF Given
  <2>5. MarkersOfSetup(setup) = FactoryMarkers \o Given \o third
    BY <1>3 DEF MarkersOfSetup
  <2>6. FactoryMarkers \o Given \in Seq(Marker) /\ Len(FactoryMarkers \o Given) = FirstBridge - 1
    BY <2>1, <2>4, FactoryBlock
  <2>7. MarkersOfSetup(setup) \in Seq(Marker) /\ Len(MarkersOfSetup(setup)) = FirstBridge - 1 + Len(Order)
    <3>1. ASSUME NEW s \in Seq(Marker), NEW t \in Seq(Marker) PROVE s \o t \in Seq(Marker) /\ Len(s \o t) = Len(s) + Len(t)
      BY <3>1
    <3> HIDE DEF third, n
    <3> QED
      BY <2>3, <2>5, <2>6, <3>1
  <2>8. ASSUME NEW k \in Ks
        PROVE  /\ BridgeOf(k) \in Ids(MarkersOfSetup(setup)) /\ BridgeOf(k) \in Nat
               /\ MarkersOfSetup(setup)[BridgeOf(k)].title = <<k, Suffix[k]>>
    <3>1. Rank(k) \in 1..Len(Order) /\ Order[Rank(k)] = k /\ third[Rank(k)].title = <<k, Suffix[k]>>
      BY <2>2, OrderOfKs
    <3>2. BridgeOf(k) = FirstBridge - 1 + Rank(k) /\ BridgeOf(k) \in Nat /\ BridgeOf(k) \in Ids(MarkersOfSetup(setup))
      BY <2>1, <2>7, <3>1 DEF BridgeOf, Ids
    <3>3. MarkersOfSetup(setup)[BridgeOf(k)] = third[Rank(k)]
      <4>1. ASSUME NEW s \in Seq(Marker), NEW t \in Seq(Marker), NEW i \in 1..Len(t) PROVE (s \o t)[Len(s) + i] = t[i]
        BY <4>1
      <4> HIDE DEF third
      <4> QED
        BY <2>3, <2>5, <2>6, <3>1, <3>2, <4>1
    <3> QED
      BY <3>1, <3>2, <3>3
  <2> QED
    BY <1>3, <2>7, <2>8
<1> QED
  BY <1>1, <1>2, <1>3

\* Behaviours begin where the invariant holds.
LEMMA BridgesStart ==
  ASSUME BridgesInit
  PROVE  BridgesInv
<1>1. PICK setup \in Setups :
        /\ creds \in {TRUE, setup = "kept"}
        /\ marker = MarkersOfSetup(setup)
        /\ own = IF setup = "kept" THEN {Factory + 1} ELSE {}
        /\ class = (setup = "wired" /\ creds) /\ device \in {FALSE, class} /\ unsure = (class # device)
        /\ knx \in {Suffix} \cup (IF device THEN {[k \in Ks |-> "plain"]} ELSE {})
        /\ plan = [k \in Ks |-> IF ~(setup = "wired") THEN None
                     ELSE [elem |-> {BridgeOf(k)}, bridge |-> {BridgeOf(k)},
                           sink |-> {0} \cup (IF device THEN {Rank(k)} ELSE {})]]
        /\ trig = IF ~(setup = "wired") THEN None
                  ELSE LET paired == {1} \cup {BridgeOf(k) : k \in {l \in Ks : Suffix[l] = "trig"}}
                       IN [elem |-> paired, pair |-> paired]
        /\ command = IF class THEN [i \in 1..Len(Order) |-> <<Order[i], BridgeOf(Order[i])>>] ELSE <<>>
        /\ mapped = IF setup = "wired" THEN Plans ELSE {}
  BY DEF BridgesInit
<1>2. /\ listed = Ids(command) /\ planCache = [p \in Plans |-> None] /\ stage = "idle" /\ ctx = NoContext
      /\ edits = 0
  BY DEF BridgesInit
<1>3. setup \in {"new", "kept", "wired"}
  BY BridgeAssumption
<1>4. /\ marker \in Seq(Marker)
      /\ setup = "wired" => \A k \in Ks : /\ BridgeOf(k) \in Ids(marker) /\ BridgeOf(k) \in Nat
                                          /\ marker[BridgeOf(k)].title = <<k, Suffix[k]>>
  BY <1>1, <1>3, StartMarkers
<1>5. Suffix \in [Ks -> {"plain", "trig"}] /\ [k \in Ks |-> "plain"] \in [Ks -> {"plain", "trig"}]
  BY DEF Suffix
<1>6. \A k \in Ks : Rank(k) \in Nat /\ Order \in Seq(Ks) /\ Len(Order) \in Nat
  BY OrderOfKs
<1>7. \/ setup # "wired" /\ trig = None /\ \A k \in Ks : plan[k] = None
      \/ /\ setup = "wired" /\ mapped = Plans
         /\ \A k \in Ks : plan[k].bridge = {BridgeOf(k)} /\ plan[k].elem = {BridgeOf(k)}
  BY <1>1
<1>8. StateTypes
  <2>1. plan \in [Ks -> Cluster \cup {None}]
    BY <1>1, <1>4, <1>6 DEF Cluster
  <2>2. trig \in TriggerPlan \cup {None}
    BY <1>1, <1>4 DEF TriggerPlan
  <2>3. command \in Seq(Ks \X Nat)
    <3>1. CASE class
      <4>1. setup = "wired"
        BY <1>1, <3>1
      <4>2. \A i \in 1..Len(Order) : <<Order[i], BridgeOf(Order[i])>> \in Ks \X Nat
        BY <1>4, <4>1, OrderOfKs
      <4>3. command = [i \in 1..Len(Order) |-> <<Order[i], BridgeOf(Order[i])>>] /\ Len(Order) \in Nat
        BY <1>1, <3>1, OrderOfKs
      <4> QED
        BY <4>2, <4>3
    <3>2. CASE ~class
      BY <1>1, <3>2
    <3> QED
      BY <3>1, <3>2
  <2>4. own \subseteq Nat /\ mapped \subseteq Plans
    BY <1>1, Types
  <2>5. knx \in [Ks -> {"plain", "trig"}]
    BY <1>1, <1>5
  <2>6. DOMAIN planCache = Plans /\ \A k \in Ks : planCache[k] \in Cluster \cup {None}
    BY <1>2 DEF Plans
  <2>7. listed \subseteq Ids(command) /\ stage \in Stages /\ edits \in Nat
    BY <1>2 DEF Stages
  <2> QED
    BY <1>4, <2>1, <2>2, <2>3, <2>4, <2>5, <2>6, <2>7 DEF StateTypes
<1>9. HeldTypes
  BY <1>2, NothingHeld, FS_EmptySet DEF HeldTypes
<1>10. ByStage /\ Wants
  BY <1>2, NothingHeld DEF ByStage, Wants, WiringStages, TriggerStages, CleanStages, Legs, Batches
<1>11. TitlesTell /\ OneEach
  <2> SUFFICES ASSUME NEW k \in Ks, plan[k] # None
               PROVE  /\ plan[k].bridge \subseteq plan[k].elem
                      /\ \A m \in plan[k].bridge : m \in Ids(marker) /\ \E s \in {"plain", "trig", "stripped"} : marker[m].title = <<k, s>>
                      /\ plan[k].bridge # {} => k \in mapped
                      /\ \A m, n \in plan[k].bridge : m = n
    BY DEF TitlesTell, OneEach
  <2>1. setup = "wired" /\ mapped = Plans /\ plan[k].bridge = {BridgeOf(k)} /\ plan[k].elem = {BridgeOf(k)}
    BY <1>7
  <2>2. Suffix[k] \in {"plain", "trig"} /\ k \in Plans
    BY <1>5 DEF Plans
  <2> QED
    BY <1>4, <2>1, <2>2
<1>12. CacheCovers /\ Unbridged /\ Prepared /\ Obtaining /\ ResetsInv
  <2>1. \A k \in Ks : planCache[k] = None
    BY <1>2 DEF Plans
  <2> QED
    BY <1>2, <2>1 DEF CacheCovers, Unbridged, Prepared, Obtaining, ResetsInv, WiringStages, Legs, Batches
<1>13. CommandsInv
  <2>1. ~class => command = <<>>
    BY <1>1
  <2>2. unsure \/ \A c, d \in Ids(command) : command[c] = command[d] => c = d
    <3> SUFFICES ASSUME NEW c \in Ids(command), NEW d \in Ids(command), command[c] = command[d] PROVE c = d
      OBVIOUS
    <3>1. CASE class
      <4>1. command = [i \in 1..Len(Order) |-> <<Order[i], BridgeOf(Order[i])>>] /\ Len(Order) \in Nat
        BY <1>1, <3>1, OrderOfKs
      <4>2. c \in 1..Len(Order) /\ d \in 1..Len(Order)
        BY <4>1 DEF Ids
      <4>3. command[c] = <<Order[c], BridgeOf(Order[c])>> /\ command[d] = <<Order[d], BridgeOf(Order[d])>>
        BY <4>1, <4>2
      <4>4. Order[c] = Order[d]
        <5>1. \A a, b, x, y : <<a, b>> = <<x, y>> => a = x
          OBVIOUS
        <5>2. <<Order[c], BridgeOf(Order[c])>> = <<Order[d], BridgeOf(Order[d])>>
          BY <4>3
        <5> QED
          BY <5>1, <5>2
      <4> QED
        BY <4>2, <4>4, OrderOfKs
    <3>2. CASE ~class
      BY <2>1, <3>2 DEF Ids
    <3> QED
      BY <3>1, <3>2
  <2> QED
    BY <1>2, <2>1, <2>2 DEF CommandsInv, WiringStages, Legs, Batches
<1>14. PairsInv
  <2>1. Trigger \notin mapped => InPlan(trig) = {}
    BY <1>7 DEF Plans, InPlan
  <2> QED
    BY <1>2, <2>1 DEF PairsInv
<1> QED
  BY <1>8, <1>9, <1>10, <1>11, <1>12, <1>13, <1>14 DEF BridgesInv

-----------------------------------------------------------------------------
(* The theorems.                                                               *)

\* The invariant holds in every state of every behaviour.
LEMMA BridgesInvHolds == BridgesSpec => []BridgesInv
<1>1. BridgesInit => BridgesInv
  BY BridgesStart
<1>2. BridgesInv /\ [BridgesNext]_bridgesVars => BridgesInv'
  BY BridgesInvKept, StutterKept
<1> QED
  BY <1>1, <1>2, PTL DEF BridgesSpec

\* No K gets two bridges and no marker bridges two Ks, in every state a sync, a clean-up and users
\* can bring about (button.py's marker stages, api.py's async_ensure_bridge_markers).
THEOREM OneBridgeEachHolds == BridgesSpec => []OneBridgeEach
<1>1. ASSUME BridgesInv, NEW k \in Ks, plan[k] # None
      PROVE  /\ Cardinality(plan[k].bridge) <= 1
             /\ \A l \in Ks \ {k} : plan[l] # None => plan[k].bridge \cap plan[l].bridge = {}
  <2>1. OneEach /\ TitlesTell
    BY <1>1 DEF BridgesInv
  <2>2. CASE plan[k].bridge = {}
    BY <2>2, FS_EmptySet
  <2>3. ASSUME NEW m \in plan[k].bridge
        PROVE  /\ Cardinality(plan[k].bridge) <= 1
               /\ \A l \in Ks \ {k} : plan[l] # None => plan[k].bridge \cap plan[l].bridge = {}
    <3>1. plan[k].bridge = {m}
      BY <1>1, <2>1, <2>3 DEF OneEach
    <3>2. Cardinality({m}) = 1
      BY FS_Singleton
    <3>3. PICK s : marker[m].title = <<k, s>>
      BY <1>1, <2>1, <2>3 DEF TitlesTell
    <3>4. \A l \in Ks \ {k} : plan[l] # None => m \notin plan[l].bridge
      BY <1>1, <2>1, <3>3 DEF TitlesTell
    <3> QED
      BY <3>1, <3>2, <3>4
  <2> QED
    BY <2>2, <2>3
<1>2. BridgesInv => OneBridgeEach
  BY <1>1 DEF OneBridgeEach
<1> QED
  BY <1>2, BridgesInvHolds, PTL

\* One loopback command per K and marker, however slowly Comexio lists new ones, unless the answer to
\* an upload, or the device of it, was lost (button.py's loopback stage, api.py's command list).
THEOREM NoDuplicateCommandHolds == BridgesSpec => []NoDuplicateCommand
<1>1. BridgesInv => NoDuplicateCommand
  BY DEF BridgesInv, CommandsInv, NoDuplicateCommand
<1> QED
  BY <1>1, BridgesInvHolds, PTL

\* A sync gives out no marker that stands in a plan or that a user named, but what a user did behind
\* its look at titles and plans (api.py's choice of free markers).
THEOREM UsedMarkersStay == BridgesSpec => UsedMarkersKept
<1>1. ASSUME BridgesInv, BridgesNext, Syncing, edits' = edits, NEW m \in Retitled
      PROVE  m \in late \/ (m \notin Placed /\ (marker[m].title = Blank \/ IsBridge(marker[m].title)))
  <2>1. StateTypes /\ HeldTypes /\ ByStage /\ Wants /\ Obtaining /\ ResetsInv
    BY <1>1 DEF BridgesInv
  <2>2. m \in Ids(marker) /\ marker'[m] # marker[m]
    BY DEF Retitled
  <2>3. ~User
    BY <1>1, <2>1, EditCounts DEF StateTypes
  <2>4. ~ResetsMarker
    BY <1>1, <2>1, CleaningFrames DEF ByStage, CleanStages, Syncing
  <2>5. \/ marker'[m] = marker[m]
        \/ User /\ m \in late' /\ (marker'[m].title = marker[m].title \/ marker[m].title = Blank)
        \/ Obtains /\ m \in ctx.free
        \/ /\ ResetsMarker /\ m \in ctx.batch /\ ~IsBridge(marker'[m].title)
           /\ m \in ctx.used => /\ marker'[m].title = <<marker[m].title[1], "stripped">>
                                /\ marker'[m].set = ctx.ms[m].set
    BY <1>1, <2>1, <2>2, MarkerChanges
  <2>6. Obtains /\ m \in ctx.free
    BY <2>2, <2>3, <2>4, <2>5
  <2> QED
    BY <2>1, <2>6, SyncFrames DEF Obtaining
<1>2. ASSUME BridgesInv, [BridgesNext]_bridgesVars
      PROVE  [Syncing /\ edits' = edits => \A m \in Retitled : m \in late \/
               (m \notin Placed /\ (marker[m].title = Blank \/ IsBridge(marker[m].title)))]_bridgesVars
  BY <1>1, <1>2
<1> QED
  BY <1>2, BridgesInvHolds, PTL DEF BridgesSpec, UsedMarkersKept

\* A clean-up blanks no marker a user's plan holds and keeps its settings, and leaves the titles by
\* which the trigger plan's KNX pairs are told while it has them (coordinator.async_uninstall_cleanup).
THEOREM CleanUpSparesHolds == BridgesSpec => CleanUpSpares
<1>1. ASSUME BridgesInv, BridgesNext, Cleans, edits' = edits, NEW m \in Retitled
      PROVE  /\ m \notin InPlan(trig)
             /\ m \in own \ late => marker'[m].title # Blank /\ marker'[m].set = marker[m].set
  <2>1. StateTypes /\ HeldTypes /\ ByStage /\ Wants /\ Obtaining /\ PairsInv /\ ResetsInv
    BY <1>1 DEF BridgesInv
  <2>2. m \in Ids(marker) /\ marker'[m] # marker[m]
    BY DEF Retitled
  <2>3. ~User
    BY <1>1, <2>1, EditCounts DEF StateTypes
  <2>4. ~Obtains
    BY <1>1, <2>1, SyncFrames DEF ByStage, WiringStages, Batches, Cleans
  <2>5. \/ marker'[m] = marker[m]
        \/ User /\ m \in late' /\ (marker'[m].title = marker[m].title \/ marker[m].title = Blank)
        \/ Obtains /\ m \in ctx.free
        \/ /\ ResetsMarker /\ m \in ctx.batch /\ ~IsBridge(marker'[m].title)
           /\ m \in ctx.used => /\ marker'[m].title = <<marker[m].title[1], "stripped">>
                                /\ marker'[m].set = ctx.ms[m].set
    BY <1>1, <2>1, <2>2, MarkerChanges
  <2>6. /\ ResetsMarker /\ m \in ctx.batch
        /\ m \in ctx.used => marker'[m].title = <<marker[m].title[1], "stripped">> /\ marker'[m].set = ctx.ms[m].set
    BY <2>2, <2>3, <2>4, <2>5
  <2>7. stage = "clean marker"
    BY <2>6, CleaningFrames
  <2>8. /\ m \in Bridges(marker) /\ (m \in late \/ marker[m] = ctx.ms[m]) /\ own \ late \subseteq ctx.used
        /\ KnxPairs = {}
    BY <2>1, <2>6, <2>7 DEF ResetsInv, PairsInv
  <2>9. m \notin InPlan(trig)
    BY <2>8 DEF KnxPairs
  <2>10. ASSUME m \in own \ late PROVE marker'[m].title # Blank /\ marker'[m].set = marker[m].set
    <3>1. marker'[m].title = <<marker[m].title[1], "stripped">> /\ marker'[m].set = ctx.ms[m].set /\ marker[m] = ctx.ms[m]
      BY <2>6, <2>8, <2>10
    <3>2. \A x : <<x, "stripped">> # Blank
      BY DEF Blank
    <3> QED
      BY <3>1, <3>2
  <2> QED
    BY <2>9, <2>10
<1>2. ASSUME BridgesInv, [BridgesNext]_bridgesVars
      PROVE  [Cleans /\ edits' = edits => \A m \in Retitled :
               /\ m \notin InPlan(trig)
               /\ m \in own \ late => marker'[m].title # Blank /\ marker'[m].set = marker[m].set]_bridgesVars
  BY <1>1, <1>2
<1> QED
  BY <1>2, BridgesInvHolds, PTL DEF BridgesSpec, CleanUpSpares
=============================================================================
