----------------------------- MODULE ValuePath -----------------------------
(* How values reach Home Assistant (coordinator.py): Comexio pushes changes    *)
(* through a webhook, polls read everything anew, and HA's own writes are      *)
(* shown once they are confirmed. Guard R1: what was pushed while a poll runs  *)
(* wins over the poll's older snapshot. An ID may be given to another KNX      *)
(* object or IO between two polls.                                             *)
(*                                                                             *)
(* A reading is who it was read from and the number of the change it shows.    *)
EXTENDS Naturals, FiniteSets

CONSTANTS
    Markers, Knx, Ios,   \* source IDs of the three kinds
    Things,              \* what may be behind an ID: a marker, a KNX object, an IO
    NoThing, Unknown,
    Polls,               \* polls that may run at once: async_refresh takes no lock
    Scheduled,           \* the one of them the update interval repeats
    Cases                \* what may happen in one behaviour: see the assumption

Sources == Markers \union Knx \union Ios

ASSUME ValuePathAssumption ==
    /\ Markers \intersect Knx = {} /\ Markers \intersect Ios = {} /\ Knx \intersect Ios = {}
    /\ NoThing \notin Things
    /\ Unknown \notin [of : Things, at : Nat]
    /\ Scheduled \in Polls
    /\ Cases \subseteq [sources : SUBSET Sources, polls : SUBSET Polls, changes : Nat, faults : Nat]

VARIABLES
    \* Comexio
    value,      \* source -> [of, at]: what is behind the ID, and its last change
    clock,      \* number of changes
    setting,    \* which sources change, which polls run, how often Comexio changes and requests fail
    pushes,     \* webhook requests on their way
    \* the coordinator
    shown,      \* marker_states, knx_states, io_states: what the entities show
    dirty,      \* _webhook_updated_markers, _knx_ids, _io_ids
    real,       \* _io_real_value_ids
    identity,   \* _io_identities
    index,      \* _io_index: the IO the page of the last merged poll named, or NoThing
    polledReal, \* _polled_io_real_ids
    \* polls
    pc,         \* poll -> "idle", "config", "live", "ios", "merge"
    page,       \* poll -> what the config page named, or an empty page
    scraped,    \* poll -> whether there was a page
    read,       \* poll -> source -> the snapshot's reading
    \* HA's own writes
    write,      \* source -> "idle", "sent", "applied"
    written,    \* source -> the reading the write made
    pushed,     \* IOs a push arrived for since the write began (io_push_count)
    faults,     \* failures so far
    \* history
    alone,      \* polls no other poll overlapped
    met,        \* some poll overlapped another
    pageAt,     \* poll -> the change its page was read after
    namedAt     \* IO ID -> the change after which a page first named the IO of identity

comexio == <<value, clock, setting>>
cache == <<shown, dirty, real, identity, index, polledReal>>
polls == <<pc, page, scraped, read>>
writes == <<write, written, pushed>>
history == <<alone, met, pageAt, namedAt>>
vars == <<comexio, pushes, cache, polls, writes, faults, history>>

Reading == [of : Things, at : Nat]
MaybeReading == Reading \union {Unknown}
Push == [src : Sources, val : Reading]
Exists(s) == value[s].of # NoThing

TypeOK ==
    /\ value \in [Sources -> [of : Things \union {NoThing}, at : Nat]]
    /\ \A m \in Markers : value[m].of \in Things
    /\ clock \in Nat /\ setting \in Cases
    /\ pushes \subseteq Push
    /\ shown \in [Sources -> MaybeReading]
    /\ dirty \subseteq Sources /\ real \subseteq Ios /\ polledReal \subseteq Ios
    /\ identity \in [Ios -> Things \union {NoThing}] /\ index \in [Ios -> Things \union {NoThing}]
    /\ pc \in [Polls -> {"idle", "config", "live", "ios", "merge"}]
    /\ page \in [Polls -> [Sources -> Things \union {NoThing}]]
    /\ scraped \in [Polls -> BOOLEAN]
    /\ read \in [Polls -> [Sources -> MaybeReading]]
    /\ write \in [Sources -> {"idle", "sent", "applied"}]
    /\ written \in [Sources -> MaybeReading]
    /\ pushed \subseteq Ios /\ faults \in Nat
    /\ alone \subseteq Polls /\ met \in BOOLEAN /\ pageAt \in [Polls -> Nat] /\ namedAt \in [Ios -> Nat]

EmptyPage == [s \in Sources |-> NoThing]
NothingRead == [s \in Sources |-> Unknown]

\* After the first poll of a set-up that read everything.
Init ==
    /\ \E t \in Things : value = [s \in Sources |-> [of |-> t, at |-> 0]]
    /\ clock = 0 /\ setting \in Cases /\ pushes = {}
    /\ shown = value /\ dirty = {} /\ real = Ios
    /\ identity = [i \in Ios |-> value[i].of] /\ index = identity /\ polledReal = Ios
    /\ pc = [p \in Polls |-> "idle"]
    /\ page = [p \in Polls |-> EmptyPage] /\ scraped = [p \in Polls |-> FALSE]
    /\ read = [p \in Polls |-> NothingRead]
    /\ write = [s \in Sources |-> "idle"] /\ written = NothingRead /\ pushed = {}
    /\ faults = 0 /\ alone = {} /\ met = FALSE
    /\ pageAt = [p \in Polls |-> 0] /\ namedAt = [i \in Ios |-> 0]

Fault == faults < setting.faults /\ faults' = faults + 1

-----------------------------------------------------------------------------
(* Comexio                                                                     *)

\* The next change: source s now holds thing t with a new value.
Becomes(s, t) ==
    /\ s \in setting.sources /\ clock < setting.changes /\ clock' = clock + 1
    /\ value' = [value EXCEPT ![s] = [of |-> t, at |-> clock + 1]]
    /\ UNCHANGED setting

\* A Web-IO command pushes each change.
Changes(s) ==
    /\ Exists(s) /\ Becomes(s, value[s].of)
    /\ pushes' = pushes \union {[src |-> s, val |-> value'[s]]}
    /\ UNCHANGED <<cache, polls, writes, faults, history>>

\* A KNX object or an IO is deleted, or its ID given to another one.
Reassigns(s, t) ==
    /\ s \notin Markers /\ value[s].of # t /\ Becomes(s, t)
    /\ UNCHANGED <<pushes, cache, polls, writes, faults, history>>

-----------------------------------------------------------------------------
(* What the webhook and HA's own writes store                                  *)

\* update_io_by_name finds the IO under its name, unless its ID names another IO by now.
FindsIo(i, t) == index[i] = t /\ identity[i] \in {NoThing, t}

MarkNothing(s) == UNCHANGED dirty
\* R1: received during a possible fetch.
MarkReceived(s) == dirty' = dirty \union {s}

\* update_marker, update_knx, _store_pushed_io_value.
Store(s, v) ==
    IF s \in Ios /\ ~FindsIo(s, v.of) THEN UNCHANGED <<shown, dirty, real>>
    ELSE /\ shown' = [shown EXCEPT ![s] = v]
         /\ MarkReceived(s)
         /\ real' = real \union ({s} \intersect Ios)

PushArrives(m) ==
    /\ pushes' = pushes \ {m}
    /\ Store(m.src, m.val)
    /\ pushed' = IF m.src \in Ios /\ FindsIo(m.src, m.val.of) THEN pushed \union {m.src} ELSE pushed
    /\ UNCHANGED <<comexio, identity, index, polledReal, polls, write, written, faults, history>>

\* A push that carries no number makes the IO unknown.
PushUnreadable(m) ==
    /\ Fault /\ m.src \in Ios /\ FindsIo(m.src, m.val.of)
    /\ pushes' = pushes \ {m}
    /\ shown' = [shown EXCEPT ![m.src] = Unknown]
    /\ dirty' = dirty \ {m.src} /\ real' = real \ {m.src}
    /\ UNCHANGED <<comexio, identity, index, polledReal, polls, writes, history>>

PushLost(m) ==
    /\ Fault /\ pushes' = pushes \ {m}
    /\ UNCHANGED <<comexio, cache, polls, writes, history>>

\* An entity writes a value; Comexio takes it over and pushes it.
WriteSent(s) ==
    /\ s \in setting.sources /\ clock < setting.changes /\ write[s] = "idle"
    /\ write' = [write EXCEPT ![s] = "sent"] /\ pushed' = pushed \ {s}
    /\ UNCHANGED <<comexio, pushes, cache, polls, written, faults, history>>

WriteApplied(s) ==
    /\ write[s] = "sent" /\ Exists(s) /\ Becomes(s, value[s].of)
    /\ write' = [write EXCEPT ![s] = "applied"] /\ written' = [written EXCEPT ![s] = value'[s]]
    /\ pushes' = pushes \union {[src |-> s, val |-> value'[s]]}
    /\ UNCHANGED <<cache, polls, pushed, faults, history>>

\* Shown once confirmed; for an IO only if no push arrived meanwhile.
WriteConfirmed(s) ==
    /\ write[s] = "applied" /\ write' = [write EXCEPT ![s] = "idle"]
    /\ written' = [written EXCEPT ![s] = Unknown] /\ pushed' = pushed \ {s}
    /\ IF s \in Ios \intersect pushed THEN UNCHANGED <<shown, dirty, real>> ELSE Store(s, written[s])
    /\ UNCHANGED <<comexio, pushes, identity, index, polledReal, polls, faults, history>>

WriteFails(s) ==
    /\ write[s] # "idle" /\ write' = [write EXCEPT ![s] = "idle"]
    /\ written' = [written EXCEPT ![s] = Unknown] /\ pushed' = pushed \ {s}
    /\ UNCHANGED <<comexio, pushes, cache, polls, faults, history>>

-----------------------------------------------------------------------------
(* A poll                                                                      *)

Running == {p \in Polls : pc[p] # "idle"}
Goes(p, from, to) == pc[p] = from /\ pc' = [pc EXCEPT ![p] = to]

KeepMarks == UNCHANGED dirty
ClearMarks == dirty' = {}

PollBegins(p) ==
    /\ p \in setting.polls /\ Goes(p, "idle", "config")
    /\ ClearMarks
    /\ alone' = IF Running = {} THEN {p} ELSE {}
    /\ met' = (met \/ Running # {})
    /\ UNCHANGED <<comexio, pushes, shown, real, identity, index, polledReal, page, scraped, read, writes,
                   faults, pageAt, namedAt>>

\* get_raw_config: the page, or {} when Comexio did not answer with one.
ConfigRead(p) ==
    /\ Goes(p, "config", "live")
    /\ \/ page' = [page EXCEPT ![p] = [s \in Sources |-> value[s].of]]
          /\ scraped' = [scraped EXCEPT ![p] = TRUE] /\ UNCHANGED faults
       \/ UNCHANGED <<page, scraped>> /\ Fault
    /\ pageAt' = [pageAt EXCEPT ![p] = clock]
    /\ UNCHANGED <<comexio, pushes, cache, read, writes, alone, met, namedAt>>

Named(p, s) == page[p][s] # NoThing
Answer(p, s) == IF Named(p, s) /\ Exists(s) THEN value[s] ELSE Unknown

\* get_live_states and parse_config. KNX objects may be missing from the answer; without an answer
\* the known values stand in. What the IOs hold by now is the oldest the next answer can say.
LiveRead(p) ==
    /\ Goes(p, "live", "ios")
    /\ \/ \E missing \in SUBSET Knx :
             /\ IF missing = {} THEN UNCHANGED faults ELSE Fault
             /\ read' = [read EXCEPT ![p] = [s \in Sources |-> IF s \in missing THEN Unknown ELSE Answer(p, s)]]
       \/ /\ Fault
          /\ read' = [read EXCEPT ![p] = [s \in Sources |-> IF s \in Ios THEN Answer(p, s) ELSE shown[s]]]
    /\ UNCHANGED <<comexio, pushes, cache, page, scraped, writes, history>>

\* _forget_reassigned_io_values
NoneReassigned(p) == {}
Reassigned(p) == {i \in Ios : Named(p, i) /\ identity[i] \notin {NoThing, page[p][i]}}
Forget(p) ==
    /\ shown' = [s \in Sources |-> IF s \in Reassigned(p) THEN Unknown ELSE shown[s]]
    /\ real' = real \ Reassigned(p)
    /\ dirty' = dirty \ Reassigned(p)
    /\ identity' = [i \in Ios |-> IF Named(p, i) THEN page[p][i] ELSE identity[i]]
    /\ namedAt' = [i \in Ios |-> IF identity'[i] = identity[i] THEN namedAt[i] ELSE pageAt[p]]

\* _apply_io_live_values: the answer, else a known value, else unknown.
KnownIos == [i \in Ios |-> IF i \in real' THEN shown'[i] ELSE Unknown]
Got(p, missing, answer) ==
    [s \in Sources |->
        IF s \notin Ios \/ ~Named(p, s) THEN read[p][s]
        ELSE IF s \in missing \/ answer[s] = Unknown THEN KnownIos[s] ELSE answer[s]]

\* get_io_live_states: its answer is as old as the request at most.
IosRead(p) ==
    /\ Goes(p, "ios", "merge")
    /\ Forget(p)
    /\ \E missing \in SUBSET {i \in Ios : Named(p, i)} :
       \E answer \in {read[p], [s \in Sources |-> Answer(p, s)]} :
          /\ IF missing = {} THEN UNCHANGED faults ELSE Fault
          /\ read' = [read EXCEPT ![p] = Got(p, missing, answer)]
          /\ polledReal' = {i \in Ios : Named(p, i) /\ (Got(p, missing, answer)[i] # Unknown \/ i \in real')}
    /\ UNCHANGED <<comexio, pushes, index, page, scraped, writes, alone, met, pageAt>>

\* _merge_polled_states, _merge_polled_knx_states, then _prune_vanished_states.
Merged(p, s) == s \notin dirty /\ Named(p, s) /\ (s \in Knx => read[p][s] # Unknown)
Vanished(p) == {s \in Knx \union Ios : scraped[p] /\ ~Named(p, s)}

PollOver(p) ==
    /\ page' = [page EXCEPT ![p] = EmptyPage] /\ scraped' = [scraped EXCEPT ![p] = FALSE]
    /\ read' = [read EXCEPT ![p] = NothingRead]
    /\ pageAt' = [pageAt EXCEPT ![p] = 0] /\ alone' = alone \ {p}

Merge(p) ==
    /\ Goes(p, "merge", "idle")
    /\ shown' = [s \in Sources |->
                    IF s \in Vanished(p) THEN Unknown ELSE IF Merged(p, s) THEN read[p][s] ELSE shown[s]]
    /\ real' = {i \in Ios \ Vanished(p) : IF Merged(p, i) THEN i \in polledReal ELSE i \in real}
    /\ identity' = [i \in Ios |-> IF i \in Vanished(p) THEN NoThing ELSE identity[i]]
    /\ index' = [i \in Ios |-> page[p][i]]
    /\ PollOver(p)
    /\ UNCHANGED <<comexio, pushes, dirty, polledReal, writes, faults, met, namedAt>>

PollFails(p) ==
    /\ Fault /\ pc[p] # "idle" /\ pc' = [pc EXCEPT ![p] = "idle"]
    /\ PollOver(p)
    /\ UNCHANGED <<comexio, pushes, cache, writes, met, namedAt>>

-----------------------------------------------------------------------------

PollGoesOn(p) == ConfigRead(p) \/ LiveRead(p) \/ IosRead(p) \/ Merge(p) \/ PollFails(p)
Delivery == \E m \in pushes : PushArrives(m) \/ PushUnreadable(m) \/ PushLost(m)
WriteEnds(s) == WriteApplied(s) \/ WriteConfirmed(s) \/ WriteFails(s)

Next ==
    \/ \E s \in Sources : Changes(s) \/ WriteSent(s) \/ WriteEnds(s)
    \/ \E s \in Sources, t \in Things \union {NoThing} : Reassigns(s, t)
    \/ Delivery
    \/ \E p \in Polls : PollBegins(p) \/ PollGoesOn(p)

Spec == Init /\ [][Next]_vars

\* Requests end and the interval polls again and again; nobody has to change anything, and no
\* failure has to happen.
FairSpec ==
    /\ Spec
    /\ WF_vars(PollBegins(Scheduled)) /\ \A p \in Polls : WF_vars(PollGoesOn(p))
    /\ WF_vars(Delivery) /\ \A s \in Sources : WF_vars(WriteEnds(s))

-----------------------------------------------------------------------------

NotOlder(a, b) == a = Unknown \/ b = Unknown \/ a.at <= b.at

\* Guard R1 (_async_fetch_and_audit): no step of a poll that ran alone shows an older value than
\* the one that was pushed, written or polled before.
PollKeepsPushes ==
    [][\A p \in Polls :
          p \in alone /\ pc'[p] # pc[p] => \A s \in Sources : NotOlder(shown[s], shown'[s])]_vars

\* What is shown under an IO's ID is a reading of the IO HA takes it for, or was taken after a page
\* first named that IO there: none inherits the value of the one that had its ID
\* (_forget_reassigned_io_values, _prune_vanished_states). Only while no polls overlapped.
NoInheritedReading ==
    \A i \in Ios :
        ~met /\ identity[i] # NoThing /\ shown[i] # Unknown
            => shown[i].of = identity[i] \/ shown[i].at > namedAt[i]

\* Whatever was lost, failed, overlapped, reassigned or written: once Comexio rests, every entity
\* comes to show its source's value, and keeps showing it.
ShownSettles ==
    <>[](\A s \in Sources : shown[s] = IF Exists(s) THEN value[s] ELSE Unknown)

=============================================================================
