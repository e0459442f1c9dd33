---------------------------- MODULE BackupHistory ----------------------------
(***************************************************************************)
(* One history of snapshots, newest first, as the methods of               *)
(* FunctionPlanBackupManager change it.  A snapshot is a record with at    *)
(* least the time "at" it was taken and its "restored" mark.               *)
(***************************************************************************)
EXTENDS Naturals, SequencesExt

Truncated(s, n) == SubSeq(s, 1, IF Len(s) < n THEN Len(s) ELSE n)

\* A new snapshot goes to slot 0 and pushes the last one out.
Rotated(s, snap, n) == Truncated(<<snap>> \o s, n)

NewerFirst(s, t) == s.at > t.at

Newer(all, x) == {y \in all : NewerFirst(y, x)}

\* The snapshots of a set in their order, which is one as no two are of one time.
Ordered(all) == [i \in 1 .. Cardinality(all) |->
                    CHOOSE x \in all : Cardinality(Newer(all, x)) = i - 1]

\* _async_move_identity: newest first by capture time, within the slots.
Merged(s, t, n) == Truncated(Ordered(ToSet(s) \union ToSet(t)), n)

SlotOf(s, at) == CHOOSE i \in DOMAIN s : s[i].at = at
Holds(s, at) == \E i \in DOMAIN s : s[i].at = at

\* Mutant of Promoted: the snapshot is copied to the front.
PromotedCopy(s, at) == <<[s[SlotOf(s, at)] EXCEPT !.restored = TRUE]>> \o s

\* Mutant of Promoted: the snapshot is stamped where it is.
PromotedInPlace(s, at) == [s EXCEPT ![SlotOf(s, at)].restored = TRUE]

\* async_mark_restored: to the front, stamped restored_at.
Promoted(s, at) ==
    <<[s[SlotOf(s, at)] EXCEPT !.restored = TRUE]>> \o RemoveAt(s, SlotOf(s, at))

TimesOf(s) == {s[i].at : i \in DOMAIN s}

=============================================================================
