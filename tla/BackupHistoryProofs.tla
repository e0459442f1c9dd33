------------------------- MODULE BackupHistoryProofs -------------------------
(***************************************************************************)
(* What the changes of one history keep: it stays a sequence of snapshots  *)
(* of different times, and they add none but the new one.                  *)
(***************************************************************************)
EXTENDS BackupHistory, FiniteSetTheorems, SequenceTheorems, TLAPS

\* The snapshots taken up to a time, of plans with such contents.
Snapshots(contents, now) == [at : 1 .. now, content : contents, restored : BOOLEAN]

Distinct(s) == \A i, j \in DOMAIN s : s[i].at = s[j].at => i = j

History(s, contents, now) == s \in Seq(Snapshots(contents, now)) /\ Distinct(s)

LEMMA HistoryLater ==
  ASSUME NEW contents, NEW now \in Nat, NEW later \in Nat, now <= later,
         NEW s, History(s, contents, now)
  PROVE  History(s, contents, later)
<1>1. Snapshots(contents, now) \subseteq Snapshots(contents, later)
  BY DEF Snapshots
<1> QED
  BY <1>1, SeqMonotonic DEF History

LEMMA HistoryWider ==
  ASSUME NEW contents, NEW more, contents \subseteq more, NEW now,
         NEW s, History(s, contents, now)
  PROVE  History(s, more, now)
<1>1. Snapshots(contents, now) \subseteq Snapshots(more, now)
  BY DEF Snapshots
<1> QED
  BY <1>1, SeqMonotonic DEF History

LEMMA EmptyHistory ==
  ASSUME NEW contents, NEW now
  PROVE  History(<<>>, contents, now) /\ TimesOf(<<>>) = {} /\ ToSet(<<>>) = {}
<1>1. DOMAIN <<>> = {} /\ <<>> \in Seq(Snapshots(contents, now))
  BY EmptySeq
<1> QED
  BY <1>1 DEF History, Distinct, TimesOf, ToSet

\* Part of a history.
LEMMA PartOfHistory ==
  ASSUME NEW contents, NEW now \in Nat, NEW s, History(s, contents, now),
         NEW m \in Nat \ {0}, NEW n \in Nat, n <= Len(s)
  PROVE  /\ History(SubSeq(s, m, n), contents, now)
         /\ DOMAIN SubSeq(s, m, n) = 1 .. Len(SubSeq(s, m, n))
         /\ Len(SubSeq(s, m, n)) = IF m <= n THEN n - m + 1 ELSE 0
         /\ \A i \in DOMAIN SubSeq(s, m, n) :
                m + i - 1 \in DOMAIN s /\ SubSeq(s, m, n)[i] = s[m + i - 1]
<1> DEFINE t == SubSeq(s, m, n)
<1>1. /\ s \in Seq(Snapshots(contents, now)) /\ Distinct(s)
      /\ DOMAIN s = 1 .. Len(s) /\ Len(s) \in Nat
      /\ \A i \in DOMAIN s : s[i] \in Snapshots(contents, now)
  BY LenProperties, ElementOfSeq DEF History
<1>2. \A i \in m .. n : s[i] \in Snapshots(contents, now)
  BY <1>1
<1>3. /\ t \in Seq(Snapshots(contents, now))
      /\ Len(t) = IF m <= n THEN n - m + 1 ELSE 0
      /\ \A i \in 1 .. n - m + 1 : t[i] = s[m + i - 1]
  BY <1>2, SubSeqProperties
<1>4. DOMAIN t = 1 .. Len(t)
  BY <1>3, LenProperties
<1> HIDE DEF t
<1>5. \A i \in DOMAIN t : m + i - 1 \in DOMAIN s /\ t[i] = s[m + i - 1]
  BY <1>1, <1>3, <1>4
<1>6. Distinct(t)
  <2> SUFFICES ASSUME NEW i \in DOMAIN t, NEW j \in DOMAIN t, t[i].at = t[j].at PROVE i = j
    BY DEF Distinct
  <2>1. m + i - 1 = m + j - 1
    BY <1>1, <1>5 DEF Distinct
  <2> QED
    BY <1>3, <1>4, <2>1
<1> QED
  BY <1>3, <1>4, <1>5, <1>6 DEF History, t

\* The slots cut off the oldest ones.
LEMMA TruncatedHistory ==
  ASSUME NEW contents, NEW now \in Nat, NEW s, History(s, contents, now), NEW n \in Nat
  PROVE  /\ History(Truncated(s, n), contents, now)
         /\ ToSet(Truncated(s, n)) \subseteq ToSet(s)
<1> DEFINE k == IF Len(s) < n THEN Len(s) ELSE n
<1>1. Len(s) \in Nat
  BY LenProperties DEF History
<1>2. k \in Nat /\ k <= Len(s)
  BY <1>1
<1> HIDE DEF k
<1>3. 1 \in Nat \ {0}
  OBVIOUS
<1>4. History(SubSeq(s, 1, k), contents, now)
  BY <1>2, <1>3, PartOfHistory
<1>5. \A i \in DOMAIN SubSeq(s, 1, k) : SubSeq(s, 1, k)[i] = s[1 + i - 1]
  BY <1>2, <1>3, PartOfHistory
<1>6. \A i \in DOMAIN SubSeq(s, 1, k) : 1 + i - 1 \in DOMAIN s
  BY <1>2, <1>3, PartOfHistory
<1> QED
  BY <1>4, <1>5, <1>6 DEF Truncated, ToSet, k

\* The first snapshot stays.
LEMMA TruncatedFirst ==
  ASSUME NEW contents, NEW now \in Nat, NEW s, History(s, contents, now),
         NEW n \in Nat \ {0}, 1 \in DOMAIN s
  PROVE  s[1] \in ToSet(Truncated(s, n))
<1> DEFINE k == IF Len(s) < n THEN Len(s) ELSE n
<1>1. Len(s) \in Nat \ {0}
  BY LenProperties DEF History
<1>2. k \in Nat \ {0} /\ k <= Len(s)
  BY <1>1
<1> HIDE DEF k
<1>3. 1 \in Nat \ {0} /\ k \in Nat /\ 1 <= k
  BY <1>2
<1>4. DOMAIN SubSeq(s, 1, k) = 1 .. Len(SubSeq(s, 1, k))
  BY <1>2, <1>3, PartOfHistory
<1>5. Len(SubSeq(s, 1, k)) = IF 1 <= k THEN k - 1 + 1 ELSE 0
  BY <1>2, <1>3, PartOfHistory
<1>6. \A i \in DOMAIN SubSeq(s, 1, k) : SubSeq(s, 1, k)[i] = s[1 + i - 1]
  BY <1>2, <1>3, PartOfHistory
<1>7. 1 \in DOMAIN SubSeq(s, 1, k)
  BY <1>2, <1>3, <1>4, <1>5
<1>8. SubSeq(s, 1, k)[1] = s[1]
  <2>1. PICK i \in DOMAIN SubSeq(s, 1, k) : i = 1
    BY <1>7, Zenon
  <2>2. SubSeq(s, 1, k)[i] = s[1 + i - 1]
    BY <1>6, Zenon
  <2>3. 1 + i - 1 = i
    BY <2>1
  <2> QED
    BY <2>1, <2>2, <2>3, Zenon
<1> QED
  BY <1>7, <1>8 DEF Truncated, ToSet, k

\* A history with a snapshot of another time in front.
LEMMA InFront ==
  ASSUME NEW contents, NEW now \in Nat, NEW s, History(s, contents, now),
         NEW snap \in Snapshots(contents, now), snap.at \notin TimesOf(s)
  PROVE  History(<<snap>> \o s, contents, now) /\ ToSet(<<snap>> \o s) = ToSet(s) \union {snap}
<1> DEFINE t == <<snap>> \o s
<1>1. /\ s \in Seq(Snapshots(contents, now)) /\ Distinct(s)
      /\ DOMAIN s = 1 .. Len(s) /\ Len(s) \in Nat
  BY LenProperties DEF History
<1>2. <<snap>> \in Seq(Snapshots(contents, now)) /\ Len(<<snap>>) = 1 /\ <<snap>>[1] = snap
  OBVIOUS
<1>3. /\ t \in Seq(Snapshots(contents, now)) /\ Len(t) = 1 + Len(s)
      /\ \A i \in 1 .. 1 + Len(s) : t[i] = IF i <= 1 THEN <<snap>>[i] ELSE s[i - 1]
  BY <1>1, <1>2, ConcatProperties
<1>4. DOMAIN t = 1 .. Len(t)
  BY <1>3, LenProperties
<1> HIDE DEF t
<1>5. /\ t[1] = snap /\ 1 \in DOMAIN t
      /\ \A i \in DOMAIN s : i + 1 \in DOMAIN t /\ t[i + 1] = s[i]
      /\ \A i \in DOMAIN t : i = 1 \/ (i - 1 \in DOMAIN s /\ t[i] = s[i - 1])
  BY <1>1, <1>2, <1>3, <1>4
<1>6. \A i \in DOMAIN s : s[i].at # snap.at
  BY DEF TimesOf
<1>7. Distinct(t)
  <2> SUFFICES ASSUME NEW i \in DOMAIN t, NEW j \in DOMAIN t, t[i].at = t[j].at PROVE i = j
    BY DEF Distinct
  <2>1. i \in Nat /\ j \in Nat
    BY <1>1, <1>3, <1>4
  <2>2. CASE i = 1 \/ j = 1
    BY <1>5, <1>6, <2>2
  <2>3. CASE i # 1 /\ j # 1
    <3>1. /\ i - 1 \in DOMAIN s /\ t[i] = s[i - 1]
          /\ j - 1 \in DOMAIN s /\ t[j] = s[j - 1]
      BY <1>5, <2>3
    <3>2. s[i - 1].at = s[j - 1].at
      BY <3>1
    <3>3. i - 1 = j - 1
      BY <1>1, <3>1, <3>2, Zenon DEF Distinct
    <3> QED
      BY <2>1, <3>3
  <2> QED
    BY <2>2, <2>3
<1>8. ToSet(t) = ToSet(s) \union {snap}
  <2>1. ToSet(t) \subseteq ToSet(s) \union {snap}
    <3>1. \A i \in DOMAIN t : t[i] \in ToSet(s) \union {snap}
      BY <1>5 DEF ToSet
    <3> QED
      BY <3>1 DEF ToSet
  <2>2. ToSet(s) \subseteq ToSet(t) /\ snap \in ToSet(t)
    BY <1>5 DEF ToSet
  <2> QED
    BY <2>1, <2>2
<1> QED
  BY <1>3, <1>7, <1>8 DEF History, t

\* A new snapshot pushes others out.
LEMMA RotatedHistory ==
  ASSUME NEW contents, NEW now \in Nat, NEW s, History(s, contents, now),
         NEW snap \in Snapshots(contents, now), snap.at \notin TimesOf(s), NEW n \in Nat
  PROVE  /\ History(Rotated(s, snap, n), contents, now)
         /\ ToSet(Rotated(s, snap, n)) \subseteq ToSet(s) \union {snap}
<1>1. History(<<snap>> \o s, contents, now) /\ ToSet(<<snap>> \o s) = ToSet(s) \union {snap}
  BY InFront
<1> QED
  BY <1>1, TruncatedHistory DEF Rotated

\* A snapshot less.
LEMMA RemovedHistory ==
  ASSUME NEW contents, NEW now \in Nat, NEW s, History(s, contents, now), NEW k \in DOMAIN s
  PROVE  /\ History(RemoveAt(s, k), contents, now)
         /\ ToSet(RemoveAt(s, k)) \subseteq ToSet(s)
         /\ s[k].at \notin TimesOf(RemoveAt(s, k))
<1> DEFINE a == SubSeq(s, 1, k - 1)
           b == SubSeq(s, k + 1, Len(s))
           t == a \o b
<1>1. /\ s \in Seq(Snapshots(contents, now)) /\ Distinct(s)
      /\ DOMAIN s = 1 .. Len(s) /\ Len(s) \in Nat
  BY LenProperties DEF History
<1>2. /\ 1 \in Nat \ {0} /\ k + 1 \in Nat \ {0} /\ k - 1 \in Nat /\ k \in Nat
      /\ k - 1 <= Len(s) /\ Len(s) <= Len(s)
  BY <1>1
<1>3. /\ History(a, contents, now) /\ DOMAIN a = 1 .. Len(a)
      /\ Len(a) = k - 1
  <2>1. History(a, contents, now)
    BY <1>2, PartOfHistory
  <2>2. DOMAIN a = 1 .. Len(a)
    BY <1>2, PartOfHistory
  <2>3. Len(a) = IF 1 <= k - 1 THEN k - 1 - 1 + 1 ELSE 0
    BY <1>2, PartOfHistory
  <2> HIDE DEF a
  <2> QED
    BY <1>2, <2>1, <2>2, <2>3
<1>4. \A i \in DOMAIN a : a[i] = s[1 + i - 1]
  BY <1>2, PartOfHistory
<1>5. /\ History(b, contents, now) /\ DOMAIN b = 1 .. Len(b)
      /\ Len(b) = Len(s) - k
  <2>1. History(b, contents, now)
    BY <1>1, <1>2, PartOfHistory
  <2>2. DOMAIN b = 1 .. Len(b)
    BY <1>1, <1>2, PartOfHistory
  <2>3. Len(b) = IF k + 1 <= Len(s) THEN Len(s) - (k + 1) + 1 ELSE 0
    BY <1>1, <1>2, PartOfHistory
  <2> HIDE DEF b
  <2> QED
    BY <1>1, <1>2, <2>1, <2>2, <2>3
<1>6. \A i \in DOMAIN b : b[i] = s[k + 1 + i - 1]
  BY <1>1, <1>2, PartOfHistory
<1> HIDE DEF a, b
<1>7. /\ t \in Seq(Snapshots(contents, now)) /\ Len(t) = Len(a) + Len(b)
      /\ \A i \in 1 .. Len(a) + Len(b) : t[i] = IF i <= Len(a) THEN a[i] ELSE b[i - Len(a)]
  BY <1>3, <1>5, ConcatProperties DEF History
<1>8. DOMAIN t = 1 .. Len(t)
  BY <1>7, LenProperties
<1> HIDE DEF t
<1> DEFINE from(i) == IF i <= k - 1 THEN i ELSE i + 1
<1>9. \A i \in DOMAIN t : from(i) \in DOMAIN s /\ t[i] = s[from(i)] /\ from(i) # k
  <2> TAKE i \in DOMAIN t
  <2>1. i \in 1 .. Len(a) + Len(b) /\ i \in Nat /\ i >= 1 /\ i <= Len(s) - 1
    BY <1>1, <1>2, <1>3, <1>5, <1>7, <1>8
  <2>2. CASE i <= k - 1
    <3>1. i \in DOMAIN a /\ t[i] = a[i]
      BY <1>3, <1>7, <2>1, <2>2
    <3>2. a[i] = s[i]
      BY <1>4, <2>1, <3>1
    <3> QED
      BY <1>1, <1>2, <2>1, <2>2, <3>1, <3>2
  <2>3. CASE ~(i <= k - 1)
    <3>1. i - (k - 1) \in DOMAIN b
      BY <1>1, <1>2, <1>3, <1>5, <2>1, <2>3
    <3>2. ~(i <= Len(a)) /\ i - Len(a) = i - (k - 1)
      BY <1>3, <2>3
    <3>3. t[i] = b[i - (k - 1)]
      BY <1>7, <2>1, <3>2
    <3>4. k + 1 + (i - (k - 1)) - 1 = i + 1
      BY <1>2, <2>1
    <3>5. b[i - (k - 1)] = s[i + 1]
      BY <1>6, <3>1, <3>4
    <3> QED
      BY <1>1, <1>2, <2>1, <2>3, <3>3, <3>5
  <2> QED
    BY <2>2, <2>3
<1>10. \A i, j \in DOMAIN t : from(i) = from(j) => i = j
  BY <1>2, <1>7, <1>8
<1> HIDE DEF from
<1>11. Distinct(t)
  BY <1>1, <1>9, <1>10 DEF Distinct
<1>12. ToSet(t) \subseteq ToSet(s)
  BY <1>9 DEF ToSet
<1>13. s[k].at \notin TimesOf(t)
  BY <1>1, <1>9 DEF TimesOf, Distinct
<1>14. t = RemoveAt(s, k)
  BY DEF t, a, b, RemoveAt
<1> QED
  BY <1>7, <1>11, <1>12, <1>13, <1>14 DEF History

\* A promotion changes but a snapshot's mark and the order.
LEMMA PromotedHistory ==
  ASSUME NEW contents, NEW now \in Nat, NEW s, History(s, contents, now),
         NEW at, Holds(s, at)
  PROVE  /\ History(Promoted(s, at), contents, now)
         /\ \A x \in ToSet(Promoted(s, at)) :
                \E y \in ToSet(s) : x.at = y.at /\ x.content = y.content
<1> DEFINE k == SlotOf(s, at)
           snap == [s[k] EXCEPT !.restored = TRUE]
           rest == RemoveAt(s, k)
<1>1. k \in DOMAIN s /\ s[k].at = at
  BY DEF Holds, SlotOf
<1>2. s[k] \in Snapshots(contents, now)
  BY <1>1, LenProperties, ElementOfSeq DEF History
<1> HIDE DEF k
<1>3. snap \in Snapshots(contents, now) /\ snap.at = s[k].at /\ snap.content = s[k].content
  BY <1>2 DEF Snapshots
<1>4. History(rest, contents, now) /\ ToSet(rest) \subseteq ToSet(s) /\ s[k].at \notin TimesOf(rest)
  BY <1>1, RemovedHistory
<1> HIDE DEF snap, rest
<1>5. History(<<snap>> \o rest, contents, now) /\ ToSet(<<snap>> \o rest) = ToSet(rest) \union {snap}
  BY <1>3, <1>4, InFront
<1>6. s[k] \in ToSet(s)
  BY <1>1 DEF ToSet
<1>7. Promoted(s, at) = <<snap>> \o rest
  BY DEF Promoted, snap, rest, k
<1>8. ASSUME NEW x \in ToSet(<<snap>> \o rest)
      PROVE  \E y \in ToSet(s) : x.at = y.at /\ x.content = y.content
  BY <1>3, <1>4, <1>5, <1>6, <1>8
<1> QED
  BY <1>5, <1>7, <1>8

\* The promoted snapshot is the first one.
LEMMA PromotedFirst ==
  ASSUME NEW contents, NEW now \in Nat, NEW s, History(s, contents, now),
         NEW at, Holds(s, at)
  PROVE  /\ Promoted(s, at) # <<>>
         /\ \E y \in ToSet(s) : y.at = at /\ Head(Promoted(s, at)).content = y.content
<1> DEFINE k == SlotOf(s, at)
           snap == [s[k] EXCEPT !.restored = TRUE]
           rest == RemoveAt(s, k)
           all == <<snap>> \o rest
           S == Snapshots(contents, now)
<1>1. k \in DOMAIN s /\ s[k].at = at
  BY DEF Holds, SlotOf
<1>2. s[k] \in S /\ s[k] \in ToSet(s)
  BY <1>1, LenProperties, ElementOfSeq DEF History, ToSet
<1>3. Promoted(s, at) = all
  BY DEF Promoted
<1> HIDE DEF k
<1>4. snap \in S /\ snap.content = s[k].content
  BY <1>2 DEF Snapshots
<1>5. rest \in Seq(S)
  BY <1>1, RemovedHistory DEF History
<1> HIDE DEF snap, rest, S
<1>6. <<snap>> \in Seq(S) /\ Len(<<snap>>) = 1 /\ <<snap>>[1] = snap /\ Len(rest) \in Nat
  BY <1>4, <1>5, LenProperties
<1>7. /\ all \in Seq(S) /\ Len(all) = 1 + Len(rest)
      /\ \A i \in 1 .. 1 + Len(rest) : all[i] = IF i <= 1 THEN <<snap>>[i] ELSE rest[i - 1]
  BY <1>5, <1>6, ConcatProperties
<1> HIDE DEF all
<1>8. all[1] = snap /\ Len(all) # 0
  BY <1>6, <1>7
<1>9. all # <<>> /\ Head(all) = snap
  BY <1>7, <1>8, EmptySeq, HeadTailProperties
<1> QED
  BY <1>1, <1>2, <1>3, <1>4, <1>9

-----------------------------------------------------------------------------
(* Merged histories: a finite set of snapshots of different times has one for  *)
(* each rank, as many as it has newer ones.                                    *)

Apart(all) == \A x, y \in all : x.at = y.at => x = y

LEMMA RanksAreBelow ==
  ASSUME NEW all, IsFiniteSet(all), NEW x \in all, x.at \in Nat
  PROVE  Cardinality(Newer(all, x)) \in 0 .. Cardinality(all) - 1
<1>1. Newer(all, x) \subseteq all \ {x}
  BY DEF Newer, NewerFirst
<1>2. IsFiniteSet(all \ {x}) /\ Cardinality(all \ {x}) = Cardinality(all) - 1
  BY FS_RemoveElement
<1>3. IsFiniteSet(Newer(all, x)) /\ Cardinality(Newer(all, x)) <= Cardinality(all) - 1
  BY <1>1, <1>2, FS_Subset
<1> QED
  BY <1>3, FS_CardinalityType

LEMMA RanksDiffer ==
  ASSUME NEW all, IsFiniteSet(all), NEW x \in all, NEW y \in all, \A z \in all : z.at \in Nat,
         x.at > y.at
  PROVE  Cardinality(Newer(all, x)) < Cardinality(Newer(all, y))
<1>1. IsFiniteSet(Newer(all, y))
  BY FS_Subset DEF Newer
<1>2. Newer(all, x) \subseteq Newer(all, y) \ {x}
  BY DEF Newer, NewerFirst
<1>3. x \in Newer(all, y)
  BY DEF Newer, NewerFirst
<1>4. /\ IsFiniteSet(Newer(all, y) \ {x})
      /\ Cardinality(Newer(all, y) \ {x}) = Cardinality(Newer(all, y)) - 1
  BY <1>1, <1>3, FS_RemoveElement
<1>5. Cardinality(Newer(all, x)) <= Cardinality(Newer(all, y)) - 1
  BY <1>2, <1>4, FS_Subset
<1>6. IsFiniteSet(Newer(all, x))
  BY FS_Subset DEF Newer
<1> QED
  BY <1>1, <1>5, <1>6, FS_CardinalityType

LEMMA EveryRankIsTaken ==
  ASSUME NEW all, IsFiniteSet(all), Apart(all), \A z \in all : z.at \in Nat,
         NEW r \in 0 .. Cardinality(all) - 1
  PROVE  \E x \in all : Cardinality(Newer(all, x)) = r
<1> DEFINE ranks == 0 .. Cardinality(all) - 1
           rank == [x \in all |-> Cardinality(Newer(all, x))]
<1>1. rank \in [all -> ranks]
  BY RanksAreBelow
<1>2. ASSUME NEW x \in all, NEW y \in all, rank[x] = rank[y] PROVE x = y
  <2>1. rank[x] = Cardinality(Newer(all, x)) /\ rank[y] = Cardinality(Newer(all, y))
    OBVIOUS
  <2>2. rank[x] \in Nat /\ rank[y] \in Nat
    BY <1>1
  <2> HIDE DEF rank
  <2>3. x.at > y.at => rank[x] < rank[y]
    BY <2>1, RanksDiffer
  <2>4. y.at > x.at => rank[y] < rank[x]
    BY <2>1, RanksDiffer
  <2>5. x.at = y.at
    BY <1>2, <2>2, <2>3, <2>4
  <2> QED
    BY <2>5 DEF Apart
<1>3. Cardinality(all) \in Nat
  BY FS_CardinalityType
<1>4. IsFiniteSet(ranks) /\ Cardinality(ranks) = Cardinality(all)
  <2>1. /\ IsFiniteSet(ranks)
        /\ Cardinality(ranks) = IF 0 > Cardinality(all) - 1 THEN 0 ELSE Cardinality(all) - 1 - 0 + 1
    <3>1. 0 \in Int /\ Cardinality(all) - 1 \in Int
      BY <1>3
    <3> QED
      BY <3>1, FS_Interval
  <2> QED
    BY <1>3, <2>1
<1> HIDE DEF ranks
<1>5. rank \in Injection(all, ranks)
  BY <1>1, <1>2 DEF Injection, IsInjective
<1>6. rank \in Surjection(all, ranks)
  BY <1>4, <1>5, FS_Injection
<1>7. PICK x \in all : rank[x] = r
  BY <1>6 DEF Surjection, ranks
<1> QED
  BY <1>7

LEMMA OrderedHistory ==
  ASSUME NEW contents, NEW now \in Nat, NEW all \in SUBSET Snapshots(contents, now),
         IsFiniteSet(all), Apart(all)
  PROVE  History(Ordered(all), contents, now) /\ ToSet(Ordered(all)) \subseteq all
<1> DEFINE t == Ordered(all)
           n == Cardinality(all)
<1>1. n \in Nat
  BY FS_CardinalityType
<1>2. \A z \in all : z.at \in Nat
  BY DEF Snapshots
<1>3. ASSUME NEW i \in 1 .. n
      PROVE  t[i] \in all /\ Cardinality(Newer(all, t[i])) = i - 1
  <2>1. i - 1 \in 0 .. n - 1
    BY <1>1
  <2>2. \E x \in all : Cardinality(Newer(all, x)) = i - 1
    BY <1>2, <2>1, EveryRankIsTaken
  <2>3. t[i] = CHOOSE x \in all : Cardinality(Newer(all, x)) = i - 1
    BY DEF Ordered
  <2> QED
    BY <2>2, <2>3
<1>4. DOMAIN t = 1 .. n
  BY DEF Ordered
<1>5. t \in [1 .. n -> Snapshots(contents, now)]
  <2>1. t = [i \in 1 .. n |-> t[i]]
    BY DEF Ordered
  <2> HIDE DEF t
  <2> QED
    BY <1>3, <2>1
<1> HIDE DEF t
<1>6. t \in Seq(Snapshots(contents, now))
  BY <1>1, <1>5, SeqDef
<1>7. Distinct(t)
  <2> SUFFICES ASSUME NEW i \in 1 .. n, NEW j \in 1 .. n, t[i].at = t[j].at PROVE i = j
    BY <1>4 DEF Distinct
  <2>1. t[i] = t[j]
    BY <1>3 DEF Apart
  <2>2. i - 1 = j - 1
    BY <1>3, <2>1
  <2> QED
    BY <1>1, <2>2
<1>8. ToSet(t) \subseteq all
  BY <1>3, <1>4 DEF ToSet
<1> QED
  BY <1>6, <1>7, <1>8 DEF History, t

\* The snapshots of a history are finitely many.
LEMMA FiniteHistory ==
  ASSUME NEW S, NEW s \in Seq(S)
  PROVE  IsFiniteSet(ToSet(s)) /\ ToSet(s) \subseteq S
<1>1. Len(s) \in Nat /\ DOMAIN s = 1 .. Len(s) /\ \A i \in DOMAIN s : s[i] \in S
  BY LenProperties, ElementOfSeq
<1>2. IsFiniteSet(DOMAIN s)
  BY <1>1, FS_Interval
<1>3. s \in Surjection(DOMAIN s, ToSet(s))
  <2>1. s = [i \in DOMAIN s |-> s[i]]
    BY LenProperties
  <2> QED
    BY <2>1 DEF Surjection, ToSet
<1> QED
  BY <1>1, <1>2, <1>3, FS_Surjection DEF ToSet

\* Snapshots of two histories of different times differ in their time.
LEMMA TimesApart ==
  ASSUME NEW contents, NEW now \in Nat, NEW s, History(s, contents, now),
         NEW t, History(t, contents, now), TimesOf(s) \intersect TimesOf(t) = {}
  PROVE  Apart(ToSet(s) \union ToSet(t))
<1> DEFINE all == ToSet(s) \union ToSet(t)
<1> SUFFICES ASSUME NEW x \in all, NEW y \in all, x.at = y.at PROVE x = y
  BY DEF Apart
<1>1. x \in ToSet(s) => x.at \in TimesOf(s)
  BY DEF ToSet, TimesOf
<1>2. y \in ToSet(s) => y.at \in TimesOf(s)
  BY DEF ToSet, TimesOf
<1>3. x \in ToSet(t) => x.at \in TimesOf(t)
  BY DEF ToSet, TimesOf
<1>4. y \in ToSet(t) => y.at \in TimesOf(t)
  BY DEF ToSet, TimesOf
<1>5. CASE x \in ToSet(s) /\ y \in ToSet(s)
  BY <1>5 DEF History, Distinct, ToSet
<1>6. CASE x \in ToSet(t) /\ y \in ToSet(t)
  BY <1>6 DEF History, Distinct, ToSet
<1> QED
  BY <1>1, <1>2, <1>3, <1>4, <1>5, <1>6

\* Two histories of different times merge into one.
LEMMA MergedHistory ==
  ASSUME NEW contents, NEW now \in Nat, NEW s, History(s, contents, now),
         NEW t, History(t, contents, now), TimesOf(s) \intersect TimesOf(t) = {}, NEW n \in Nat
  PROVE  /\ History(Merged(s, t, n), contents, now)
         /\ ToSet(Merged(s, t, n)) \subseteq ToSet(s) \union ToSet(t)
<1> DEFINE all == ToSet(s) \union ToSet(t)
<1>1. /\ IsFiniteSet(ToSet(s)) /\ ToSet(s) \subseteq Snapshots(contents, now)
      /\ IsFiniteSet(ToSet(t)) /\ ToSet(t) \subseteq Snapshots(contents, now)
  BY FiniteHistory DEF History
<1>2. IsFiniteSet(all)
  BY <1>1, FS_Union
<1>3. Apart(all)
  BY TimesApart
<1>4. History(Ordered(all), contents, now) /\ ToSet(Ordered(all)) \subseteq all
  BY <1>1, <1>2, <1>3, OrderedHistory
<1> QED
  BY <1>4, TruncatedHistory DEF Merged

\* The newest snapshot of two histories is the first of what they merge into.
LEMMA MergedKeepsNewest ==
  ASSUME NEW contents, NEW now \in Nat, NEW s, History(s, contents, now),
         NEW t, History(t, contents, now), TimesOf(s) \intersect TimesOf(t) = {},
         NEW n \in Nat \ {0}, NEW x \in ToSet(s) \union ToSet(t),
         \A y \in ToSet(s) \union ToSet(t) : y.at <= x.at
  PROVE  x \in ToSet(Merged(s, t, n))
<1> DEFINE all == ToSet(s) \union ToSet(t)
           size == Cardinality(all)
<1>1. /\ IsFiniteSet(ToSet(s)) /\ ToSet(s) \subseteq Snapshots(contents, now)
      /\ IsFiniteSet(ToSet(t)) /\ ToSet(t) \subseteq Snapshots(contents, now)
  BY FiniteHistory DEF History
<1>2. IsFiniteSet(all) /\ (\A z \in all : z.at \in Nat)
  <2>1. IsFiniteSet(all)
    BY <1>1, FS_Union
  <2>2. \A z \in all : z.at \in Nat
    BY <1>1 DEF Snapshots
  <2> QED
    BY <2>1, <2>2
<1>3. size \in Nat \ {0}
  <2>1. size \in Nat /\ all # {}
    BY <1>2, FS_CardinalityType
  <2> QED
    BY <1>2, <2>1, FS_EmptySet
<1>4. Newer(all, x) = {}
  BY <1>2 DEF Newer, NewerFirst
<1>5. Cardinality(Newer(all, x)) = 0
  BY <1>4, FS_EmptySet
<1>6. Apart(all)
  BY TimesApart
<1>7. ASSUME NEW y \in all, Cardinality(Newer(all, y)) = 0 PROVE y = x
  <2>1. IsFiniteSet(Newer(all, y))
    BY <1>2, FS_Subset DEF Newer
  <2>2. Newer(all, y) = {}
    BY <1>7, <2>1, FS_EmptySet
  <2>3. ~(x.at > y.at)
    BY <2>2 DEF Newer, NewerFirst
  <2>4. x.at = y.at
    BY <1>2, <2>3
  <2> QED
    BY <1>6, <2>4 DEF Apart
<1> HIDE DEF all
<1>8. 1 \in 1 .. size /\ Ordered(all)[1] = x
  <2>1. 1 \in 1 .. size /\ 1 - 1 = 0
    BY <1>3
  <2>2. Ordered(all)[1] = CHOOSE y \in all : Cardinality(Newer(all, y)) = 1 - 1
    BY <2>1 DEF Ordered
  <2> QED
    BY <1>5, <1>7, <2>1, <2>2 DEF all
<1>9. History(Ordered(all), contents, now) /\ DOMAIN Ordered(all) = 1 .. size
  <2>1. all \in SUBSET Snapshots(contents, now)
    BY <1>1 DEF all
  <2>2. History(Ordered(all), contents, now)
    BY <1>2, <1>6, <2>1, OrderedHistory
  <2>3. DOMAIN Ordered(all) = 1 .. size
    BY DEF Ordered
  <2> QED
    BY <2>2, <2>3
<1>10. x \in ToSet(Truncated(Ordered(all), n))
  BY <1>8, <1>9, TruncatedFirst
<1> QED
  BY <1>10 DEF Merged, all

-----------------------------------------------------------------------------
(* Sequences and times                                                         *)

\* A finite set has an order that lists its elements.
LEMMA SetToSeqLists ==
  ASSUME NEW S, IsFiniteSet(S)
  PROVE  /\ SetToSeq(S) \in Seq(S)
         /\ \A x \in S : \E i \in DOMAIN SetToSeq(S) : SetToSeq(S)[i] = x
<1>1. Cardinality(S) \in Nat /\ ExistsBijection(1 .. Cardinality(S), S)
  BY FS_CardinalityType
<1>2. \E f \in [1 .. Cardinality(S) -> S] : IsInjective(f)
  BY <1>1 DEF ExistsBijection, Bijection, Injection
<1>3. SetToSeq(S) \in [1 .. Cardinality(S) -> S] /\ IsInjective(SetToSeq(S))
  BY <1>2 DEF SetToSeq
<1>4. SetToSeq(S) \in Injection(1 .. Cardinality(S), S)
  BY <1>3 DEF Injection
<1>5. Cardinality(1 .. Cardinality(S)) = Cardinality(S)
  <2>1. 1 \in Int /\ Cardinality(S) \in Int
    BY <1>1
  <2>2. Cardinality(1 .. Cardinality(S)) = IF 1 > Cardinality(S) THEN 0 ELSE Cardinality(S) - 1 + 1
    BY <2>1, FS_Interval
  <2> QED
    BY <1>1, <2>2
<1>6. SetToSeq(S) \in Surjection(1 .. Cardinality(S), S)
  BY <1>4, <1>5, FS_Injection
<1> QED
  BY <1>1, <1>3, <1>6 DEF Surjection

LEMMA TimesOfElements ==
  ASSUME NEW s PROVE TimesOf(s) = {x.at : x \in ToSet(s)}
BY DEF TimesOf, ToSet

LEMMA TimesSoFar ==
  ASSUME NEW contents, NEW now, NEW s, History(s, contents, now)
  PROVE  TimesOf(s) \subseteq 1 .. now
<1>1. \A i \in DOMAIN s : s[i] \in Snapshots(contents, now)
  BY LenProperties, ElementOfSeq DEF History
<1> QED
  BY <1>1 DEF Snapshots, TimesOf

-----------------------------------------------------------------------------
(* The histories of several plans, one each: every time is in one place.       *)

Filed(h, ids, contents, now) ==
    /\ DOMAIN h = ids
    /\ \A id \in ids : History(h[id], contents, now)
    /\ \A id, other \in ids : id # other =>
           TimesOf(h[id]) \cap TimesOf(h[other]) = {}

\* Histories that only lost snapshots or got new ones, each of its own time.
LEMMA FiledChange ==
  ASSUME NEW ids, NEW contents, NEW now \in Nat, NEW later \in Nat, now <= later,
         NEW h, Filed(h, ids, contents, now), NEW h2, DOMAIN h2 = ids,
         \A id \in ids : History(h2[id], contents, later),
         NEW new, \A id \in ids : new[id] \subseteq (now + 1) .. later,
         \A id, other \in ids : id # other => new[id] \cap new[other] = {},
         \A id \in ids : TimesOf(h2[id]) \subseteq TimesOf(h[id]) \union new[id]
  PROVE  Filed(h2, ids, contents, later)
<1>1. \A id \in ids : TimesOf(h[id]) \subseteq 1 .. now
  BY TimesSoFar DEF Filed
<1>2. ASSUME NEW id \in ids, NEW other \in ids, id # other,
             NEW at \in TimesOf(h2[id]), at \in TimesOf(h2[other])
      PROVE  FALSE
  <2>1. at \in TimesOf(h[id]) \union new[id] /\ at \in TimesOf(h[other]) \union new[other]
    BY <1>2
  <2>2. ~(at \in TimesOf(h[id]) /\ at \in TimesOf(h[other]))
    BY <1>2 DEF Filed
  <2>3. ~(at \in new[id] /\ at \in new[other])
    BY <1>2
  <2>4. ~(at \in 1 .. now /\ at \in (now + 1) .. later)
    OBVIOUS
  <2>5. at \in new[id] \/ at \in new[other] => at \in (now + 1) .. later
    BY <1>2
  <2>6. at \in TimesOf(h[id]) \/ at \in TimesOf(h[other]) => at \in 1 .. now
    BY <1>1, <1>2
  <2> QED
    BY <2>1, <2>2, <2>3, <2>4, <2>5, <2>6
<1> QED
  BY <1>2 DEF Filed

LEMMA FiledLater ==
  ASSUME NEW ids, NEW contents, NEW now \in Nat, NEW later \in Nat, now <= later,
         NEW h, Filed(h, ids, contents, now)
  PROVE  Filed(h, ids, contents, later)
BY HistoryLater DEF Filed

LEMMA FiledWider ==
  ASSUME NEW ids, NEW contents, NEW more, contents \subseteq more, NEW now,
         NEW h, Filed(h, ids, contents, now)
  PROVE  Filed(h, ids, more, now)
BY HistoryWider DEF Filed

LEMMA FiledFewer ==
  ASSUME NEW ids, NEW contents, NEW now \in Nat,
         NEW h, Filed(h, ids, contents, now), NEW h2, DOMAIN h2 = ids,
         \A id \in ids : History(h2[id], contents, now) /\ TimesOf(h2[id]) \subseteq TimesOf(h[id])
  PROVE  Filed(h2, ids, contents, now)
BY DEF Filed

\* One history that lost snapshots.
LEMMA FiledPart ==
  ASSUME NEW ids, NEW contents, NEW now \in Nat,
         NEW h, Filed(h, ids, contents, now), NEW id, NEW s,
         id \in ids => History(s, contents, now) /\ TimesOf(s) \subseteq TimesOf(h[id])
  PROVE  Filed([h EXCEPT ![id] = s], ids, contents, now)
<1> DEFINE h2 == [h EXCEPT ![id] = s]
<1>1. DOMAIN h2 = ids
  BY DEF Filed
<1>2. \A i \in ids : h2[i] = IF i = id THEN s ELSE h[i]
  BY DEF Filed
<1> HIDE DEF h2
<1>3. \A i \in ids : History(h2[i], contents, now) /\ TimesOf(h2[i]) \subseteq TimesOf(h[i])
  BY <1>2 DEF Filed
<1>4. Filed(h2, ids, contents, now)
  BY <1>1, <1>3, FiledFewer
<1> QED
  BY <1>4 DEF h2

LEMMA FiledWithout ==
  ASSUME NEW ids, NEW contents, NEW now \in Nat,
         NEW h, Filed(h, ids, contents, now), NEW id
  PROVE  Filed([h EXCEPT ![id] = <<>>], ids, contents, now)
<1>1. PICK s : s = <<>>
  OBVIOUS
<1>2. History(s, contents, now) /\ TimesOf(s) = {}
  BY <1>1, EmptyHistory
<1>3. Filed([h EXCEPT ![id] = s], ids, contents, now)
  BY <1>2, FiledPart
<1> QED
  BY <1>1, <1>3

\* One history that a new snapshot joined.
LEMMA FiledNew ==
  ASSUME NEW ids, NEW contents, NEW now \in Nat,
         NEW h, Filed(h, ids, contents, now), NEW id \in ids, NEW s,
         History(s, contents, now + 1), TimesOf(s) \subseteq TimesOf(h[id]) \union {now + 1}
  PROVE  Filed([h EXCEPT ![id] = s], ids, contents, now + 1)
<1> DEFINE h2 == [h EXCEPT ![id] = s]
           new == [i \in ids |-> IF i = id THEN {now + 1} ELSE {}]
<1>1. DOMAIN h2 = ids
  BY DEF Filed
<1>2. \A i \in ids : h2[i] = IF i = id THEN s ELSE h[i]
  BY DEF Filed
<1>3. \A i \in ids : History(h[i], contents, now + 1)
  BY HistoryLater DEF Filed
<1>4. /\ \A i \in ids : new[i] \subseteq (now + 1) .. (now + 1)
      /\ \A i, j \in ids : i # j => new[i] \cap new[j] = {}
  OBVIOUS
<1>5. new[id] = {now + 1}
  OBVIOUS
<1> HIDE DEF h2, new
<1>6. /\ \A i \in ids : History(h2[i], contents, now + 1)
      /\ \A i \in ids : TimesOf(h2[i]) \subseteq TimesOf(h[i]) \union new[i]
  BY <1>2, <1>3, <1>5
<1>7. now + 1 \in Nat /\ now <= now + 1
  OBVIOUS
<1>8. Filed(h2, ids, contents, now + 1)
  BY <1>1, <1>4, <1>6, <1>7, FiledChange
<1> QED
  BY <1>8 DEF h2

\* Two plans whose histories a move merged.
LEMMA FiledMerge ==
  ASSUME NEW ids, NEW contents, NEW now \in Nat,
         NEW h, Filed(h, ids, contents, now), NEW id \in ids, NEW to \in ids, id # to,
         NEW n \in Nat
  PROVE  Filed([h EXCEPT ![to] = Merged(@, h[id], n), ![id] = <<>>], ids, contents, now)
<1> DEFINE h2 == [h EXCEPT ![to] = Merged(@, h[id], n), ![id] = <<>>]
           merged == Merged(h[to], h[id], n)
<1>1. DOMAIN h2 = ids
  BY DEF Filed
<1>2. \A i \in ids : h2[i] = IF i = id THEN <<>> ELSE IF i = to THEN merged ELSE h[i]
  BY DEF Filed
<1>3. /\ History(merged, contents, now)
      /\ TimesOf(merged) \subseteq TimesOf(h[to]) \union TimesOf(h[id])
  <2>1. /\ History(h[to], contents, now) /\ History(h[id], contents, now)
        /\ TimesOf(h[to]) \cap TimesOf(h[id]) = {}
    BY DEF Filed
  <2>2. /\ History(merged, contents, now)
        /\ ToSet(merged) \subseteq ToSet(h[to]) \union ToSet(h[id])
    BY <2>1, MergedHistory
  <2> HIDE DEF merged
  <2> QED
    BY <2>2, TimesOfElements
<1> HIDE DEF h2, merged
<1>4. \A i \in ids : History(h2[i], contents, now)
  BY <1>2, <1>3, EmptyHistory DEF Filed
<1>5. TimesOf(<<>>) = {}
  BY EmptyHistory
<1>6. ASSUME NEW i \in ids, NEW j \in ids, i # j PROVE TimesOf(h2[i]) \cap TimesOf(h2[j]) = {}
  <2>1. CASE i = id \/ j = id
    BY <1>2, <1>5, <2>1
  <2>2. CASE i # id /\ j # id
    BY <1>2, <1>3, <1>6, <2>2 DEF Filed
  <2> QED
    BY <2>1, <2>2
<1>7. Filed(h2, ids, contents, now)
  BY <1>1, <1>4, <1>6 DEF Filed
<1> QED
  BY <1>7 DEF h2

\* A history that a new snapshot joins, of the next time.
LEMMA NextRotated ==
  ASSUME NEW contents, NEW now \in Nat, NEW s, History(s, contents, now),
         NEW c \in contents, NEW r \in BOOLEAN, NEW n \in Nat
  PROVE  /\ History(Rotated(s, [at |-> now + 1, content |-> c, restored |-> r], n),
                    contents, now + 1)
         /\ TimesOf(Rotated(s, [at |-> now + 1, content |-> c, restored |-> r], n))
               \subseteq TimesOf(s) \union {now + 1}
         /\ ToSet(Rotated(s, [at |-> now + 1, content |-> c, restored |-> r], n))
               \subseteq ToSet(s) \union {[at |-> now + 1, content |-> c, restored |-> r]}
<1> DEFINE snap == [at |-> now + 1, content |-> c, restored |-> r]
           new == Rotated(s, snap, n)
<1>1. PICK later \in Nat : later = now + 1
  OBVIOUS
<1>2. TimesOf(s) \subseteq 1 .. now
  BY TimesSoFar
<1>3. snap.at = later /\ snap.at \notin TimesOf(s) /\ snap \in Snapshots(contents, later)
  BY <1>1, <1>2 DEF Snapshots
<1>4. History(s, contents, later)
  BY <1>1, HistoryLater
<1> HIDE DEF snap
<1>5. History(new, contents, later) /\ ToSet(new) \subseteq ToSet(s) \union {snap}
  BY <1>3, <1>4, RotatedHistory
<1> HIDE DEF new
<1>6. TimesOf(new) \subseteq TimesOf(s) \union {later}
  BY <1>3, <1>5, TimesOfElements
<1> QED
  BY <1>1, <1>5, <1>6 DEF new, snap

LEMMA NextFirst ==
  ASSUME NEW contents, NEW now \in Nat, NEW s, History(s, contents, now),
         NEW c \in contents, NEW r \in BOOLEAN, NEW n \in Nat \ {0}
  PROVE  [at |-> now + 1, content |-> c, restored |-> r]
             \in ToSet(Rotated(s, [at |-> now + 1, content |-> c, restored |-> r], n))
<1> DEFINE snap == [at |-> now + 1, content |-> c, restored |-> r]
           all == <<snap>> \o s
<1>1. PICK later \in Nat : later = now + 1
  OBVIOUS
<1>2. TimesOf(s) \subseteq 1 .. now
  BY TimesSoFar
<1>3. snap.at = later /\ snap.at \notin TimesOf(s) /\ snap \in Snapshots(contents, later)
  BY <1>1, <1>2 DEF Snapshots
<1>4. History(s, contents, later)
  BY <1>1, HistoryLater
<1> HIDE DEF snap
<1>5. History(all, contents, later)
  BY <1>3, <1>4, InFront
<1>6. 1 \in DOMAIN all /\ all[1] = snap
  <2>1. s \in Seq(Snapshots(contents, later)) /\ <<snap>> \in Seq(Snapshots(contents, later))
    BY <1>3, <1>4 DEF History
  <2>2. Len(<<snap>>) = 1 /\ <<snap>>[1] = snap /\ Len(s) \in Nat
    BY <2>1, LenProperties
  <2>3. /\ all \in Seq(Snapshots(contents, later)) /\ Len(all) = 1 + Len(s)
        /\ \A i \in 1 .. 1 + Len(s) : all[i] = IF i <= 1 THEN <<snap>>[i] ELSE s[i - 1]
    BY <2>1, <2>2, ConcatProperties
  <2>4. DOMAIN all = 1 .. 1 + Len(s)
    BY <2>3, LenProperties
  <2> HIDE DEF all
  <2> QED
    BY <2>2, <2>3, <2>4
<1> HIDE DEF all
<1>7. all[1] \in ToSet(Truncated(all, n))
  BY <1>5, <1>6, TruncatedFirst
<1> QED
  BY <1>6, <1>7 DEF Rotated, all, snap

==============================================================================
