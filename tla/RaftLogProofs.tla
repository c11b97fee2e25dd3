--------------------------- MODULE RaftLogProofs ---------------------------
(***************************************************************************)
(* What the operations of raft::log do, for logs of any length: each is    *)
(* characterised by the indices of the log it returns and by the entries   *)
(* there.  The loops of maybe_append() and of apply_snapshot(), which the  *)
(* model states as a choice, are shown to have a result by the least       *)
(* number principle.  A second part shows that each operation keeps what   *)
(* the log caches equal to what a scan of its entries would compute.       *)
(***************************************************************************)
EXTENDS RaftLog, FiniteSetTheorems, SequenceTheorems, WellFoundedInduction, TLAPS

Fields == {"snapshot", "entries", "first_idx", "stable_idx", "last_conf_idx", "prev_conf_idx",
           "memory_usage"}

\* The parts of a log, with entries of S.
LogShape(l, S) ==
  /\ DOMAIN l = Fields /\ l.entries \in Seq(S) /\ l.first_idx \in Nat \ {0} /\ l.stable_idx \in Nat

\* A log whose entries are in their places, from its first index on.
IsLog(l, S) ==
  LogShape(l, S) /\ \A k \in 1..Len(l.entries) : l.entries[k].idx = l.first_idx + k - 1

\* Logs m and l have the same entries at lo..hi.
Same(m, l, lo, hi) == \A i \in lo..hi : GetEntry(m, i) = GetEntry(l, i)

\* The least number principle, from the induction theorems of the library: every set of
\* numbers with an element has a least one.
LEMMA LeastNumber ==
  ASSUME NEW S \in SUBSET Nat, S # {}
  PROVE  \E n \in S : \A m \in S : n <= m
<1> DEFINE R == {ss \in Nat \X Nat : ss[1] < ss[2]}
<1>1. IsWellFoundedOn(R, Nat)
  BY NatLessThanWellFounded DEF OpToRel
<1>2. PICK n \in S : \A m \in S : <<m, n>> \notin R
  <2> HIDE DEF R
  <2> QED BY WFMin, <1>1
<1>3. \A m \in S : ~(m < n)
  BY <1>2
<1> QED BY <1>3

\* memory_usage() is a number, and nothing for no entries.
LEMMA MemoryUsageIsNat ==
  /\ \A S : \A es \in Seq(S) : MemoryUsage(es) \in Nat
  /\ MemoryUsage(<< >>) = 0
<1>1. ASSUME NEW S, NEW es \in Seq(S)
      PROVE  MemoryUsage(es) \in Nat
  <2>1. IsFiniteSet(1..Len(es))
    BY FS_Interval
  <2>2. IsFiniteSet({k \in 1..Len(es) : es[k].kind = "command"})
    BY <2>1, FS_Subset
  <2> QED BY <2>2, FS_CardinalityType DEF MemoryUsage
<1>2. {k \in 1..Len(<< >>) : << >>[k].kind = "command"} = {}
  OBVIOUS
<1> QED BY <1>1, <1>2, FS_EmptySet DEF MemoryUsage

\* The entry at an index of a log.
LEMMA EntryIs ==
  ASSUME NEW S, NEW l, IsLog(l, S)
  PROVE  /\ l.first_idx \in Nat \ {0} /\ LastIdx(l) \in Nat /\ l.first_idx <= LastIdx(l) + 1
         /\ \A i \in l.first_idx..LastIdx(l) :
              /\ Pos(l, i) \in 1..Len(l.entries)
              /\ GetEntry(l, i) \in S /\ GetEntry(l, i).idx = i
<1>1. l.entries \in Seq(S) /\ Len(l.entries) \in Nat /\ l.first_idx \in Nat \ {0}
  BY DEF IsLog, LogShape
<1>2. LastIdx(l) \in Nat /\ l.first_idx <= LastIdx(l) + 1
  BY <1>1 DEF LastIdx
<1>3. \A i \in l.first_idx..LastIdx(l) : Pos(l, i) \in 1..Len(l.entries) /\ l.first_idx + Pos(l, i) - 1 = i
  BY SMTT(60), <1>1 DEF LastIdx, Pos
<1>4. \A k \in 1..Len(l.entries) : l.entries[k] \in S /\ l.entries[k].idx = l.first_idx + k - 1
  BY <1>1 DEF IsLog
<1> QED BY <1>1, <1>2, <1>3, <1>4 DEF GetEntry

\* A slice of a log.
LEMMA SliceIs ==
  ASSUME NEW S, NEW l, IsLog(l, S), NEW lo \in Nat, NEW hi \in Nat, l.first_idx <= lo, hi <= LastIdx(l)
  PROVE  /\ Slice(l, lo, hi) \in Seq(S)
         /\ Len(Slice(l, lo, hi)) = IF lo <= hi THEN hi - lo + 1 ELSE 0
         /\ \A k \in 1..(hi - lo + 1) : Slice(l, lo, hi)[k] = GetEntry(l, lo + k - 1)
<1>1. l.entries \in Seq(S) /\ Len(l.entries) \in Nat /\ l.first_idx \in Nat
  BY DEF IsLog, LogShape
<1>2. PICK a, b, n, f : a = Pos(l, lo) /\ b = Pos(l, hi) /\ n = Len(l.entries) /\ f = l.first_idx
  OBVIOUS
<1>3. a = lo - f + 1 /\ b = hi - f + 1 /\ hi <= f + n - 1 /\ n \in Nat /\ f \in Nat /\ f <= lo
  <2>1. n \in Nat /\ f \in Nat /\ f <= lo
    BY <1>1, <1>2
  <2>2. a = lo - f + 1 /\ b = hi - f + 1
    BY <1>2 DEF Pos
  <2>3. LastIdx(l) = f + n - 1
    BY <1>2, <2>1 DEF LastIdx
  <2> QED BY <2>1, <2>2, <2>3
<1>4. a \in Int /\ b \in Int /\ a >= 1 /\ b <= n /\ b - a = hi - lo /\ a..b \subseteq 1..n
  BY <1>3
<1>5. l.entries \in Seq(S) /\ \A i \in a..b : l.entries[i] \in S
  BY <1>1, <1>2, <1>4
<1>6. PICK es : es = SubSeq(l.entries, a, b)
  OBVIOUS
<1>7. /\ es \in Seq(S) /\ Len(es) = IF a <= b THEN b - a + 1 ELSE 0
      /\ \A k \in 1..(b - a + 1) : es[k] = l.entries[a + k - 1]
  BY <1>4, <1>5, <1>6, SubSeqProperties
<1>8. Len(es) = IF lo <= hi THEN hi - lo + 1 ELSE 0
  BY <1>3, <1>4, <1>7
<1>9. \A k \in 1..(hi - lo + 1) : a + k - 1 = Pos(l, lo + k - 1)
  BY <1>2, <1>3 DEF Pos
<1>10. \A k \in 1..(hi - lo + 1) : es[k] = GetEntry(l, lo + k - 1)
  BY <1>4, <1>7, <1>9 DEF GetEntry
<1>11. es = Slice(l, lo, hi)
  BY <1>2, <1>6 DEF Slice
<1> QED BY <1>7, <1>8, <1>10, <1>11

\* log::emplace_back()
LEMMA EmplaceBackIs ==
  ASSUME NEW S, NEW l, IsLog(l, S), NEW e \in S, e.idx = NextIdx(l)
  PROVE  /\ IsLog(EmplaceBack(l, e), S)
         /\ EmplaceBack(l, e).snapshot = l.snapshot
         /\ EmplaceBack(l, e).first_idx = l.first_idx /\ EmplaceBack(l, e).stable_idx = l.stable_idx
         /\ LastIdx(EmplaceBack(l, e)) = LastIdx(l) + 1
         /\ GetEntry(EmplaceBack(l, e), NextIdx(l)) = e
         /\ Same(EmplaceBack(l, e), l, l.first_idx, LastIdx(l))
<1> DEFINE m == EmplaceBack(l, e)
<1>1. LogShape(l, S) /\ l.entries \in Seq(S) /\ Len(l.entries) \in Nat /\ l.first_idx \in Nat \ {0}
  BY DEF IsLog, LogShape
<1>2. /\ DOMAIN m = Fields /\ m.entries = Append(l.entries, e)
      /\ m.snapshot = l.snapshot /\ m.first_idx = l.first_idx /\ m.stable_idx = l.stable_idx
  BY <1>1 DEF LogShape, EmplaceBack, Fields
<1> HIDE DEF m
<1>3. /\ m.entries \in Seq(S) /\ Len(m.entries) = Len(l.entries) + 1
      /\ \A k \in 1..Len(l.entries) : m.entries[k] = l.entries[k]
      /\ m.entries[Len(l.entries) + 1] = e
  BY <1>1, <1>2
<1>4. LogShape(m, S)
  BY <1>1, <1>2, <1>3 DEF LogShape
<1>5. \A k \in 1..Len(m.entries) : m.entries[k].idx = m.first_idx + k - 1
  BY <1>1, <1>2, <1>3 DEF IsLog, NextIdx, LastIdx
<1>6. LastIdx(m) = LastIdx(l) + 1 /\ Pos(m, NextIdx(l)) = Len(l.entries) + 1
  BY <1>1, <1>2, <1>3 DEF LastIdx, Pos, NextIdx
<1>7. \A i \in l.first_idx..LastIdx(l) : Pos(m, i) = Pos(l, i) /\ Pos(l, i) \in 1..Len(l.entries)
  BY <1>1, <1>2 DEF LastIdx, Pos
<1> QED BY <1>2, <1>3, <1>4, <1>5, <1>6, <1>7 DEF IsLog, GetEntry, Same, m

\* log::truncate_uncommitted()
LEMMA TruncateIs ==
  ASSUME NEW S, NEW l, IsLog(l, S), NEW idx \in Nat, l.first_idx <= idx, idx <= LastIdx(l)
  PROVE  /\ IsLog(TruncateUncommitted(l, idx), S)
         /\ TruncateUncommitted(l, idx).snapshot = l.snapshot
         /\ TruncateUncommitted(l, idx).first_idx = l.first_idx
         /\ TruncateUncommitted(l, idx).stable_idx = MinOf(l.stable_idx, idx - 1)
         /\ LastIdx(TruncateUncommitted(l, idx)) = idx - 1
         /\ Same(TruncateUncommitted(l, idx), l, l.first_idx, idx - 1)
<1> DEFINE m == TruncateUncommitted(l, idx)
<1>1. LogShape(l, S) /\ l.entries \in Seq(S) /\ Len(l.entries) \in Nat /\ l.first_idx \in Nat \ {0}
  BY DEF IsLog, LogShape
<1>2. /\ DOMAIN m = Fields /\ m.entries = SubSeq(l.entries, 1, Pos(l, idx) - 1)
      /\ m.snapshot = l.snapshot /\ m.first_idx = l.first_idx
      /\ m.stable_idx = MinOf(l.stable_idx, idx - 1)
  BY <1>1 DEF LogShape, TruncateUncommitted, Fields
<1> HIDE DEF m
<1>3. /\ Pos(l, idx) = idx - l.first_idx + 1 /\ Pos(l, idx) \in 1..Len(l.entries)
  BY <1>1 DEF Pos, LastIdx
<1>4. /\ m.entries \in Seq(S) /\ Len(m.entries) = Pos(l, idx) - 1
      /\ \A k \in 1..(Pos(l, idx) - 1) : m.entries[k] = l.entries[k]
  <2> DEFINE n == Pos(l, idx) - 1
  <2>1. n \in Nat /\ n <= Len(l.entries) /\ \A i \in 1..n : l.entries[i] \in S
    BY <1>1, <1>3
  <2> HIDE DEF n
  <2>2. /\ SubSeq(l.entries, 1, n) \in Seq(S)
        /\ Len(SubSeq(l.entries, 1, n)) = IF 1 <= n THEN n - 1 + 1 ELSE 0
        /\ \A k \in 1..(n - 1 + 1) : SubSeq(l.entries, 1, n)[k] = l.entries[1 + k - 1]
    BY <2>1, SubSeqProperties
  <2>3. \A k \in 1..n : 1 + k - 1 = k
    BY <2>1
  <2>4. m.entries = SubSeq(l.entries, 1, n)
    BY <1>2 DEF n
  <2>5. Len(m.entries) = n /\ \A k \in 1..n : m.entries[k] = l.entries[k]
    BY <2>1, <2>2, <2>3, <2>4
  <2> QED BY <2>2, <2>4, <2>5 DEF n
<1>5. m.stable_idx \in Nat
  BY <1>1, <1>2 DEF LogShape, MinOf
<1>6. LogShape(m, S)
  BY <1>1, <1>2, <1>4, <1>5 DEF LogShape
<1>7. \A k \in 1..Len(m.entries) : m.entries[k].idx = m.first_idx + k - 1
  <2>1. \A k \in 1..Len(l.entries) : l.entries[k].idx = l.first_idx + k - 1
    BY DEF IsLog
  <2> QED BY SMTT(60), <1>1, <1>2, <1>3, <1>4, <2>1
<1>8. LastIdx(m) = idx - 1
  BY <1>1, <1>2, <1>3, <1>4 DEF LastIdx
<1>9. \A i \in l.first_idx..(idx - 1) : Pos(m, i) = Pos(l, i) /\ Pos(l, i) \in 1..(Pos(l, idx) - 1)
  BY <1>1, <1>2 DEF Pos
<1> QED BY <1>2, <1>4, <1>6, <1>7, <1>8, <1>9 DEF IsLog, GetEntry, Same, m

\* The loop of maybe_append() that emplaces entries.
LEMMA EmplaceAllIs ==
  ASSUME NEW S, NEW l, IsLog(l, S), NEW es \in Seq(S),
         \A k \in 1..Len(es) : es[k].idx = LastIdx(l) + k
  PROVE  /\ IsLog(EmplaceAll(l, es), S)
         /\ EmplaceAll(l, es).snapshot = l.snapshot
         /\ EmplaceAll(l, es).first_idx = l.first_idx
         /\ EmplaceAll(l, es).stable_idx = l.stable_idx
         /\ LastIdx(EmplaceAll(l, es)) = LastIdx(l) + Len(es)
         /\ Same(EmplaceAll(l, es), l, l.first_idx, LastIdx(l))
         /\ \A k \in 1..Len(es) : GetEntry(EmplaceAll(l, es), LastIdx(l) + k) = es[k]
<1> DEFINE m == EmplaceAll(l, es)
<1>1. /\ LogShape(l, S) /\ l.entries \in Seq(S) /\ Len(l.entries) \in Nat /\ l.first_idx \in Nat \ {0}
      /\ Len(es) \in Nat
  BY DEF IsLog, LogShape
<1>2. /\ DOMAIN m = Fields /\ m.entries = l.entries \o es
      /\ m.snapshot = l.snapshot /\ m.first_idx = l.first_idx /\ m.stable_idx = l.stable_idx
  BY <1>1 DEF LogShape, EmplaceAll, Fields
<1> HIDE DEF m
<1>3. /\ m.entries \in Seq(S) /\ Len(m.entries) = Len(l.entries) + Len(es)
      /\ \A k \in 1..(Len(l.entries) + Len(es)) :
           m.entries[k] = IF k <= Len(l.entries) THEN l.entries[k] ELSE es[k - Len(l.entries)]
  BY <1>1, <1>2, ConcatProperties
<1>4. LogShape(m, S) /\ m.first_idx = l.first_idx
  BY <1>1, <1>2, <1>3 DEF LogShape
<1>5. \A k \in 1..Len(l.entries) : m.entries[k] = l.entries[k]
  <2> TAKE k \in 1..Len(l.entries)
  <2>1. k \in 1..(Len(l.entries) + Len(es)) /\ k <= Len(l.entries)
    BY <1>1
  <2> QED BY <1>3, <2>1
<1>6. \A k \in 1..Len(es) : m.entries[Len(l.entries) + k] = es[k]
  <2> TAKE k \in 1..Len(es)
  <2> DEFINE x == Len(l.entries) + k
  <2>1. x \in 1..(Len(l.entries) + Len(es)) /\ ~(x <= Len(l.entries)) /\ x - Len(l.entries) = k
    BY <1>1
  <2> HIDE DEF x
  <2>2. m.entries[x] = IF x <= Len(l.entries) THEN l.entries[x] ELSE es[x - Len(l.entries)]
    BY <1>3, <2>1
  <2>3. m.entries[x] = es[k]
    BY <2>1, <2>2
  <2> QED BY <2>3 DEF x
<1>7. LastIdx(l) = Len(l.entries) + l.first_idx - 1 /\ LastIdx(m) = LastIdx(l) + Len(es)
  BY <1>1, <1>3, <1>4 DEF LastIdx
<1>8. \A k \in 1..Len(m.entries) : m.entries[k].idx = m.first_idx + k - 1
  <2> TAKE k \in 1..Len(m.entries)
  <2>1. CASE k <= Len(l.entries)
    <3>1. k \in 1..Len(l.entries)
      BY <1>1, <1>3, <2>1
    <3> QED BY <1>4, <1>5, <3>1 DEF IsLog
  <2>2. CASE k > Len(l.entries)
    <3> DEFINE j == k - Len(l.entries)
    <3>1. j \in 1..Len(es) /\ Len(l.entries) + j = k
      BY <1>1, <1>3, <2>2
    <3>2. m.entries[k] = es[j]
      BY <1>6, <3>1
    <3>3. es[j].idx = LastIdx(l) + j
      BY <3>1
    <3>4. LastIdx(l) + j = m.first_idx + k - 1
      BY <1>1, <1>4, <1>7, <3>1
    <3> QED BY <3>2, <3>3, <3>4
  <2> QED BY <1>1, <1>3, <2>1, <2>2
<1>9. Same(m, l, l.first_idx, LastIdx(l))
  <2>1. \A i \in l.first_idx..LastIdx(l) : Pos(m, i) = Pos(l, i) /\ Pos(l, i) \in 1..Len(l.entries)
    BY SMTT(60), <1>1, <1>4, <1>7 DEF Pos
  <2> QED BY <1>5, <2>1 DEF Same, GetEntry
<1>10. \A k \in 1..Len(es) : GetEntry(m, LastIdx(l) + k) = es[k]
  <2> TAKE k \in 1..Len(es)
  <2>1. Pos(m, LastIdx(l) + k) = Len(l.entries) + k
    BY <1>1, <1>4, <1>7 DEF Pos
  <2> QED BY <1>6, <2>1 DEF GetEntry
<1> QED BY <1>2, <1>4, <1>7, <1>8, <1>9, <1>10 DEF IsLog, m

\* The scan of maybe_append() stops at the first entry that the log does not have.
LEMMA FirstNewIs ==
  ASSUME NEW S, NEW l, NEW es \in Seq(S)
  PROVE  /\ FirstNew(l, es) \in 1..(Len(es) + 1)
         /\ \A j \in 1..(FirstNew(l, es) - 1) : AlreadyHas(l, es[j])
         /\ FirstNew(l, es) <= Len(es) => ~AlreadyHas(l, es[FirstNew(l, es)])
<1> DEFINE New == {k \in 1..(Len(es) + 1) : k = Len(es) + 1 \/ ~AlreadyHas(l, es[k])}
<1>1. Len(es) \in Nat
  OBVIOUS
<1>2. New \in SUBSET Nat /\ Len(es) + 1 \in New
  BY <1>1
<1>3. PICK k \in New : \A m \in New : k <= m
  <2> HIDE DEF New
  <2> QED BY <1>2, LeastNumber
<1>4. k \in 1..(Len(es) + 1) /\ (k <= Len(es) => ~AlreadyHas(l, es[k]))
  BY <1>1
<1>5. \A j \in 1..(k - 1) : AlreadyHas(l, es[j])
  <2> TAKE j \in 1..(k - 1)
  <2>1. j \in 1..(Len(es) + 1) /\ j # Len(es) + 1 /\ ~(k <= j)
    BY <1>1
  <2> QED BY <1>3, <2>1
<1> HIDE DEF New
<1> QED BY <1>4, <1>5 DEF FirstNew

\* Positions in a message that starts after index p, and indices from q on.
LEMMA Offsets ==
  \A n \in Nat : \A k \in 1..n : \A p \in Nat : \A q : q = p + k =>
    /\ \A j \in 1..(n - k + 1) : k + j - 1 \in 1..n /\ p + (k + j - 1) = q - 1 + j
    /\ \A i \in q..(p + n) :
         /\ i - q + 1 \in 1..(n - k + 1) /\ q - 1 + (i - q + 1) = i
         /\ k + (i - q + 1) - 1 = i - p
OBVIOUS

\* A message with the entries es after index p, of which the k-th, at index q, is the
\* first that is new to log l: it continues the log or replaces one of its entries.
NewFrom(l, S, es, p, k, q) ==
  /\ IsLog(l, S) /\ es \in Seq(S) /\ p \in Nat /\ \A j \in 1..Len(es) : es[j].idx = p + j
  /\ k \in 1..Len(es) /\ k = FirstNew(l, es)
  /\ q = p + k /\ l.first_idx <= q /\ q <= NextIdx(l)

\* log::maybe_append() of a message with new entries.
LEMMA MaybeAppendIs ==
  ASSUME NEW S, NEW l, NEW es, NEW p, NEW k, NEW q, NewFrom(l, S, es, p, k, q)
  PROVE  /\ IsLog(MaybeAppend(l, es), S)
         /\ MaybeAppend(l, es).snapshot = l.snapshot
         /\ MaybeAppend(l, es).first_idx = l.first_idx
         /\ MaybeAppend(l, es).stable_idx =
              IF q <= LastIdx(l) THEN MinOf(l.stable_idx, q - 1) ELSE l.stable_idx
         /\ LastIdx(MaybeAppend(l, es)) = p + Len(es)
         /\ Same(MaybeAppend(l, es), l, l.first_idx, q - 1)
         /\ \A i \in q..(p + Len(es)) : GetEntry(MaybeAppend(l, es), i) = es[i - p]
<1> DEFINE cut == IF es[k].idx <= LastIdx(l) THEN TruncateUncommitted(l, es[k].idx) ELSE l
           new == SubSeq(es, k, Len(es))
           m == EmplaceAll(cut, new)
<1>0. IsLog(l, S) /\ es \in Seq(S)
  BY DEF NewFrom
<1>1. /\ Len(es) \in Nat /\ k \in 1..Len(es) /\ p \in Nat /\ q \in Nat /\ q = p + k
      /\ q <= LastIdx(l) + 1
  BY DEF NewFrom, NextIdx
<1>2. l.first_idx \in Nat \ {0} /\ LastIdx(l) \in Nat /\ l.first_idx <= q
  BY DEF NewFrom, IsLog, LogShape, LastIdx
<1>3. \A j \in 1..Len(es) : es[j].idx = p + j
  BY DEF NewFrom
<1>4. /\ \A j \in 1..(Len(es) - k + 1) : k + j - 1 \in 1..Len(es) /\ p + (k + j - 1) = q - 1 + j
      /\ \A i \in q..(p + Len(es)) :
           /\ i - q + 1 \in 1..(Len(es) - k + 1) /\ q - 1 + (i - q + 1) = i
           /\ k + (i - q + 1) - 1 = i - p
  BY <1>1, Offsets
<1>5. /\ cut = IF q <= LastIdx(l) THEN TruncateUncommitted(l, q) ELSE l
      /\ MaybeAppend(l, es) = m
  <2>1. es[k].idx = q /\ k = FirstNew(l, es) /\ ~(k > Len(es))
    BY <1>1, <1>3 DEF NewFrom
  <2> QED BY <2>1 DEF MaybeAppend
<1> HIDE DEF cut
<1>6. /\ IsLog(cut, S) /\ cut.snapshot = l.snapshot /\ cut.first_idx = l.first_idx
      /\ cut.stable_idx = IF q <= LastIdx(l) THEN MinOf(l.stable_idx, q - 1) ELSE l.stable_idx
      /\ LastIdx(cut) = q - 1 /\ Same(cut, l, l.first_idx, q - 1)
  <2>2. CASE q <= LastIdx(l)
    <3>1. cut = TruncateUncommitted(l, q)
      BY <1>5, <2>2
    <3>2. /\ IsLog(cut, S) /\ cut.snapshot = l.snapshot /\ cut.first_idx = l.first_idx
          /\ cut.stable_idx = MinOf(l.stable_idx, q - 1)
          /\ LastIdx(cut) = q - 1 /\ Same(cut, l, l.first_idx, q - 1)
      BY <1>0, <1>1, <1>2, <2>2, <3>1, TruncateIs
    <3> QED BY <2>2, <3>2
  <2>3. CASE ~(q <= LastIdx(l))
    <3>1. LastIdx(l) = q - 1
      BY <1>1, <1>2, <2>3
    <3>2. cut = l
      BY <1>5, <2>3
    <3> QED BY <1>0, <2>3, <3>1, <3>2 DEF Same
  <2> QED BY <2>2, <2>3
<1>7. /\ new \in Seq(S) /\ Len(new) = Len(es) - k + 1
      /\ \A j \in 1..(Len(es) - k + 1) : new[j] = es[k + j - 1]
  BY <1>0, <1>1
<1> HIDE DEF new
<1>8. \A j \in 1..Len(new) : new[j].idx = LastIdx(cut) + j
  <2> TAKE j \in 1..Len(new)
  <2>1. j \in 1..(Len(es) - k + 1)
    BY <1>7
  <2>2. k + j - 1 \in 1..Len(es) /\ p + (k + j - 1) = q - 1 + j
    BY <1>4, <2>1
  <2>3. new[j] = es[k + j - 1]
    BY <1>7, <2>1
  <2>4. new[j].idx = q - 1 + j
    BY <1>3, <2>2, <2>3
  <2> QED BY <1>6, <2>4
<1>9. /\ IsLog(m, S) /\ m.snapshot = cut.snapshot /\ m.first_idx = cut.first_idx
      /\ m.stable_idx = cut.stable_idx /\ LastIdx(m) = LastIdx(cut) + Len(new)
      /\ Same(m, cut, cut.first_idx, LastIdx(cut))
      /\ \A j \in 1..Len(new) : GetEntry(m, LastIdx(cut) + j) = new[j]
  BY <1>6, <1>7, <1>8, EmplaceAllIs
<1> HIDE DEF m
<1>10. LastIdx(m) = p + Len(es)
  BY <1>1, <1>6, <1>7, <1>9
<1>11. Same(m, l, l.first_idx, q - 1)
  BY <1>6, <1>9 DEF Same
<1>12. \A i \in q..(p + Len(es)) : GetEntry(m, i) = es[i - p]
  <2> TAKE i \in q..(p + Len(es))
  <2> DEFINE j == i - q + 1
  <2>1. j \in 1..(Len(es) - k + 1) /\ q - 1 + j = i /\ k + j - 1 = i - p
    BY <1>4
  <2> HIDE DEF j
  <2>2. new[j] = es[i - p] /\ j \in 1..Len(new)
    BY <1>7, <2>1
  <2>3. LastIdx(cut) + j = i
    BY <1>6, <2>1
  <2> QED BY <1>9, <2>2, <2>3
<1>13. /\ IsLog(m, S) /\ m.snapshot = l.snapshot /\ m.first_idx = l.first_idx
       /\ m.stable_idx = IF q <= LastIdx(l) THEN MinOf(l.stable_idx, q - 1) ELSE l.stable_idx
  BY <1>6, <1>9
<1> QED BY <1>5, <1>10, <1>11, <1>12, <1>13

\* A snapshot at index idx of log l, or of its first entries, may be asked for.
Covers(l, S, idx) == IsLog(l, S) /\ idx \in Nat /\ l.first_idx <= idx + 1 /\ idx <= LastIdx(l)

\* The scan of apply_snapshot() for the entries to keep stops, within the bound on their
\* number and within the log.
LEMMA TrailingIs ==
  ASSUME NEW S, NEW l, NEW idx, Covers(l, S, idx), NEW maxEntries \in Nat, NEW maxBytes \in Nat
  PROVE  Trailing(l, idx, maxEntries, maxBytes) \in 0..MinOf(maxEntries, Pos(l, idx))
<1>1. PICK M : M = MinOf(maxEntries, Pos(l, idx))
  OBVIOUS
<1> DEFINE Use(n) == MemoryUsage(Slice(l, idx - n + 1, idx))
           Skip == {d \in 0..M : Use(M - d) <= maxBytes}
<1>2. /\ IsLog(l, S) /\ idx \in Nat /\ l.first_idx \in Nat \ {0} /\ idx <= LastIdx(l)
      /\ l.first_idx <= idx + 1
  BY DEF Covers, IsLog, LogShape
<1>3. Pos(l, idx) \in Nat /\ Pos(l, idx) = idx - l.first_idx + 1
  BY <1>2 DEF Pos
<1>4. M \in Nat /\ M <= idx - l.first_idx + 1
  BY <1>1, <1>3 DEF MinOf
<1>5. \A n \in 0..M : Use(n) \in Nat
  <2> TAKE n \in 0..M
  <2>1. idx - n + 1 \in Nat /\ l.first_idx <= idx - n + 1
    BY <1>2, <1>4
  <2>2. Slice(l, idx - n + 1, idx) \in Seq(S)
    BY <1>2, <2>1, SliceIs
  <2> QED BY <2>2, MemoryUsageIsNat
<1>6. Use(0) <= maxBytes
  <2>1. Slice(l, idx - 0 + 1, idx) = << >>
    <3>1. idx - 0 + 1 = idx + 1 /\ Pos(l, idx + 1) = Pos(l, idx) + 1
      BY <1>2 DEF Pos
    <3>2. SubSeq(l.entries, Pos(l, idx) + 1, Pos(l, idx)) = << >>
      <4> DEFINE x == Pos(l, idx)
      <4>1. x \in Nat
        BY <1>3
      <4>2. l.entries \in Seq(S)
        BY <1>2 DEF IsLog, LogShape
      <4> HIDE DEF x
      <4>3. SubSeq(l.entries, x + 1, x) = << >>
        BY <4>1, <4>2
      <4> QED BY <4>3 DEF x
    <3> QED BY <3>1, <3>2 DEF Slice
  <2> QED BY <2>1, MemoryUsageIsNat
<1> HIDE DEF Use
<1>7. Skip \in SUBSET Nat /\ M \in Skip
  BY <1>4, <1>6
<1>8. PICK d \in Skip : \A e \in Skip : d <= e
  <2> HIDE DEF Skip
  <2> QED BY <1>7, LeastNumber
<1>9. PICK n : n = M - d
  OBVIOUS
<1>10. n \in 0..M /\ Use(n) <= maxBytes
  BY <1>4, <1>9
<1>11. n = M \/ Use(n + 1) > maxBytes
  <2> SUFFICES ASSUME n # M, ~(Use(n + 1) > maxBytes) PROVE FALSE
    OBVIOUS
  <2>1. n + 1 \in 0..M /\ d - 1 \in 0..M /\ M - (d - 1) = n + 1
    BY <1>4, <1>9, <1>10
  <2>2. Use(n + 1) <= maxBytes
    BY <1>5, <2>1
  <2>3. d - 1 \in Skip
    BY <2>1, <2>2
  <2> QED BY <1>8, <1>9, <1>10, <1>4, <2>3
<1>12. Use(n + 1) = MemoryUsage(Slice(l, idx - n, idx))
  <2>1. idx - (n + 1) + 1 = idx - n
    BY <1>2, <1>10
  <2> QED BY <2>1 DEF Use
<1>13. /\ n \in 0..MinOf(maxEntries, Pos(l, idx))
       /\ MemoryUsage(Slice(l, idx - n + 1, idx)) <= maxBytes
       /\ \/ n = MinOf(maxEntries, Pos(l, idx))
          \/ MemoryUsage(Slice(l, idx - n, idx)) > maxBytes
  BY <1>1, <1>10, <1>11, <1>12 DEF Use
<1> QED BY <1>13 DEF Trailing

\* Log m is what is left of l when snapshot snp is applied to it.
AfterSnapshot(l, S, snp, maxEntries, maxBytes, m) ==
  /\ IsLog(l, S) /\ snp.idx \in Nat /\ l.first_idx <= snp.idx + 1
  /\ maxEntries \in Nat /\ maxBytes \in Nat /\ m = ApplySnapshot(l, snp, maxEntries, maxBytes)

\* log::apply_snapshot(): the log ends where it did, or with the snapshot if that is further,
\* starts no earlier than it did, and keeps its entries.
LEMMA ApplySnapshotIs ==
  ASSUME NEW S, NEW l, NEW snp, NEW maxEntries, NEW maxBytes, NEW m,
         AfterSnapshot(l, S, snp, maxEntries, maxBytes, m)
  PROVE  /\ IsLog(m, S) /\ m.snapshot = snp /\ m.stable_idx = MaxOf(snp.idx, l.stable_idx)
         /\ LastIdx(m) = MaxOf(snp.idx, LastIdx(l))
         /\ l.first_idx <= m.first_idx /\ m.first_idx <= snp.idx + 1
         /\ maxEntries = 0 => m.first_idx = snp.idx + 1
         /\ \A i \in m.first_idx..LastIdx(m) : i <= LastIdx(l) /\ GetEntry(m, i) = GetEntry(l, i)
<1> DEFINE past == snp.idx > LastIdx(l)
           n == Trailing(l, snp.idx, maxEntries, maxBytes)
           first == IF past THEN snp.idx + 1 ELSE snp.idx + 1 - n
           kept == IF past THEN << >> ELSE Slice(l, first, LastIdx(l))
<1>0. /\ IsLog(l, S) /\ snp.idx \in Nat /\ l.first_idx <= snp.idx + 1
      /\ maxEntries \in Nat /\ maxBytes \in Nat
  BY DEF AfterSnapshot
<1>1. LogShape(l, S) /\ l.first_idx \in Nat \ {0} /\ LastIdx(l) \in Nat /\ l.stable_idx \in Nat
  BY <1>0 DEF IsLog, LogShape, LastIdx
<1>2. /\ DOMAIN m = Fields /\ m.snapshot = snp /\ m.entries = kept /\ m.first_idx = first
      /\ m.stable_idx = MaxOf(snp.idx, l.stable_idx)
  BY <1>1 DEF AfterSnapshot, LogShape, ApplySnapshot, Fields
<1>3. ~past => n \in Nat /\ n <= maxEntries /\ n <= snp.idx - l.first_idx + 1
  <2> SUFFICES ASSUME ~past PROVE n \in Nat /\ n <= maxEntries /\ n <= snp.idx - l.first_idx + 1
    OBVIOUS
  <2>1. Covers(l, S, snp.idx)
    BY <1>0, <1>1 DEF Covers
  <2>2. n \in 0..MinOf(maxEntries, Pos(l, snp.idx))
    BY <1>0, <2>1, TrailingIs
  <2> HIDE DEF n
  <2> QED BY <1>0, <1>1, <2>2 DEF MinOf, Pos
<1> HIDE DEF n
<1>4. /\ first \in Nat \ {0} /\ l.first_idx <= first /\ first <= snp.idx + 1
      /\ maxEntries = 0 => first = snp.idx + 1
      /\ past => first = snp.idx + 1
  BY <1>0, <1>1, <1>3
<1> HIDE DEF first
<1>5. /\ kept \in Seq(S) /\ first + Len(kept) - 1 = MaxOf(snp.idx, LastIdx(l))
      /\ \A k \in 1..Len(kept) : first + k - 1 <= LastIdx(l) /\ kept[k] = GetEntry(l, first + k - 1)
  <2>1. CASE past
    <3>1. kept = << >>
      BY <2>1
    <3> HIDE DEF kept
    <3> QED BY <1>0, <1>1, <1>4, <2>1, <3>1 DEF MaxOf
  <2>2. CASE ~past
    <3>1. kept = Slice(l, first, LastIdx(l))
      BY <2>2
    <3> HIDE DEF kept
    <3>2. /\ kept \in Seq(S) /\ Len(kept) = IF first <= LastIdx(l) THEN LastIdx(l) - first + 1 ELSE 0
          /\ \A k \in 1..(LastIdx(l) - first + 1) : kept[k] = GetEntry(l, first + k - 1)
      <4>1. PICK hi : hi = LastIdx(l)
        OBVIOUS
      <4>2. first \in Nat /\ hi \in Nat /\ l.first_idx <= first /\ hi <= LastIdx(l)
        BY <1>1, <1>4, <4>1
      <4>3. /\ Slice(l, first, hi) \in Seq(S)
            /\ Len(Slice(l, first, hi)) = IF first <= hi THEN hi - first + 1 ELSE 0
            /\ \A k \in 1..(hi - first + 1) : Slice(l, first, hi)[k] = GetEntry(l, first + k - 1)
        BY <1>0, <4>2, SliceIs
      <4> QED BY <3>1, <4>1, <4>3
    <3>3. Len(kept) = LastIdx(l) - first + 1 /\ MaxOf(snp.idx, LastIdx(l)) = LastIdx(l)
      BY <1>0, <1>1, <1>4, <2>2, <3>2 DEF MaxOf
    <3> QED BY <1>1, <1>4, <3>2, <3>3
  <2> QED BY <2>1, <2>2
<1> HIDE DEF kept
<1>6. LogShape(m, S)
  BY <1>0, <1>1, <1>2, <1>4, <1>5 DEF LogShape, MaxOf
<1>7. LastIdx(m) = MaxOf(snp.idx, LastIdx(l))
  BY <1>2, <1>4, <1>5 DEF LastIdx
<1>8. \A i \in first..LastIdx(m) : i <= LastIdx(l) /\ GetEntry(m, i) = GetEntry(l, i)
  <2> TAKE i \in first..LastIdx(m)
  <2>1. Pos(m, i) \in 1..Len(kept) /\ first + Pos(m, i) - 1 = i
    BY <1>2, <1>4, <1>5, <1>7 DEF Pos
  <2> QED BY <1>2, <1>5, <2>1 DEF GetEntry
<1>9. \A k \in 1..Len(m.entries) : m.entries[k].idx = m.first_idx + k - 1
  <2> TAKE k \in 1..Len(m.entries)
  <2>1. PICK i : i = first + k - 1
    OBVIOUS
  <2>2. m.entries[k] = GetEntry(l, i) /\ i <= LastIdx(l) /\ i >= l.first_idx /\ i \in Nat
    BY <1>1, <1>2, <1>4, <1>5, <2>1
  <2>3. i \in l.first_idx..LastIdx(l)
    BY <1>1, <2>2
  <2>4. GetEntry(l, i).idx = i
    BY <1>0, <2>3, EntryIs
  <2> QED BY <1>2, <2>1, <2>2, <2>4
<1> QED BY <1>2, <1>4, <1>6, <1>7, <1>8, <1>9 DEF IsLog

\* log::stable_to()
LEMMA StableToIs ==
  ASSUME NEW S, NEW l, IsLog(l, S), NEW idx \in Nat
  PROVE  /\ IsLog(StableTo(l, idx), S) /\ StableTo(l, idx).snapshot = l.snapshot
         /\ StableTo(l, idx).first_idx = l.first_idx /\ StableTo(l, idx).stable_idx = idx
         /\ LastIdx(StableTo(l, idx)) = LastIdx(l)
         /\ Same(StableTo(l, idx), l, l.first_idx, LastIdx(l))
<1> DEFINE m == StableTo(l, idx)
<1>1. /\ DOMAIN m = Fields /\ m.snapshot = l.snapshot /\ m.entries = l.entries
      /\ m.first_idx = l.first_idx /\ m.stable_idx = idx
  BY DEF IsLog, LogShape, StableTo, Fields
<1> HIDE DEF m
<1>2. IsLog(m, S)
  BY <1>1 DEF IsLog, LogShape
<1>3. LastIdx(m) = LastIdx(l) /\ \A i : GetEntry(m, i) = GetEntry(l, i)
  BY <1>1 DEF LastIdx, GetEntry, Pos
<1> QED BY <1>1, <1>2, <1>3 DEF Same, m

\* The constructor, on a prefix of the entries of a log: what a server loads after a crash.
LEMMA NewLogIs ==
  ASSUME NEW S, NEW l, IsLog(l, S), NEW snp, snp.idx \in Nat,
         NEW hi \in Nat, l.first_idx <= hi + 1, hi <= LastIdx(l),
         NEW m, m = NewLog(snp, Slice(l, l.first_idx, hi))
  PROVE  /\ IsLog(m, S) /\ m.snapshot = snp /\ m.stable_idx = LastIdx(m)
         /\ hi >= l.first_idx => /\ m.first_idx = l.first_idx /\ LastIdx(m) = hi
                                 /\ Same(m, l, l.first_idx, hi)
         /\ hi < l.first_idx => m.first_idx = snp.idx + 1 /\ LastIdx(m) = snp.idx
<1>1. PICK es : es = Slice(l, l.first_idx, hi)
  OBVIOUS
<1>2. PICK lo : lo = l.first_idx
  OBVIOUS
<1>3. lo \in Nat \ {0} /\ LastIdx(l) \in Nat
  BY <1>2, EntryIs
<1>4. /\ es \in Seq(S) /\ Len(es) = hi - lo + 1
      /\ \A k \in 1..(hi - lo + 1) : es[k] = GetEntry(l, lo + k - 1)
  <2>1. /\ es \in Seq(S) /\ Len(es) = IF lo <= hi THEN hi - lo + 1 ELSE 0
        /\ \A k \in 1..(hi - lo + 1) : es[k] = GetEntry(l, lo + k - 1)
    <3>1. lo \in Nat /\ l.first_idx <= lo
      BY <1>2, <1>3
    <3>2. /\ Slice(l, lo, hi) \in Seq(S)
          /\ Len(Slice(l, lo, hi)) = IF lo <= hi THEN hi - lo + 1 ELSE 0
          /\ \A k \in 1..(hi - lo + 1) : Slice(l, lo, hi)[k] = GetEntry(l, lo + k - 1)
      BY <3>1, SliceIs
    <3>3. es = Slice(l, lo, hi)
      BY <1>1, <1>2
    <3> QED BY <3>2, <3>3
  <2>2. lo <= hi + 1
    BY <1>2
  <2>3. (IF lo <= hi THEN hi - lo + 1 ELSE 0) = hi - lo + 1
    BY <1>3, <2>2
  <2> QED BY <2>1, <2>3
<1>5. \A k \in 1..Len(es) : es[k].idx = lo + k - 1
  <2> TAKE k \in 1..Len(es)
  <2>1. k \in 1..(hi - lo + 1)
    BY <1>4
  <2>2. lo + k - 1 \in lo..LastIdx(l)
    BY <1>3, <2>1
  <2>3. lo + k - 1 \in l.first_idx..LastIdx(l)
    BY <1>2, <1>3, <2>2
  <2>4. GetEntry(l, lo + k - 1).idx = lo + k - 1
    BY <2>3, EntryIs
  <2> QED BY <1>4, <2>1, <2>4
<1>6. PICK first : first = IF es = << >> THEN snp.idx + 1 ELSE es[1].idx
  OBVIOUS
<1>7. /\ DOMAIN m = Fields /\ m.snapshot = snp /\ m.entries = es
      /\ m.first_idx = first /\ m.stable_idx = first + Len(es) - 1
  BY <1>1, <1>6 DEF NewLog, Fields
<1>8. CASE hi < lo
  <2>1. Len(es) = 0
    BY <1>3, <1>4, <1>2, <1>8
  <2>2. es = << >>
    BY <1>4, <2>1
  <2>3. first = snp.idx + 1
    BY <1>6, <2>2
  <2>4. LogShape(m, S)
    BY <1>4, <1>7, <2>1, <2>3 DEF LogShape
  <2>5. LastIdx(m) = snp.idx /\ m.stable_idx = snp.idx
    BY <1>7, <2>1, <2>3 DEF LastIdx
  <2>6. IsLog(m, S)
    BY <1>7, <2>1, <2>4 DEF IsLog
  <2>7. m.snapshot = snp /\ m.first_idx = snp.idx + 1
    BY <1>7, <2>3
  <2>8. ~(hi >= l.first_idx)
    BY <1>2, <1>3, <1>8
  <2> QED BY <2>5, <2>6, <2>7, <2>8
<1>9. CASE ~(hi < lo)
  <2>1. Len(es) \in Nat /\ 1 \in 1..Len(es) /\ Len(es) = hi - lo + 1
    BY <1>3, <1>4, <1>9
  <2>2. es # << >> /\ es[1].idx = lo
    BY <1>3, <1>5, <2>1
  <2>3. first = lo
    BY <1>6, <2>2
  <2>4. LogShape(m, S)
    BY <1>3, <1>4, <1>7, <2>1, <2>3 DEF LogShape
  <2>5. LastIdx(m) = hi /\ m.stable_idx = hi
    BY <1>3, <1>7, <2>1, <2>3 DEF LastIdx
  <2>6. IsLog(m, S)
    BY <1>5, <1>7, <2>3, <2>4 DEF IsLog
  <2>7. \A i \in lo..hi : GetEntry(m, i) = GetEntry(l, i)
    <3> TAKE i \in lo..hi
    <3>1. Pos(m, i) = i - lo + 1 /\ i - lo + 1 \in 1..(hi - lo + 1) /\ lo + (i - lo + 1) - 1 = i
      BY <1>3, <1>7, <2>3 DEF Pos
    <3> QED BY <1>4, <1>7, <3>1 DEF GetEntry
  <2>8. ~(hi < l.first_idx)
    BY <1>2, <1>9
  <2> QED BY <1>2, <1>7, <2>3, <2>5, <2>6, <2>7, <2>8 DEF Same
<1> QED BY <1>8, <1>9

----------------------------------------------------------------------------
\* What the log caches: the positions of its last two configurations and its memory use.

\* The largest element of a set of indices; no element is 0.
IsTop(C, a) == (C = {} /\ a = 0) \/ (a \in C /\ \A y \in C : y <= a)

\* A set of indices with a bound has a largest element, which is Greatest's choice.
LEMMA GreatestIs ==
  ASSUME NEW N \in Nat, NEW C \in SUBSET (1..N)
  PROVE  /\ IsTop(C, Greatest(C)) /\ Greatest(C) \in 0..N
         /\ \A a : IsTop(C, a) => a = Greatest(C)
<1>1. CASE C = {}
  BY <1>1 DEF IsTop, Greatest
<1>2. CASE C # {}
  <2> DEFINE M == {N - x : x \in C}
  <2>1. M \in SUBSET Nat /\ M # {}
    <3>1. \A x \in C : x \in 1..N /\ N - x \in Nat
      OBVIOUS
    <3>2. PICK x : x \in C
      BY <1>2
    <3> QED BY <3>1, <3>2
  <2>2. PICK n \in M : \A m \in M : n <= m
    <3> HIDE DEF M
    <3> QED BY <2>1, LeastNumber
  <2>3. PICK x \in C : n = N - x
    BY <2>2
  <2>4. \A y \in C : x >= y
    <3> SUFFICES ASSUME NEW y \in C PROVE x >= y
      OBVIOUS
    <3>1. N - x <= N - y
      BY <2>2, <2>3
    <3> QED BY <3>1
  <2>5. PICK b : b = Greatest(C)
    OBVIOUS
  <2>6. b = CHOOSE z \in C : \A y \in C : z >= y
    BY <1>2, <2>5 DEF Greatest
  <2>7. b \in C /\ \A y \in C : b >= y
    BY <2>4, <2>6
  <2>8. b \in 1..N /\ \A y \in C : y <= b
    BY <2>7
  <2>9. IsTop(C, b)
    BY <2>7, <2>8 DEF IsTop
  <2>10. ASSUME NEW a, IsTop(C, a) PROVE a = b
    <3>1. a \in C /\ b <= a /\ a <= b
      BY <1>2, <2>7, <2>8, <2>10 DEF IsTop
    <3> QED BY <2>8, <3>1
  <2> QED BY <2>5, <2>8, <2>9, <2>10
<1> QED BY <1>1, <1>2

\* The cached positions a and b of the last and the previous of the configurations C: when the
\* previous one is forgotten there is none, or the last one is in F, the indices that stay.
Tops(C, a, b, F) ==
  /\ IsTop(C, a)
  /\ b # 0 => IsTop(C \ {a}, b)
  /\ b = 0 => C \ {a} = {} \/ a \in F

\* Positions found by a scan.
LEMMA TopsOfScan ==
  ASSUME NEW N \in Nat, NEW C \in SUBSET (1..N), NEW F
  PROVE  Tops(C, Greatest(C), Greatest(C \ {Greatest(C)}), F)
<1>1. PICK a, b : a = Greatest(C) /\ b = Greatest(C \ {a})
  OBVIOUS
<1>2. IsTop(C, a)
  BY <1>1, GreatestIs
<1>3. C \ {a} \in SUBSET (1..N)
  OBVIOUS
<1>4. IsTop(C \ {a}, b)
  BY <1>1, <1>3, GreatestIs
<1>5. b = 0 => C \ {a} = {}
  BY <1>3, <1>4 DEF IsTop
<1> QED BY <1>1, <1>2, <1>4, <1>5 DEF Tops

\* Positions a and b become x and y when configurations D are appended.
MovesOn(D, a, b, x, y) ==
  LET last == Greatest(D)
  IN  /\ x = IF D = {} THEN a ELSE last
      /\ y = IF D = {} THEN b ELSE IF D = {last} THEN a ELSE Greatest(D \ {last})

\* Configurations D that follow those of C.
LEMMA TopsOfMore ==
  ASSUME NEW N \in Nat, NEW C \in SUBSET (1..N), NEW D \in SUBSET (1..N), NEW a, NEW b, NEW F,
         Tops(C, a, b, F), \A i \in C : \A j \in D : i < j,
         NEW E, E = C \cup D, NEW x, NEW y, MovesOn(D, a, b, x, y)
  PROVE  Tops(E, x, y, F)
<1>0. PICK last : last = Greatest(D)
  OBVIOUS
<1>a. /\ x = IF D = {} THEN a ELSE last
      /\ y = IF D = {} THEN b ELSE IF D = {last} THEN a ELSE Greatest(D \ {last})
  BY <1>0 DEF MovesOn
<1>1. IsTop(D, last)
  BY <1>0, GreatestIs
<1>2. CASE D = {}
  <2>1. C \cup D = C
    BY <1>2
  <2> QED BY <1>2, <1>a, <2>1
<1>3. CASE D # {}
  <2>1. last \in D /\ (\A j \in D : j <= last) /\ last \in 1..N
    BY <1>1, <1>3 DEF IsTop
  <2>2. \A i \in C : i < last /\ i \in 1..N
    BY <2>1
  <2>3. \A j \in C \cup D : j <= last
    BY <2>1, <2>2
  <2>4. IsTop(C \cup D, last)
    BY <2>1, <2>3 DEF IsTop
  <2>5. last \notin C
    BY <2>1, <2>2
  <2>6. CASE D = {last}
    <3>1. (C \cup D) \ {last} = C
      BY <2>5, <2>6
    <3>2. IsTop(C, a)
      BY DEF Tops
    <3>3. a = 0 => C = {}
      BY <3>2 DEF IsTop
    <3>4. Tops(C \cup D, last, a, F)
      BY <2>4, <3>1, <3>2, <3>3 DEF Tops
    <3> QED BY <1>3, <1>a, <2>6, <3>4
  <2>7. CASE D # {last}
    <3>1. PICK z : z = Greatest(D \ {last})
      OBVIOUS
    <3>2. D \ {last} \in SUBSET (1..N) /\ D \ {last} # {}
      BY <2>1, <2>7
    <3>3. IsTop(D \ {last}, z)
      BY <3>1, <3>2, GreatestIs
    <3>4. z \in D \ {last} /\ (\A j \in D \ {last} : j <= z) /\ z \in 1..N
      BY <3>2, <3>3 DEF IsTop
    <3>5. \A j \in (C \cup D) \ {last} : j <= z
      <4>1. \A i \in C : i <= z
        BY <2>2, <3>4
      <4> QED BY <3>4, <4>1
    <3>6. IsTop((C \cup D) \ {last}, z) /\ z # 0
      BY <3>4, <3>5 DEF IsTop
    <3>7. Tops(C \cup D, last, z, F)
      BY <2>4, <3>6 DEF Tops
    <3> QED BY <1>3, <1>a, <2>7, <3>1, <3>7
  <2> QED BY <2>6, <2>7
<1> QED BY <1>2, <1>3

\* One more configuration.
LEMMA TopsOfOne ==
  ASSUME NEW N \in Nat, NEW C \in SUBSET (1..N), NEW a, NEW b, NEW F, Tops(C, a, b, F)
  PROVE  Tops(C \cup {N + 1}, N + 1, a, F)
<1>1. C \in SUBSET (1..(N + 1)) /\ {N + 1} \in SUBSET (1..(N + 1)) /\ N + 1 \in Nat
  OBVIOUS
<1>2. \A i \in C : \A j \in {N + 1} : i < j
  OBVIOUS
<1>3. IsTop({N + 1}, N + 1)
  BY DEF IsTop
<1>4. N + 1 = Greatest({N + 1})
  BY <1>1, <1>3, GreatestIs
<1>5. PICK D, z : D = {N + 1} /\ z = N + 1
  OBVIOUS
<1>6. PICK E : E = C \cup D
  OBVIOUS
<1>7. MovesOn(D, a, b, z, a)
  BY <1>4, <1>5 DEF MovesOn
<1>8. D \in SUBSET (1..(N + 1)) /\ z = Greatest(D) /\ \A i \in C : \A j \in D : i < j
  BY <1>1, <1>2, <1>4, <1>5
<1>9. Tops(E, z, a, F)
  BY <1>1, <1>6, <1>7, <1>8, TopsOfMore
<1> QED BY <1>5, <1>6, <1>9

\* truncate_uncommitted() at index q: the configurations but the last are in F, before q.
LEMMA TopsOfCut ==
  ASSUME NEW N \in Nat, NEW C \in SUBSET (1..N), NEW a, NEW b, NEW F, Tops(C, a, b, F),
         NEW q \in Nat, \A i, j \in C : i < j => i \in F, \A i \in C : i \in F => i < q,
         NEW E, E = {i \in C : i < q}, NEW x, x = IF a > q - 1 THEN b ELSE a,
         NEW y, y = IF a > q - 1 THEN 0 ELSE b
  PROVE  Tops(E, x, y, F)
<1>1. IsTop(C, a)
  BY DEF Tops
<1>2. CASE C = {}
  <2>1. {i \in C : i < q} = C /\ a = 0
    BY <1>1, <1>2 DEF IsTop
  <2>2. ~(a > q - 1) \/ q = 0
    BY <2>1
  <2>3. b = 0
    BY <1>2 DEF Tops, IsTop
  <2> QED BY <1>2, <2>1, <2>3 DEF Tops, IsTop
<1>3. CASE C # {}
  <2>1. a \in C /\ (\A j \in C : j <= a) /\ a \in 1..N
    BY <1>1, <1>3 DEF IsTop
  <2>2. CASE a > q - 1
    <3>1. \A i \in C \ {a} : i < a /\ i \in F
      BY <2>1
    <3>2. ~(a < q)
      BY <2>1, <2>2
    <3>3. {i \in C : i < q} = C \ {a}
      BY <3>1, <3>2
    <3>4. a \notin F
      BY <2>1, <3>2
    <3>5. b = 0 => C \ {a} = {}
      BY <3>4 DEF Tops
    <3>6. IsTop(C \ {a}, b)
      BY <3>5 DEF Tops, IsTop
    <3>7. b \in F \/ (C \ {a}) \ {b} = {}
      BY <3>1, <3>6 DEF IsTop
    <3>8. Tops(C \ {a}, b, 0, F)
      BY <3>6, <3>7 DEF Tops
    <3> QED BY <2>2, <3>3, <3>8
  <2>3. CASE ~(a > q - 1)
    <3>1. \A i \in C : i < q
      BY <2>1, <2>3
    <3>2. {i \in C : i < q} = C
      BY <3>1
    <3> QED BY <2>3, <3>2
  <2> QED BY <2>2, <2>3
<1> QED BY <1>2, <1>3

\* Positions a and b become x and y when the entries up to index s go.
MovesBehind(s, a, b, x, y) ==
  x = (IF s >= b /\ s >= a THEN 0 ELSE a) /\ y = IF s >= b THEN 0 ELSE b

\* apply_snapshot() at index s: the configurations up to s go.
LEMMA TopsOfRest ==
  ASSUME NEW N \in Nat, NEW C \in SUBSET (1..N), NEW a, NEW b, NEW F, Tops(C, a, b, F),
         NEW s \in Nat, NEW R, R = {i \in C : i > s}, NEW x, NEW y, MovesBehind(s, a, b, x, y)
  PROVE  Tops(R, x, y, F)
<1>0. x = (IF s >= b /\ s >= a THEN 0 ELSE a) /\ y = IF s >= b THEN 0 ELSE b
  BY DEF MovesBehind
<1>1. IsTop(C, a)
  BY DEF Tops
<1>2. R = {i \in C : i > s}
  OBVIOUS
<1>3. CASE C = {}
  <2>1. R = {} /\ a = 0 /\ b = 0
    BY <1>1, <1>2, <1>3 DEF Tops, IsTop
  <2> QED BY <1>0, <2>1 DEF Tops, IsTop
<1>4. CASE C # {}
  <2>1. a \in C /\ (\A j \in C : j <= a) /\ a \in 1..N
    BY <1>1, <1>4 DEF IsTop
  <2>2. b = 0 \/ (b \in C \ {a} /\ (\A j \in C \ {a} : j <= b) /\ b \in 1..N /\ b < a)
    <3>1. CASE b = 0
      BY <3>1
    <3>2. CASE b # 0
      <4>1. b \in C \ {a} /\ \A j \in C \ {a} : j <= b
        BY <3>2 DEF Tops, IsTop
      <4> QED BY <2>1, <4>1
    <3> QED BY <3>1, <3>2
  <2>3. CASE s >= a
    <3>1. s >= b /\ \A j \in C : ~(j > s)
      BY <2>1, <2>2, <2>3
    <3>2. R = {}
      BY <1>2, <3>1
    <3>3. Tops(R, 0, 0, F)
      BY <3>2 DEF Tops, IsTop
    <3> QED BY <1>0, <2>3, <3>1, <3>3
  <2>4. CASE ~(s >= a)
    <3>1. a \in R /\ \A j \in R : j <= a
      BY <1>2, <2>1, <2>4
    <3>2. IsTop(R, a)
      BY <3>1 DEF IsTop
    <3>3. CASE s >= b
      <4>1. R \ {a} = {} \/ a \in F
        <5>1. CASE b = 0
          <6>1. C \ {a} = {} \/ a \in F
            BY <5>1 DEF Tops
          <6> QED BY <1>2, <6>1
        <5>2. CASE b # 0
          <6>1. \A j \in C \ {a} : ~(j > s)
            BY <2>2, <3>3, <5>2
          <6> QED BY <1>2, <6>1
        <5> QED BY <5>1, <5>2
      <4>2. Tops(R, a, 0, F)
        BY <3>2, <4>1 DEF Tops
      <4> QED BY <1>0, <2>4, <3>3, <4>2
    <3>4. CASE ~(s >= b)
      <4>1. b # 0 /\ b \in R \ {a} /\ \A j \in R \ {a} : j <= b
        BY <1>2, <2>2, <3>4
      <4>2. Tops(R, a, b, F)
        BY <3>2, <4>1 DEF Tops, IsTop
      <4> QED BY <1>0, <2>4, <3>4, <4>2
    <3> QED BY <3>3, <3>4
  <2> QED BY <2>3, <2>4
<1> QED BY <1>3, <1>4

\* What stays may grow.
LEMMA TopsStay ==
  ASSUME NEW C, NEW a, NEW b, NEW F, NEW G, Tops(C, a, b, F), \A i \in C : i \in F => i \in G
  PROVE  Tops(C, a, b, G)
BY DEF Tops, IsTop

\* The indices of the configurations in a log, and of those behind its snapshot.
Confs(l) == {i \in l.first_idx..LastIdx(l) : IsConf(GetEntry(l, i))}
Live(l) == {i \in Confs(l) : i > l.snapshot.idx}

\* What a log caches is right, F being the indices of entries that stay.
Caches(l, F) ==
  /\ Tops(Live(l), l.last_conf_idx, l.prev_conf_idx, F)
  /\ l.memory_usage = MemoryUsage(l.entries)

\* A scan for configurations finds those of the log.
LEMMA ConfsIs ==
  ASSUME NEW S, NEW l, IsLog(l, S)
  PROVE  /\ Confs(l) \in SUBSET (1..LastIdx(l)) /\ Live(l) \in SUBSET (1..LastIdx(l))
         /\ \A s : ConfIdxs(l.entries, s) = {i \in Confs(l) : i > s}
<1>1. /\ l.first_idx \in Nat \ {0} /\ LastIdx(l) \in Nat
      /\ \A i \in l.first_idx..LastIdx(l) :
           Pos(l, i) \in 1..Len(l.entries) /\ GetEntry(l, i).idx = i
  BY EntryIs
<1>2. Confs(l) \in SUBSET (1..LastIdx(l)) /\ Live(l) \in SUBSET (1..LastIdx(l))
  BY <1>1 DEF Confs, Live
<1>3. Len(l.entries) \in Nat /\ LastIdx(l) = Len(l.entries) + l.first_idx - 1
  BY DEF IsLog, LogShape, LastIdx
<1>4. \A k \in 1..Len(l.entries) :
        /\ l.entries[k].idx \in l.first_idx..LastIdx(l)
        /\ l.entries[k] = GetEntry(l, l.entries[k].idx)
  <2> TAKE k \in 1..Len(l.entries)
  <2>1. l.entries[k].idx = l.first_idx + k - 1
    BY DEF IsLog
  <2>2. l.first_idx + k - 1 \in l.first_idx..LastIdx(l) /\ (l.first_idx + k - 1) - l.first_idx + 1 = k
    BY <1>1, <1>3
  <2> QED BY <2>1, <2>2 DEF GetEntry, Pos
<1>5. ASSUME NEW s, NEW x \in ConfIdxs(l.entries, s) PROVE x \in Confs(l) /\ x > s
  <2>1. PICK k \in 1..Len(l.entries) :
          IsConf(l.entries[k]) /\ l.entries[k].idx > s /\ x = l.entries[k].idx
    BY <1>5 DEF ConfIdxs
  <2>2. x \in l.first_idx..LastIdx(l) /\ IsConf(GetEntry(l, x))
    BY <1>4, <2>1
  <2> QED BY <2>1, <2>2 DEF Confs
<1>6. ASSUME NEW s, NEW x \in Confs(l), x > s PROVE x \in ConfIdxs(l.entries, s)
  <2>1. PICK k : k = Pos(l, x)
    OBVIOUS
  <2>2. x \in l.first_idx..LastIdx(l) /\ IsConf(GetEntry(l, x))
    BY <1>6 DEF Confs
  <2>3. k \in 1..Len(l.entries) /\ l.entries[k].idx = x /\ IsConf(l.entries[k])
    BY <1>1, <2>1, <2>2 DEF GetEntry
  <2> QED BY <1>6, <2>3 DEF ConfIdxs
<1>7. \A s : ConfIdxs(l.entries, s) = {i \in Confs(l) : i > s}
  BY <1>5, <1>6
<1> QED BY <1>2, <1>7

\* The commands of two sequences.
LEMMA MemoryOfConcat ==
  ASSUME NEW S, NEW a \in Seq(S), NEW b \in Seq(S)
  PROVE  /\ MemoryUsage(a \o b) = MemoryUsage(a) + MemoryUsage(b)
         /\ MemoryUsage(a) \in Nat /\ MemoryUsage(b) \in Nat
<1>1. PICK n, m, s : n = Len(a) /\ m = Len(b) /\ s = a \o b
  OBVIOUS
<1>2. n \in Nat /\ m \in Nat
  BY <1>1
<1>3. Len(s) = n + m /\ \A i \in 1..(n + m) : s[i] = IF i <= n THEN a[i] ELSE b[i - n]
  BY <1>1, ConcatProperties
<1> DEFINE A == {k \in 1..n : a[k].kind = "command"}
           B == {k \in 1..m : b[k].kind = "command"}
           D == {k \in 1..(n + m) : k > n /\ s[k].kind = "command"}
           All == {k \in 1..(n + m) : s[k].kind = "command"}
           f == [k \in B |-> n + k]
<1>4. IsFiniteSet(A) /\ IsFiniteSet(B) /\ IsFiniteSet(D)
  <2>1. IsFiniteSet(1..n) /\ IsFiniteSet(1..m) /\ IsFiniteSet(1..(n + m))
    BY <1>2, FS_Interval
  <2>2. A \in SUBSET (1..n) /\ B \in SUBSET (1..m) /\ D \in SUBSET (1..(n + m))
    OBVIOUS
  <2> HIDE DEF A, B, D
  <2> QED BY <2>1, <2>2, FS_Subset
<1>5. \A k \in 1..m : n + k \in 1..(n + m) /\ n + k > n /\ s[n + k] = b[k]
  <2> TAKE k \in 1..m
  <2>1. PICK x : x = n + k
    OBVIOUS
  <2>2. x \in 1..(n + m) /\ x > n /\ ~(x <= n) /\ x - n = k
    BY <1>2, <2>1
  <2> QED BY <1>3, <2>1, <2>2
<1>6. \A x \in D : x - n \in B /\ n + (x - n) = x
  <2> SUFFICES ASSUME NEW x \in D PROVE x - n \in B /\ n + (x - n) = x
    OBVIOUS
  <2>1. x \in 1..(n + m) /\ x > n /\ s[x].kind = "command"
    OBVIOUS
  <2>2. x - n \in 1..m /\ n + (x - n) = x
    BY <1>2, <2>1
  <2> QED BY <1>5, <2>1, <2>2
<1>7. f \in Bijection(B, D)
  <2>1. \A k \in B : n + k \in D
    BY <1>5
  <2>2. \A j, k \in B : n + j = n + k => j = k
    BY <1>2
  <2>3. \A x \in D : \E k \in B : n + k = x
    BY <1>6
  <2> HIDE DEF B, D
  <2>4. f \in [B -> D]
    BY <2>1
  <2>5. \A k \in B : f[k] = n + k
    OBVIOUS
  <2> HIDE DEF f
  <2>6. \A j, k \in B : f[j] = f[k] => j = k
    BY <2>2, <2>5
  <2>7. \A x \in D : \E k \in B : f[k] = x
    BY <2>3, <2>5
  <2>8. f \in Injection(B, D)
    BY <2>4, <2>6 DEF Injection, IsInjective
  <2>9. f \in Surjection(B, D)
    BY <2>4, <2>7 DEF Surjection
  <2> QED BY <2>8, <2>9 DEF Bijection
<1>8. Cardinality(D) = Cardinality(B)
  <2> HIDE DEF B, D, f
  <2>1. ExistsBijection(B, D)
    BY <1>7 DEF ExistsBijection
  <2> QED BY <1>4, <2>1, FS_Bijection
<1>9. A \cap D = {}
  BY <1>2
<1>10. All = A \cup D
  <2>1. \A k \in 1..(n + m) : k <= n => k \in 1..n /\ s[k] = a[k]
    BY <1>2, <1>3
  <2>2. \A k \in 1..n : k \in 1..(n + m) /\ s[k] = a[k]
    BY <1>2, <1>3
  <2>3. \A k \in 1..(n + m) : k <= n \/ k > n
    BY <1>2
  <2>4. A \subseteq All
    BY <2>2
  <2>5. All \subseteq A \cup D
    BY <2>1, <2>3
  <2> QED BY <2>4, <2>5
<1>11. /\ MemoryUsage(s) = Cardinality(All) /\ MemoryUsage(a) = Cardinality(A)
       /\ MemoryUsage(b) = Cardinality(B)
  BY <1>1, <1>3 DEF MemoryUsage
<1> HIDE DEF A, B, D, All, f
<1>12. Cardinality(A) \in Nat /\ Cardinality(B) \in Nat /\ Cardinality(D) \in Nat
  BY <1>4, FS_CardinalityType
<1>13. Cardinality(A \cup D) = Cardinality(A) + Cardinality(D) - Cardinality(A \cap D)
  BY <1>4, FS_Union
<1>14. Cardinality(A \cap D) = 0
  BY <1>9, FS_EmptySet
<1> QED BY <1>1, <1>8, <1>10, <1>11, <1>12, <1>13, <1>14

\* Sequence es falls into its first p elements and the rest.
Parts(es, p, a, b) == a = SubSeq(es, 1, p) /\ b = SubSeq(es, p + 1, Len(es))

\* The commands of a sequence, counted in two parts.
LEMMA MemoryOfParts ==
  ASSUME NEW S, NEW es \in Seq(S), NEW p \in Nat, p <= Len(es), NEW a, NEW b, Parts(es, p, a, b)
  PROVE  /\ MemoryUsage(es) = MemoryUsage(a) + MemoryUsage(b)
         /\ MemoryUsage(a) \in Nat /\ MemoryUsage(b) \in Nat
<1>1. PICK n : n = Len(es)
  OBVIOUS
<1>2. n \in Nat /\ p <= n /\ \A i \in 1..n : es[i] \in S
  BY <1>1
<1>3. a \in Seq(S) /\ Len(a) = p /\ \A i \in 1..p : a[i] = es[i]
  <2>1. 1 \in Int /\ p \in Int /\ \A i \in 1..p : es[i] \in S
    BY <1>2
  <2>2. /\ SubSeq(es, 1, p) \in Seq(S)
        /\ Len(SubSeq(es, 1, p)) = IF 1 <= p THEN p - 1 + 1 ELSE 0
        /\ \A i \in 1..(p - 1 + 1) : SubSeq(es, 1, p)[i] = es[1 + i - 1]
    BY <2>1, SubSeqProperties
  <2>3. (IF 1 <= p THEN p - 1 + 1 ELSE 0) = p /\ p - 1 + 1 = p /\ \A i \in 1..p : 1 + i - 1 = i
    OBVIOUS
  <2> QED BY <2>2, <2>3 DEF Parts
<1>4. b \in Seq(S) /\ Len(b) = n - p /\ \A i \in 1..(n - p) : b[i] = es[p + i]
  <2>1. PICK q : q = p + 1
    OBVIOUS
  <2>2. q \in Int /\ n \in Int /\ \A i \in q..n : es[i] \in S
    BY <1>2, <2>1
  <2>3. b = SubSeq(es, q, n)
    BY <1>1, <2>1 DEF Parts
  <2>4. /\ SubSeq(es, q, n) \in Seq(S) /\ Len(SubSeq(es, q, n)) = IF q <= n THEN n - q + 1 ELSE 0
        /\ \A i \in 1..(n - q + 1) : SubSeq(es, q, n)[i] = es[q + i - 1]
    BY <2>2, SubSeqProperties
  <2>5. (IF q <= n THEN n - q + 1 ELSE 0) = n - p /\ n - q + 1 = n - p /\ \A i \in 1..(n - p) : q + i - 1 = p + i
    BY <1>2, <2>1
  <2> QED BY <2>3, <2>4, <2>5
<1>5. PICK s : s = a \o b
  OBVIOUS
<1>6. /\ s \in Seq(S) /\ Len(s) = Len(a) + Len(b)
      /\ \A i \in 1..(Len(a) + Len(b)) : s[i] = IF i <= Len(a) THEN a[i] ELSE b[i - Len(a)]
  BY ZenonT(60), <1>3, <1>4, <1>5, ConcatProperties
<1>7. Len(a) + Len(b) = n /\ Len(a) = p
  BY <1>2, <1>3, <1>4
<1>8. \A i \in 1..n : s[i] = es[i]
  <2> TAKE i \in 1..n
  <2>1. CASE i <= p
    <3>1. i \in 1..p
      BY <1>2, <2>1
    <3> QED BY <1>3, <1>6, <1>7, <2>1, <3>1
  <2>2. CASE ~(i <= p)
    <3>1. i - p \in 1..(n - p) /\ p + (i - p) = i
      BY <1>2, <2>2
    <3> QED BY <1>4, <1>6, <1>7, <2>2, <3>1
  <2> QED BY <2>1, <2>2
<1>9. s = es
  <2>1. Len(s) = Len(es)
    BY <1>1, <1>6, <1>7
  <2> QED BY <1>1, <1>6, <1>8, <2>1, SeqEqual
<1>10. MemoryUsage(s) = MemoryUsage(a) + MemoryUsage(b) /\ MemoryUsage(a) \in Nat /\ MemoryUsage(b) \in Nat
  BY <1>3, <1>4, <1>5, MemoryOfConcat
<1> QED BY <1>9, <1>10

\* emplace_back()
LEMMA EmplaceBackCaches ==
  ASSUME NEW S, NEW l, IsLog(l, S), l.snapshot.idx \in Nat, l.snapshot.idx <= LastIdx(l),
         NEW e \in S, e.idx = NextIdx(l), NEW F, Caches(l, F), NEW m, m = EmplaceBack(l, e)
  PROVE  /\ Caches(m, F)
         /\ Confs(m) = IF IsConf(e) THEN Confs(l) \cup {NextIdx(l)} ELSE Confs(l)
<1>1. /\ l.first_idx \in Nat \ {0} /\ LastIdx(l) \in Nat /\ l.first_idx <= LastIdx(l) + 1
      /\ NextIdx(l) = LastIdx(l) + 1
  BY EntryIs DEF NextIdx
<1>2. /\ IsLog(m, S) /\ m.snapshot = l.snapshot /\ m.first_idx = l.first_idx
      /\ LastIdx(m) = LastIdx(l) + 1 /\ GetEntry(m, NextIdx(l)) = e
      /\ Same(m, l, l.first_idx, LastIdx(l))
  BY EmplaceBackIs
<1>3. LogShape(l, S) /\ l.entries \in Seq(S)
  BY DEF IsLog, LogShape
<1>4. m.entries = Append(l.entries, e)
  BY <1>3 DEF LogShape, EmplaceBack, Fields
<1>5. m.memory_usage = l.memory_usage + MemoryUsage(<<e>>)
  BY <1>3 DEF LogShape, EmplaceBack, Fields
<1>6. m.prev_conf_idx = IF IsConf(e) THEN l.last_conf_idx ELSE l.prev_conf_idx
  BY <1>3 DEF LogShape, EmplaceBack, Fields
<1>7. m.last_conf_idx = IF IsConf(e) THEN NextIdx(l) ELSE l.last_conf_idx
  BY <1>3 DEF LogShape, EmplaceBack, Fields
<1>8. m.memory_usage = MemoryUsage(m.entries)
  <2>1. <<e>> \in Seq(S) /\ m.entries = l.entries \o <<e>>
    BY <1>3, <1>4
  <2>2. MemoryUsage(l.entries \o <<e>>) = MemoryUsage(l.entries) + MemoryUsage(<<e>>)
    BY <1>3, <2>1, MemoryOfConcat
  <2>3. l.memory_usage = MemoryUsage(l.entries)
    BY DEF Caches
  <2> QED BY Zenon, <1>5, <2>1, <2>2, <2>3
<1>9. Confs(m) = IF IsConf(e) THEN Confs(l) \cup {NextIdx(l)} ELSE Confs(l)
  <2>1. \A i : i \in m.first_idx..LastIdx(m) <=> i \in l.first_idx..LastIdx(l) \/ i = NextIdx(l)
    BY <1>1, <1>2
  <2>2. \A i \in l.first_idx..LastIdx(l) : GetEntry(m, i) = GetEntry(l, i)
    BY <1>2 DEF Same
  <2> QED BY <1>2, <2>1, <2>2 DEF Confs
<1>10. Live(m) = IF IsConf(e) THEN Live(l) \cup {NextIdx(l)} ELSE Live(l)
  <2>1. NextIdx(l) > l.snapshot.idx
    BY <1>1
  <2> QED BY <1>2, <1>9, <2>1 DEF Live
<1>11. Tops(Live(m), m.last_conf_idx, m.prev_conf_idx, F)
  <2>1. Tops(Live(l), l.last_conf_idx, l.prev_conf_idx, F)
    BY DEF Caches
  <2>2. CASE IsConf(e)
    <3>1. Live(l) \in SUBSET (1..LastIdx(l))
      BY ConfsIs
    <3>2. Tops(Live(l) \cup {LastIdx(l) + 1}, LastIdx(l) + 1, l.last_conf_idx, F)
      BY <1>1, <2>1, <3>1, TopsOfOne
    <3> QED BY <1>1, <1>6, <1>7, <1>10, <2>2, <3>2
  <2>3. CASE ~IsConf(e)
    BY <1>6, <1>7, <1>10, <2>1, <2>3
  <2> QED BY <2>2, <2>3
<1> QED BY <1>8, <1>9, <1>11 DEF Caches

\* truncate_uncommitted() where all configurations but the last are in F, which lies before
\* the truncated entries.
LEMMA TruncateCaches ==
  ASSUME NEW S, NEW l, IsLog(l, S), NEW idx \in Nat, l.first_idx <= idx, idx <= LastIdx(l),
         NEW F, Caches(l, F), \A i, j \in Live(l) : i < j => i \in F, \A i \in Live(l) : i \in F => i < idx,
         NEW m, m = TruncateUncommitted(l, idx)
  PROVE  Caches(m, F) /\ Confs(m) = {i \in Confs(l) : i < idx}
<1>1. /\ l.first_idx \in Nat \ {0} /\ LastIdx(l) \in Nat
  BY EntryIs
<1>2. /\ IsLog(m, S) /\ m.snapshot = l.snapshot /\ m.first_idx = l.first_idx
      /\ LastIdx(m) = idx - 1 /\ Same(m, l, l.first_idx, idx - 1)
  BY TruncateIs
<1>3. LogShape(l, S) /\ l.entries \in Seq(S) /\ Len(l.entries) \in Nat
  BY DEF IsLog, LogShape
<1>4. m.entries = SubSeq(l.entries, 1, Pos(l, idx) - 1)
  BY <1>3 DEF LogShape, TruncateUncommitted, Fields
<1>5. m.memory_usage = l.memory_usage - MemoryUsage(SubSeq(l.entries, Pos(l, idx), Len(l.entries)))
  BY <1>3 DEF LogShape, TruncateUncommitted, Fields
<1>6. m.last_conf_idx = IF l.last_conf_idx > idx - 1 THEN l.prev_conf_idx ELSE l.last_conf_idx
  BY <1>3 DEF LogShape, TruncateUncommitted, Fields
<1>7. m.prev_conf_idx = IF l.last_conf_idx > idx - 1 THEN 0 ELSE l.prev_conf_idx
  BY <1>3 DEF LogShape, TruncateUncommitted, Fields
<1>8. m.memory_usage = MemoryUsage(m.entries)
  <2>0. PICK p : p = Pos(l, idx) - 1
    OBVIOUS
  <2>1. PICK rest : rest = SubSeq(l.entries, Pos(l, idx), Len(l.entries))
    OBVIOUS
  <2>2. p \in Nat /\ p <= Len(l.entries) /\ Pos(l, idx) = p + 1
    BY <1>1, <1>3, <2>0 DEF Pos, LastIdx
  <2>3. Parts(l.entries, p, m.entries, rest)
    BY <1>4, <2>0, <2>1, <2>2 DEF Parts
  <2>4. /\ MemoryUsage(l.entries) = MemoryUsage(m.entries) + MemoryUsage(rest)
        /\ MemoryUsage(m.entries) \in Nat /\ MemoryUsage(rest) \in Nat
    BY <1>3, <2>2, <2>3, MemoryOfParts
  <2>5. m.memory_usage = MemoryUsage(l.entries) - MemoryUsage(rest)
    BY <1>5, <2>1 DEF Caches
  <2> QED BY <2>4, <2>5
<1>9. Confs(m) = {i \in Confs(l) : i < idx}
  <2>1. \A i : i \in m.first_idx..LastIdx(m) <=> i \in l.first_idx..LastIdx(l) /\ i < idx
    BY <1>1, <1>2
  <2>2. \A i \in m.first_idx..LastIdx(m) : GetEntry(m, i) = GetEntry(l, i)
    BY <1>2 DEF Same
  <2> QED BY <2>1, <2>2 DEF Confs
<1>10. Live(m) = {i \in Live(l) : i < idx}
  BY <1>2, <1>9 DEF Live
<1>11. Tops(Live(m), m.last_conf_idx, m.prev_conf_idx, F)
  <2>1. Tops(Live(l), l.last_conf_idx, l.prev_conf_idx, F)
    BY DEF Caches
  <2>2. Live(l) \in SUBSET (1..LastIdx(l))
    BY ConfsIs
  <2> QED BY ZenonT(60), <1>1, <1>6, <1>7, <1>10, <2>1, <2>2, TopsOfCut
<1> QED BY <1>8, <1>9, <1>11 DEF Caches

\* The loop of emplace_back() calls in maybe_append()
LEMMA EmplaceAllCaches ==
  ASSUME NEW S, NEW l, IsLog(l, S), l.snapshot.idx \in Nat, l.snapshot.idx <= LastIdx(l),
         NEW es \in Seq(S), \A k \in 1..Len(es) : es[k].idx = LastIdx(l) + k,
         NEW F, Caches(l, F), NEW m, m = EmplaceAll(l, es)
  PROVE  Caches(m, F)
<1>1. l.first_idx \in Nat \ {0} /\ LastIdx(l) \in Nat /\ l.first_idx <= LastIdx(l) + 1 /\ Len(es) \in Nat
  BY EntryIs
<1>2. /\ IsLog(m, S) /\ m.snapshot = l.snapshot /\ m.first_idx = l.first_idx
      /\ LastIdx(m) = LastIdx(l) + Len(es) /\ Same(m, l, l.first_idx, LastIdx(l))
      /\ \A k \in 1..Len(es) : GetEntry(m, LastIdx(l) + k) = es[k]
  BY EmplaceAllIs
<1>3. LogShape(l, S) /\ l.entries \in Seq(S)
  BY DEF IsLog, LogShape
<1>4. PICK D, last : D = ConfIdxs(es, 0) /\ last = Greatest(D)
  OBVIOUS
<1>5. m.entries = l.entries \o es
  BY <1>3 DEF LogShape, EmplaceAll, Fields
<1>6. m.memory_usage = l.memory_usage + MemoryUsage(es)
  BY <1>3 DEF LogShape, EmplaceAll, Fields
<1>7. m.last_conf_idx = IF D = {} THEN l.last_conf_idx ELSE last
  BY <1>3, <1>4 DEF LogShape, EmplaceAll, Fields
<1>8. m.prev_conf_idx = IF D = {} THEN l.prev_conf_idx
                        ELSE IF D = {last} THEN l.last_conf_idx ELSE Greatest(D \ {last})
  BY <1>3, <1>4 DEF LogShape, EmplaceAll, Fields
<1>9. m.memory_usage = MemoryUsage(m.entries)
  <2>1. MemoryUsage(l.entries \o es) = MemoryUsage(l.entries) + MemoryUsage(es)
    BY <1>3, MemoryOfConcat
  <2>2. l.memory_usage = MemoryUsage(l.entries)
    BY DEF Caches
  <2> QED BY Zenon, <1>5, <1>6, <2>1, <2>2
<1>10. \A x : x \in D <=> \E k \in 1..Len(es) : IsConf(es[k]) /\ x = LastIdx(l) + k
  <2>1. \A k \in 1..Len(es) : es[k].idx = LastIdx(l) + k /\ LastIdx(l) + k > 0
    BY <1>1
  <2> QED BY <1>4, <2>1 DEF ConfIdxs
<1>11. D = {i \in (LastIdx(l) + 1)..LastIdx(m) : IsConf(GetEntry(m, i))}
  <2>1. ASSUME NEW x \in D PROVE x \in (LastIdx(l) + 1)..LastIdx(m) /\ IsConf(GetEntry(m, x))
    <3>1. PICK k \in 1..Len(es) : IsConf(es[k]) /\ x = LastIdx(l) + k
      BY <1>10, <2>1
    <3>2. x \in (LastIdx(l) + 1)..LastIdx(m)
      BY <1>1, <1>2, <3>1
    <3> QED BY <1>2, <3>1, <3>2
  <2>2. ASSUME NEW x \in (LastIdx(l) + 1)..LastIdx(m), IsConf(GetEntry(m, x)) PROVE x \in D
    <3>1. PICK k : k = x - LastIdx(l)
      OBVIOUS
    <3>2. k \in 1..Len(es) /\ x = LastIdx(l) + k
      BY <1>1, <1>2, <3>1
    <3> QED BY <1>2, <1>10, <2>2, <3>2
  <2> QED BY <2>1, <2>2
<1>12. Confs(m) = Confs(l) \cup D
  <2>1. \A i : i \in m.first_idx..LastIdx(m) <=>
                 i \in l.first_idx..LastIdx(l) \/ i \in (LastIdx(l) + 1)..LastIdx(m)
    BY <1>1, <1>2
  <2>2. \A i \in l.first_idx..LastIdx(l) : GetEntry(m, i) = GetEntry(l, i)
    BY <1>2 DEF Same
  <2> QED BY <1>11, <2>1, <2>2 DEF Confs
<1>13. Live(m) = Live(l) \cup D
  <2>1. \A i \in D : i > l.snapshot.idx
    BY <1>1, <1>11
  <2> QED BY <1>2, <1>12, <2>1 DEF Live
<1>14. Tops(Live(m), m.last_conf_idx, m.prev_conf_idx, F)
  <2>1. Tops(Live(l), l.last_conf_idx, l.prev_conf_idx, F)
    BY DEF Caches
  <2>2. Live(l) \in SUBSET (1..LastIdx(l))
    BY ConfsIs
  <2>3. LastIdx(m) \in Nat /\ LastIdx(l) <= LastIdx(m)
    BY <1>1, <1>2
  <2>4. Live(l) \in SUBSET (1..LastIdx(m)) /\ D \in SUBSET (1..LastIdx(m))
    BY <1>1, <1>11, <2>2, <2>3
  <2>5. \A i \in Live(l) : \A j \in D : i < j
    BY <1>1, <1>11, <2>2, <2>3
  <2>6. MovesOn(D, l.last_conf_idx, l.prev_conf_idx, m.last_conf_idx, m.prev_conf_idx)
    BY <1>4, <1>7, <1>8 DEF MovesOn
  <2> QED BY <1>13, <2>1, <2>3, <2>4, <2>5, <2>6, TopsOfMore
<1> QED BY <1>9, <1>14 DEF Caches

\* maybe_append() of a message whose first new entry, at index q, is behind the snapshot and
\* all configurations of F.
LEMMA MaybeAppendCaches ==
  ASSUME NEW S, NEW l, NEW es, NEW p, NEW k, NEW q, NewFrom(l, S, es, p, k, q),
         l.snapshot.idx \in Nat, l.snapshot.idx < q, NEW F, Caches(l, F),
         \A i, j \in Live(l) : i < j => i \in F,
         q <= LastIdx(l) => \A i \in Live(l) : i \in F => i < q,
         NEW m, m = MaybeAppend(l, es)
  PROVE  Caches(m, F)
<1>0. IsLog(l, S) /\ es \in Seq(S)
  BY DEF NewFrom
<1>1. /\ Len(es) \in Nat /\ k \in 1..Len(es) /\ p \in Nat /\ q \in Nat /\ q = p + k
      /\ q <= LastIdx(l) + 1
  BY DEF NewFrom, NextIdx
<1>2. l.first_idx \in Nat \ {0} /\ LastIdx(l) \in Nat /\ l.first_idx <= q
  BY DEF NewFrom, IsLog, LogShape, LastIdx
<1>3. \A j \in 1..Len(es) : es[j].idx = p + j
  BY DEF NewFrom
<1>4. PICK cut : cut = IF q <= LastIdx(l) THEN TruncateUncommitted(l, q) ELSE l
  OBVIOUS
<1>5. PICK new : new = SubSeq(es, k, Len(es))
  OBVIOUS
<1>6. m = EmplaceAll(cut, new)
  <2>1. es[k].idx = q /\ k = FirstNew(l, es) /\ ~(k > Len(es))
    BY <1>1, <1>3 DEF NewFrom
  <2> QED BY <1>4, <1>5, <2>1 DEF MaybeAppend
<1>7. IsLog(cut, S) /\ cut.snapshot = l.snapshot /\ LastIdx(cut) = q - 1 /\ Caches(cut, F)
  <2>1. CASE q <= LastIdx(l)
    <3>1. cut = TruncateUncommitted(l, q)
      BY <1>4, <2>1
    <3>2. IsLog(cut, S) /\ cut.snapshot = l.snapshot /\ LastIdx(cut) = q - 1
      BY <1>0, <1>1, <1>2, <2>1, <3>1, TruncateIs
    <3>3. Caches(cut, F)
      BY <1>0, <1>1, <1>2, <2>1, <3>1, TruncateCaches
    <3> QED BY <3>2, <3>3
  <2>2. CASE ~(q <= LastIdx(l))
    <3>1. LastIdx(l) = q - 1
      BY <1>1, <1>2, <2>2
    <3>2. cut = l
      BY <1>4, <2>2
    <3> QED BY <1>0, <3>1, <3>2
  <2> QED BY <2>1, <2>2
<1>8. new \in Seq(S) /\ Len(new) = Len(es) - k + 1 /\ \A j \in 1..Len(new) : new[j] = es[k + j - 1]
  BY <1>0, <1>1, <1>5
<1>9. \A j \in 1..Len(new) : new[j].idx = LastIdx(cut) + j
  <2> TAKE j \in 1..Len(new)
  <2>1. k + j - 1 \in 1..Len(es) /\ p + (k + j - 1) = q - 1 + j
    BY <1>1, <1>8
  <2>2. new[j] = es[k + j - 1]
    BY <1>8
  <2>3. new[j].idx = q - 1 + j
    BY <1>3, <2>1, <2>2
  <2> QED BY <1>7, <2>3
<1>10. cut.snapshot.idx \in Nat /\ cut.snapshot.idx <= LastIdx(cut)
  BY <1>1, <1>7
<1> QED BY <1>6, <1>7, <1>8, <1>9, <1>10, EmplaceAllCaches

\* apply_snapshot() with a later snapshot.
LEMMA ApplySnapshotCaches ==
  ASSUME NEW S, NEW l, NEW snp, NEW maxEntries, NEW maxBytes, NEW m,
         AfterSnapshot(l, S, snp, maxEntries, maxBytes, m),
         l.snapshot.idx \in Nat, l.snapshot.idx <= snp.idx, NEW F, Caches(l, F)
  PROVE  Caches(m, F)
<1>0. /\ IsLog(l, S) /\ snp.idx \in Nat /\ l.first_idx <= snp.idx + 1
  BY DEF AfterSnapshot
<1>1. LogShape(l, S) /\ l.first_idx \in Nat \ {0} /\ LastIdx(l) \in Nat /\ l.entries \in Seq(S)
      /\ Len(l.entries) \in Nat /\ LastIdx(l) = Len(l.entries) + l.first_idx - 1
  BY <1>0 DEF IsLog, LogShape, LastIdx
<1>2. /\ IsLog(m, S) /\ m.snapshot = snp /\ LastIdx(m) = MaxOf(snp.idx, LastIdx(l))
      /\ l.first_idx <= m.first_idx /\ m.first_idx <= snp.idx + 1
      /\ \A i \in m.first_idx..LastIdx(m) : i <= LastIdx(l) /\ GetEntry(m, i) = GetEntry(l, i)
  BY ApplySnapshotIs
<1>3. m.first_idx \in Nat \ {0}
  BY <1>2, EntryIs
<1>4. m.entries = IF snp.idx > LastIdx(l) THEN << >> ELSE Slice(l, m.first_idx, LastIdx(l))
  BY <1>1 DEF AfterSnapshot, LogShape, ApplySnapshot, Fields
<1>5. m.memory_usage = IF snp.idx > LastIdx(l) THEN 0
                       ELSE l.memory_usage - MemoryUsage(Slice(l, l.first_idx, m.first_idx - 1))
  BY <1>1 DEF AfterSnapshot, LogShape, ApplySnapshot, Fields
<1>6. m.prev_conf_idx = IF snp.idx >= l.prev_conf_idx THEN 0 ELSE l.prev_conf_idx
  BY <1>1 DEF AfterSnapshot, LogShape, ApplySnapshot, Fields
<1>7. m.last_conf_idx = IF snp.idx >= l.prev_conf_idx /\ snp.idx >= l.last_conf_idx THEN 0
                        ELSE l.last_conf_idx
  BY <1>1 DEF AfterSnapshot, LogShape, ApplySnapshot, Fields
<1>8. m.memory_usage = MemoryUsage(m.entries)
  <2>1. CASE snp.idx > LastIdx(l)
    BY <1>4, <1>5, <2>1, MemoryUsageIsNat
  <2>2. CASE ~(snp.idx > LastIdx(l))
    <3>1. PICK p : p = m.first_idx - l.first_idx
      OBVIOUS
    <3>2. p \in Nat /\ p <= Len(l.entries)
      BY SMTT(60), <1>0, <1>1, <1>2, <1>3, <2>2, <3>1
    <3>3. /\ Pos(l, m.first_idx) = p + 1 /\ Pos(l, LastIdx(l)) = Len(l.entries)
          /\ Pos(l, l.first_idx) = 1 /\ Pos(l, m.first_idx - 1) = p
      <4>1. PICK f, h, n, z : f = l.first_idx /\ h = m.first_idx /\ n = Len(l.entries) /\ z = LastIdx(l)
        OBVIOUS
      <4>2. /\ f \in Nat /\ h \in Nat /\ n \in Nat /\ z = n + f - 1 /\ p = h - f
        BY <1>1, <1>3, <3>1, <4>1
      <4>3. h - f + 1 = p + 1 /\ z - f + 1 = n /\ f - f + 1 = 1 /\ h - 1 - f + 1 = p
        BY <4>2
      <4> QED BY <4>1, <4>3 DEF Pos
    <3>4. PICK gone : gone = Slice(l, l.first_idx, m.first_idx - 1)
      OBVIOUS
    <3>5. Parts(l.entries, p, gone, m.entries)
      BY <1>4, <2>2, <3>3, <3>4 DEF Parts, Slice
    <3>6. /\ MemoryUsage(l.entries) = MemoryUsage(gone) + MemoryUsage(m.entries)
          /\ MemoryUsage(gone) \in Nat /\ MemoryUsage(m.entries) \in Nat
      BY <1>1, <3>2, <3>5, MemoryOfParts
    <3>7. m.memory_usage = MemoryUsage(l.entries) - MemoryUsage(gone)
      BY <1>5, <2>2, <3>4 DEF Caches
    <3> QED BY <3>6, <3>7
  <2> QED BY <2>1, <2>2
<1>9. Live(m) = {i \in Live(l) : i > snp.idx}
  <2>1. LastIdx(m) \in Nat /\ LastIdx(l) <= LastIdx(m)
    BY <1>0, <1>1, <1>2 DEF MaxOf
  <2>2. ASSUME NEW i \in Live(m) PROVE i \in Live(l) /\ i > snp.idx
    <3>1. i \in m.first_idx..LastIdx(m) /\ IsConf(GetEntry(m, i)) /\ i > snp.idx
      BY <1>2, <2>2 DEF Live, Confs
    <3>2. i <= LastIdx(l) /\ GetEntry(m, i) = GetEntry(l, i)
      BY <1>2, <3>1
    <3>3. i \in l.first_idx..LastIdx(l) /\ i > l.snapshot.idx
      BY <1>0, <1>1, <1>2, <1>3, <2>1, <3>1, <3>2
    <3> QED BY <3>1, <3>2, <3>3 DEF Live, Confs
  <2>3. ASSUME NEW i \in Live(l), i > snp.idx PROVE i \in Live(m)
    <3>1. i \in l.first_idx..LastIdx(l) /\ IsConf(GetEntry(l, i))
      BY <2>3 DEF Live, Confs
    <3>2. i \in m.first_idx..LastIdx(m)
      BY <1>0, <1>1, <1>2, <1>3, <2>1, <2>3, <3>1
    <3> QED BY <1>2, <2>3, <3>1, <3>2 DEF Live, Confs
  <2> QED BY <2>2, <2>3
<1>10. Tops(Live(m), m.last_conf_idx, m.prev_conf_idx, F)
  <2>1. Tops(Live(l), l.last_conf_idx, l.prev_conf_idx, F)
    BY DEF Caches
  <2>2. Live(l) \in SUBSET (1..LastIdx(l))
    BY <1>0, ConfsIs
  <2>3. MovesBehind(snp.idx, l.last_conf_idx, l.prev_conf_idx, m.last_conf_idx, m.prev_conf_idx)
    BY <1>6, <1>7 DEF MovesBehind
  <2> QED BY <1>0, <1>1, <1>9, <2>1, <2>2, <2>3, TopsOfRest
<1> QED BY <1>8, <1>10 DEF Caches

\* The constructor scans the log.
LEMMA NewLogCaches ==
  ASSUME NEW S, NEW snp, NEW es, NEW m, m = NewLog(snp, es), IsLog(m, S), NEW F
  PROVE  Caches(m, F)
<1>1. m.snapshot = snp /\ m.entries = es /\ m.memory_usage = MemoryUsage(es)
  BY DEF NewLog
<1>2. PICK C : C = ConfIdxs(es, snp.idx)
  OBVIOUS
<1>3. m.last_conf_idx = Greatest(C)
  BY <1>2 DEF NewLog
<1>4. m.prev_conf_idx = Greatest(C \ {Greatest(C)})
  BY <1>2 DEF NewLog
<1>5. C = Live(m) /\ Live(m) \in SUBSET (1..LastIdx(m)) /\ LastIdx(m) \in Nat
  <2>1. /\ Live(m) \in SUBSET (1..LastIdx(m))
        /\ \A s : ConfIdxs(m.entries, s) = {i \in Confs(m) : i > s}
    BY ConfsIs
  <2>2. LastIdx(m) \in Nat
    BY EntryIs
  <2> QED BY <1>1, <1>2, <2>1, <2>2 DEF Live
<1>6. Tops(C, Greatest(C), Greatest(C \ {Greatest(C)}), F)
  BY <1>5, TopsOfScan
<1> QED BY <1>1, <1>3, <1>4, <1>5, <1>6 DEF Caches

\* stable_to()
LEMMA StableToCaches ==
  ASSUME NEW S, NEW l, IsLog(l, S), NEW idx \in Nat, NEW F, Caches(l, F), NEW m, m = StableTo(l, idx)
  PROVE  Caches(m, F) /\ Confs(m) = Confs(l)
<1>1. /\ m.snapshot = l.snapshot /\ m.entries = l.entries /\ m.first_idx = l.first_idx
      /\ m.last_conf_idx = l.last_conf_idx /\ m.prev_conf_idx = l.prev_conf_idx
      /\ m.memory_usage = l.memory_usage
  BY DEF IsLog, LogShape, StableTo, Fields
<1>2. LastIdx(m) = LastIdx(l) /\ \A i : GetEntry(m, i) = GetEntry(l, i)
  BY <1>1 DEF LastIdx, GetEntry, Pos
<1>3. Confs(m) = Confs(l) /\ Live(m) = Live(l)
  BY <1>1, <1>2 DEF Confs, Live
<1> QED BY <1>1, <1>3 DEF Caches

\* What stays may grow.
LEMMA CachesStay ==
  ASSUME NEW l, NEW F, NEW G, Caches(l, F), \A i \in Live(l) : i \in F => i \in G
  PROVE  Caches(l, G)
BY TopsStay DEF Caches

\* What the cached positions are, in terms of a scan of the log.
LEMMA CachesAreExact ==
  ASSUME NEW S, NEW l, IsLog(l, S), NEW F, Caches(l, F), NEW C, C = ConfIdxs(l.entries, l.snapshot.idx)
  PROVE  /\ l.last_conf_idx = Greatest(C)
         /\ l.prev_conf_idx # 0 => l.prev_conf_idx = Greatest(C \ {l.last_conf_idx})
         /\ l.prev_conf_idx = 0 => C \ {l.last_conf_idx} = {} \/ l.last_conf_idx \in F
         /\ l.memory_usage = MemoryUsage(l.entries)
<1>1. C = Live(l) /\ C \in SUBSET (1..LastIdx(l)) /\ LastIdx(l) \in Nat
  <2>1. /\ Live(l) \in SUBSET (1..LastIdx(l))
        /\ \A s : ConfIdxs(l.entries, s) = {i \in Confs(l) : i > s}
    BY ConfsIs
  <2> QED BY <2>1, EntryIs DEF Live
<1>2. PICK a, b : a = l.last_conf_idx /\ b = l.prev_conf_idx
  OBVIOUS
<1>3. /\ IsTop(C, a) /\ (b # 0 => IsTop(C \ {a}, b)) /\ (b = 0 => C \ {a} = {} \/ a \in F)
  BY <1>1, <1>2 DEF Caches, Tops
<1>4. a = Greatest(C)
  BY <1>1, <1>3, GreatestIs
<1>5. C \ {a} \in SUBSET (1..LastIdx(l))
  BY <1>1
<1>6. b # 0 => b = Greatest(C \ {a})
  BY <1>1, <1>3, <1>5, GreatestIs
<1> QED BY <1>2, <1>3, <1>4, <1>6 DEF Caches
=============================================================================
