------------------------- MODULE RaftReplicaProofs -------------------------
(***************************************************************************)
(* Proofs about RaftReplica: one raft::log under everything the protocol   *)
(* may ask of it, for logs, messages and terms of any length and leaders   *)
(* that go on from any log of an earlier one.                              *)
(*                                                                         *)
(* The invariant is stated of a log l with commit index c, the logs H of   *)
(* the leaders so far, the last of them g, of which d entries are decided, *)
(* the term t and whether the server leads, so that each operation has a   *)
(* lemma without primes.                                                   *)
(***************************************************************************)
EXTENDS RaftReplica, RaftLogProofs

----------------------------------------------------------------------------
(* The group.                                                              *)

\* The log of the leader of each term: the present one, and those left behind.  Nobody
\* leads in term 0.
Logs(g, P, t) == [s \in 0..t |-> IF s = t THEN g ELSE P[s]]
LeaderLogs == Logs(group, past, term)

\* Up to index i, log b is what log a is.
Begins(a, b, i) == i <= Len(b) /\ \A j \in 1..i : a[j] = b[j]

\* A leader's log that has an entry of term s is up to there the log of the leader of s.
Matching(H, t) ==
  \A s \in 0..t : \A i \in 1..Len(H[s]) :
    H[s][i].idx = i /\ H[s][i].term \in 1..s /\ Begins(H[s], H[H[s][i].term], i)

\* Whoever led in the term of the last decided entry, or later, has all decided entries.
Complete(H, g, t, d) == d > 0 => \A s \in g[d].term..t : Begins(g, H[s], d)

History(H, g, t, d) ==
  /\ t \in Nat /\ H \in [0..t -> Seq(Entries)] /\ H[t] = g
  /\ d \in Nat /\ d <= Len(g)
  /\ Matching(H, t) /\ Complete(H, g, t, d)

\* Leaders to come have left nothing.
PastLogs(P, t) ==
  /\ t <= MaxLeaders /\ P \in [0..MaxLeaders -> Seq(Entries)]
  /\ \A s \in 0..MaxLeaders : s >= t => P[s] = << >>

----------------------------------------------------------------------------
(* The server.                                                             *)

\* Its log's entries are those after its first index.
Shapes(l, c, ld) == IsLog(l, Entries) /\ l.snapshot.idx \in Nat /\ c \in Nat /\ ld \in BOOLEAN

\* The indices of the server and of the group are in order.
InOrder(l, c, g, d) ==
  /\ l.first_idx <= l.snapshot.idx + 1
  /\ l.first_idx <= l.stable_idx + 1 /\ l.stable_idx <= LastIdx(l)
  /\ l.snapshot.idx <= c /\ c <= LastIdx(l)
  /\ c <= d /\ d <= Len(g)

\* Up to index i the log is the group's.
Agrees(l, g, i) == \A j \in l.first_idx..i : GetEntry(l, j) = g[j]

\* Its entries come from leaders, with those that precede them as far as it has these.
\* Entries of different terms need not come from the same leader's log: a snapshot may be
\* installed over a stale tail.
FromLeaders(l, H, t) ==
  \A i \in l.first_idx..LastIdx(l) :
    /\ GetEntry(l, i).term \in 1..t
    /\ i <= Len(H[GetEntry(l, i).term])
    /\ Agrees(l, H[GetEntry(l, i).term], i)

\* A leader has the group's log itself.
LeaderHasAll(l, g, ld) == ld => LastIdx(l) = Len(g) /\ Agrees(l, g, LastIdx(l))

\* The end of the snapshot is the group's.
SnapshotMatches(l, g) == l.snapshot.idx > 0 => l.snapshot.term = g[l.snapshot.idx].term

Good(l, c, H, g, d, t, ld) ==
  /\ Shapes(l, c, ld) /\ InOrder(l, c, g, d)
  /\ History(H, g, t, d) /\ FromLeaders(l, H, t) /\ LeaderHasAll(l, g, ld)
  /\ Agrees(l, g, c) /\ SnapshotMatches(l, g)

\* The inductive invariant.
IInv == PastLogs(past, term) /\ Good(log, commit, LeaderLogs, group, decided, term, leads)

\* The snapshot does not go back and the decided entries of the group stay.
Keeps(l, g, d, m, h) == l.snapshot.idx <= m.snapshot.idx /\ \A i \in 1..d : h[i] = g[i]

----------------------------------------------------------------------------
(* The group's history.                                                    *)

\* The logs of H2 continue those of H.
Extend(H, t, H2, t2) == t <= t2 /\ \A s \in 0..t : Begins(H[s], H2[s], Len(H[s]))

\* A log that a leader of a term up to t, or a follower of one, may have.
LeaderLike(base, H, t) ==
  /\ base \in Seq(Entries)
  /\ \A i \in 1..Len(base) :
       base[i].idx = i /\ base[i].term \in 1..t /\ Begins(base, H[base[i].term], i)

\* The leader of term t2, the present or the next one, adds entry e to its log.
AddsEntry(H, g, t, d, base, e, t2, H2) ==
  /\ History(H, g, t, d) /\ LeaderLike(base, H, t) /\ Begins(g, base, d)
  /\ t2 \in {t, t + 1} /\ t2 > 0 /\ (t2 = t => base = g)
  /\ e \in Entries /\ e.idx = Len(base) + 1 /\ e.term = t2
  /\ H2 = [s \in 0..t2 |-> IF s = t2 THEN Append(base, e) ELSE H[s]]

\* A sequence of entries, one more at its end.
LEMMA AppendIs ==
  ASSUME NEW g \in Seq(Entries), NEW e \in Entries
  PROVE  /\ Append(g, e) \in Seq(Entries) /\ Len(Append(g, e)) = Len(g) + 1
         /\ \A i \in 1..Len(g) : Append(g, e)[i] = g[i]
         /\ Append(g, e)[Len(g) + 1] = e
OBVIOUS

\* A prefix of a sequence of entries.
LEMMA PrefixIs ==
  ASSUME NEW g \in Seq(Entries), NEW n \in Nat, n <= Len(g)
  PROVE  /\ SubSeq(g, 1, n) \in Seq(Entries) /\ Len(SubSeq(g, 1, n)) = n
         /\ \A i \in 1..n : SubSeq(g, 1, n)[i] = g[i]
<1>1. \A i \in 1..n : g[i] \in Entries
  OBVIOUS
<1>2. /\ SubSeq(g, 1, n) \in Seq(Entries)
      /\ Len(SubSeq(g, 1, n)) = IF 1 <= n THEN n - 1 + 1 ELSE 0
      /\ \A i \in 1..(n - 1 + 1) : SubSeq(g, 1, n)[i] = g[1 + i - 1]
  BY <1>1, SubSeqProperties
<1>3. n - 1 + 1 = n /\ (IF 1 <= n THEN n - 1 + 1 ELSE 0) = n /\ \A i \in 1..n : 1 + i - 1 = i
  OBVIOUS
<1> QED BY <1>2, <1>3

\* What a history consists of.
LEMMA HistoryIs ==
  ASSUME NEW H, NEW g, NEW t, NEW d, History(H, g, t, d)
  PROVE  /\ t \in Nat /\ t \in 0..t /\ d \in Nat /\ Len(g) \in Nat /\ d <= Len(g)
         /\ g \in Seq(Entries) /\ H[t] = g
         /\ \A s \in 0..t : H[s] \in Seq(Entries) /\ Len(H[s]) \in Nat
         /\ \A s \in 0..t : \A i \in 1..Len(H[s]) :
              H[s][i] \in Entries /\ H[s][i].idx = i /\ H[s][i].term \in 1..s
         /\ \A s \in 0..t : LeaderLike(H[s], H, t)
<1>1. /\ t \in Nat /\ H \in [0..t -> Seq(Entries)] /\ H[t] = g /\ d \in Nat /\ d <= Len(g)
      /\ Matching(H, t)
  BY DEF History
<1>2. t \in 0..t
  BY <1>1
<1>3. \A s \in 0..t : H[s] \in Seq(Entries) /\ Len(H[s]) \in Nat
  BY <1>1
<1>4. \A s \in 0..t : \A i \in 1..Len(H[s]) :
              H[s][i] \in Entries /\ H[s][i].idx = i /\ H[s][i].term \in 1..s
  BY <1>1, <1>3 DEF Matching
<1>5. ASSUME NEW s \in 0..t PROVE LeaderLike(H[s], H, t)
  <2>1. \A i \in 1..Len(H[s]) : H[s][i].term \in 1..t
    BY <1>1, <1>4
  <2> QED BY <1>1, <1>3, <1>4, <2>1 DEF LeaderLike, Matching
<1> QED BY <1>1, <1>2, <1>3, <1>4, <1>5

\* The new history.
LEMMA HistoryGrows ==
  ASSUME NEW H, NEW g, NEW t, NEW d, NEW base, NEW e, NEW t2, NEW H2,
         AddsEntry(H, g, t, d, base, e, t2, H2)
  PROVE  /\ History(H2, Append(base, e), t2, d)
         /\ Extend(H, t, H2, t2)
         /\ Begins(g, Append(base, e), d)
<1> DEFINE b == Append(base, e)
<1>1. /\ History(H, g, t, d) /\ LeaderLike(base, H, t) /\ Begins(g, base, d)
      /\ t2 \in {t, t + 1} /\ t2 > 0 /\ (t2 = t => base = g)
      /\ e \in Entries /\ e.idx = Len(base) + 1 /\ e.term = t2
      /\ H2 = [s \in 0..t2 |-> IF s = t2 THEN b ELSE H[s]]
  BY DEF AddsEntry
<1>2. /\ t \in Nat /\ t \in 0..t /\ d \in Nat /\ H[t] = g
      /\ \A s \in 0..t : H[s] \in Seq(Entries) /\ Len(H[s]) \in Nat
      /\ base \in Seq(Entries) /\ Len(base) \in Nat /\ d <= Len(base)
  BY <1>1, HistoryIs DEF LeaderLike, Begins
<1>3. /\ b \in Seq(Entries) /\ Len(b) = Len(base) + 1 /\ b[Len(base) + 1] = e
      /\ \A j \in 1..Len(base) : b[j] = base[j]
  BY <1>1, <1>2
<1> HIDE DEF b
<1>4. /\ t2 \in Nat \ {0} /\ t <= t2 /\ t2 <= t + 1 /\ H2 \in [0..t2 -> Seq(Entries)] /\ H2[t2] = b
      /\ \A s \in 0..t2 : s # t2 => s \in 0..t /\ H2[s] = H[s]
  BY <1>1, <1>2, <1>3
<1>5. Begins(g, b, d)
  BY <1>1, <1>2, <1>3 DEF Begins
<1>6. Extend(H, t, H2, t2)
  <2> SUFFICES ASSUME NEW s \in 0..t PROVE Begins(H[s], H2[s], Len(H[s]))
    BY <1>4 DEF Extend
  <2>1. CASE s = t2
    BY <1>1, <1>2, <1>3, <1>4, <2>1 DEF Begins
  <2>2. CASE s # t2
    <3>1. H2[s] = H[s]
      BY <1>2, <1>4, <2>2
    <3> QED BY <1>2, <3>1 DEF Begins
  <2> QED BY <2>1, <2>2
<1>7. Matching(H2, t2)
  <2> SUFFICES ASSUME NEW s \in 0..t2, NEW i \in 1..Len(H2[s])
               PROVE  /\ H2[s][i].idx = i /\ H2[s][i].term \in 1..s
                      /\ Begins(H2[s], H2[H2[s][i].term], i)
    BY DEF Matching
  <2>1. CASE s # t2
    <3>1. s \in 0..t /\ H2[s] = H[s] /\ s < t2
      BY <1>4, <2>1
    <3>2. H[s][i].idx = i /\ H[s][i].term \in 1..s /\ Begins(H[s], H[H[s][i].term], i)
      BY <1>1, <3>1 DEF History, Matching
    <3>3. H2[H[s][i].term] = H[H[s][i].term]
      BY <1>4, <3>1, <3>2
    <3> QED BY <3>1, <3>2, <3>3
  <2>2. CASE s = t2 /\ i = Len(base) + 1
    <3>1. H2[s][i] = e /\ H2[s] = b
      BY <1>3, <1>4, <2>2
    <3> QED BY <1>1, <1>2, <1>3, <1>4, <2>2, <3>1 DEF Begins
  <2>3. CASE s = t2 /\ i # Len(base) + 1
    <3>1. H2[s] = b /\ i \in 1..Len(base) /\ b[i] = base[i]
      BY <1>2, <1>3, <1>4, <2>3
    <3>2. base[i].idx = i /\ base[i].term \in 1..t /\ Begins(base, H[base[i].term], i)
      BY <1>1, <3>1 DEF LeaderLike
    <3>3. CASE base[i].term = t2
      <4>1. Begins(b, b, i)
        BY <1>2, <1>3, <3>1 DEF Begins
      <4>2. H2[base[i].term] = b
        BY <1>4, <3>3
      <4>3. b[i].term \in 1..t2
        BY <1>4, <3>1, <3>3
      <4> QED BY <2>3, <3>1, <3>2, <4>1, <4>2, <4>3
    <3>4. CASE base[i].term # t2
      <4>1. base[i].term \in 1..t2 /\ H2[base[i].term] = H[base[i].term]
        BY SMTT(60), <1>2, <1>4, <3>2, <3>4
      <4>2. Begins(b, H[base[i].term], i)
        <5>1. \A j \in 1..i : b[j] = base[j]
          BY <1>2, <1>3, <3>1
        <5> QED BY <3>2, <5>1 DEF Begins
      <4> QED BY <2>3, <3>1, <3>2, <4>1, <4>2
    <3> QED BY <3>3, <3>4
  <2> QED BY <2>1, <2>2, <2>3
<1>8. Complete(H2, b, t2, d)
  <2> SUFFICES ASSUME d > 0, NEW s \in b[d].term..t2 PROVE Begins(b, H2[s], d)
    BY DEF Complete
  <2>1. d \in 1..d /\ b[d] = g[d] /\ \A j \in 1..d : b[j] = g[j]
    BY <1>2, <1>5 DEF Begins
  <2>2. CASE s = t2
    BY <1>2, <1>3, <1>4, <2>2 DEF Begins
  <2>3. CASE s # t2
    <3>0. d \in 1..Len(g) /\ g[d].term \in 1..t /\ g[d].term \in Nat
      BY <1>1, <1>2, <2>1, HistoryIs
    <3>1. s \in g[d].term..t /\ s \in 0..t2
      BY <1>2, <1>4, <2>1, <2>3, <3>0
    <3>2. Begins(g, H[s], d) /\ H2[s] = H[s]
      BY <1>1, <1>4, <2>3, <3>1 DEF History, Complete
    <3> QED BY <2>1, <3>2 DEF Begins
  <2> QED BY <2>2, <2>3
<1> QED BY <1>2, <1>3, <1>4, <1>5, <1>6, <1>7, <1>8 DEF History, b

\* A majority has an entry of the leader's own term.
LEMMA NewDecision ==
  ASSUME NEW H, NEW g, NEW t, NEW d, NEW n, History(H, g, t, d), n \in (d + 1)..Len(g), g[n].term = t
  PROVE  History(H, g, t, n)
<1>1. /\ t \in Nat /\ H \in [0..t -> Seq(Entries)] /\ H[t] = g /\ d \in Nat /\ Len(g) \in Nat
      /\ Matching(H, t)
  BY HistoryIs DEF History
<1>2. n \in Nat /\ n <= Len(g)
  BY <1>1
<1>3. \A s \in g[n].term..t : Begins(g, H[s], n)
  BY <1>1, <1>2 DEF Begins
<1> QED BY <1>1, <1>2, <1>3 DEF History, Complete

\* A prefix of a log is one that a follower may have.
LEMMA PrefixIsLeaderLike ==
  ASSUME NEW a, NEW H, NEW t, LeaderLike(a, H, t), NEW n \in 0..Len(a)
  PROVE  LeaderLike(SubSeq(a, 1, n), H, t)
<1>1. a \in Seq(Entries) /\ Len(a) \in Nat
  BY DEF LeaderLike
<1>2. /\ SubSeq(a, 1, n) \in Seq(Entries) /\ Len(SubSeq(a, 1, n)) = n
      /\ \A i \in 1..n : SubSeq(a, 1, n)[i] = a[i]
  BY <1>1
<1>3. \A i \in 1..n : i \in 1..Len(a) /\ \A j \in 1..i : j \in 1..n
  BY <1>1
<1> QED BY <1>1, <1>2, <1>3 DEF LeaderLike, Begins

\* What a leader leaves behind.
Leaves(P2, g, P, t, t2) == P2 = IF t2 = t THEN P ELSE [P EXCEPT ![t] = g]

\* The logs of the leaders, with the new one.
LEMMA LogsNext ==
  ASSUME NEW g, NEW P, NEW t, NEW d, NEW base, NEW e, NEW t2, NEW H2, NEW P2,
         PastLogs(P, t), AddsEntry(Logs(g, P, t), g, t, d, base, e, t2, H2), t2 <= MaxLeaders,
         Leaves(P2, g, P, t, t2)
  PROVE  Logs(Append(base, e), P2, t2) = H2 /\ PastLogs(P2, t2)
<1>0. PICK H : H = Logs(g, P, t)
  OBVIOUS
<1>1. /\ t \in Nat /\ t2 \in {t, t + 1} /\ t2 \in Nat /\ g \in Seq(Entries)
      /\ H2 = [s \in 0..t2 |-> IF s = t2 THEN Append(base, e) ELSE H[s]]
  BY <1>0, HistoryIs DEF AddsEntry
<1>2. /\ MaxLeaders \in Nat /\ P \in [0..MaxLeaders -> Seq(Entries)]
      /\ \A s \in 0..MaxLeaders : s >= t => P[s] = << >>
  BY ReplicaAssumption DEF PastLogs
<1>3. t \in 0..MaxLeaders
  BY <1>1, <1>2 DEF PastLogs
<1>4. P2 \in [0..MaxLeaders -> Seq(Entries)]
  BY <1>1, <1>2 DEF Leaves
<1>5. PICK b : b = Append(base, e)
  OBVIOUS
<1>6. ASSUME NEW s \in 0..t2, s # t2 PROVE H[s] = P2[s]
  <2>1. s \in 0..t
    BY <1>1, <1>6
  <2>2. H[s] = IF s = t THEN g ELSE P[s]
    BY <1>0, <2>1 DEF Logs
  <2>3. s \in 0..MaxLeaders
    BY <1>3, <2>1, <1>2
  <2>4. CASE t2 = t
    BY <1>6, <2>2, <2>4 DEF Leaves
  <2>5. CASE t2 # t
    BY <1>2, <1>3, <2>2, <2>3, <2>5 DEF Leaves
  <2> QED BY <2>4, <2>5
<1>7. Logs(b, P2, t2) = H2
  <2>1. H2 = [s \in 0..t2 |-> IF s = t2 THEN b ELSE H[s]]
    BY <1>1, <1>5
  <2>2. \A s \in 0..t2 : (IF s = t2 THEN b ELSE H[s]) = (IF s = t2 THEN b ELSE P2[s])
    BY <1>6
  <2> QED BY <2>1, <2>2, Zenon DEF Logs
<1>8. ASSUME NEW s \in 0..MaxLeaders, s >= t2 PROVE P2[s] = << >>
  <2>1. CASE t2 = t
    BY <1>2, <1>8, <2>1 DEF Leaves
  <2>2. CASE t2 = t + 1
    <3>1. s # t /\ s >= t
      BY <1>1, <1>8, <2>2
    <3>2. P2[s] = P[s]
      BY <1>1, <1>2, <2>2, <3>1 DEF Leaves
    <3> QED BY <1>2, <3>1, <3>2
  <2> QED BY <1>1, <2>1, <2>2
<1> QED BY <1>4, <1>5, <1>7, <1>8 DEF PastLogs

----------------------------------------------------------------------------
(* The server's log.                                                       *)

\* The numbers of a good state and their order.
LEMMA Numbers ==
  ASSUME NEW l, NEW c, NEW H, NEW g, NEW d, NEW t, NEW ld, Good(l, c, H, g, d, t, ld)
  PROVE  /\ l.first_idx \in Nat \ {0} /\ LastIdx(l) \in Nat /\ l.snapshot.idx \in Nat
         /\ l.stable_idx \in Nat /\ c \in Nat /\ d \in Nat /\ Len(g) \in Nat /\ t \in Nat
         /\ l.first_idx <= LastIdx(l) + 1 /\ l.first_idx <= l.snapshot.idx + 1
         /\ l.first_idx <= l.stable_idx + 1 /\ l.stable_idx <= LastIdx(l)
         /\ l.snapshot.idx <= c /\ c <= LastIdx(l) /\ c <= d /\ d <= Len(g)
<1>1. IsLog(l, Entries) /\ l.snapshot.idx \in Nat /\ c \in Nat
  BY DEF Good, Shapes
<1>2. l.first_idx \in Nat \ {0} /\ LastIdx(l) \in Nat /\ l.first_idx <= LastIdx(l) + 1
  BY <1>1, EntryIs
<1>3. Len(g) \in Nat /\ d \in Nat /\ t \in Nat
  BY HistoryIs DEF Good
<1>4. l.stable_idx \in Nat
  BY <1>1 DEF IsLog, LogShape
<1> QED BY <1>1, <1>2, <1>3, <1>4 DEF Good, InOrder

\* Entries have a term.
LEMMA EntryTerm == \A e \in Entries : e.term \in Nat
BY DEF Entries

\* A log that is a prefix of the present leader's.
LEMMA PrefixFromLeaders ==
  ASSUME NEW l, NEW H, NEW g, NEW t, NEW d, IsLog(l, Entries), History(H, g, t, d),
         Agrees(l, g, LastIdx(l)), LastIdx(l) <= Len(g)
  PROVE  FromLeaders(l, H, t) /\ \A c \in Nat : c <= LastIdx(l) => Agrees(l, g, c)
<1>1. /\ l.first_idx \in Nat \ {0} /\ LastIdx(l) \in Nat /\ Len(g) \in Nat /\ t \in 0..t /\ H[t] = g
      /\ t \in Nat /\ LeaderLike(g, H, t)
  BY EntryIs, HistoryIs
<1>2. \A c \in Nat : c <= LastIdx(l) => Agrees(l, g, c)
  <2> SUFFICES ASSUME NEW c \in Nat, c <= LastIdx(l), NEW j \in l.first_idx..c
               PROVE  GetEntry(l, j) = g[j]
    BY DEF Agrees
  <2>1. j \in l.first_idx..LastIdx(l)
    BY <1>1
  <2> QED BY <2>1 DEF Agrees
<1>3. FromLeaders(l, H, t)
  <2> SUFFICES ASSUME NEW i \in l.first_idx..LastIdx(l), NEW T, T = GetEntry(l, i).term
               PROVE  T \in 1..t /\ i <= Len(H[T]) /\ Agrees(l, H[T], i)
    BY DEF FromLeaders
  <2>1. i \in 1..Len(g) /\ i \in Nat /\ i <= LastIdx(l)
    BY <1>1
  <2>2. GetEntry(l, i) = g[i] /\ Agrees(l, g, i)
    BY <1>2, <2>1 DEF Agrees
  <2>3. T \in 1..t /\ Begins(g, H[T], i)
    BY <1>1, <2>1, <2>2 DEF LeaderLike
  <2>4. \A j \in l.first_idx..i : j \in 1..i
    BY <1>1, <2>1
  <2> QED BY <2>2, <2>3, <2>4 DEF Begins, Agrees
<1> QED BY <1>2, <1>3

\* A part of a log.
LEMMA PartFromLeaders ==
  ASSUME NEW l, NEW m, NEW H, NEW g, NEW t, IsLog(l, Entries), IsLog(m, Entries),
         l.first_idx <= m.first_idx, FromLeaders(l, H, t),
         \A i \in m.first_idx..LastIdx(m) : i <= LastIdx(l) /\ GetEntry(m, i) = GetEntry(l, i)
  PROVE  /\ FromLeaders(m, H, t)
         /\ \A c \in Nat : c <= LastIdx(m) /\ Agrees(l, g, c) => Agrees(m, g, c)
<1>1. /\ l.first_idx \in Nat \ {0} /\ LastIdx(l) \in Nat
      /\ m.first_idx \in Nat \ {0} /\ LastIdx(m) \in Nat
  BY EntryIs
<1>2. \A i \in m.first_idx..LastIdx(m) :
        i \in l.first_idx..LastIdx(l) /\ GetEntry(m, i) = GetEntry(l, i)
  BY <1>1
<1>3. ASSUME NEW h, NEW c \in Nat, c <= LastIdx(m), Agrees(l, h, c)
      PROVE  Agrees(m, h, c)
  <2> SUFFICES ASSUME NEW j \in m.first_idx..c PROVE GetEntry(m, j) = h[j]
    BY DEF Agrees
  <2>1. j \in m.first_idx..LastIdx(m) /\ j \in l.first_idx..c
    BY <1>1, <1>3
  <2> QED BY <1>2, <1>3, <2>1 DEF Agrees
<1>4. FromLeaders(m, H, t)
  <2> SUFFICES ASSUME NEW i \in m.first_idx..LastIdx(m), NEW T, T = GetEntry(m, i).term
               PROVE  T \in 1..t /\ i <= Len(H[T]) /\ Agrees(m, H[T], i)
    BY DEF FromLeaders
  <2>1. T \in 1..t /\ i <= Len(H[T]) /\ Agrees(l, H[T], i)
    BY <1>2 DEF FromLeaders
  <2>2. i \in Nat /\ i <= LastIdx(m)
    BY <1>1
  <2> QED BY <1>3, <2>1, <2>2
<1> QED BY <1>3, <1>4

\* Log matching: a log that has an entry of the present leader's log has all that precede it.
LEMMA LogMatching ==
  ASSUME NEW l, NEW c, NEW H, NEW g, NEW d, NEW t, NEW ld, Good(l, c, H, g, d, t, ld),
         NEW i \in l.first_idx..LastIdx(l), i <= Len(g), GetEntry(l, i).term = g[i].term
  PROVE  Agrees(l, g, i)
<1>1. l.first_idx \in Nat \ {0} /\ LastIdx(l) \in Nat /\ Len(g) \in Nat
  BY Numbers
<1>2. i \in 1..Len(g) /\ \A j \in l.first_idx..i : j \in 1..i
  BY <1>1
<1>3. PICK T : T = g[i].term
  OBVIOUS
<1>4. Agrees(l, H[T], i)
  BY <1>3 DEF Good, FromLeaders
<1>5. Begins(g, H[T], i)
  <2>1. LeaderLike(g, H, t)
    BY HistoryIs DEF Good
  <2> QED BY <1>2, <1>3, <2>1 DEF LeaderLike
<1> QED BY <1>2, <1>4, <1>5 DEF Agrees, Begins

\* A step that leaves the group alone and makes of log l a log m whose entries are a part
\* of l's, as taking or installing a snapshot, persisting and restarting do.
LEMMA PartIsGood ==
  ASSUME NEW l, NEW c, NEW H, NEW g, NEW d, NEW t, NEW ld, Good(l, c, H, g, d, t, ld),
         NEW m, IsLog(m, Entries), m.snapshot.idx \in Nat, l.first_idx <= m.first_idx,
         \A i \in m.first_idx..LastIdx(m) : i <= LastIdx(l) /\ GetEntry(m, i) = GetEntry(l, i),
         NEW b \in Nat, InOrder(m, b, g, d), Agrees(l, g, b) \/ m.first_idx = b + 1,
         NEW le \in BOOLEAN, le => ld /\ LastIdx(m) = LastIdx(l), SnapshotMatches(m, g)
  PROVE  Good(m, b, H, g, d, t, le)
<1>1. /\ IsLog(l, Entries) /\ FromLeaders(l, H, t) /\ History(H, g, t, d) /\ LeaderHasAll(l, g, ld)
  BY DEF Good, Shapes
<1>2. /\ FromLeaders(m, H, t)
      /\ \A i \in Nat : i <= LastIdx(m) /\ Agrees(l, g, i) => Agrees(m, g, i)
  BY <1>1, PartFromLeaders
<1>3. b <= LastIdx(m) /\ m.first_idx \in Nat /\ LastIdx(m) \in Nat
  BY EntryIs DEF InOrder
<1>4. Agrees(m, g, b)
  <2>1. m.first_idx = b + 1 => m.first_idx..b = {}
    OBVIOUS
  <2> QED BY <1>2, <1>3, <2>1 DEF Agrees
<1>5. LeaderHasAll(m, g, le)
  BY <1>1, <1>2, <1>3 DEF LeaderHasAll
<1>6. Shapes(m, b, le)
  BY DEF Shapes
<1> QED BY <1>1, <1>2, <1>4, <1>5, <1>6 DEF Good

\* fsm::get_output() marks the log stable.
LEMMA PersistIsGood ==
  ASSUME NEW l, NEW c, NEW H, NEW g, NEW d, NEW t, NEW ld, Good(l, c, H, g, d, t, ld),
         NEW m, m = StableTo(l, LastIdx(l))
  PROVE  Good(m, c, H, g, d, t, ld) /\ Keeps(l, g, d, m, g)
<1>1. IsLog(l, Entries) /\ Agrees(l, g, c) /\ SnapshotMatches(l, g) /\ ld \in BOOLEAN
  BY DEF Good, Shapes
<1>2. /\ l.first_idx \in Nat \ {0} /\ LastIdx(l) \in Nat /\ l.snapshot.idx \in Nat
      /\ c \in Nat /\ d \in Nat /\ l.first_idx <= LastIdx(l) + 1
      /\ l.first_idx <= l.snapshot.idx + 1
      /\ l.snapshot.idx <= c /\ c <= LastIdx(l) /\ c <= d /\ d <= Len(g)
  BY Numbers
<1>3. /\ IsLog(m, Entries) /\ m.snapshot = l.snapshot /\ m.first_idx = l.first_idx
      /\ m.stable_idx = LastIdx(l) /\ LastIdx(m) = LastIdx(l) /\ Same(m, l, l.first_idx, LastIdx(l))
  BY <1>1, <1>2, StableToIs
<1>4. InOrder(m, c, g, d)
  BY <1>2, <1>3 DEF InOrder
<1>5. SnapshotMatches(m, g) /\ m.snapshot.idx \in Nat
  BY <1>1, <1>2, <1>3 DEF SnapshotMatches
<1>6. \A i \in m.first_idx..LastIdx(m) : i <= LastIdx(l) /\ GetEntry(m, i) = GetEntry(l, i)
  BY <1>2, <1>3 DEF Same
<1>7. Good(m, c, H, g, d, t, ld)
  BY <1>1, <1>2, <1>3, <1>4, <1>5, <1>6, PartIsGood
<1> QED BY <1>2, <1>3, <1>7 DEF Keeps

\* A snapshot that ends in one of the group's entries: one of the applied entries, or one
\* from the leader that reaches past the commit index, which becomes b.
Snapshot(l, c, g, d, ld, snp, maxEntries, b) ==
  /\ snp.idx \in Nat /\ l.snapshot.idx < snp.idx /\ snp.idx <= d /\ snp.term = g[snp.idx].term
  /\ \/ b = c /\ snp.idx <= c
     \/ b = snp.idx /\ c < snp.idx /\ maxEntries = 0 /\ ~ld

\* fsm::apply_snapshot()
LEMMA SnapshotIsGood ==
  ASSUME NEW l, NEW c, NEW H, NEW g, NEW d, NEW t, NEW ld, Good(l, c, H, g, d, t, ld),
         NEW snp, NEW maxEntries \in Nat, NEW maxBytes \in Nat, NEW b,
         Snapshot(l, c, g, d, ld, snp, maxEntries, b),
         NEW m, m = ApplySnapshot(l, snp, maxEntries, maxBytes)
  PROVE  Good(m, b, H, g, d, t, ld) /\ Keeps(l, g, d, m, g)
<1>1. IsLog(l, Entries) /\ Agrees(l, g, c) /\ ld \in BOOLEAN
  BY DEF Good, Shapes
<1>2. /\ l.first_idx \in Nat \ {0} /\ LastIdx(l) \in Nat /\ l.snapshot.idx \in Nat
      /\ l.stable_idx \in Nat /\ l.stable_idx <= LastIdx(l)
      /\ c \in Nat /\ d \in Nat /\ Len(g) \in Nat /\ l.first_idx <= l.snapshot.idx + 1
      /\ l.snapshot.idx <= c /\ c <= LastIdx(l) /\ c <= d /\ d <= Len(g)
  BY Numbers
<1>3. /\ IsLog(m, Entries) /\ m.snapshot = snp /\ m.stable_idx = MaxOf(snp.idx, l.stable_idx)
      /\ LastIdx(m) = MaxOf(snp.idx, LastIdx(l))
      /\ l.first_idx <= m.first_idx /\ m.first_idx <= snp.idx + 1
      /\ maxEntries = 0 => m.first_idx = snp.idx + 1
      /\ \A i \in m.first_idx..LastIdx(m) : i <= LastIdx(l) /\ GetEntry(m, i) = GetEntry(l, i)
  <2>1. l.first_idx <= snp.idx + 1 /\ snp.idx \in Nat
    BY SMTT(60), <1>2 DEF Snapshot
  <2>2. AfterSnapshot(l, Entries, snp, maxEntries, maxBytes, m)
    BY <1>1, <2>1 DEF AfterSnapshot
  <2> QED BY <2>2, ApplySnapshotIs
<1>4. m.first_idx \in Nat \ {0}
  BY <1>3, EntryIs
<1>5. b \in Nat /\ snp.idx \in Nat /\ l.snapshot.idx < snp.idx /\ snp.idx <= b /\ b <= d
      /\ (b = c \/ b = snp.idx)
  BY <1>2 DEF Snapshot
<1>6. snp.idx <= m.stable_idx /\ m.stable_idx <= LastIdx(m) /\ b <= LastIdx(m) /\ m.stable_idx \in Nat
  BY SMTT(60), <1>2, <1>3, <1>5 DEF MaxOf
<1>7. m.first_idx <= m.stable_idx + 1
  BY <1>3, <1>4, <1>5, <1>6
<1>8. InOrder(m, b, g, d)
  BY <1>2, <1>3, <1>5, <1>6, <1>7 DEF InOrder
<1>9. Agrees(l, g, b) \/ m.first_idx = b + 1
  BY <1>1, <1>3 DEF Snapshot
<1>10. ld => ld /\ LastIdx(m) = LastIdx(l)
  BY <1>2, <1>3, <1>5 DEF MaxOf, Snapshot
<1>11. SnapshotMatches(m, g) /\ m.snapshot.idx \in Nat
  BY <1>3 DEF SnapshotMatches, Snapshot
<1>12. Good(m, b, H, g, d, t, ld)
  BY <1>1, <1>3, <1>5, <1>8, <1>9, <1>10, <1>11, PartIsGood
<1> QED BY <1>2, <1>3, <1>5, <1>12 DEF Keeps

\* A restart: the log is rebuilt from its snapshot and its stable entries.
LEMMA RestartIsGood ==
  ASSUME NEW l, NEW c, NEW H, NEW g, NEW d, NEW t, NEW ld, Good(l, c, H, g, d, t, ld),
         NEW b \in Nat, l.snapshot.idx <= b, b <= c, b <= l.stable_idx,
         NEW m, m = NewLog(l.snapshot, Slice(l, l.first_idx, l.stable_idx)),
         NEW le \in BOOLEAN, ~le
  PROVE  Good(m, b, H, g, d, t, le) /\ Keeps(l, g, d, m, g)
<1>1. IsLog(l, Entries) /\ Agrees(l, g, c) /\ SnapshotMatches(l, g)
  BY DEF Good, Shapes
<1>2. /\ l.first_idx \in Nat \ {0} /\ LastIdx(l) \in Nat /\ l.snapshot.idx \in Nat
      /\ l.stable_idx \in Nat /\ l.stable_idx <= LastIdx(l) /\ l.first_idx <= l.stable_idx + 1
      /\ c \in Nat /\ d \in Nat /\ Len(g) \in Nat /\ l.first_idx <= l.snapshot.idx + 1
      /\ l.snapshot.idx <= c /\ c <= LastIdx(l) /\ c <= d /\ d <= Len(g)
  BY Numbers
<1>3. /\ IsLog(m, Entries) /\ m.snapshot = l.snapshot /\ m.stable_idx = LastIdx(m)
      /\ l.stable_idx >= l.first_idx => /\ m.first_idx = l.first_idx /\ LastIdx(m) = l.stable_idx
                                        /\ Same(m, l, l.first_idx, l.stable_idx)
      /\ l.stable_idx < l.first_idx => /\ m.first_idx = l.snapshot.idx + 1
                                       /\ LastIdx(m) = l.snapshot.idx
  BY SMTT(60), <1>1, <1>2, NewLogIs
<1>4. m.snapshot.idx \in Nat /\ SnapshotMatches(m, g)
  BY <1>1, <1>2, <1>3 DEF SnapshotMatches
<1>5. /\ l.first_idx <= m.first_idx
      /\ \A i \in m.first_idx..LastIdx(m) : i <= LastIdx(l) /\ GetEntry(m, i) = GetEntry(l, i)
  <2>1. CASE l.stable_idx >= l.first_idx
    BY <1>2, <1>3, <2>1 DEF Same
  <2>2. CASE l.stable_idx < l.first_idx
    BY <1>2, <1>3, <2>2
  <2> QED BY <1>2, <2>1, <2>2
<1>6. InOrder(m, b, g, d)
  <2>1. m.first_idx <= m.snapshot.idx + 1 /\ m.first_idx <= LastIdx(m) + 1 /\ b <= LastIdx(m)
    BY <1>2, <1>3
  <2>2. LastIdx(m) \in Nat /\ b <= d
    BY <1>2, <1>3
  <2> QED BY <1>2, <1>3, <2>1, <2>2 DEF InOrder
<1>7. Agrees(l, g, b)
  BY <1>1, <1>2 DEF Agrees
<1>8. Good(m, b, H, g, d, t, le)
  BY <1>1, <1>3, <1>4, <1>5, <1>6, <1>7, PartIsGood
<1> QED BY <1>2, <1>3, <1>8 DEF Keeps

\* A message of the group's leader with its n entries after index p, of which match_term()
\* accepts the entry at p.
Message(l, g, p, n, es) ==
  /\ p \in Nat /\ n \in Nat /\ p + n <= Len(g) /\ es = SubSeq(g, p + 1, p + n)
  /\ MatchTerm(l, p, IF p = 0 THEN 0 ELSE g[p].term)

\* The log matching property: where match_term() holds the log is the leader's.
LEMMA MatchPoint ==
  ASSUME NEW l, NEW c, NEW H, NEW g, NEW d, NEW t, NEW ld, Good(l, c, H, g, d, t, ld),
         NEW p, NEW n, NEW es, Message(l, g, p, n, es)
  PROVE  Agrees(l, g, p) /\ p <= LastIdx(l)
<1>1. /\ l.first_idx \in Nat \ {0} /\ LastIdx(l) \in Nat /\ l.snapshot.idx \in Nat
      /\ c \in Nat /\ Len(g) \in Nat /\ l.first_idx <= l.snapshot.idx + 1
      /\ l.snapshot.idx <= c /\ c <= LastIdx(l)
  BY Numbers
<1>2. Agrees(l, g, c)
  BY DEF Good
<1>3. p \in Nat /\ p <= Len(g) /\ MatchTerm(l, p, IF p = 0 THEN 0 ELSE g[p].term)
  BY <1>1 DEF Message
<1>4. CASE p <= l.snapshot.idx
  <2>1. p <= c
    BY <1>1, <1>3, <1>4
  <2>2. \A j \in l.first_idx..p : j \in l.first_idx..c
    BY <1>1, <1>3, <2>1
  <2> QED BY <1>1, <1>2, <1>3, <2>1, <2>2 DEF Agrees
<1>5. CASE ~(p <= l.snapshot.idx)
  <2>1. p # 0 /\ p > l.snapshot.idx /\ ~(p < l.snapshot.idx) /\ p # l.snapshot.idx
    BY <1>1, <1>3, <1>5
  <2>2. p <= LastIdx(l) /\ GetEntry(l, p).term = g[p].term
    BY <1>3, <2>1 DEF MatchTerm
  <2>3. p \in l.first_idx..LastIdx(l)
    BY <1>1, <1>3, <2>1, <2>2
  <2> QED BY <1>3, <2>2, <2>3, LogMatching
<1> QED BY <1>4, <1>5

\* The entries of a message.
LEMMA MessageEntries ==
  ASSUME NEW l, NEW c, NEW H, NEW g, NEW d, NEW t, NEW ld, Good(l, c, H, g, d, t, ld),
         NEW p, NEW n, NEW es, Message(l, g, p, n, es)
  PROVE  /\ es \in Seq(Entries) /\ Len(es) = n /\ p \in Nat /\ n \in Nat /\ p + n <= Len(g)
         /\ \A j \in 1..n : es[j] = g[p + j] /\ es[j].idx = p + j
<1>1. g \in Seq(Entries) /\ Len(g) \in Nat /\ \A i \in 1..Len(g) : g[i].idx = i
  BY HistoryIs DEF Good, LeaderLike
<1>2. p \in Nat /\ n \in Nat /\ p + n <= Len(g) /\ es = SubSeq(g, p + 1, p + n)
  BY DEF Message
<1>3. PICK a, b : a = p + 1 /\ b = p + n
  OBVIOUS
<1>4. /\ a \in Int /\ b \in Int /\ 1 <= a /\ b <= Len(g) /\ a..b \subseteq 1..Len(g)
      /\ \A i \in a..b : g[i] \in Entries
  BY SMTT(60), <1>1, <1>2, <1>3
<1>5. /\ SubSeq(g, a, b) \in Seq(Entries)
      /\ Len(SubSeq(g, a, b)) = IF a <= b THEN b - a + 1 ELSE 0
      /\ \A j \in 1..(b - a + 1) : SubSeq(g, a, b)[j] = g[a + j - 1]
  BY <1>4, SubSeqProperties
<1>6. (IF a <= b THEN b - a + 1 ELSE 0) = n /\ b - a + 1 = n /\ \A j \in 1..n : a + j - 1 = p + j
  BY <1>2, <1>3
<1>7. es = SubSeq(g, a, b)
  BY <1>2, <1>3
<1>8. \A j \in 1..n : p + j \in 1..Len(g)
  BY <1>1, <1>2
<1>9. \A j \in 1..n : es[j] = g[p + j]
  BY <1>5, <1>6, <1>7
<1> QED BY <1>1, <1>2, <1>5, <1>6, <1>7, <1>8, <1>9

\* Where the scan of maybe_append() stops, the log is the leader's up to there, and what it
\* may truncate lies behind the commit index.
LEMMA AppendPoint ==
  ASSUME NEW l, NEW c, NEW H, NEW g, NEW d, NEW t, NEW ld, Good(l, c, H, g, d, t, ld),
         NEW p, NEW n, NEW es, Message(l, g, p, n, es), NEW k, k = FirstNew(l, es)
  PROVE  /\ k \in 1..(n + 1)
         /\ k > n => Agrees(l, g, p + n)
         /\ k <= n => /\ NewFrom(l, Entries, es, p, k, p + k) /\ Agrees(l, g, p + k - 1)
                      /\ c < p + k
<1>1. /\ l.first_idx \in Nat \ {0} /\ LastIdx(l) \in Nat /\ c \in Nat /\ Len(g) \in Nat
      /\ l.first_idx <= LastIdx(l) + 1 /\ c <= LastIdx(l)
  BY Numbers
<1>2. Agrees(l, g, c) /\ IsLog(l, Entries)
  BY DEF Good, Shapes
<1>3. /\ es \in Seq(Entries) /\ Len(es) = n /\ p \in Nat /\ n \in Nat /\ p + n <= Len(g)
      /\ \A j \in 1..n : es[j] = g[p + j] /\ es[j].idx = p + j
  BY MessageEntries
<1>4. /\ k \in 1..(n + 1) /\ \A j \in 1..(k - 1) : AlreadyHas(l, es[j])
      /\ k <= n => ~AlreadyHas(l, es[k])
  BY <1>3, FirstNewIs
<1>5. Agrees(l, g, p) /\ p <= LastIdx(l)
  BY MatchPoint
<1>6. PICK i : i = p + k - 1
  OBVIOUS
<1>7. i \in Nat /\ i <= Len(g)
  BY <1>1, <1>3, <1>4, <1>6
<1>8. /\ Agrees(l, g, i) /\ i <= MaxOf(LastIdx(l), l.first_idx - 1)
  <2>1. CASE k = 1
    <3>1. i = p
      BY <1>3, <1>6, <2>1
    <3> QED BY <1>1, <1>3, <1>5, <3>1 DEF MaxOf
  <2>2. CASE k # 1
    <3>1. k - 1 \in 1..(k - 1) /\ k - 1 \in 1..n /\ p + (k - 1) = i
      BY <1>3, <1>4, <1>6, <2>2
    <3>2. AlreadyHas(l, es[k - 1]) /\ es[k - 1].idx = i /\ es[k - 1] = g[i]
      BY <1>3, <1>4, <3>1
    <3>3. i < l.first_idx \/ (i <= LastIdx(l) /\ GetEntry(l, i).term = g[i].term)
      BY <3>2 DEF AlreadyHas
    <3>4. CASE i < l.first_idx
      <4>1. l.first_idx..i = {}
        BY <1>1, <1>7, <3>4
      <4>2. i <= MaxOf(LastIdx(l), l.first_idx - 1)
        BY <1>1, <1>7, <3>4 DEF MaxOf
      <4> QED BY <4>1, <4>2 DEF Agrees
    <3>5. CASE ~(i < l.first_idx)
      <4>1. i \in l.first_idx..LastIdx(l) /\ GetEntry(l, i).term = g[i].term
        BY <1>1, <1>7, <3>3, <3>5
      <4>2. i <= MaxOf(LastIdx(l), l.first_idx - 1)
        BY <1>1, <1>7, <4>1 DEF MaxOf
      <4> QED BY <1>7, <4>1, <4>2, LogMatching
    <3> QED BY <3>4, <3>5
  <2> QED BY <2>1, <2>2
<1>9. ASSUME k > n PROVE Agrees(l, g, p + n)
  <2>1. p + n = i
    BY <1>3, <1>4, <1>6, <1>9
  <2> QED BY <1>8, <2>1
<1>10. ASSUME k <= n
       PROVE  NewFrom(l, Entries, es, p, k, p + k) /\ Agrees(l, g, p + k - 1) /\ c < p + k
  <2>1. PICK q : q = p + k
    OBVIOUS
  <2>2. k \in 1..n /\ q \in Nat /\ i = q - 1 /\ q \in 1..Len(g)
    <3>1. p \in Nat /\ n \in Nat /\ p + n <= Len(g) /\ Len(g) \in Nat /\ k \in 1..(n + 1)
      BY <1>1, <1>3, <1>4
    <3>2. k \in 1..n
      BY <1>10, <3>1
    <3> QED BY <1>6, <2>1, <3>1, <3>2
  <2>3. es[k] = g[q] /\ es[k].idx = q
    BY <1>3, <2>1, <2>2
  <2>4. ~(q < l.first_idx) /\ ~(q <= LastIdx(l) /\ GetEntry(l, q).term = g[q].term)
    BY <1>4, <1>10, <2>3 DEF AlreadyHas
  <2>5. l.first_idx <= q /\ q <= LastIdx(l) + 1
    BY <1>1, <1>8, <2>2, <2>4 DEF MaxOf
  <2>6. c < q
    <3> SUFFICES ASSUME ~(c < q) PROVE FALSE
      OBVIOUS
    <3>1. q \in l.first_idx..c /\ q <= LastIdx(l)
      BY <1>1, <2>2, <2>5
    <3>2. GetEntry(l, q) = g[q]
      BY <1>2, <3>1 DEF Agrees
    <3> QED BY <2>4, <3>1, <3>2
  <2>7. NewFrom(l, Entries, es, p, k, q)
    <3>1. k \in 1..Len(es) /\ \A j \in 1..Len(es) : es[j].idx = p + j
      BY <1>3, <2>2
    <3> QED BY <1>2, <1>3, <2>1, <2>5, <3>1 DEF NewFrom, NextIdx
  <2>8. Agrees(l, g, p + k - 1)
    BY <1>6, <1>8
  <2> QED BY <2>1, <2>6, <2>7, <2>8
<1> QED BY <1>4, <1>9, <1>10

\* The commit index after a message that covers the leader's log up to e.
LEMMA CommitBounds ==
  \A c, x, e, y, d \in Nat : c <= y /\ c <= d /\ x <= d =>
    LET b == MaxOf(c, MinOf(MinOf(x, e), y))
    IN  b \in Nat /\ c <= b /\ b <= d /\ b <= y /\ (b = c \/ b <= e)
BY DEF MaxOf, MinOf

\* What fsm::append_entries() makes of the log and the commit index.
Appended(l, c, d, p, n, es, m, b) ==
  /\ m = IF n = 0 THEN l ELSE MaybeAppend(l, es)
  /\ \E x \in 0..d : b = MaxOf(c, MinOf(MinOf(x, p + n), LastIdx(m)))

\* fsm::append_entries()
LEMMA AppendIsGood ==
  ASSUME NEW l, NEW c, NEW H, NEW g, NEW d, NEW t, NEW ld \in BOOLEAN, Good(l, c, H, g, d, t, ld), ~ld,
         NEW p, NEW n, NEW es, Message(l, g, p, n, es),
         NEW m, NEW b, Appended(l, c, d, p, n, es, m, b)
  PROVE  Good(m, b, H, g, d, t, ld) /\ Keeps(l, g, d, m, g)
<1>1. /\ l.first_idx \in Nat \ {0} /\ LastIdx(l) \in Nat /\ l.snapshot.idx \in Nat
      /\ l.stable_idx \in Nat /\ c \in Nat /\ d \in Nat /\ Len(g) \in Nat /\ t \in Nat
      /\ l.first_idx <= LastIdx(l) + 1 /\ l.first_idx <= l.snapshot.idx + 1
      /\ l.first_idx <= l.stable_idx + 1 /\ l.stable_idx <= LastIdx(l)
      /\ l.snapshot.idx <= c /\ c <= LastIdx(l) /\ c <= d /\ d <= Len(g)
  BY Numbers
<1>2. /\ Agrees(l, g, c) /\ FromLeaders(l, H, t) /\ History(H, g, t, d)
      /\ SnapshotMatches(l, g) /\ IsLog(l, Entries)
  BY DEF Good, Shapes
<1>3. /\ es \in Seq(Entries) /\ Len(es) = n /\ p \in Nat /\ n \in Nat /\ p + n <= Len(g)
      /\ \A j \in 1..n : es[j] = g[p + j] /\ es[j].idx = p + j
  BY MessageEntries
<1>4. LeaderHasAll(m, g, ld)
  BY DEF LeaderHasAll
<1>a. /\ m = IF n = 0 THEN l ELSE MaybeAppend(l, es)
      /\ \E x \in 0..d : b = MaxOf(c, MinOf(MinOf(x, p + n), LastIdx(m)))
  BY DEF Appended
<1>b. ASSUME c <= LastIdx(m), LastIdx(m) \in Nat
      PROVE  b \in Nat /\ c <= b /\ b <= d /\ b <= LastIdx(m) /\ (b = c \/ b <= p + n)
  <2>1. PICK x \in 0..d : b = MaxOf(c, MinOf(MinOf(x, p + n), LastIdx(m)))
    BY <1>a
  <2>2. p + n \in Nat /\ x \in Nat /\ x <= d /\ c \in Nat /\ d \in Nat /\ c <= d
    BY <1>1, <1>3
  <2> QED BY <1>b, <2>1, <2>2, CommitBounds
<1>5. PICK k : k = FirstNew(l, es)
  OBVIOUS
<1>6. /\ k \in 1..(n + 1)
      /\ k > n => Agrees(l, g, p + n)
      /\ k <= n => /\ NewFrom(l, Entries, es, p, k, p + k) /\ Agrees(l, g, p + k - 1)
                   /\ c < p + k
  BY <1>5, AppendPoint
<1>7. CASE k > n
  <2>1. m = l
    <3>1. n # 0 => MaybeAppend(l, es) = l
      BY <1>3, <1>5, <1>7 DEF MaybeAppend
    <3> QED BY <1>a, <3>1
  <2>2. PICK e : e = p + n
    OBVIOUS
  <2>3. e \in Nat /\ Agrees(l, g, e)
    BY <1>3, <1>6, <1>7, <2>2
  <2>4. b \in Nat /\ c <= b /\ b <= d /\ b <= LastIdx(l) /\ (b = c \/ b <= e)
    BY <1>1, <1>b, <2>1, <2>2
  <2>5. Agrees(l, g, b)
    <3>1. b <= e => \A j \in l.first_idx..b : j \in l.first_idx..e
      BY <1>1, <2>3, <2>4
    <3> QED BY <1>2, <2>3, <2>4, <3>1 DEF Agrees
  <2>6. InOrder(l, b, g, d)
    BY <1>1, <2>4 DEF InOrder
  <2>7. Shapes(l, b, ld)
    BY <1>1, <1>2, <2>4 DEF Shapes
  <2>8. Good(l, b, H, g, d, t, ld)
    BY <1>2, <1>4, <2>1, <2>5, <2>6, <2>7 DEF Good
  <2> QED BY <1>1, <2>1, <2>8 DEF Keeps
<1>8. CASE ~(k > n)
  <2>1. PICK q : q = p + k
    OBVIOUS
  <2>2. k \in 1..n /\ q \in Nat /\ q <= p + n /\ c < q /\ n # 0 /\ p + n \in Nat
    <3>1. p \in Nat /\ n \in Nat /\ k \in 1..(n + 1) /\ (k <= n => c < p + k) /\ c \in Nat
      BY <1>1, <1>3, <1>6
    <3> QED BY <1>8, <2>1, <3>1
  <2>3. NewFrom(l, Entries, es, p, k, q) /\ Agrees(l, g, q - 1)
    BY <1>3, <1>6, <1>8, <2>1
  <2>4. l.first_idx <= q /\ q <= LastIdx(l) + 1
    BY <2>3 DEF NewFrom, NextIdx
  <2>5. m = MaybeAppend(l, es)
    BY <1>a, <2>2
  <2>6. /\ IsLog(m, Entries) /\ m.snapshot = l.snapshot /\ m.first_idx = l.first_idx
        /\ m.stable_idx = IF q <= LastIdx(l) THEN MinOf(l.stable_idx, q - 1) ELSE l.stable_idx
        /\ LastIdx(m) = p + n /\ Same(m, l, l.first_idx, q - 1)
        /\ \A i \in q..(p + n) : GetEntry(m, i) = es[i - p]
    BY <1>3, <2>3, <2>5, MaybeAppendIs
  <2>7. \A i \in q..(p + n) : i - p \in 1..n /\ p + (i - p) = i
    BY <1>3, <2>1, <2>2
  <2>8. \A i \in q..(p + n) : GetEntry(m, i) = g[i]
    BY <1>3, <2>6, <2>7
  <2>9. \A i \in l.first_idx..(q - 1) : GetEntry(m, i) = g[i]
    BY <2>3, <2>6 DEF Same, Agrees
  <2>10. \A i \in l.first_idx..(p + n) : i \in l.first_idx..(q - 1) \/ i \in q..(p + n)
    BY <1>1, <2>2
  <2>11. Agrees(m, g, LastIdx(m))
    BY <2>6, <2>8, <2>9, <2>10 DEF Agrees
  <2>12. /\ b \in Nat /\ c <= b /\ b <= d /\ b <= LastIdx(m)
    <3>1. LastIdx(m) \in Nat /\ c <= LastIdx(m)
      BY <1>1, <2>2, <2>6
    <3> QED BY <1>b, <3>1
  <2>13. FromLeaders(m, H, t) /\ Agrees(m, g, b)
    BY <1>2, <1>3, <2>6, <2>11, <2>12, PrefixFromLeaders
  <2>14. m.first_idx <= m.stable_idx + 1 /\ m.stable_idx <= LastIdx(m)
    <3>1. PICK s, y : s = m.stable_idx /\ y = LastIdx(m)
      OBVIOUS
    <3>2. /\ s = IF q <= LastIdx(l) THEN MinOf(l.stable_idx, q - 1) ELSE l.stable_idx
          /\ y \in Nat /\ q <= y
      BY <2>2, <2>6, <3>1
    <3>3. l.first_idx <= s + 1 /\ s <= y
      BY SMTT(60), <1>1, <2>2, <2>4, <3>2 DEF MinOf
    <3> QED BY <2>6, <3>1, <3>3
  <2>15. InOrder(m, b, g, d)
    BY <1>1, <2>6, <2>12, <2>14 DEF InOrder
  <2>16. Shapes(m, b, ld)
    BY <1>1, <1>2, <2>6, <2>12 DEF Shapes
  <2>17. SnapshotMatches(m, g)
    BY <1>2, <2>6 DEF SnapshotMatches
  <2>18. Good(m, b, H, g, d, t, ld)
    BY <1>2, <1>4, <2>13, <2>15, <2>16, <2>17 DEF Good
  <2> QED BY <1>1, <2>6, <2>18 DEF Keeps
<1> QED BY <1>7, <1>8

\* Another server leads: it appends an entry, or is elected.
LEMMA OtherLeaderIsGood ==
  ASSUME NEW l, NEW c, NEW H, NEW g, NEW d, NEW t, NEW ld, Good(l, c, H, g, d, t, ld),
         NEW H2, NEW h, NEW u, History(H2, h, u, d), Extend(H, t, H2, u), Begins(g, h, d),
         NEW le \in BOOLEAN, ~le
  PROVE  Good(l, c, H2, h, d, u, le) /\ Keeps(l, g, d, l, h)
<1>1. /\ l.first_idx \in Nat \ {0} /\ LastIdx(l) \in Nat /\ l.snapshot.idx \in Nat /\ c \in Nat
      /\ l.snapshot.idx <= c /\ c <= d /\ d \in Nat /\ t \in Nat /\ t <= u /\ u \in Nat
  BY Numbers, HistoryIs DEF Extend
<1>2. /\ Shapes(l, c, ld) /\ InOrder(l, c, g, d) /\ FromLeaders(l, H, t) /\ History(H, g, t, d)
      /\ Agrees(l, g, c) /\ SnapshotMatches(l, g)
  BY DEF Good
<1>3. FromLeaders(l, H2, u)
  <2> SUFFICES ASSUME NEW i \in l.first_idx..LastIdx(l), NEW T, T = GetEntry(l, i).term
               PROVE  T \in 1..u /\ i <= Len(H2[T]) /\ Agrees(l, H2[T], i)
    BY DEF FromLeaders
  <2>1. T \in 1..t /\ i <= Len(H[T]) /\ Agrees(l, H[T], i)
    BY <1>2 DEF FromLeaders
  <2>2. T \in 0..t /\ T \in 0..u /\ T \in 1..u
    BY <1>1, <2>1
  <2>3. Begins(H[T], H2[T], Len(H[T])) /\ Len(H[T]) \in Nat /\ Len(H2[T]) \in Nat
    BY <1>2, <2>2, HistoryIs DEF Extend
  <2>4. \A j \in l.first_idx..i : j \in 1..Len(H[T])
    BY SMTT(60), <1>1, <2>1, <2>3
  <2>5. Agrees(l, H2[T], i)
    BY <2>1, <2>3, <2>4 DEF Agrees, Begins
  <2>6. i <= Len(H2[T])
    BY <1>1, <2>1, <2>3 DEF Begins
  <2> QED BY <2>2, <2>5, <2>6
<1>4. Agrees(l, h, c)
  <2>1. \A j \in l.first_idx..c : j \in 1..d
    BY <1>1
  <2> QED BY <1>2, <2>1 DEF Agrees, Begins
<1>5. SnapshotMatches(l, h)
  <2>1. l.snapshot.idx > 0 => l.snapshot.idx \in 1..d
    BY <1>1
  <2> QED BY <1>2, <2>1 DEF SnapshotMatches, Begins
<1>6. InOrder(l, c, h, d) /\ Shapes(l, c, le)
  BY <1>2 DEF InOrder, Shapes, Begins
<1>7. Good(l, c, H2, h, d, u, le)
  BY <1>3, <1>4, <1>5, <1>6 DEF Good, LeaderHasAll
<1> QED BY <1>1, <1>7 DEF Keeps, Begins

\* The server leads: fsm::add_entry(), also for the dummy entry of become_leader().
LEMMA LeaderIsGood ==
  ASSUME NEW l, NEW c, NEW H, NEW g, NEW d, NEW t, NEW ld, Good(l, c, H, g, d, t, ld),
         NEW base, NEW e, NEW u, NEW H2, AddsEntry(H, g, t, d, base, e, u, H2),
         LastIdx(l) = Len(base), Agrees(l, base, LastIdx(l)),
         NEW m, m = EmplaceBack(l, e), NEW h, h = Append(base, e), NEW le \in BOOLEAN
  PROVE  Good(m, c, H2, h, d, u, le) /\ Keeps(l, g, d, m, h)
<1>1. /\ l.first_idx \in Nat \ {0} /\ LastIdx(l) \in Nat /\ l.snapshot.idx \in Nat
      /\ l.stable_idx \in Nat /\ c \in Nat /\ d \in Nat /\ l.first_idx <= l.snapshot.idx + 1
      /\ l.first_idx <= l.stable_idx + 1 /\ l.stable_idx <= LastIdx(l)
      /\ l.snapshot.idx <= c /\ c <= LastIdx(l) /\ c <= d
  BY Numbers
<1>2. IsLog(l, Entries) /\ SnapshotMatches(l, g)
  BY DEF Good, Shapes
<1>3. /\ base \in Seq(Entries) /\ Len(base) \in Nat /\ e \in Entries /\ e.idx = Len(base) + 1
      /\ NextIdx(l) = LastIdx(l) + 1
  BY DEF AddsEntry, LeaderLike, NextIdx
<1>4. /\ Len(h) = Len(base) + 1 /\ h[Len(base) + 1] = e
      /\ \A j \in 1..Len(base) : h[j] = base[j]
  BY <1>3
<1>5. History(H2, h, u, d) /\ Begins(g, h, d)
  BY HistoryGrows
<1>6. /\ IsLog(m, Entries) /\ m.snapshot = l.snapshot /\ m.first_idx = l.first_idx
      /\ m.stable_idx = l.stable_idx /\ LastIdx(m) = LastIdx(l) + 1
      /\ GetEntry(m, NextIdx(l)) = e /\ Same(m, l, l.first_idx, LastIdx(l))
  BY <1>2, <1>3, EmplaceBackIs
<1>7. LastIdx(m) = Len(h) /\ LastIdx(m) = NextIdx(l) /\ Len(h) \in Nat
  BY <1>3, <1>4, <1>6
<1>8. \A i \in m.first_idx..LastIdx(m) :
        (i \in l.first_idx..LastIdx(l) /\ i \in 1..Len(base)) \/ i = NextIdx(l)
  BY <1>1, <1>3, <1>6
<1>9. Agrees(m, h, LastIdx(m))
  BY <1>3, <1>4, <1>6, <1>8 DEF Agrees, Same
<1>10. FromLeaders(m, H2, u) /\ Agrees(m, h, c)
  <2>1. LastIdx(m) <= Len(h) /\ c <= LastIdx(m)
    BY <1>1, <1>6, <1>7
  <2> QED BY <1>1, <1>5, <1>6, <1>9, <2>1, PrefixFromLeaders
<1>11. LeaderHasAll(m, h, le)
  BY <1>7, <1>9 DEF LeaderHasAll
<1>12. InOrder(m, c, h, d)
  <2>1. d <= Len(h)
    BY <1>5 DEF Begins
  <2> QED BY <1>1, <1>6, <2>1 DEF InOrder
<1>13. SnapshotMatches(m, h)
  <2>1. l.snapshot.idx > 0 => l.snapshot.idx \in 1..d
    BY <1>1
  <2> QED BY <1>2, <1>5, <1>6, <2>1 DEF SnapshotMatches, Begins
<1>14. Shapes(m, c, le)
  BY <1>1, <1>6 DEF Shapes
<1>15. Good(m, c, H2, h, d, u, le)
  BY <1>5, <1>10, <1>11, <1>12, <1>13, <1>14 DEF Good
<1> QED BY <1>1, <1>5, <1>6, <1>15 DEF Keeps, Begins

\* This server's log from index 1.
IsWhole(b, l, g) == b = SubSeq(g, 1, l.first_idx - 1) \o l.entries

\* What its snapshot replaced is the group's.
LEMMA WholeLogIs ==
  ASSUME NEW l, NEW c, NEW H, NEW g, NEW d, NEW t, NEW ld, Good(l, c, H, g, d, t, ld),
         NEW b, IsWhole(b, l, g)
  PROVE  /\ b \in Seq(Entries) /\ Len(b) = LastIdx(l)
         /\ \A i \in 1..Len(b) : b[i] = IF i < l.first_idx THEN g[i] ELSE GetEntry(l, i)
<1>1. g \in Seq(Entries) /\ Len(g) \in Nat /\ d <= Len(g) /\ d \in Nat
  BY HistoryIs DEF Good
<1>2. l.first_idx \in Nat \ {0} /\ l.first_idx <= d + 1
  <2>1. /\ l.first_idx \in Nat \ {0} /\ l.snapshot.idx \in Nat /\ c \in Nat
        /\ l.first_idx <= l.snapshot.idx + 1 /\ l.snapshot.idx <= c /\ c <= d
    BY Numbers
  <2> QED BY <1>1, <2>1
<1>3. l.entries \in Seq(Entries) /\ Len(l.entries) \in Nat
  BY DEF Good, Shapes, IsLog, LogShape
<1>4. PICK n \in Nat : n = l.first_idx - 1
  BY <1>2
<1>5. PICK a \in Seq(Entries) : a = SubSeq(g, 1, n) /\ Len(a) = n /\ \A i \in 1..n : a[i] = g[i]
  <2>1. n <= Len(g)
    BY <1>1, <1>2, <1>4
  <2> QED BY <1>1, <2>1, PrefixIs
<1>6. PICK z \in Seq(Entries) : z = l.entries /\ b = a \o z
  BY <1>3, <1>4, <1>5 DEF IsWhole
<1>7. /\ b \in Seq(Entries) /\ Len(b) = n + Len(z)
      /\ \A i \in 1..Len(b) : b[i] = IF i <= n THEN a[i] ELSE z[i - n]
  <2>1. /\ a \o z \in Seq(Entries) /\ Len(a \o z) = Len(a) + Len(z)
        /\ \A i \in 1..(Len(a) + Len(z)) : (a \o z)[i] = IF i <= Len(a) THEN a[i] ELSE z[i - Len(a)]
    BY ConcatProperties
  <2>2. Len(a) = n /\ b = a \o z
    BY <1>5, <1>6
  <2> QED BY <2>1, <2>2, Zenon
<1>8. Len(b) = LastIdx(l)
  BY <1>2, <1>3, <1>4, <1>6, <1>7 DEF LastIdx
<1>9. ASSUME NEW i \in 1..Len(b)
      PROVE  (i <= n <=> i < l.first_idx) /\ i - n = Pos(l, i) /\ (i <= n => i \in 1..n)
  <2>1. i \in Nat \ {0}
    BY <1>3, <1>6, <1>7
  <2> QED BY <1>2, <1>4, <2>1 DEF Pos
<1>10. ASSUME NEW i \in 1..Len(b)
       PROVE  b[i] = IF i < l.first_idx THEN g[i] ELSE GetEntry(l, i)
  <2>1. CASE i <= n
    BY <1>5, <1>7, <1>9, <2>1
  <2>2. CASE ~(i <= n)
    BY <1>6, <1>7, <1>9, <2>2 DEF GetEntry
  <2> QED BY <2>1, <2>2
<1> QED BY <1>7, <1>8, <1>10

\* With the decided entries, and no older than the last of them, it is one that a leader
\* may go on from: it is a part of the log of the leader that created its last entry.
LEMMA WholeLogIsLeaderLike ==
  ASSUME NEW l, NEW c, NEW H, NEW g, NEW d, NEW t, NEW ld, Good(l, c, H, g, d, t, ld),
         NEW b, IsWhole(b, l, g),
         Begins(g, b, d), d > 0 => b[Len(b)].term >= g[d].term
  PROVE  LeaderLike(b, H, t) /\ Len(b) = LastIdx(l) /\ Agrees(l, b, LastIdx(l))
<1>0. History(H, g, t, d) /\ FromLeaders(l, H, t) /\ IsLog(l, Entries)
  BY DEF Good, Shapes
<1>1. /\ b \in Seq(Entries) /\ Len(b) = LastIdx(l)
      /\ \A i \in 1..Len(b) : b[i] = IF i < l.first_idx THEN g[i] ELSE GetEntry(l, i)
  BY WholeLogIs
<1>2. /\ l.first_idx \in Nat \ {0} /\ LastIdx(l) \in Nat /\ l.snapshot.idx \in Nat /\ c \in Nat
      /\ l.first_idx <= l.snapshot.idx + 1 /\ l.snapshot.idx <= c /\ c <= d
  BY Numbers
<1>3. /\ d \in Nat /\ t \in Nat /\ t \in 0..t /\ H[t] = g /\ d <= Len(g) /\ Len(g) \in Nat
      /\ \A s \in 0..t : Len(H[s]) \in Nat
      /\ \A s \in 0..t : LeaderLike(H[s], H, t)
  BY <1>0, HistoryIs
<1>4. Agrees(l, b, LastIdx(l))
  <2> SUFFICES ASSUME NEW j \in l.first_idx..LastIdx(l) PROVE GetEntry(l, j) = b[j]
    BY DEF Agrees
  <2>1. j \in 1..Len(b) /\ ~(j < l.first_idx)
    BY <1>1, <1>2
  <2> QED BY <1>1, <2>1
<1>5. ASSUME NEW s \in 0..t, Begins(b, H[s], Len(b))
      PROVE  LeaderLike(b, H, t)
  <2>1. LeaderLike(H[s], H, t)
    BY <1>3
  <2> SUFFICES ASSUME NEW i \in 1..Len(b)
               PROVE  b[i].idx = i /\ b[i].term \in 1..t /\ Begins(b, H[b[i].term], i)
    BY <1>1 DEF LeaderLike
  <2>2. b[i] = H[s][i] /\ i \in 1..Len(H[s]) /\ \A j \in 1..i : b[j] = H[s][j]
    <3>1. Len(b) \in Nat /\ Len(H[s]) \in Nat /\ Len(b) <= Len(H[s])
      BY <1>1, <1>2, <1>3, <1>5 DEF Begins
    <3>2. i \in 1..Len(H[s]) /\ \A j \in 1..i : j \in 1..Len(b)
      BY <3>1
    <3> QED BY <1>5, <3>2 DEF Begins
  <2>3. H[s][i].idx = i /\ H[s][i].term \in 1..t /\ Begins(H[s], H[H[s][i].term], i)
    BY <2>1, <2>2 DEF LeaderLike
  <2> QED BY <2>2, <2>3 DEF Begins
<1>6. CASE d > 0
  <2> SUFFICES ASSUME NEW n, n = Len(b), NEW T, T = b[n].term
               PROVE  \E s \in 0..t : Begins(b, H[s], n)
    BY <1>1, <1>4, <1>5
  <2>1. d <= n /\ n \in 1..n /\ n \in Nat /\ \A j \in 1..d : b[j] = g[j]
    BY <1>1, <1>2, <1>3, <1>6 DEF Begins
  <2>2. CASE n < l.first_idx
    <3>1. d = n
      BY <1>2, <1>3, <2>1, <2>2
    <3>2. Begins(b, H[t], n)
      BY <1>3, <2>1, <3>1 DEF Begins
    <3> QED BY <1>3, <3>2
  <2>3. CASE ~(n < l.first_idx)
    <3>1. b[n] = GetEntry(l, n) /\ n \in l.first_idx..LastIdx(l)
      BY <1>1, <1>2, <2>1, <2>3
    <3>2. T \in 1..t /\ n <= Len(H[T]) /\ Agrees(l, H[T], n)
      BY <1>0, <3>1 DEF FromLeaders
    <3>3. g[d].term \in Nat /\ d \in 1..Len(g)
      <4>1. d \in 1..Len(g)
        BY <1>3, <1>6
      <4> QED BY <1>0, <1>3, <4>1, HistoryIs
    <3>4. T \in g[d].term..t /\ T \in 0..t
      <4>1. T >= g[d].term
        BY <1>6
      <4> QED BY <1>3, <3>2, <3>3, <4>1
    <3>5. Begins(g, H[T], d)
      BY <1>0, <1>6, <3>4 DEF History, Complete
    <3>6. \A j \in 1..n : b[j] = H[T][j]
      <4> SUFFICES ASSUME NEW j \in 1..n PROVE b[j] = H[T][j]
        OBVIOUS
      <4>1. CASE j <= d
        <5>1. j \in 1..d
          BY <1>3, <2>1, <4>1
        <5> QED BY <2>1, <3>5, <5>1 DEF Begins
      <4>2. CASE ~(j <= d)
        <5>1. l.first_idx <= d + 1
          BY <1>2, <1>3
        <5>2. j \in l.first_idx..n /\ ~(j < l.first_idx)
          BY <1>2, <1>3, <2>1, <4>2, <5>1
        <5>3. b[j] = GetEntry(l, j)
          BY <1>1, <5>2
        <5> QED BY <3>2, <5>2, <5>3 DEF Agrees
      <4> QED BY <4>1, <4>2
    <3> QED BY <3>2, <3>4, <3>6 DEF Begins
  <2> QED BY <2>2, <2>3
<1>7. CASE ~(d > 0)
  <2>1. l.first_idx = 1
    BY <1>2, <1>3, <1>7
  <2> SUFFICES ASSUME NEW i \in 1..Len(b)
               PROVE  b[i].idx = i /\ b[i].term \in 1..t /\ Begins(b, H[b[i].term], i)
    BY <1>1, <1>4 DEF LeaderLike
  <2>2. \A j \in 1..i : b[j] = GetEntry(l, j) /\ j \in l.first_idx..i
    BY <1>1, <1>2, <2>1
  <2>3. i \in l.first_idx..LastIdx(l) /\ b[i] = GetEntry(l, i)
    BY <1>1, <1>2, <2>1
  <2>4. GetEntry(l, i).idx = i
    BY <1>0, <2>3, EntryIs
  <2> QED BY <1>0, <2>2, <2>3, <2>4 DEF FromLeaders, Agrees, Begins
<1> QED BY <1>6, <1>7

----------------------------------------------------------------------------
(* The steps.                                                              *)

\* The bootstrap snapshot and an empty log, before any leader.
LEMMA InitIsGood == ReplicaInit => IInv
<1> SUFFICES ASSUME ReplicaInit PROVE IInv
  OBVIOUS
<1>1. /\ DOMAIN log = Fields /\ log.snapshot = Bootstrap /\ log.entries = << >>
      /\ log.first_idx = Bootstrap.idx + 1 /\ log.stable_idx = Bootstrap.idx + 1 + Len(<< >>) - 1
  BY DEF ReplicaInit, NewLog, Fields
<1>2. /\ log.snapshot.idx = 0 /\ log.first_idx = 1 /\ log.stable_idx = 0 /\ LastIdx(log) = 0
  BY <1>1 DEF Bootstrap, LastIdx
<1>3. commit = 0 /\ leads = FALSE /\ group = << >> /\ decided = 0 /\ term = 0 /\ Len(group) = 0
  BY DEF ReplicaInit
<1>4. IsLog(log, Entries)
  BY <1>1, <1>2 DEF IsLog, LogShape
<1>5. Shapes(log, commit, leads)
  <2>1. leads \in BOOLEAN
    BY DEF ReplicaInit
  <2> QED BY <1>2, <1>3, <1>4, <2>1 DEF Shapes
<1>6. InOrder(log, commit, group, decided)
  BY <1>2, <1>3 DEF InOrder
<1>7. PICK H : H = LeaderLogs
  OBVIOUS
<1>8. H \in [0..term -> Seq(Entries)] /\ H[term] = group /\ \A s \in 0..term : H[s] = << >>
  <2>1. H = [s \in 0..0 |-> IF s = 0 THEN << >> ELSE past[s]]
    BY <1>3, <1>7 DEF LeaderLogs, Logs
  <2>2. \A s \in 0..0 : s = 0
    OBVIOUS
  <2>3. << >> \in Seq(Entries)
    OBVIOUS
  <2> QED BY <1>3, <2>1, <2>2, <2>3
<1>9. History(H, group, term, decided)
  <2>1. \A s \in 0..term : 1..Len(H[s]) = {}
    BY <1>8
  <2>2. Matching(H, term)
    BY <2>1 DEF Matching
  <2> QED BY <1>3, <1>8, <2>2 DEF History, Complete
<1>10. Good(log, commit, H, group, decided, term, leads)
  BY <1>2, <1>3, <1>5, <1>6, <1>9 DEF Good, LeaderHasAll, FromLeaders, Agrees, SnapshotMatches
<1>11. PastLogs(past, term)
  <2>1. past = [t \in 0..MaxLeaders |-> << >>]
    BY DEF ReplicaInit
  <2>2. << >> \in Seq(Entries)
    OBVIOUS
  <2> QED BY <1>3, <2>1, <2>2, ReplicaAssumption DEF PastLogs
<1> QED BY <1>7, <1>10, <1>11 DEF IInv

\* The facts that the steps below start from.
LEMMA Have ==
  ASSUME IInv
  PROVE  /\ log.first_idx \in Nat \ {0} /\ LastIdx(log) \in Nat /\ log.snapshot.idx \in Nat
         /\ log.stable_idx \in Nat /\ commit \in Nat /\ decided \in Nat /\ Len(group) \in Nat
         /\ term \in Nat
         /\ log.first_idx <= LastIdx(log) + 1 /\ log.first_idx <= log.snapshot.idx + 1
         /\ log.first_idx <= log.stable_idx + 1 /\ log.stable_idx <= LastIdx(log)
         /\ log.snapshot.idx <= commit /\ commit <= LastIdx(log) /\ commit <= decided
         /\ decided <= Len(group)
         /\ leads \in BOOLEAN /\ group \in Seq(Entries) /\ IsLog(log, Entries)
         /\ \A i \in 1..Len(group) : group[i].idx = i
<1>1. Good(log, commit, LeaderLogs, group, decided, term, leads)
  BY DEF IInv
<1>2. leads \in BOOLEAN /\ IsLog(log, Entries)
  BY <1>1 DEF Good, Shapes
<1>3. group \in Seq(Entries) /\ \A i \in 1..Len(group) : group[i].idx = i
  BY <1>1, HistoryIs DEF Good, LeaderLike
<1> QED BY <1>1, <1>2, <1>3, Numbers

\* What a step does: the invariant holds after it, and what is decided stays.
Fine == IInv' /\ Keeps(log, group, decided, log', group')

\* A step that leaves the group's logs alone.
LEMMA GroupStays ==
  ASSUME IInv, UNCHANGED <<group, term, past>>,
         Good(log', commit', LeaderLogs, group, decided', term, leads'),
         Keeps(log, group, decided, log', group)
  PROVE  Fine
<1>1. LeaderLogs' = LeaderLogs
  BY DEF LeaderLogs
<1>2. PastLogs(past', term')
  BY DEF IInv
<1>3. Good(log', commit', LeaderLogs', group', decided', term', leads')
  BY <1>1
<1> QED BY <1>2, <1>3 DEF Fine, IInv

\* The entries the leaders create.
LEMMA NewEntry ==
  ASSUME NEW i \in Nat \ {0}, NEW t \in Nat, NEW k, NEW d,
         k \in {"command", "configuration", "dummy"}, d \in Command \cup Config \cup {Dummy}
  PROVE  Entry(i, t, k, d) \in Entries /\ Entry(i, t, k, d).idx = i /\ Entry(i, t, k, d).term = t
BY DEF Entry, Entries

\* A leader's entry, on this server (self) or on another.
LEMMA EntryStep ==
  ASSUME IInv, NEW self \in BOOLEAN, NEW base, NEW e, NEW H2,
         AddsEntry(LeaderLogs, group, term, decided, base, e, term', H2), term' <= MaxLeaders,
         Leaves(past', group, past, term, term'),
         self => LastIdx(log) = Len(base) /\ Agrees(log, base, LastIdx(log)),
         group' = Append(base, e), log' = IF self THEN EmplaceBack(log, e) ELSE log,
         leads' = self, commit' = commit, decided' = decided
  PROVE  Fine
<1>1. Good(log, commit, LeaderLogs, group, decided, term, leads) /\ PastLogs(past, term)
  BY DEF IInv
<1>2. /\ History(H2, group', term', decided) /\ Extend(LeaderLogs, term, H2, term')
      /\ Begins(group, group', decided)
  BY HistoryGrows
<1>3. Logs(group', past', term') = H2 /\ PastLogs(past', term')
  BY <1>1, LogsNext DEF LeaderLogs
<1>4. Good(log', commit, H2, group', decided, term', self) /\ Keeps(log, group, decided, log', group')
  <2>1. CASE self
    <3>1. PICK m, h : m = log' /\ m = EmplaceBack(log, e) /\ h = group' /\ h = Append(base, e)
      BY <2>1
    <3>2. Good(m, commit, H2, h, decided, term', self) /\ Keeps(log, group, decided, m, h)
      BY <1>1, <2>1, <3>1, LeaderIsGood
    <3> QED BY <3>1, <3>2
  <2>2. CASE ~self
    <3>1. log' = log
      BY <2>2
    <3>2. Good(log, commit, H2, group', decided, term', self) /\ Keeps(log, group, decided, log, group')
      BY <1>1, <1>2, <2>2, OtherLeaderIsGood
    <3> QED BY <3>1, <3>2
  <2> QED BY <2>1, <2>2
<1>5. LeaderLogs' = H2
  BY <1>3 DEF LeaderLogs
<1>6. Good(log', commit', LeaderLogs', group', decided', term', leads')
  BY <1>4, <1>5
<1> QED BY <1>3, <1>4, <1>6 DEF Fine, IInv

\* fsm::add_entry(), on this server or on another.
LEMMA AddEntryStep ==
  ASSUME IInv, NEW k \in {"command", "configuration"}, NEW x \in Command \cup Config, AddEntry(k, x)
  PROVE  Fine
<1>1. Good(log, commit, LeaderLogs, group, decided, term, leads) /\ PastLogs(past, term)
  BY DEF IInv
<1>2. /\ Len(group) \in Nat /\ term \in Nat /\ decided \in Nat /\ decided <= Len(group)
      /\ leads \in BOOLEAN /\ group \in Seq(Entries)
  BY Have
<1>3. PICK e : e = Entry(Len(group) + 1, term, k, x)
  OBVIOUS
<1>4. /\ group' = Append(group, e) /\ log' = IF leads THEN EmplaceBack(log, e) ELSE log
      /\ UNCHANGED <<commit, leads, decided, term, past>> /\ term > 0
  BY <1>3 DEF AddEntry
<1>5. e \in Entries /\ e.idx = Len(group) + 1 /\ e.term = term
  <2>1. /\ Len(group) + 1 \in Nat \ {0} /\ term \in Nat
        /\ k \in {"command", "configuration", "dummy"} /\ x \in Command \cup Config \cup {Dummy}
    BY <1>2
  <2> QED BY <1>3, <2>1, NewEntry
<1>6. PICK H2 : H2 = [s \in 0..term' |-> IF s = term' THEN Append(group, e) ELSE LeaderLogs[s]]
  OBVIOUS
<1>7. History(LeaderLogs, group, term, decided) /\ LeaderLike(group, LeaderLogs, term)
  BY <1>1, HistoryIs DEF Good
<1>8. Begins(group, group, decided)
  BY <1>2 DEF Begins
<1>9. AddsEntry(LeaderLogs, group, term, decided, group, e, term', H2)
  BY <1>4, <1>5, <1>6, <1>7, <1>8 DEF AddsEntry
<1>10. leads => LastIdx(log) = Len(group) /\ Agrees(log, group, LastIdx(log))
  BY <1>1 DEF Good, LeaderHasAll
<1>11. Leaves(past', group, past, term, term') /\ term' <= MaxLeaders
  BY <1>1, <1>4 DEF Leaves, PastLogs
<1> QED BY <1>2, <1>4, <1>9, <1>10, <1>11, EntryStep

\* become_leader() with the dummy entry it appends, on a log that a leader may have.
LEMMA NewLeaderStep ==
  ASSUME IInv, NEW self \in BOOLEAN, NEW base, NewLeader(self, base), LeaderLike(base, LeaderLogs, term),
         self => LastIdx(log) = Len(base) /\ Agrees(log, base, LastIdx(log))
  PROVE  Fine
<1>1. Good(log, commit, LeaderLogs, group, decided, term, leads)
  BY DEF IInv
<1>2. /\ term \in Nat /\ decided \in Nat /\ decided <= Len(group) /\ group \in Seq(Entries)
      /\ base \in Seq(Entries) /\ Len(base) \in Nat /\ Len(group) \in Nat
  BY Have DEF LeaderLike
<1>3. PICK e : e = Entry(Len(base) + 1, term + 1, "dummy", Dummy)
  OBVIOUS
<1>4. /\ term < MaxLeaders /\ Len(base) >= decided
      /\ SubSeq(base, 1, decided) = SubSeq(group, 1, decided)
      /\ group' = Append(base, e) /\ log' = IF self THEN EmplaceBack(log, e) ELSE log
      /\ term' = term + 1 /\ leads' = self /\ past' = [past EXCEPT ![term] = group]
      /\ commit' = commit /\ decided' = decided
  BY <1>3 DEF NewLeader
<1>5. e \in Entries /\ e.idx = Len(base) + 1 /\ e.term = term'
  BY <1>2, <1>3, <1>4, NewEntry
<1>6. Begins(group, base, decided)
  <2>1. decided <= Len(base)
    BY <1>2, <1>4
  <2>2. /\ \A i \in 1..decided : SubSeq(base, 1, decided)[i] = base[i]
        /\ \A i \in 1..decided : SubSeq(group, 1, decided)[i] = group[i]
    BY <1>2, <2>1, PrefixIs
  <2> QED BY <1>4, <2>1, <2>2 DEF Begins
<1>7. PICK H2 : H2 = [s \in 0..term' |-> IF s = term' THEN Append(base, e) ELSE LeaderLogs[s]]
  OBVIOUS
<1>8. AddsEntry(LeaderLogs, group, term, decided, base, e, term', H2)
  <2>1. History(LeaderLogs, group, term, decided)
    BY <1>1 DEF Good
  <2>2. term' \in {term, term + 1} /\ term' > 0 /\ term' # term
    BY <1>2, <1>4
  <2> QED BY <1>5, <1>6, <1>7, <2>1, <2>2 DEF AddsEntry
<1>9. Leaves(past', group, past, term, term') /\ term' <= MaxLeaders
  BY <1>2, <1>4, ReplicaAssumption DEF Leaves
<1> QED BY <1>4, <1>8, <1>9, EntryStep

\* This server wins an election.
LEMMA WholeLogStep ==
  ASSUME IInv, NEW b, b = WholeLog, NewLeader(TRUE, b)
  PROVE  /\ Fine
         /\ b \in Seq(Entries) /\ Len(b) = LastIdx(log) /\ Agrees(log, b, LastIdx(log))
<1>1. Good(log, commit, LeaderLogs, group, decided, term, leads)
  BY DEF IInv
<1>2. IsWhole(b, log, group)
  BY DEF WholeLog, IsWhole
<1>3. decided \in Nat /\ group \in Seq(Entries) /\ Len(group) \in Nat /\ decided <= Len(group)
  BY Have
<1>4. b \in Seq(Entries) /\ Len(b) \in Nat
  BY <1>1, <1>2, WholeLogIs
<1>5. Begins(group, b, decided) /\ (decided > 0 => b[Len(b)].term >= group[decided].term)
  <2>1. /\ decided <= Len(b) /\ SubSeq(b, 1, decided) = SubSeq(group, 1, decided)
        /\ decided > 0 => b[Len(b)].term >= group[decided].term
    BY <1>3, <1>4 DEF NewLeader
  <2>2. /\ \A i \in 1..decided : SubSeq(b, 1, decided)[i] = b[i]
        /\ \A i \in 1..decided : SubSeq(group, 1, decided)[i] = group[i]
    BY <1>3, <1>4, <2>1, PrefixIs
  <2> QED BY <2>1, <2>2 DEF Begins
<1>6. LeaderLike(b, LeaderLogs, term) /\ Len(b) = LastIdx(log) /\ Agrees(log, b, LastIdx(log))
  BY <1>1, <1>2, <1>5, WholeLogIsLeaderLike
<1>7. PICK self \in BOOLEAN : self = TRUE /\ NewLeader(self, b)
  OBVIOUS
<1> QED BY <1>4, <1>6, <1>7, NewLeaderStep

\* Another server does, on a prefix of what some leader left.
LEMMA OtherLeaderStep ==
  ASSUME IInv, NEW base \in Prefixes, NewLeader(FALSE, base)
  PROVE  /\ Fine
         /\ \E s \in 0..term : \E n \in 0..Len(LeaderLogs[s]) : base = SubSeq(LeaderLogs[s], 1, n)
<1>1. History(LeaderLogs, group, term, decided) /\ PastLogs(past, term)
  BY DEF IInv, Good
<1>2. PICK self \in BOOLEAN : self = FALSE /\ NewLeader(self, base)
  OBVIOUS
<1>3. PICK l \in {past[t] : t \in 0..MaxLeaders} \cup {group} : \E n \in 0..Len(l) : base = SubSeq(l, 1, n)
  BY DEF Prefixes, Left
<1>4. /\ term \in Nat /\ term \in 0..term /\ LeaderLogs[term] = group
      /\ LeaderLogs \in [0..term -> Seq(Entries)]
      /\ \A s \in 0..term : LeaderLike(LeaderLogs[s], LeaderLogs, term)
  BY <1>1, HistoryIs DEF History
<1>5. \E s \in 0..term : \E n \in 0..Len(LeaderLogs[s]) : base = SubSeq(LeaderLogs[s], 1, n)
  <2>1. CASE l = group
    BY <1>3, <1>4, <2>1
  <2>2. CASE l # group
    <3>1. PICK t \in 0..MaxLeaders : l = past[t]
      BY <1>3, <2>2
    <3>2. CASE t >= term
      <4>1. l = << >>
        BY <1>1, <3>1, <3>2 DEF PastLogs
      <4>2. PICK n \in 0..Len(l) : base = SubSeq(l, 1, n)
        BY <1>3
      <4>3. n = 0
        BY <4>1, <4>2
      <4>4. base = << >> /\ SubSeq(group, 1, 0) = << >>
        <5>1. SubSeq(l, 1, 0) = << >>
          BY <4>1
        <5>2. SubSeq(group, 1, 0) = << >>
          BY <1>4, Have
        <5> QED BY <4>2, <4>3, <5>1, <5>2
      <4>5. 0 \in 0..Len(group)
        BY Have
      <4> QED BY <1>4, <4>4, <4>5
    <3>3. CASE ~(t >= term)
      <4>1. t \in 0..term /\ t # term
        BY <1>4, <3>3, ReplicaAssumption
      <4>2. LeaderLogs[t] = l
        BY <3>1, <4>1 DEF LeaderLogs, Logs
      <4> QED BY <1>3, <4>1, <4>2
    <3> QED BY <3>2, <3>3
  <2> QED BY <2>1, <2>2
<1>6. LeaderLike(base, LeaderLogs, term)
  BY <1>4, <1>5, PrefixIsLeaderLike
<1> QED BY <1>2, <1>5, <1>6, NewLeaderStep

\* fsm::append_entries() of any message of the leader.
LEMMA AppendEntriesStep ==
  ASSUME IInv, NEW p \in Nat, NEW n \in Nat, NEW x \in commit..decided, AppendEntries(p, n, x)
  PROVE  Fine
<1>1. Good(log, commit, LeaderLogs, group, decided, term, leads)
  BY DEF IInv
<1>2. PICK es : es = SubSeq(group, p + 1, p + n)
  OBVIOUS
<1>3. /\ ~leads /\ log' = IF n = 0 THEN log ELSE MaybeAppend(log, es)
      /\ commit' = MaxOf(commit, MinOf(MinOf(x, p + n), LastIdx(log')))
      /\ leads' = leads /\ group' = group /\ decided' = decided /\ term' = term /\ past' = past
  BY <1>2 DEF AppendEntries
<1>4. Message(log, group, p, n, es)
  BY <1>2 DEF AppendEntries, Message, PrevTerm
<1>5. Appended(log, commit, decided, p, n, es, log', commit')
  <2>1. x \in 0..decided
    BY Have
  <2> QED BY <1>3, <2>1 DEF Appended
<1>6. leads \in BOOLEAN
  BY Have
<1>7. Good(log', commit', LeaderLogs, group, decided, term, leads) /\ Keeps(log, group, decided, log', group)
  BY <1>1, <1>3, <1>4, <1>5, <1>6, AppendIsGood
<1> QED BY <1>3, <1>7, GroupStays

\* The applier fiber takes a snapshot: term_for() is the term the group decided.
LEMMA TakeSnapshotStep ==
  ASSUME IInv, NEW i \in Nat, NEW n \in Nat, TakeSnapshot(i, n)
  PROVE  Fine
<1>1. Good(log, commit, LeaderLogs, group, decided, term, leads)
  BY DEF IInv
<1>2. PICK snp : snp = [idx |-> i, term |-> TermFor(log, i), config |-> LastConfFor(log, i)]
  OBVIOUS
<1>3. /\ i > log.snapshot.idx /\ i <= commit /\ log' = ApplySnapshot(log, snp, n, TrailingBytes)
      /\ commit' = commit /\ leads' = leads /\ group' = group /\ decided' = decided /\ term' = term /\ past' = past
  BY <1>2 DEF TakeSnapshot
<1>4. /\ log.first_idx \in Nat \ {0} /\ log.snapshot.idx \in Nat /\ commit \in Nat /\ decided \in Nat
      /\ LastIdx(log) \in Nat /\ log.first_idx <= log.snapshot.idx + 1 /\ commit <= LastIdx(log)
      /\ commit <= decided
  BY Have
<1>5. snp.idx = i /\ snp.term = TermFor(log, i)
  BY <1>2
<1>6. TermFor(log, i) = group[i].term
  <2>1. i \in log.first_idx..commit /\ i \in log.first_idx..LastIdx(log)
    BY <1>3, <1>4
  <2>2. GetEntry(log, i) = group[i]
    BY <1>1, <2>1 DEF Good, Agrees
  <2>3. log.entries # << >>
    <3>1. Pos(log, i) \in 1..Len(log.entries)
      BY <2>1, Have, EntryIs
    <3> QED BY <3>1
  <2>4. i >= log.first_idx
    BY <2>1
  <2> QED BY <2>2, <2>3, <2>4 DEF TermFor
<1>7. Snapshot(log, commit, group, decided, leads, snp, n, commit)
  <2>1. log.snapshot.idx < i /\ i <= decided
    BY <1>3, <1>4
  <2> QED BY <1>3, <1>5, <1>6, <2>1 DEF Snapshot
<1>8. Good(log', commit, LeaderLogs, group, decided, term, leads) /\ Keeps(log, group, decided, log', group)
  BY <1>1, <1>3, <1>7, SnapshotIsGood, ReplicaAssumption
<1> QED BY <1>3, <1>8, GroupStays

\* A snapshot from the leader.
LEMMA InstallSnapshotStep ==
  ASSUME IInv, NEW i \in Nat, i <= decided, InstallSnapshot(i)
  PROVE  Fine
<1>1. Good(log, commit, LeaderLogs, group, decided, term, leads)
  BY DEF IInv
<1>2. PICK snp : snp = [idx |-> i, term |-> group[i].term, config |-> GroupConf(i)]
  OBVIOUS
<1>3. /\ ~leads /\ i > commit /\ log' = ApplySnapshot(log, snp, 0, 0)
      /\ commit' = i /\ leads' = leads /\ group' = group /\ decided' = decided /\ term' = term /\ past' = past
  BY <1>2 DEF InstallSnapshot
<1>4. /\ log.snapshot.idx \in Nat /\ commit \in Nat /\ log.snapshot.idx <= commit
  BY Have
<1>5. snp.idx = i /\ snp.term = group[i].term
  BY <1>2
<1>6. Snapshot(log, commit, group, decided, leads, snp, 0, i)
  <2>1. log.snapshot.idx < i /\ commit < i
    BY <1>3, <1>4
  <2> QED BY <1>3, <1>5, <2>1 DEF Snapshot
<1>7. Good(log', i, LeaderLogs, group, decided, term, leads) /\ Keeps(log, group, decided, log', group)
  BY <1>1, <1>3, <1>6, SnapshotIsGood
<1> QED BY <1>3, <1>7, GroupStays

\* A crash and a restart from what is stable.
LEMMA RestartStep ==
  ASSUME IInv, NEW b \in Nat, Restart(b)
  PROVE  Fine
<1>1. Good(log, commit, LeaderLogs, group, decided, term, leads)
  BY DEF IInv
<1>2. /\ log' = NewLog(log.snapshot, Slice(log, log.first_idx, log.stable_idx))
      /\ b <= MinOf(commit, log.stable_idx) /\ b >= log.snapshot.idx
      /\ commit' = b /\ group' = group /\ decided' = decided /\ term' = term /\ past' = past
  BY DEF Restart
<1>3. leads' \in BOOLEAN /\ ~leads'
  BY DEF Restart
<1>4. commit \in Nat /\ log.stable_idx \in Nat /\ log.snapshot.idx \in Nat
  BY Have
<1>5. log.snapshot.idx <= b /\ b <= commit /\ b <= log.stable_idx
  BY <1>2, <1>4 DEF MinOf
<1>6. Good(log', b, LeaderLogs, group, decided, term, leads') /\ Keeps(log, group, decided, log', group)
  BY <1>1, <1>2, <1>3, <1>5, RestartIsGood
<1> QED BY <1>2, <1>6, GroupStays

\* A decision of the group, the commit of its leader, and persistence.
LEMMA GroupStep ==
  ASSUME IInv, Decide \/ LeaderCommit \/ Persist
  PROVE  Fine
<1>1. Good(log, commit, LeaderLogs, group, decided, term, leads)
  BY DEF IInv
<1>2. /\ LastIdx(log) \in Nat /\ log.snapshot.idx \in Nat /\ commit \in Nat /\ decided \in Nat
      /\ Len(group) \in Nat /\ log.first_idx \in Nat /\ log.snapshot.idx <= commit
      /\ commit <= decided /\ decided <= Len(group)
  BY Have
<1>3. Shapes(log, commit, leads) /\ InOrder(log, commit, group, decided)
  BY <1>1 DEF Good
<1>4. Keeps(log, group, decided, log, group)
  BY <1>2 DEF Keeps
<1>5. CASE Decide
  <2>1. PICK n \in (decided + 1)..Len(group) : group[n].term = term /\ decided' = n
    BY <1>5 DEF Decide
  <2>2. /\ log' = log /\ commit' = commit /\ leads' = leads /\ group' = group /\ term' = term
        /\ past' = past
    BY <1>5 DEF Decide
  <2>3. n \in Nat /\ commit <= n /\ n <= Len(group)
    BY <1>2
  <2>4. Shapes(log, commit, leads) /\ InOrder(log, commit, group, n)
    BY <1>3, <2>3 DEF Shapes, InOrder
  <2>5. History(LeaderLogs, group, term, n)
    BY <1>1, <2>1, NewDecision DEF Good
  <2>6. Good(log, commit, LeaderLogs, group, n, term, leads)
    BY <1>1, <2>4, <2>5 DEF Good
  <2> QED BY <1>4, <2>1, <2>2, <2>6, GroupStays
<1>6. CASE LeaderCommit
  <2>1. /\ leads /\ commit' = decided /\ log' = log /\ leads' = leads /\ group' = group
        /\ decided' = decided /\ term' = term /\ past' = past
    BY <1>6 DEF LeaderCommit
  <2>2. LastIdx(log) = Len(group) /\ Agrees(log, group, LastIdx(log))
    BY <1>1, <2>1 DEF Good, LeaderHasAll
  <2>3. Agrees(log, group, decided)
    <3>1. \A j \in log.first_idx..decided : j \in log.first_idx..LastIdx(log)
      BY <1>2, <2>2
    <3> QED BY <2>2, <3>1 DEF Agrees
  <2>4. Shapes(log, decided, leads) /\ InOrder(log, decided, group, decided)
    BY <1>2, <1>3, <2>2 DEF Shapes, InOrder
  <2>5. Good(log, decided, LeaderLogs, group, decided, term, leads)
    BY <1>1, <2>3, <2>4 DEF Good
  <2> QED BY <1>4, <2>1, <2>5, GroupStays
<1>7. CASE Persist
  <2>1. /\ log' = StableTo(log, LastIdx(log)) /\ commit' = commit /\ leads' = leads /\ group' = group
        /\ decided' = decided /\ term' = term /\ past' = past
    BY <1>7 DEF Persist
  <2>2. Good(log', commit, LeaderLogs, group, decided, term, leads) /\ Keeps(log, group, decided, log', group)
    BY <1>1, <2>1, PersistIsGood
  <2> QED BY <2>1, <2>2, GroupStays
<1> QED BY <1>5, <1>6, <1>7

\* Every step keeps the invariant, and the group's decisions.
LEMMA StepIsFine ==
  ASSUME IInv, ReplicaNext
  PROVE  Fine
<1>1. commit \in Nat /\ decided \in Nat /\ Len(group) \in Nat
  BY Have
<1>2. ASSUME NEW d \in Command, AddEntry("command", d) PROVE Fine
  BY <1>2, AddEntryStep
<1>3. ASSUME NEW d \in Config, AddEntry("configuration", d) PROVE Fine
  BY <1>3, AddEntryStep
<1>4. ASSUME NewLeader(TRUE, WholeLog) PROVE Fine
  BY <1>4, WholeLogStep
<1>10. ASSUME NEW base \in Prefixes, NewLeader(FALSE, base) PROVE Fine
  BY <1>10, OtherLeaderStep
<1>5. ASSUME NEW p \in 0..Len(group), NEW n \in 0..MaxAppend, NEW c \in commit..decided,
             AppendEntries(p, n, c)
      PROVE  Fine
  <2>1. p \in Nat /\ n \in Nat
    BY <1>1, ReplicaAssumption
  <2> QED BY <1>5, <2>1, AppendEntriesStep
<1>6. ASSUME NEW i \in 1..commit, NEW n \in TrailingEntries, TakeSnapshot(i, n) PROVE Fine
  <2>1. i \in Nat /\ n \in Nat
    BY <1>1, ReplicaAssumption
  <2> QED BY <1>6, <2>1, TakeSnapshotStep
<1>7. ASSUME NEW i \in 1..decided, InstallSnapshot(i) PROVE Fine
  <2>1. i \in Nat /\ i <= decided
    BY <1>1
  <2> QED BY <1>7, <2>1, InstallSnapshotStep
<1>8. ASSUME NEW c \in 0..commit, Restart(c) PROVE Fine
  <2>1. c \in Nat
    BY <1>1
  <2> QED BY <1>8, <2>1, RestartStep
<1>9. ASSUME Decide \/ LeaderCommit \/ Persist PROVE Fine
  BY <1>9, GroupStep
<1> QED BY <1>2, <1>3, <1>4, <1>5, <1>6, <1>7, <1>8, <1>9, <1>10 DEF ReplicaNext

\* IInv is an invariant of the specification.
THEOREM ReplicaIsGood == ReplicaSpec => []IInv
<1>1. ASSUME IInv, [ReplicaNext]_replicaVars PROVE IInv'
  <2>1. CASE ReplicaNext
    BY <1>1, <2>1, StepIsFine DEF Fine
  <2>2. CASE UNCHANGED replicaVars
    <3>1. /\ log' = log /\ commit' = commit /\ group' = group /\ past' = past
          /\ decided' = decided /\ term' = term /\ leads' = leads
      BY <2>2 DEF replicaVars
    <3>2. LeaderLogs' = LeaderLogs
      BY <3>1 DEF LeaderLogs
    <3> QED BY <1>1, <3>1, <3>2 DEF IInv
  <2> QED BY <1>1, <2>1, <2>2
<1> QED BY <1>1, InitIsGood, PTL DEF ReplicaSpec

\* State machine safety of one log: every committed entry that the server holds and the end
\* of its snapshot are what the group decided.
THEOREM ReplicaCommits == ReplicaSpec => []CommittedIsDecided
<1>1. ASSUME IInv PROVE CommittedIsDecided
  BY <1>1 DEF IInv, Good, InOrder, Agrees, SnapshotMatches, CommittedIsDecided
<1> QED BY <1>1, ReplicaIsGood, PTL

\* The assertions of maybe_append() and truncate_uncommitted() never fail.
THEOREM ReplicaAsserts == ReplicaSpec => []AppendAsserts
<1>1. ASSUME IInv PROVE AppendAsserts
  <2> SUFFICES ASSUME NEW p \in 0..Len(group), NEW n \in 1..MaxAppend, p + n <= Len(group),
                      MatchTerm(log, p, PrevTerm(p))
               PROVE  MaybeAppendAsserts(log, SubSeq(group, p + 1, p + n))
    BY DEF AppendAsserts
  <2>1. PICK es : es = SubSeq(group, p + 1, p + n)
    OBVIOUS
  <2>2. Good(log, commit, LeaderLogs, group, decided, term, leads)
    BY <1>1 DEF IInv
  <2>3. /\ Len(group) \in Nat /\ log.snapshot.idx \in Nat /\ commit \in Nat
        /\ log.snapshot.idx <= commit
    BY <1>1, Have
  <2>4. Message(log, group, p, n, es)
    BY <2>1, <2>3, ReplicaAssumption DEF Message, PrevTerm
  <2>5. PICK k : k = FirstNew(log, es)
    OBVIOUS
  <2>6. /\ k \in 1..(n + 1)
        /\ k <= n => NewFrom(log, Entries, es, p, k, p + k) /\ commit < p + k
    BY <2>2, <2>4, <2>5, AppendPoint
  <2>7. Len(es) = n /\ n \in Nat /\ p \in Nat
    BY <2>2, <2>4, MessageEntries
  <2>8. k <= n => es[k].idx = p + k /\ p + k <= NextIdx(log) /\ p + k > log.snapshot.idx
    <3> SUFFICES ASSUME k <= n
                 PROVE  es[k].idx = p + k /\ p + k <= NextIdx(log) /\ p + k > log.snapshot.idx
      OBVIOUS
    <3>1. es[k].idx = p + k /\ p + k <= NextIdx(log)
      BY <2>6 DEF NewFrom
    <3>2. p + k > log.snapshot.idx
      BY <2>3, <2>6, <2>7
    <3> QED BY <3>1, <3>2
  <2>9. MaybeAppendAsserts(log, es)
    BY <2>5, <2>7, <2>8 DEF MaybeAppendAsserts
  <2> QED BY <2>1, <2>9
<1> QED BY <1>1, ReplicaIsGood, PTL

\* No step drops a committed entry above the snapshot or changes one.
THEOREM ReplicaKeeps == ReplicaSpec => CommittedNeverDropped
<1> DEFINE A == \A i \in (log'.snapshot.idx + 1)..MinOf(commit, commit') :
                  i <= LastIdx(log') /\ GetEntry(log', i) = GetEntry(log, i)
<1>1. ASSUME IInv, IInv', ReplicaNext PROVE A
  <2> SUFFICES ASSUME NEW i \in (log'.snapshot.idx + 1)..MinOf(commit, commit')
               PROVE  i <= LastIdx(log') /\ GetEntry(log', i) = GetEntry(log, i)
    OBVIOUS
  <2>1. /\ log.first_idx \in Nat \ {0} /\ log.snapshot.idx \in Nat /\ commit \in Nat /\ decided \in Nat
        /\ log.first_idx <= log.snapshot.idx + 1 /\ commit <= decided
    BY <1>1, Have
  <2>2. /\ log'.first_idx \in Nat \ {0} /\ log'.snapshot.idx \in Nat /\ commit' \in Nat
        /\ log'.first_idx <= log'.snapshot.idx + 1 /\ commit' <= LastIdx(log') /\ LastIdx(log') \in Nat
    <3>1. Good(log', commit', LeaderLogs', group', decided', term', leads')
      BY <1>1 DEF IInv
    <3> QED BY <3>1, Numbers
  <2>3. /\ log.snapshot.idx <= log'.snapshot.idx /\ \A j \in 1..decided : group'[j] = group[j]
    BY <1>1, StepIsFine DEF Fine, Keeps
  <2>4. /\ i \in log.first_idx..commit /\ i \in log'.first_idx..commit' /\ i \in 1..decided
        /\ i <= LastIdx(log')
    BY <2>1, <2>2, <2>3 DEF MinOf
  <2>5. Agrees(log, group, commit) /\ Agrees(log', group', commit')
    BY <1>1 DEF IInv, Good
  <2> QED BY <2>3, <2>4, <2>5 DEF Agrees
<1>2. ASSUME IInv, IInv', [ReplicaNext]_replicaVars PROVE [A]_replicaVars
  BY <1>1, <1>2
<1> QED BY <1>2, ReplicaIsGood, PTL DEF ReplicaSpec, CommittedNeverDropped

----------------------------------------------------------------------------
\* The caches of the log, relative to what the group has decided.

\* The indices up to which the log is decided and the group's.
Fixed(l, g, d) == {i \in 0..d : Agrees(l, g, i)}

\* All configurations but the last one are decided, in the log and in the group's log.
LogConfs(l, g, d) == \A i, j \in Confs(l) : i < j => i \in Fixed(l, g, d)
GroupConfs(g, d) ==
  \A i, j \in 1..Len(g) : IsConf(g[i]) /\ IsConf(g[j]) /\ i < j => i <= d

GoodCaches(l, g, d) ==
  Caches(l, Fixed(l, g, d)) /\ LogConfs(l, g, d) /\ GroupConfs(g, d)

\* The same of what earlier leaders left.
PastConfs(H, t, d) == \A s \in 0..t : GroupConfs(H[s], d)

\* The inductive invariant for the caches.
CInv == IInv /\ GoodCaches(log, group, decided) /\ PastConfs(LeaderLogs, term, decided)

\* A step of the group that keeps what it has decided.
LEMMA GroupMoves ==
  ASSUME NEW l, NEW g, NEW d \in Nat, GoodCaches(l, g, d), l.first_idx \in Nat \ {0},
         NEW h, NEW e \in Nat, d <= e, \A i \in 1..d : h[i] = g[i], GroupConfs(h, e)
  PROVE  GoodCaches(l, h, e)
<1>1. ASSUME NEW i \in Fixed(l, g, d) PROVE i \in Fixed(l, h, e)
  <2>1. i \in 0..d /\ Agrees(l, g, i)
    BY <1>1 DEF Fixed
  <2>2. \A j \in l.first_idx..i : j \in 1..d
    BY <2>1
  <2>3. Agrees(l, h, i)
    BY <2>1, <2>2 DEF Agrees
  <2>4. i \in 0..e
    BY <2>1
  <2> QED BY <2>3, <2>4 DEF Fixed
<1>2. Caches(l, Fixed(l, h, e))
  BY <1>1, CachesStay DEF GoodCaches
<1>3. LogConfs(l, h, e)
  BY <1>1 DEF GoodCaches, LogConfs
<1> QED BY <1>2, <1>3 DEF GoodCaches

\* A log that is a prefix of the group's.
LEMMA PrefixConfs ==
  ASSUME NEW m, NEW g, NEW d \in Nat, IsLog(m, Entries), g \in Seq(Entries), LastIdx(m) <= Len(g),
         Agrees(m, g, LastIdx(m)), GroupConfs(g, d)
  PROVE  /\ LogConfs(m, g, d)
         /\ \A i \in Confs(m) : i <= d => i \in Fixed(m, g, d)
<1>1. m.first_idx \in Nat \ {0} /\ LastIdx(m) \in Nat /\ Len(g) \in Nat
  BY EntryIs
<1>2. ASSUME NEW i \in Confs(m) PROVE i \in 1..Len(g) /\ IsConf(g[i]) /\ (i <= d => i \in Fixed(m, g, d))
  <2>1. i \in m.first_idx..LastIdx(m) /\ IsConf(GetEntry(m, i))
    BY <1>2 DEF Confs
  <2>2. GetEntry(m, i) = g[i]
    BY <2>1 DEF Agrees
  <2>3. i \in 1..Len(g)
    BY <1>1, <2>1
  <2>4. Agrees(m, g, i)
    <3>1. \A j \in m.first_idx..i : j \in m.first_idx..LastIdx(m)
      BY <1>1, <2>1
    <3> QED BY <3>1 DEF Agrees
  <2>5. i <= d => i \in 0..d
    BY <2>3
  <2> QED BY <2>1, <2>2, <2>3, <2>4, <2>5 DEF Fixed
<1>3. LogConfs(m, g, d)
  BY <1>2 DEF LogConfs, GroupConfs
<1> QED BY <1>2, <1>3

\* A part of the log.
LEMMA PartConfs ==
  ASSUME NEW l, NEW m, NEW g, NEW d \in Nat, IsLog(l, Entries), IsLog(m, Entries),
         l.first_idx <= m.first_idx, LogConfs(l, g, d),
         \A i \in m.first_idx..LastIdx(m) : i <= LastIdx(l) /\ GetEntry(m, i) = GetEntry(l, i)
  PROVE  /\ LogConfs(m, g, d)
         /\ \A i \in Confs(m) : i \in Fixed(l, g, d) => i \in Fixed(m, g, d)
<1>1. l.first_idx \in Nat \ {0} /\ LastIdx(l) \in Nat /\ m.first_idx \in Nat \ {0} /\ LastIdx(m) \in Nat
  BY EntryIs
<1>2. ASSUME NEW i \in Confs(m)
      PROVE  i \in Confs(l) /\ (i \in Fixed(l, g, d) => i \in Fixed(m, g, d))
  <2>1. i \in m.first_idx..LastIdx(m) /\ IsConf(GetEntry(m, i))
    BY <1>2 DEF Confs
  <2>2. i <= LastIdx(l) /\ GetEntry(m, i) = GetEntry(l, i)
    BY <2>1
  <2>3. i \in l.first_idx..LastIdx(l)
    BY <1>1, <2>1, <2>2
  <2>4. i \in Confs(l)
    BY <2>1, <2>2, <2>3 DEF Confs
  <2>5. ASSUME i \in Fixed(l, g, d) PROVE i \in Fixed(m, g, d)
    <3>1. i \in 0..d /\ Agrees(l, g, i)
      BY <2>5 DEF Fixed
    <3>2. \A j \in m.first_idx..i : j \in m.first_idx..LastIdx(m) /\ j \in l.first_idx..i
      BY <1>1, <2>1
    <3>3. Agrees(m, g, i)
      BY <3>1, <3>2 DEF Agrees
    <3> QED BY <3>1, <3>3 DEF Fixed
  <2> QED BY <2>4, <2>5
<1>3. LogConfs(m, g, d)
  BY <1>2 DEF LogConfs
<1> QED BY <1>2, <1>3

\* Persisting, taking and installing a snapshot, and restarting.
LEMMA PartCaches ==
  ASSUME NEW l, NEW m, NEW g, NEW d \in Nat, IsLog(l, Entries), IsLog(m, Entries),
         l.first_idx <= m.first_idx, GoodCaches(l, g, d),
         \A i \in m.first_idx..LastIdx(m) : i <= LastIdx(l) /\ GetEntry(m, i) = GetEntry(l, i),
         Caches(m, Fixed(l, g, d))
  PROVE  GoodCaches(m, g, d)
<1>1. /\ LogConfs(m, g, d)
      /\ \A i \in Confs(m) : i \in Fixed(l, g, d) => i \in Fixed(m, g, d)
  BY PartConfs DEF GoodCaches
<1>2. Caches(m, Fixed(m, g, d))
  <2>1. \A i \in Live(m) : i \in Fixed(l, g, d) => i \in Fixed(m, g, d)
    BY <1>1 DEF Live
  <2> QED BY <2>1, CachesStay
<1> QED BY <1>1, <1>2 DEF GoodCaches

\* fsm::get_output()
LEMMA PersistCaches ==
  ASSUME NEW l, NEW c, NEW H, NEW g, NEW d, NEW t, NEW ld, Good(l, c, H, g, d, t, ld), GoodCaches(l, g, d),
         NEW m, m = StableTo(l, LastIdx(l))
  PROVE  GoodCaches(m, g, d)
<1>1. IsLog(l, Entries) /\ d \in Nat
  BY HistoryIs DEF Good, Shapes
<1>2. l.first_idx \in Nat \ {0} /\ LastIdx(l) \in Nat
  BY <1>1, EntryIs
<1>3. /\ IsLog(m, Entries) /\ m.first_idx = l.first_idx /\ LastIdx(m) = LastIdx(l)
      /\ Same(m, l, l.first_idx, LastIdx(l))
  BY <1>1, <1>2, StableToIs
<1>4. Caches(m, Fixed(l, g, d))
  BY <1>1, <1>2, StableToCaches DEF GoodCaches
<1>5. \A i \in m.first_idx..LastIdx(m) : i <= LastIdx(l) /\ GetEntry(m, i) = GetEntry(l, i)
  BY <1>2, <1>3 DEF Same
<1>6. l.first_idx <= m.first_idx
  BY <1>2, <1>3
<1> QED BY <1>1, <1>3, <1>4, <1>5, <1>6, PartCaches

\* fsm::apply_snapshot()
LEMMA SnapshotCaches ==
  ASSUME NEW l, NEW c, NEW H, NEW g, NEW d, NEW t, NEW ld, Good(l, c, H, g, d, t, ld), GoodCaches(l, g, d),
         NEW snp, NEW maxEntries \in Nat, NEW maxBytes \in Nat, snp.idx \in Nat, l.snapshot.idx < snp.idx,
         NEW m, m = ApplySnapshot(l, snp, maxEntries, maxBytes)
  PROVE  GoodCaches(m, g, d)
<1>1. IsLog(l, Entries) /\ d \in Nat /\ l.snapshot.idx \in Nat
  BY HistoryIs DEF Good, Shapes
<1>2. l.first_idx \in Nat \ {0} /\ l.first_idx <= l.snapshot.idx + 1
  BY Numbers
<1>3. l.first_idx <= snp.idx + 1 /\ l.snapshot.idx <= snp.idx
  BY <1>1, <1>2
<1>4. AfterSnapshot(l, Entries, snp, maxEntries, maxBytes, m)
  BY <1>1, <1>3 DEF AfterSnapshot
<1>5. /\ IsLog(m, Entries) /\ l.first_idx <= m.first_idx
      /\ \A i \in m.first_idx..LastIdx(m) : i <= LastIdx(l) /\ GetEntry(m, i) = GetEntry(l, i)
  BY <1>4, ApplySnapshotIs
<1>6. Caches(m, Fixed(l, g, d))
  BY <1>1, <1>3, <1>4, ApplySnapshotCaches DEF GoodCaches
<1> QED BY <1>1, <1>5, <1>6, PartCaches

\* A restart.
LEMMA RestartCaches ==
  ASSUME NEW l, NEW c, NEW H, NEW g, NEW d, NEW t, NEW ld, Good(l, c, H, g, d, t, ld), GoodCaches(l, g, d),
         NEW m, m = NewLog(l.snapshot, Slice(l, l.first_idx, l.stable_idx))
  PROVE  GoodCaches(m, g, d)
<1>1. IsLog(l, Entries) /\ d \in Nat
  BY HistoryIs DEF Good, Shapes
<1>2. /\ l.first_idx \in Nat \ {0} /\ LastIdx(l) \in Nat /\ l.snapshot.idx \in Nat
      /\ l.stable_idx \in Nat /\ l.stable_idx <= LastIdx(l) /\ l.first_idx <= l.stable_idx + 1
      /\ l.first_idx <= l.snapshot.idx + 1
  BY Numbers
<1>3. /\ IsLog(m, Entries)
      /\ l.stable_idx >= l.first_idx => /\ m.first_idx = l.first_idx /\ LastIdx(m) = l.stable_idx
                                        /\ Same(m, l, l.first_idx, l.stable_idx)
      /\ l.stable_idx < l.first_idx => /\ m.first_idx = l.snapshot.idx + 1
                                       /\ LastIdx(m) = l.snapshot.idx
  BY SMTT(60), <1>1, <1>2, NewLogIs
<1>4. /\ l.first_idx <= m.first_idx
      /\ \A i \in m.first_idx..LastIdx(m) : i <= LastIdx(l) /\ GetEntry(m, i) = GetEntry(l, i)
  <2>1. CASE l.stable_idx >= l.first_idx
    BY <1>2, <1>3, <2>1 DEF Same
  <2>2. CASE l.stable_idx < l.first_idx
    BY <1>2, <1>3, <2>2
  <2> QED BY <1>2, <2>1, <2>2
<1>5. Caches(m, Fixed(l, g, d))
  BY <1>3, NewLogCaches
<1> QED BY <1>1, <1>3, <1>4, <1>5, PartCaches

\* fsm::append_entries(): a truncated entry is not the group's, so a decided configuration
\* that is the group's is never truncated.
LEMMA AppendCaches ==
  ASSUME NEW l, NEW c, NEW H, NEW g, NEW d, NEW t, NEW ld, Good(l, c, H, g, d, t, ld), GoodCaches(l, g, d),
         NEW p, NEW n, NEW es, Message(l, g, p, n, es),
         NEW m, m = IF n = 0 THEN l ELSE MaybeAppend(l, es)
  PROVE  GoodCaches(m, g, d)
<1>1. /\ IsLog(l, Entries) /\ d \in Nat /\ l.snapshot.idx \in Nat /\ c \in Nat /\ g \in Seq(Entries)
      /\ l.snapshot.idx <= c /\ l.first_idx \in Nat \ {0} /\ LastIdx(l) \in Nat
  BY Numbers, HistoryIs DEF Good, Shapes
<1>2. /\ es \in Seq(Entries) /\ Len(es) = n /\ p \in Nat /\ n \in Nat /\ p + n <= Len(g)
      /\ \A j \in 1..n : es[j] = g[p + j] /\ es[j].idx = p + j
  BY MessageEntries
<1>3. PICK k : k = FirstNew(l, es)
  OBVIOUS
<1>4. /\ k \in 1..(n + 1)
      /\ k <= n => /\ NewFrom(l, Entries, es, p, k, p + k) /\ Agrees(l, g, p + k - 1)
                   /\ c < p + k
  BY <1>3, AppendPoint
<1>5. CASE k > n
  <2>1. n # 0 => MaybeAppend(l, es) = l
    BY <1>2, <1>3, <1>5 DEF MaybeAppend
  <2>2. m = l
    BY <2>1
  <2> QED BY <2>2
<1>6. CASE ~(k > n)
  <2>1. PICK q : q = p + k
    OBVIOUS
  <2>2. k \in 1..n /\ k <= n /\ n # 0 /\ q \in Nat
    BY <1>2, <1>4, <1>6, <2>1
  <2>3. NewFrom(l, Entries, es, p, k, q) /\ Agrees(l, g, q - 1) /\ c < q
    <3>1. NewFrom(l, Entries, es, p, k, p + k) /\ Agrees(l, g, p + k - 1) /\ c < p + k
      BY <1>4, <2>2
    <3>2. NewFrom(l, Entries, es, p, k, q)
      BY <2>1, <3>1
    <3>3. Agrees(l, g, q - 1)
      <4>1. \A j \in l.first_idx..(q - 1) : j \in l.first_idx..(p + k - 1)
        BY <1>1, <1>2, <2>1, <2>2
      <4> QED BY <3>1, <4>1 DEF Agrees
    <3>4. c < q
      BY <2>1, <3>1
    <3> QED BY <3>2, <3>3, <3>4
  <2>4. m = MaybeAppend(l, es)
    BY <2>2
  <2>5. l.snapshot.idx < q /\ l.first_idx <= q
    BY SMTT(60), <1>1, <2>2, <2>3 DEF NewFrom
  <2>6. q <= LastIdx(l) => \A i \in Live(l) : i \in Fixed(l, g, d) => i < q
    <3> SUFFICES ASSUME q <= LastIdx(l), NEW i \in Live(l), i \in Fixed(l, g, d), ~(i < q)
                 PROVE  FALSE
      OBVIOUS
    <3>1. i \in 0..d /\ Agrees(l, g, i)
      BY DEF Fixed
    <3>2. q \in l.first_idx..i
      BY <1>1, <2>2, <2>5, <3>1
    <3>3. GetEntry(l, q) = g[q]
      BY <3>1, <3>2 DEF Agrees
    <3>4. es[k] = g[q] /\ es[k].idx = q
      BY <1>2, <2>1, <2>2
    <3>5. AlreadyHas(l, es[k])
      BY <3>3, <3>4 DEF AlreadyHas
    <3>6. ~AlreadyHas(l, es[k])
      BY <1>2, <1>3, <2>2, FirstNewIs
    <3> QED BY <3>5, <3>6
  <2>7. \A i, j \in Live(l) : i < j => i \in Fixed(l, g, d)
    BY DEF GoodCaches, LogConfs, Live
  <2>8. Caches(m, Fixed(l, g, d))
    BY <1>1, <2>3, <2>4, <2>5, <2>6, <2>7, MaybeAppendCaches DEF GoodCaches
  <2>9. /\ IsLog(m, Entries) /\ m.first_idx = l.first_idx
        /\ LastIdx(m) = p + n /\ Same(m, l, l.first_idx, q - 1)
        /\ \A i \in q..(p + n) : GetEntry(m, i) = es[i - p]
    BY <1>2, <2>3, <2>4, MaybeAppendIs
  <2>10. Agrees(m, g, LastIdx(m))
    <3>1. \A i \in q..(p + n) : i - p \in 1..n /\ p + (i - p) = i
      BY <1>2, <2>1, <2>2
    <3>2. \A i \in q..(p + n) : GetEntry(m, i) = g[i]
      BY <1>2, <2>9, <3>1
    <3>3. \A i \in l.first_idx..(q - 1) : GetEntry(m, i) = g[i]
      BY <2>3, <2>9 DEF Same, Agrees
    <3>4. \A i \in l.first_idx..(p + n) : i \in l.first_idx..(q - 1) \/ i \in q..(p + n)
      BY <1>1, <1>2, <2>2
    <3> QED BY <2>9, <3>2, <3>3, <3>4 DEF Agrees
  <2>11. /\ LogConfs(m, g, d)
         /\ \A i \in Confs(m) : i <= d => i \in Fixed(m, g, d)
    BY <1>1, <1>2, <2>9, <2>10, PrefixConfs DEF GoodCaches
  <2>12. \A i \in Live(m) : i \in Fixed(l, g, d) => i \in Fixed(m, g, d)
    BY <1>1, <2>11 DEF Live, Fixed
  <2>13. Caches(m, Fixed(m, g, d))
    BY <2>8, <2>12, CachesStay
  <2> QED BY <2>11, <2>13 DEF GoodCaches
<1> QED BY <1>5, <1>6

\* An entry that is appended and in its place has the next index.
LEMMA EmplacedIdx ==
  ASSUME NEW S, NEW l, IsLog(l, S), NEW e \in S, NEW m, m = EmplaceBack(l, e), IsLog(m, S)
  PROVE  e.idx = NextIdx(l)
<1>1. l.entries \in Seq(S) /\ Len(l.entries) \in Nat /\ l.first_idx \in Nat \ {0} /\ DOMAIN l = Fields
  BY DEF IsLog, LogShape
<1>2. m.entries = Append(l.entries, e) /\ m.first_idx = l.first_idx
  BY <1>1 DEF EmplaceBack, Fields
<1>3. Len(m.entries) = Len(l.entries) + 1 /\ m.entries[Len(l.entries) + 1] = e
  BY <1>1, <1>2
<1>4. e.idx = m.first_idx + (Len(l.entries) + 1) - 1
  BY <1>1, <1>3 DEF IsLog
<1> QED BY <1>1, <1>2, <1>4 DEF NextIdx, LastIdx

\* fsm::add_entry() on the leader: its log is the group's.
LEMMA LeaderCaches ==
  ASSUME NEW l, NEW c, NEW H, NEW g, NEW d, NEW t, NEW ld, Good(l, c, H, g, d, t, ld), GoodCaches(l, g, d),
         NEW e \in Entries, NEW m, m = EmplaceBack(l, e),
         NEW H2, NEW h, NEW u, NEW le, le, Good(m, c, H2, h, d, u, le), GroupConfs(h, d)
  PROVE  GoodCaches(m, h, d)
<1>1. /\ IsLog(l, Entries) /\ l.snapshot.idx \in Nat /\ l.snapshot.idx <= LastIdx(l) /\ d \in Nat
      /\ LastIdx(l) \in Nat
  BY SMTT(60), Numbers DEF Good, Shapes
<1>2. IsLog(m, Entries) /\ h \in Seq(Entries) /\ Agrees(m, h, LastIdx(m)) /\ LastIdx(m) = Len(h)
  BY HistoryIs DEF Good, Shapes, LeaderHasAll
<1>3. LastIdx(m) \in Nat
  BY <1>2, EntryIs
<1>4. e.idx = NextIdx(l)
  BY <1>1, <1>2, EmplacedIdx
<1>5. Caches(m, Fixed(l, g, d))
  BY <1>1, <1>4, EmplaceBackCaches DEF GoodCaches
<1>6. /\ LogConfs(m, h, d)
      /\ \A i \in Confs(m) : i <= d => i \in Fixed(m, h, d)
  BY <1>1, <1>2, <1>3, PrefixConfs
<1>7. \A i \in Live(m) : i \in Fixed(l, g, d) => i \in Fixed(m, h, d)
  BY <1>1, <1>6 DEF Live, Fixed
<1>8. Caches(m, Fixed(m, h, d))
  BY <1>5, <1>7, CachesStay
<1> QED BY <1>6, <1>8 DEF GoodCaches

\* The group's log gets an entry: a configuration only when all others are decided.
LEMMA GroupGrows ==
  ASSUME NEW g \in Seq(Entries), NEW d \in Nat, GroupConfs(g, d), NEW r \in Nat, r <= Len(g),
         NEW h \in Seq(Entries), Len(h) = r + 1, \A i \in 1..r : h[i] = g[i],
         IsConf(h[r + 1]) => \A i \in 1..r : IsConf(g[i]) => i <= d
  PROVE  GroupConfs(h, d)
<1> SUFFICES ASSUME NEW i \in 1..Len(h), NEW j \in 1..Len(h), IsConf(h[i]), IsConf(h[j]), i < j
             PROVE  i <= d
  BY DEF GroupConfs
<1>1. i \in 1..r /\ i \in 1..Len(g) /\ (j = r + 1 \/ (j \in 1..r /\ j \in 1..Len(g)))
  OBVIOUS
<1>2. IsConf(g[i])
  BY <1>1
<1>3. CASE j = r + 1
  BY <1>1, <1>2, <1>3
<1>4. CASE j \in 1..r /\ j \in 1..Len(g)
  <2>1. IsConf(g[j])
    BY <1>4
  <2> QED BY <1>1, <1>2, <1>4, <2>1 DEF GroupConfs
<1> QED BY <1>1, <1>3, <1>4

\* The configurations of the group's log after a step of a leader.
LEMMA AddEntryConfs ==
  ASSUME CInv, NEW k \in {"command", "configuration"}, NEW x \in Command \cup Config, AddEntry(k, x)
  PROVE  GroupConfs(group', decided)
<1>0. IInv /\ GroupConfs(group, decided)
  BY DEF CInv, GoodCaches
<1>1. /\ Len(group) \in Nat /\ term \in Nat /\ decided \in Nat /\ group \in Seq(Entries)
      /\ \A i \in 1..Len(group) : group[i].idx = i
  BY <1>0, Have
<1>2. PICK e : e = Entry(Len(group) + 1, term, k, x)
  OBVIOUS
<1>3. /\ group' = Append(group, e)
      /\ k = "configuration" => \A i \in ConfIdxs(group, 0) : i <= decided
  BY <1>2 DEF AddEntry
<1>4. e \in Entries
  <2>1. /\ Len(group) + 1 \in Nat \ {0} /\ term \in Nat
        /\ k \in {"command", "configuration", "dummy"} /\ x \in Command \cup Config \cup {Dummy}
    BY <1>1
  <2> QED BY <1>2, <2>1, NewEntry
<1>5. /\ group' \in Seq(Entries) /\ Len(group') = Len(group) + 1
      /\ \A i \in 1..Len(group) : group'[i] = group[i]
      /\ group'[Len(group) + 1] = e
  BY <1>1, <1>3, <1>4, AppendIs
<1>6. IsConf(e) => k = "configuration"
  BY <1>2 DEF Entry, IsConf
<1>7. ASSUME IsConf(e), NEW i \in 1..Len(group), IsConf(group[i]) PROVE i <= decided
  <2>1. group[i].idx = i /\ i > 0
    BY <1>1
  <2>2. i \in ConfIdxs(group, 0)
    BY <1>7, <2>1 DEF ConfIdxs
  <2> QED BY <1>3, <1>6, <1>7, <2>2
<1> QED BY <1>0, <1>1, <1>5, <1>7, GroupGrows

\* A new leader's dummy entry is no configuration; at most the last configuration of the log
\* it goes on from is undecided.
LEMMA NewLeaderConfs ==
  ASSUME CInv, NEW base \in Seq(Entries), GroupConfs(base, decided),
         NEW e \in Entries, ~IsConf(e), NEW h, h = Append(base, e)
  PROVE  GroupConfs(h, decided)
<1>1. decided \in Nat /\ Len(base) \in Nat
  BY Have DEF CInv
<1>2. /\ h \in Seq(Entries) /\ Len(h) = Len(base) + 1
      /\ \A i \in 1..Len(base) : h[i] = base[i]
      /\ h[Len(base) + 1] = e
  BY AppendIs
<1>3. PICK r : r = Len(base)
  OBVIOUS
<1>4. /\ r \in Nat /\ r <= Len(base) /\ Len(h) = r + 1 /\ ~IsConf(h[r + 1])
      /\ \A i \in 1..r : h[i] = base[i]
  BY <1>1, <1>2, <1>3
<1> QED BY <1>1, <1>2, <1>4, GroupGrows

\* So it is in this server's log.
LEMMA WholeLogConfs ==
  ASSUME CInv, NEW b \in Seq(Entries), Len(b) = LastIdx(log), Agrees(log, b, LastIdx(log))
  PROVE  GroupConfs(b, decided)
<1>1. IInv /\ LogConfs(log, group, decided)
  BY DEF CInv, GoodCaches
<1>2. /\ decided \in Nat /\ log.first_idx \in Nat \ {0} /\ log.first_idx <= log.snapshot.idx + 1
      /\ log.snapshot.idx <= commit /\ commit <= decided /\ log.snapshot.idx \in Nat /\ commit \in Nat
      /\ LastIdx(log) \in Nat
  BY <1>1, Have
<1> SUFFICES ASSUME NEW i \in 1..Len(b), NEW j \in 1..Len(b), IsConf(b[i]), IsConf(b[j]), i < j
             PROVE  i <= decided
  BY DEF GroupConfs
<1>3. CASE i < log.first_idx
  BY <1>2, <1>3
<1>4. CASE ~(i < log.first_idx)
  <2>1. i \in log.first_idx..LastIdx(log) /\ j \in log.first_idx..LastIdx(log)
    BY <1>2, <1>4
  <2>2. GetEntry(log, i) = b[i] /\ GetEntry(log, j) = b[j]
    BY <2>1 DEF Agrees
  <2>3. i \in Confs(log) /\ j \in Confs(log)
    BY <2>1, <2>2 DEF Confs
  <2>4. i \in Fixed(log, group, decided)
    BY <1>1, <2>3 DEF LogConfs
  <2> QED BY <1>2, <2>4 DEF Fixed
<1> QED BY <1>3, <1>4

\* And in a prefix of an earlier leader's.
LEMMA PrefixOfConfs ==
  ASSUME NEW a \in Seq(Entries), NEW d \in Nat, GroupConfs(a, d), NEW n \in 0..Len(a), NEW b, b = SubSeq(a, 1, n)
  PROVE  b \in Seq(Entries) /\ GroupConfs(b, d)
<1>1. n \in Nat /\ n <= Len(a) /\ Len(a) \in Nat
  OBVIOUS
<1>2. b \in Seq(Entries) /\ Len(b) = n /\ \A i \in 1..n : b[i] = a[i]
  BY <1>1, PrefixIs
<1>3. \A i \in 1..n : i \in 1..Len(a)
  BY <1>1
<1> QED BY <1>2, <1>3 DEF GroupConfs

\* The logs that are left, after a step of a leader.
LEMMA LeaderStepPast ==
  ASSUME CInv, IInv', GroupConfs(group', decided), Leaves(past', group, past, term, term'),
         term' \in {term, term + 1}
  PROVE  PastConfs(LeaderLogs', term', decided)
<1>1. /\ term \in Nat /\ PastLogs(past, term) /\ PastLogs(past', term')
      /\ LeaderLogs[term] = group /\ term \in 0..term /\ LeaderLogs'[term'] = group'
      /\ PastConfs(LeaderLogs, term, decided)
  BY HistoryIs DEF CInv, IInv, Good
<1>2. MaxLeaders \in Nat /\ past \in [0..MaxLeaders -> Seq(Entries)] /\ term \in 0..MaxLeaders
  BY <1>1, ReplicaAssumption DEF PastLogs
<1> SUFFICES ASSUME NEW s \in 0..term' PROVE GroupConfs(LeaderLogs'[s], decided)
  BY DEF PastConfs
<1>3. CASE s = term'
  BY <1>1, <1>3
<1>4. CASE s # term'
  <2>1. s \in 0..term /\ s \in 0..MaxLeaders /\ (term' = term => s # term)
    BY <1>1, <1>2, <1>4
  <2>2. LeaderLogs'[s] = past'[s]
    BY <1>4 DEF LeaderLogs, Logs
  <2>3. LeaderLogs[s] = IF s = term THEN group ELSE past[s]
    BY <2>1 DEF LeaderLogs, Logs
  <2>4. past'[s] = LeaderLogs[s]
    <3>1. CASE term' = term
      BY <2>1, <2>3, <3>1 DEF Leaves
    <3>2. CASE term' # term
      BY <1>2, <2>1, <2>3, <3>2 DEF Leaves
    <3> QED BY <3>1, <3>2
  <2> QED BY <1>1, <2>1, <2>2, <2>4 DEF PastConfs
<1> QED BY <1>3, <1>4

\* The caches after a step of the group.
LEMMA GroupCaches ==
  ASSUME CInv, Fine, log' = log, NEW e \in Nat, decided' = e, decided <= e, GroupConfs(group', e),
         PastConfs(LeaderLogs', term', e)
  PROVE  CInv'
<1>1. decided \in Nat /\ log.first_idx \in Nat \ {0} /\ GoodCaches(log, group, decided)
  BY Have DEF CInv
<1>2. \A i \in 1..decided : group'[i] = group[i]
  BY DEF Fine, Keeps
<1>3. GoodCaches(log, group', e)
  BY <1>1, <1>2, GroupMoves
<1> QED BY <1>3 DEF CInv, Fine

\* The caches after a step of a leader, this server or another.
LEMMA LeaderStepCaches ==
  ASSUME CInv, Fine, GroupConfs(group', decided), Leaves(past', group, past, term, term'),
         term' \in {term, term + 1}, NEW e \in Entries, NEW self,
         log' = IF self THEN EmplaceBack(log, e) ELSE log,
         leads' = self, commit' = commit, decided' = decided
  PROVE  CInv'
<1>1. /\ Good(log, commit, LeaderLogs, group, decided, term, leads) /\ GoodCaches(log, group, decided)
      /\ decided \in Nat /\ decided <= decided
  BY Have DEF CInv, IInv
<1>2. PastConfs(LeaderLogs', term', decided)
  BY LeaderStepPast DEF Fine
<1>3. CASE ~self
  <2>1. log' = log
    BY <1>3
  <2> QED BY <1>1, <1>2, <2>1, GroupCaches
<1>4. CASE self
  <2>1. log' = EmplaceBack(log, e) /\ leads'
    BY <1>4
  <2>2. Good(log', commit, LeaderLogs', group', decided, term', leads')
    BY DEF Fine, IInv
  <2>3. GoodCaches(log', group', decided)
    BY <1>1, <2>1, <2>2, LeaderCaches
  <2> QED BY <1>2, <2>3 DEF CInv, Fine
<1> QED BY <1>3, <1>4

\* fsm::add_entry()
LEMMA AddEntryCaches ==
  ASSUME CInv, Fine, NEW k \in {"command", "configuration"}, NEW x \in Command \cup Config, AddEntry(k, x)
  PROVE  CInv'
<1>1. Len(group) \in Nat /\ term \in Nat
  BY Have DEF CInv
<1>2. PICK e : e = Entry(Len(group) + 1, term, k, x)
  OBVIOUS
<1>3. e \in Entries
  <2>1. /\ Len(group) + 1 \in Nat \ {0} /\ term \in Nat
        /\ k \in {"command", "configuration", "dummy"} /\ x \in Command \cup Config \cup {Dummy}
    BY <1>1
  <2> QED BY <1>2, <2>1, NewEntry
<1>4. /\ log' = IF leads THEN EmplaceBack(log, e) ELSE log
      /\ leads' = leads /\ commit' = commit /\ decided' = decided /\ term' = term /\ past' = past
  BY <1>2 DEF AddEntry
<1>5. GroupConfs(group', decided)
  BY AddEntryConfs
<1>6. Leaves(past', group, past, term, term') /\ term' \in {term, term + 1}
  BY <1>4 DEF Leaves
<1> QED BY <1>3, <1>4, <1>5, <1>6, LeaderStepCaches

\* become_leader()
LEMMA NewLeaderCaches ==
  ASSUME CInv, Fine, NEW self \in BOOLEAN, NEW base \in Seq(Entries), NewLeader(self, base),
         GroupConfs(base, decided)
  PROVE  CInv'
<1>1. term \in Nat /\ Len(base) + 1 \in Nat \ {0}
  BY Have DEF CInv
<1>2. PICK e : e = Entry(Len(base) + 1, term + 1, "dummy", Dummy)
  OBVIOUS
<1>3. e \in Entries /\ ~IsConf(e)
  <2>1. e \in Entries
    BY <1>1, <1>2, NewEntry
  <2>2. ~IsConf(e)
    BY <1>2 DEF Entry, IsConf
  <2> QED BY <2>1, <2>2
<1>4. /\ log' = IF self THEN EmplaceBack(log, e) ELSE log
      /\ leads' = self /\ commit' = commit /\ decided' = decided
      /\ group' = Append(base, e) /\ term' = term + 1 /\ past' = [past EXCEPT ![term] = group]
  BY <1>2 DEF NewLeader
<1>5. GroupConfs(group', decided)
  BY <1>3, <1>4, NewLeaderConfs
<1>6. Leaves(past', group, past, term, term') /\ term' \in {term, term + 1}
  BY <1>1, <1>4 DEF Leaves
<1> QED BY <1>3, <1>4, <1>5, <1>6, LeaderStepCaches

\* Every step of the specification.
LEMMA StepCaches ==
  ASSUME CInv, ReplicaNext
  PROVE  CInv'
<1>1. /\ IInv /\ Good(log, commit, LeaderLogs, group, decided, term, leads) /\ GoodCaches(log, group, decided)
      /\ GroupConfs(group, decided) /\ PastConfs(LeaderLogs, term, decided)
  BY DEF CInv, IInv, GoodCaches
<1>2. Fine
  BY <1>1, StepIsFine
<1>3. /\ commit \in Nat /\ decided \in Nat /\ Len(group) \in Nat
      /\ log.snapshot.idx \in Nat /\ log.snapshot.idx <= commit
  BY <1>1, Have
<1>4. ASSUME NEW d \in Command, AddEntry("command", d) PROVE CInv'
  BY <1>2, <1>4, AddEntryCaches
<1>5. ASSUME NEW d \in Config, AddEntry("configuration", d) PROVE CInv'
  BY <1>2, <1>5, AddEntryCaches
<1>6. ASSUME NewLeader(TRUE, WholeLog) PROVE CInv'
  <2>1. PICK b : b = WholeLog
    OBVIOUS
  <2>2. b \in Seq(Entries) /\ Len(b) = LastIdx(log) /\ Agrees(log, b, LastIdx(log))
    BY <1>1, <1>6, <2>1, WholeLogStep
  <2>3. GroupConfs(b, decided)
    BY <2>2, WholeLogConfs
  <2>4. PICK self \in BOOLEAN : self = TRUE /\ NewLeader(self, b)
    BY <1>6, <2>1
  <2> QED BY <1>2, <2>2, <2>3, <2>4, NewLeaderCaches
<1>15. ASSUME NEW base \in Prefixes, NewLeader(FALSE, base) PROVE CInv'
  <2>0. PICK s \in 0..term : \E n \in 0..Len(LeaderLogs[s]) : base = SubSeq(LeaderLogs[s], 1, n)
    BY <1>1, <1>15, OtherLeaderStep
  <2>1. PICK n \in 0..Len(LeaderLogs[s]) : base = SubSeq(LeaderLogs[s], 1, n)
    BY <2>0
  <2>2. LeaderLogs[s] \in Seq(Entries)
    BY <1>1, HistoryIs DEF Good
  <2>3. GroupConfs(LeaderLogs[s], decided)
    BY <1>1 DEF PastConfs
  <2>4. base \in Seq(Entries) /\ GroupConfs(base, decided)
    BY <1>3, <2>1, <2>2, <2>3, PrefixOfConfs
  <2>5. PICK self \in BOOLEAN : self = FALSE /\ NewLeader(self, base)
    BY <1>15
  <2> QED BY <1>2, <2>4, <2>5, NewLeaderCaches
<1>7. CASE Decide
  <2>1. PICK n \in (decided + 1)..Len(group) : decided' = n
    BY <1>7 DEF Decide
  <2>2. log' = log /\ group' = group /\ term' = term /\ past' = past
    BY <1>7 DEF Decide
  <2>3. n \in Nat /\ decided <= n
    BY <1>3
  <2>4. ASSUME NEW h, GroupConfs(h, decided) PROVE GroupConfs(h, n)
    <3>1. \A i \in 1..Len(h) : i <= decided => i <= n
      BY <1>3, <2>3
    <3> QED BY <2>4, <3>1 DEF GroupConfs
  <2>5. GroupConfs(group', n)
    BY <1>1, <2>2, <2>4
  <2>6. LeaderLogs' = LeaderLogs
    BY <2>2 DEF LeaderLogs
  <2>7. PastConfs(LeaderLogs', term', n)
    BY <1>1, <2>2, <2>4, <2>6 DEF PastConfs
  <2> QED BY <1>2, <2>1, <2>2, <2>3, <2>5, <2>7, GroupCaches
<1>8. ASSUME group' = group, decided' = decided, term' = term, past' = past,
             GoodCaches(log', group, decided)
      PROVE  CInv'
  <2>1. LeaderLogs' = LeaderLogs
    BY <1>8 DEF LeaderLogs
  <2> QED BY <1>1, <1>2, <1>8, <2>1 DEF CInv, Fine
<1>9. ASSUME NEW p \in 0..Len(group), NEW n \in 0..MaxAppend, NEW c \in commit..decided,
             AppendEntries(p, n, c)
      PROVE  CInv'
  <2>1. p \in Nat /\ n \in Nat
    BY <1>3, ReplicaAssumption
  <2>2. PICK es : es = SubSeq(group, p + 1, p + n)
    OBVIOUS
  <2>3. /\ log' = IF n = 0 THEN log ELSE MaybeAppend(log, es)
        /\ group' = group /\ decided' = decided /\ term' = term /\ past' = past
    BY <1>9, <2>2 DEF AppendEntries
  <2>4. Message(log, group, p, n, es)
    BY <1>9, <2>1, <2>2 DEF AppendEntries, Message, PrevTerm
  <2>5. GoodCaches(log', group, decided)
    BY <1>1, <2>3, <2>4, AppendCaches
  <2> QED BY <1>8, <2>3, <2>5
<1>10. CASE LeaderCommit
  BY <1>1, <1>8, <1>10 DEF LeaderCommit
<1>11. CASE Persist
  <2>1. /\ log' = StableTo(log, LastIdx(log)) /\ group' = group /\ decided' = decided
        /\ term' = term /\ past' = past
    BY <1>11 DEF Persist
  <2> QED BY <1>1, <1>8, <2>1, PersistCaches
<1>12. ASSUME NEW i \in 1..commit, NEW n \in TrailingEntries, TakeSnapshot(i, n) PROVE CInv'
  <2>1. PICK snp : snp = [idx |-> i, term |-> TermFor(log, i), config |-> LastConfFor(log, i)]
    OBVIOUS
  <2>2. /\ i > log.snapshot.idx /\ log' = ApplySnapshot(log, snp, n, TrailingBytes)
        /\ group' = group /\ decided' = decided /\ term' = term /\ past' = past
    BY <1>12, <2>1 DEF TakeSnapshot
  <2>3. snp.idx = i
    BY <2>1
  <2>4. snp.idx \in Nat /\ log.snapshot.idx < snp.idx /\ n \in Nat
    BY <1>3, <2>2, <2>3, ReplicaAssumption
  <2> QED BY <1>1, <1>8, <2>2, <2>4, SnapshotCaches, ReplicaAssumption
<1>13. ASSUME NEW i \in 1..decided, InstallSnapshot(i) PROVE CInv'
  <2>1. PICK snp : snp = [idx |-> i, term |-> group[i].term, config |-> GroupConf(i)]
    OBVIOUS
  <2>2. /\ i > commit /\ log' = ApplySnapshot(log, snp, 0, 0)
        /\ group' = group /\ decided' = decided /\ term' = term /\ past' = past
    BY <1>13, <2>1 DEF InstallSnapshot
  <2>3. snp.idx = i
    BY <2>1
  <2>4. snp.idx \in Nat /\ log.snapshot.idx < snp.idx
    BY <1>3, <2>2, <2>3
  <2> QED BY <1>1, <1>8, <2>2, <2>4, SnapshotCaches
<1>14. ASSUME NEW c \in 0..commit, Restart(c) PROVE CInv'
  <2>1. /\ log' = NewLog(log.snapshot, Slice(log, log.first_idx, log.stable_idx))
        /\ group' = group /\ decided' = decided /\ term' = term /\ past' = past
    BY <1>14 DEF Restart
  <2> QED BY <1>1, <1>8, <2>1, RestartCaches
<1> QED BY <1>4, <1>5, <1>6, <1>7, <1>9, <1>10, <1>11, <1>12, <1>13, <1>14, <1>15 DEF ReplicaNext

\* The bootstrap snapshot and an empty log hold no configuration entry.
LEMMA InitCaches == ReplicaInit => CInv
<1> SUFFICES ASSUME ReplicaInit PROVE CInv
  OBVIOUS
<1>1. IInv
  BY InitIsGood
<1>2. IsLog(log, Entries)
  BY <1>1, Have
<1>3. log = NewLog(Bootstrap, << >>) /\ group = << >>
  BY DEF ReplicaInit
<1>4. Caches(log, Fixed(log, group, decided))
  BY <1>2, <1>3, NewLogCaches
<1>5. log.entries = << >> /\ log.first_idx = 1 /\ LastIdx(log) = 0
  BY <1>3 DEF NewLog, Bootstrap, LastIdx
<1>6. Confs(log) = {}
  BY <1>5 DEF Confs
<1>7. LogConfs(log, group, decided)
  BY <1>6 DEF LogConfs
<1>8. GroupConfs(group, decided)
  BY <1>3 DEF GroupConfs
<1>9. PastConfs(LeaderLogs, term, decided)
  <2>1. /\ term = 0 /\ LeaderLogs[term] = group
    <3>1. History(LeaderLogs, group, term, decided)
      BY <1>1 DEF IInv, Good
    <3> QED BY <3>1, HistoryIs DEF ReplicaInit
  <2>2. \A s \in 0..term : s = term
    BY <2>1
  <2> QED BY <1>8, <2>1, <2>2 DEF PastConfs
<1> QED BY <1>1, <1>4, <1>7, <1>8, <1>9 DEF CInv, GoodCaches

\* The cached positions of the configurations are those a scan of the log would find, and the
\* incremental memory count is the size of the commands held, whatever truncations,
\* snapshots and restarts led here.
THEOREM ReplicaCaches == ReplicaSpec => []CachesExact
<1>1. ASSUME CInv, [ReplicaNext]_replicaVars PROVE CInv'
  <2>1. CASE ReplicaNext
    BY <1>1, <2>1, StepCaches
  <2>2. CASE UNCHANGED replicaVars
    <3>1. /\ log' = log /\ commit' = commit /\ group' = group /\ past' = past
          /\ decided' = decided /\ term' = term /\ leads' = leads
      BY <2>2 DEF replicaVars
    <3>2. LeaderLogs' = LeaderLogs
      BY <3>1 DEF LeaderLogs
    <3> QED BY <1>1, <3>1, <3>2 DEF CInv, IInv
  <2> QED BY <1>1, <2>1, <2>2
<1>2. ASSUME CInv PROVE CachesExact
  <2>1. /\ IsLog(log, Entries) /\ Caches(log, Fixed(log, group, decided)) /\ decided \in Nat
    BY <1>2, Have DEF CInv, GoodCaches
  <2>2. PICK C : C = ConfIdxs(log.entries, log.snapshot.idx)
    OBVIOUS
  <2>3. /\ log.last_conf_idx = Greatest(C)
        /\ log.prev_conf_idx # 0 => log.prev_conf_idx = Greatest(C \ {log.last_conf_idx})
        /\ log.prev_conf_idx = 0 => \/ C \ {log.last_conf_idx} = {}
                                    \/ log.last_conf_idx \in Fixed(log, group, decided)
        /\ log.memory_usage = MemoryUsage(log.entries)
    BY <2>1, <2>2, CachesAreExact
  <2>4. log.last_conf_idx \in Fixed(log, group, decided) => log.last_conf_idx <= decided
    BY <2>1 DEF Fixed
  <2> QED BY <2>2, <2>3, <2>4 DEF CachesExact
<1> QED BY <1>1, <1>2, InitCaches, PTL DEF ReplicaSpec
=============================================================================
