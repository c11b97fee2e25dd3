-------------------------- MODULE RaftServerProofs --------------------------
(***************************************************************************)
(* Proofs about RaftServer: for logs, queues and terms of any length and   *)
(* any number of callers, what the applier fiber makes of the state        *)
(* machine is a prefix of what the group has decided, the answers of       *)
(* add_entry() and read_barrier() are true, and the assertions of the two  *)
(* fibers hold.                                                            *)
(*                                                                         *)
(* The invariant is stated of values, not of variables, so that every      *)
(* operation has lemmas without primes: g, d, t and H are the group's log, *)
(* what is decided of it, its term and the logs of the leaders so far; l   *)
(* and c this server's log and commit index; a, o its applied and observed *)
(* index; w, q and td what its fibers have in hand.                        *)
(***************************************************************************)
EXTENDS RaftServer, RaftLogProofs

Entries == [idx : Nat, term : Nat, kind : {"dummy", "command"}]

----------------------------------------------------------------------------
(* The group.                                                              *)

\* The log of the leader of each term: the present one, and those left behind.
Logs(g, P, t) == [s \in 1..t |-> IF s = t THEN g ELSE P[s]]

\* Up to index i, log b is what log a is.
Begins(a, b, i) == i <= Len(b) /\ \A j \in 1..i : a[j] = b[j]

\* A log that has an entry of term s is up to there the log of the leader of s.
Matching(H, t) ==
  \A s \in 1..t : \A i \in 1..Len(H[s]) :
    /\ H[s][i].idx = i
    /\ H[s][i].term \in 1..s
    /\ Begins(H[s], H[H[s][i].term], i)

\* Whoever led in the term of the last decided entry, or later, has all decided entries.
Complete(H, g, t, d) == d > 0 => \A s \in g[d].term..t : Begins(g, H[s], d)

History(H, g, t, d) ==
  /\ t \in Nat \ {0} /\ H \in [1..t -> Seq(Entries)] /\ H[t] = g
  /\ d \in Nat /\ d <= Len(g)
  /\ Matching(H, t) /\ Complete(H, g, t, d)

PastLogs(P, t) ==
  /\ t <= MaxTerm /\ P \in [1..MaxTerm -> Seq(Entries)]
  /\ \A s \in 1..MaxTerm : s >= t => P[s] = << >>

----------------------------------------------------------------------------
(* The log of this server.                                                 *)

Agrees(l, g, i) == \A j \in l.first_idx..i : GetEntry(l, j) = g[j]

\* Its entries come from leaders, with those that precede them as far as it has these.
FromLeaders(l, H, t) ==
  \A i \in l.first_idx..LastIdx(l) :
    /\ GetEntry(l, i).term \in 1..t
    /\ i <= Len(H[GetEntry(l, i).term])
    /\ Agrees(l, H[GetEntry(l, i).term], i)

\* Its indices are in order.
InOrder(l, c, d) ==
  /\ c \in Nat /\ l.snapshot.idx \in Nat /\ l.snapshot.term \in Nat
  /\ l.first_idx <= l.snapshot.idx + 1 /\ l.snapshot.idx <= c /\ c <= LastIdx(l) /\ c <= d

\* The end of the snapshot is the group's.
SnapshotMatches(l, g) ==
  /\ l.snapshot.idx = 0 => l.snapshot.term = 0
  /\ l.snapshot.idx > 0 => l.snapshot.term = g[l.snapshot.idx].term

\* A leader has the group's log itself.
LeaderHasAll(l, g, ld) == ld => LastIdx(l) = Len(g) /\ Agrees(l, g, LastIdx(l))

OwnLog(l, c, ld, H, g, t, d) ==
  /\ IsLog(l, Entries) /\ InOrder(l, c, d) /\ FromLeaders(l, H, t) /\ Agrees(l, g, c)
  /\ SnapshotMatches(l, g) /\ ld \in BOOLEAN /\ LeaderHasAll(l, g, ld)

----------------------------------------------------------------------------
(* The fibers.                                                             *)

Outputs == [kind : {"remote", "local"}, idx : Nat] \cup {Nothing}
Items ==
  [kind : {"entries"}, es : Seq(Entries)] \cup [kind : {"snapshot"}, idx : Nat]
  \cup [kind : {"removed", "trigger"}] \cup {Nothing}
Tasks == [do : {"push"}, arg : Items] \cup [do : {"store", "finish", "request"}, arg : Outputs]

\* Entries es take the state machine from index a to index b.
Advances(es, g, d, a, b) ==
  /\ es \in Seq(Entries) /\ Len(es) > 0 /\ b = a + Len(es) /\ b <= d
  /\ \A k \in 1..Len(es) : es[k] = g[a + k]

\* So does a snapshot at b, which is not beyond the one of the log, s.
Jumps(i, d, s, a, b) == i = b /\ a <= b /\ b <= d /\ b <= s

\* What an item of the queue does, and what the applier fiber is doing.
Moves(v, g, d, s, a, b) ==
  /\ v.kind = "entries" => Advances(v.es, g, d, a, b)
  /\ v.kind = "snapshot" => Jumps(v.idx, d, s, a, b)
  /\ v.kind \notin {"entries", "snapshot"} => a = b
Working(w, g, d, s, a, b) ==
  \/ w.kind = "applying" /\ Advances(w.es, g, d, a, b)
  \/ w.kind = "loading" /\ Jumps(w.idx, d, s, a, b)
  \/ /\ w.kind = "taking" /\ w.idx = a /\ a = b
     /\ w.trailing \in Nat /\ w.term \in Nat /\ (a > 0 => w.term = g[a].term)
  \/ w = Nothing /\ a = b

\* Items one after the other.
Stations(f, q, g, d, s, a, b) ==
  /\ f[0] = a /\ f[Len(q)] = b
  /\ \A k \in 1..Len(q) : Moves(q[k], g, d, s, f[k - 1], f[k])
Chain(q, g, d, s, a, b) == \E f \in [0..Len(q) -> 0..b] : Stations(f, q, g, d, s, a, b)

\* What the I/O fiber will push.
Pushes(td) == [k \in 1..Len(td) |-> IF td[k].do = "push" THEN td[k].arg ELSE Nothing]
Run(td, g, d, s, a, b) == td \in Seq(Tasks) /\ Chain(Pushes(td), g, d, s, a, b)

\* From the applied index on, the work in hand, the queue and what is still to be pushed
\* lead to the index observed at the last poll.
Pipe(w, q, td, a, o, running, g, d, s) ==
  /\ q \in Seq(Items) /\ td \in Seq(Tasks) /\ a \in Nat /\ o \in Nat /\ o <= d
  /\ \E b \in 0..o :
       /\ Working(w, g, d, s, a, b)
       /\ running => \E e \in 0..o : Chain(q, g, d, s, b, e) /\ Run(td, g, d, s, e, o)

\* A snapshot that was not polled yet is ahead of what was observed.
Ahead(out, s, o) ==
  /\ out \in Outputs
  /\ out.kind = "remote" => out.idx = s /\ o <= s
  /\ out.kind # "remote" => s <= o

\* The state machine, and the entries it got through apply().
Machine(m, x, g, s, a) ==
  /\ m = Effects(SubSeq(g, 1, a))
  /\ \A i \in 1..a : i > s => g[i] \in x

----------------------------------------------------------------------------
(* The callers.                                                            *)

Adds == {"committed", "applied"}
Statuses == {"idle", "added", "waiting", "ok", "dropped", "unknown"}
CallRecords == [status : Statuses, type : Adds \cup {"read", "none"}, idx : Nat, term : Nat]

\* Calls that know their entry, which the leader of its term created.
Entered(c) == c.type \in Adds /\ c.status \in {"added", "waiting", "ok", "dropped"}
Created(c, H, t) == c.term \in 1..t /\ c.idx \in 1..Len(H[c.term]) /\ H[c.term][c.idx].term = c.term

\* The entry is decided; it never will be.
Decided(c, g, d) == c.idx <= d /\ g[c.idx].term = c.term
Dead(c, g, d) ==
  \E n \in 1..d : n <= c.idx /\ (g[n].term > c.term \/ (n = c.idx /\ g[n].term # c.term))

\* Nobody waits for what is applied, nor for the commit of what is being applied.
Waits(c, w, a) ==
  c.status = "waiting" /\ c.type \in Adds =>
    c.idx > a /\ (c.type = "committed" /\ w.kind = "applying" => c.idx > a + Len(w.es))

Truth(c, a, x, g, d) ==
  /\ c.status = "ok" =>
       /\ c.type # "read" => Decided(c, g, d)
       /\ c.type = "applied" => \E e \in x : e.idx = c.idx /\ e.term = c.term
       /\ c.type = "read" => a >= c.idx
  /\ c.status = "dropped" /\ c.type = "committed" => Dead(c, g, d)

CallOk(c, w, a, x, H, g, t, d) ==
  /\ c \in CallRecords
  /\ c.status \in {"idle", "unknown"} \/ c.type \in Adds \/ (c.type = "read" /\ c.status \in {"waiting", "ok"})
  /\ Entered(c) => Created(c, H, t)
  /\ Waits(c, w, a) /\ Truth(c, a, x, g, d)

\* No two callers wait for one entry.
Distinct(cs) ==
  \A v, w \in Client : v # w /\ Entered(cs[v]) /\ Entered(cs[w])
                         => cs[v].idx # cs[w].idx \/ cs[v].term # cs[w].term

CallsOk(cs, w, a, x, H, g, t, d) ==
  /\ cs \in [Client -> CallRecords] /\ Distinct(cs)
  /\ \A v \in Client : CallOk(cs[v], w, a, x, H, g, t, d)

----------------------------------------------------------------------------
\* The inductive invariant.
LeaderLogs == Logs(group, past, term)
Index == log.snapshot.idx

IInv ==
  /\ plan \in DOMAIN Plans /\ PastLogs(past, term)
  /\ History(LeaderLogs, group, term, decided)
  /\ OwnLog(log, commit, leads, LeaderLogs, group, term, decided)
  /\ Pipe(work, queue, todo, applied, observed, phase = "running", group, decided, Index)
  /\ observed <= commit /\ Ahead(output, Index, observed)
  /\ Machine(machine, executed, group, Index, applied)
  /\ CallsOk(calls, work, applied, executed, LeaderLogs, group, term, decided)

----------------------------------------------------------------------------
(* The group's history.                                                    *)

\* The logs of H2 continue those of H.
Extend(H, t, H2, t2) == t <= t2 /\ \A s \in 1..t : Begins(H[s], H2[s], Len(H[s]))

\* A log that a leader of a term up to t, or a follower of one, may have.
LeaderLike(base, H, t) ==
  /\ base \in Seq(Entries)
  /\ \A i \in 1..Len(base) :
       /\ base[i].idx = i
       /\ base[i].term \in 1..t
       /\ Begins(base, H[base[i].term], i)

\* The leader of term t2, the present or the next one, adds entry e to its log.
AddsEntry(H, g, t, d, base, e, t2, H2) ==
  /\ History(H, g, t, d) /\ LeaderLike(base, H, t) /\ Begins(g, base, d)
  /\ t2 \in {t, t + 1} /\ (t2 = t => base = g)
  /\ e \in Entries /\ e.idx = Len(base) + 1 /\ e.term = t2
  /\ H2 = [s \in 1..t2 |-> IF s = t2 THEN Append(base, e) ELSE H[s]]

\* What a history consists of.
LEMMA HistoryIs ==
  ASSUME NEW H, NEW g, NEW t, NEW d, History(H, g, t, d)
  PROVE  /\ t \in Nat \ {0} /\ t \in 1..t /\ d \in Nat /\ Len(g) \in Nat /\ d <= Len(g)
         /\ g \in Seq(Entries) /\ H[t] = g
         /\ \A s \in 1..t : H[s] \in Seq(Entries) /\ Len(H[s]) \in Nat
         /\ \A s \in 1..t : \A i \in 1..Len(H[s]) :
              H[s][i] \in Entries /\ H[s][i].idx = i /\ H[s][i].term \in 1..s
         /\ \A s \in 1..t : LeaderLike(H[s], H, t)
<1>1. /\ t \in Nat \ {0} /\ H \in [1..t -> Seq(Entries)] /\ H[t] = g /\ d \in Nat /\ d <= Len(g)
      /\ Matching(H, t)
  BY DEF History
<1>2. t \in 1..t
  BY <1>1
<1>3. \A s \in 1..t : H[s] \in Seq(Entries) /\ Len(H[s]) \in Nat
  BY <1>1
<1>4. \A s \in 1..t : \A i \in 1..Len(H[s]) :
              H[s][i] \in Entries /\ H[s][i].idx = i /\ H[s][i].term \in 1..s
  BY <1>1, <1>3 DEF Matching
<1>5. ASSUME NEW s \in 1..t PROVE LeaderLike(H[s], H, t)
  <2>1. \A i \in 1..Len(H[s]) : H[s][i].term \in 1..t
    BY <1>1, <1>4
  <2> QED BY <1>1, <1>3, <1>4, <2>1 DEF LeaderLike, Matching
<1> QED BY <1>1, <1>2, <1>3, <1>4, <1>5

\* Terms do not go down along a log.
LEMMA TermsAscend ==
  ASSUME NEW H, NEW g, NEW t, NEW d, History(H, g, t, d),
         NEW j \in 1..Len(g), NEW i \in 1..j
  PROVE  g[i].term <= g[j].term
<1>1. t \in 1..t /\ H[t] = g /\ g[j].term \in 1..t /\ Len(g) \in Nat /\ t \in Nat
  BY HistoryIs
<1> DEFINE T == g[j].term
<1>2. Begins(g, H[T], j)
  BY <1>1 DEF History, Matching
<1>3. g[i] = H[T][i] /\ i \in 1..Len(H[T])
  <2>1. T \in 1..t /\ Len(H[T]) \in Nat
    BY <1>1, HistoryIs
  <2> QED BY <1>1, <1>2, <2>1 DEF Begins
<1>4. H[T][i].term \in 1..T
  BY <1>1, <1>3, HistoryIs
<1> QED BY <1>1, <1>3, <1>4

\* A beginning of a beginning.
LEMMA BeginsTrans ==
  ASSUME NEW a, NEW b, NEW c, NEW i \in Nat, NEW k \in Nat, i <= k, k <= Len(c),
         Begins(a, b, i), \A j \in 1..k : b[j] = c[j]
  PROVE  Begins(a, c, i)
BY DEF Begins

\* The new history.
LEMMA NewEntry ==
  ASSUME NEW H, NEW g, NEW t, NEW d, NEW base, NEW e, NEW t2, NEW H2,
         AddsEntry(H, g, t, d, base, e, t2, H2)
  PROVE  /\ History(H2, Append(base, e), t2, d)
         /\ Extend(H, t, H2, t2)
         /\ Begins(g, Append(base, e), d)
<1> DEFINE b == Append(base, e)
<1>1. /\ History(H, g, t, d) /\ LeaderLike(base, H, t) /\ Begins(g, base, d)
      /\ t2 \in {t, t + 1} /\ (t2 = t => base = g)
      /\ e \in Entries /\ e.idx = Len(base) + 1 /\ e.term = t2
      /\ H2 = [s \in 1..t2 |-> IF s = t2 THEN b ELSE H[s]]
  BY DEF AddsEntry
<1>2. /\ t \in Nat \ {0} /\ t \in 1..t /\ d \in Nat /\ H[t] = g
      /\ \A s \in 1..t : H[s] \in Seq(Entries) /\ Len(H[s]) \in Nat
      /\ base \in Seq(Entries) /\ Len(base) \in Nat /\ d <= Len(base)
  BY <1>1, HistoryIs DEF LeaderLike, Begins
<1>3. /\ b \in Seq(Entries) /\ Len(b) = Len(base) + 1 /\ b[Len(base) + 1] = e
      /\ \A j \in 1..Len(base) : b[j] = base[j]
  BY <1>1, <1>2
<1> HIDE DEF b
<1>4. /\ t2 \in Nat \ {0} /\ t <= t2 /\ t2 <= t + 1 /\ H2 \in [1..t2 -> Seq(Entries)] /\ H2[t2] = b
      /\ \A s \in 1..t2 : s # t2 => s \in 1..t /\ H2[s] = H[s]
  BY <1>1, <1>2, <1>3
<1>5. Begins(g, b, d)
  BY <1>1, <1>2, <1>3 DEF Begins
<1>6. Extend(H, t, H2, t2)
  <2> SUFFICES ASSUME NEW s \in 1..t PROVE Begins(H[s], H2[s], Len(H[s]))
    BY <1>4 DEF Extend
  <2>1. CASE s = t2
    BY <1>1, <1>2, <1>3, <1>4, <2>1 DEF Begins
  <2>2. CASE s # t2
    <3>1. H2[s] = H[s]
      BY <1>2, <1>4, <2>2
    <3> QED BY <1>2, <3>1 DEF Begins
  <2> QED BY <2>1, <2>2
<1>7. Matching(H2, t2)
  <2> SUFFICES ASSUME NEW s \in 1..t2, NEW i \in 1..Len(H2[s])
               PROVE  /\ H2[s][i].idx = i /\ H2[s][i].term \in 1..s
                      /\ Begins(H2[s], H2[H2[s][i].term], i)
    BY DEF Matching
  <2>1. CASE s # t2
    <3>1. s \in 1..t /\ H2[s] = H[s] /\ s < t2
      BY <1>4, <2>1
    <3>2. H[s][i].idx = i /\ H[s][i].term \in 1..s /\ Begins(H[s], H[H[s][i].term], i)
      BY <1>1, <3>1 DEF History, Matching
    <3>3. H2[H[s][i].term] = H[H[s][i].term]
      BY <1>4, <3>1, <3>2
    <3> QED BY <3>1, <3>2, <3>3
  <2>2. CASE s = t2 /\ i = Len(base) + 1
    <3>1. H2[s][i] = e /\ H2[s] = b
      BY <1>3, <1>4, <2>2
    <3> QED BY <1>1, <1>2, <1>3, <1>4, <2>2, <3>1 DEF Begins
  <2>3. CASE s = t2 /\ i # Len(base) + 1
    <3>1. H2[s] = b /\ i \in 1..Len(base) /\ b[i] = base[i]
      BY <1>2, <1>3, <1>4, <2>3
    <3>2. base[i].idx = i /\ base[i].term \in 1..t /\ Begins(base, H[base[i].term], i)
      BY <1>1, <3>1 DEF LeaderLike
    <3>3. CASE base[i].term = t2
      <4>1. Begins(b, b, i) 
        BY <1>2, <1>3, <3>1 DEF Begins
      <4>2. H2[base[i].term] = b
        BY <1>4, <3>3
      <4>3. b[i].term \in 1..t2
        BY <1>4, <3>1, <3>3
      <4> QED BY <2>3, <3>1, <3>2, <4>1, <4>2, <4>3
    <3>4. CASE base[i].term # t2
      <4>1. base[i].term \in 1..t2 /\ H2[base[i].term] = H[base[i].term]
        BY SMTT(60), <1>2, <1>4, <3>2, <3>4
      <4>2. Begins(b, H[base[i].term], i)
        <5>1. \A j \in 1..i : b[j] = base[j]
          BY <1>2, <1>3, <3>1
        <5> QED BY <3>2, <5>1 DEF Begins
      <4> QED BY <2>3, <3>1, <3>2, <4>1, <4>2
    <3> QED BY <3>3, <3>4
  <2> QED BY <2>1, <2>2, <2>3
<1>8. Complete(H2, b, t2, d)
  <2> SUFFICES ASSUME d > 0, NEW s \in b[d].term..t2 PROVE Begins(b, H2[s], d)
    BY DEF Complete
  <2>1. d \in 1..d /\ b[d] = g[d] /\ \A j \in 1..d : b[j] = g[j]
    BY <1>2, <1>5 DEF Begins
  <2>2. CASE s = t2
    BY <1>2, <1>3, <1>4, <2>2 DEF Begins
  <2>3. CASE s # t2
    <3>0. d \in 1..Len(g) /\ g[d].term \in 1..t /\ g[d].term \in Nat
      BY <1>1, <1>2, <2>1, HistoryIs
    <3>1. s \in g[d].term..t /\ s \in 1..t2
      BY <1>2, <1>4, <2>1, <2>3, <3>0
    <3>2. Begins(g, H[s], d) /\ H2[s] = H[s]
      BY <1>1, <1>4, <2>3, <3>1 DEF History, Complete
    <3> QED BY <2>1, <3>2 DEF Begins
  <2> QED BY <2>2, <2>3
<1> QED BY <1>2, <1>3, <1>4, <1>5, <1>6, <1>7, <1>8 DEF History, b

\* A majority has an entry of the leader's own term.
LEMMA NewDecision ==
  ASSUME NEW H, NEW g, NEW t, NEW d, NEW n, History(H, g, t, d), n \in (d + 1)..Len(g), g[n].term = t
  PROVE  History(H, g, t, n)
<1>1. /\ t \in Nat \ {0} /\ H \in [1..t -> Seq(Entries)] /\ H[t] = g /\ d \in Nat /\ Len(g) \in Nat
      /\ Matching(H, t)
  BY HistoryIs DEF History
<1>2. n \in Nat /\ n <= Len(g)
  BY <1>1
<1>3. \A s \in g[n].term..t : Begins(g, H[s], n)
  BY <1>1, <1>2 DEF Begins
<1> QED BY <1>1, <1>2, <1>3 DEF History, Complete

\* A prefix of a log is one that a follower may have.
LEMMA PrefixIsLeaderLike ==
  ASSUME NEW a, NEW H, NEW t, LeaderLike(a, H, t), NEW n \in 0..Len(a)
  PROVE  LeaderLike(SubSeq(a, 1, n), H, t)
<1>1. a \in Seq(Entries) /\ Len(a) \in Nat
  BY DEF LeaderLike
<1>2. /\ SubSeq(a, 1, n) \in Seq(Entries) /\ Len(SubSeq(a, 1, n)) = n
      /\ \A i \in 1..n : SubSeq(a, 1, n)[i] = a[i]
  BY <1>1
<1>3. \A i \in 1..n : i \in 1..Len(a) /\ \A j \in 1..i : j \in 1..n
  BY <1>1
<1> QED BY <1>1, <1>2, <1>3 DEF LeaderLike, Begins

----------------------------------------------------------------------------
(* The log of this server.                                                 *)

\* The indices of the server's log in their order.
LEMMA OwnNumbers ==
  ASSUME NEW l, NEW c, NEW ld, NEW H, NEW g, NEW t, NEW d, OwnLog(l, c, ld, H, g, t, d)
  PROVE  /\ l.first_idx \in Nat \ {0} /\ LastIdx(l) \in Nat /\ l.first_idx <= LastIdx(l) + 1
         /\ l.snapshot.idx \in Nat /\ l.snapshot.term \in Nat /\ c \in Nat
         /\ l.first_idx <= l.snapshot.idx + 1 /\ l.snapshot.idx <= c /\ c <= LastIdx(l) /\ c <= d
BY EntryIs DEF OwnLog, InOrder

\* The server's log stays as it is while the group goes on.
LEMMA OwnStays ==
  ASSUME NEW l, NEW c, NEW ld, NEW H, NEW g, NEW t, NEW d, OwnLog(l, c, ld, H, g, t, d),
         History(H, g, t, d),
         NEW H2, NEW g2, NEW t2, NEW d2, NEW ld2 \in BOOLEAN, History(H2, g2, t2, d2),
         Extend(H, t, H2, t2), Begins(g, g2, d), d <= d2, ld2 => ld /\ g2 = g
  PROVE  OwnLog(l, c, ld2, H2, g2, t2, d2)
<1>1. /\ l.first_idx \in Nat \ {0} /\ LastIdx(l) \in Nat /\ l.snapshot.idx \in Nat /\ c \in Nat
      /\ l.snapshot.idx <= c /\ c <= d /\ d \in Nat /\ t \in Nat /\ t <= t2
      /\ t2 \in Nat /\ d2 \in Nat
  BY OwnNumbers, HistoryIs DEF Extend
<1>2. IsLog(l, Entries) /\ InOrder(l, c, d2)
  BY <1>1 DEF OwnLog, InOrder
<1>3. FromLeaders(l, H2, t2)
  <2> SUFFICES ASSUME NEW i \in l.first_idx..LastIdx(l)
               PROVE  /\ GetEntry(l, i).term \in 1..t2
                      /\ i <= Len(H2[GetEntry(l, i).term])
                      /\ Agrees(l, H2[GetEntry(l, i).term], i)
    BY DEF FromLeaders
  <2> SUFFICES ASSUME NEW T, T = GetEntry(l, i).term
               PROVE  T \in 1..t2 /\ i <= Len(H2[T]) /\ Agrees(l, H2[T], i)
    OBVIOUS
  <2>1. T \in 1..t /\ i <= Len(H[T]) /\ Agrees(l, H[T], i)
    BY DEF OwnLog, FromLeaders
  <2>2. Begins(H[T], H2[T], Len(H[T])) /\ Len(H[T]) \in Nat /\ T \in 1..t2
    <3>1. Begins(H[T], H2[T], Len(H[T]))
      BY <2>1 DEF Extend
    <3>2. Len(H[T]) \in Nat
      BY <2>1, HistoryIs
    <3> QED BY <1>1, <2>1, <3>1, <3>2
  <2>3. \A j \in l.first_idx..i : j \in 1..Len(H[T])
    BY SMTT(60), <1>1, <2>1, <2>2
  <2>4. Agrees(l, H2[T], i)
    BY <2>1, <2>2, <2>3 DEF Agrees, Begins
  <2>5. i <= Len(H2[T])
    <3>1. Len(H2[T]) \in Nat
      BY <2>2, HistoryIs
    <3> QED BY <1>1, <2>1, <2>2, <3>1 DEF Begins
  <2> QED BY <2>2, <2>4, <2>5
<1>4. Agrees(l, g2, c)
  <2>1. \A j \in l.first_idx..c : j \in 1..d
    BY <1>1
  <2> QED BY <2>1 DEF OwnLog, Agrees, Begins
<1>5. SnapshotMatches(l, g2)
  <2>1. l.snapshot.idx > 0 => l.snapshot.idx \in 1..d
    BY <1>1
  <2> QED BY <2>1 DEF OwnLog, SnapshotMatches, Begins
<1>6. LeaderHasAll(l, g2, ld2)
  BY DEF OwnLog, LeaderHasAll
<1> QED BY <1>2, <1>3, <1>4, <1>5, <1>6 DEF OwnLog

\* The leader's own copy of a new entry.
Emplaced(m, l, e) == m = EmplaceBack(l, e)

\* The leader of term t2 is this server, and adds entry e to its log.
LEMMA OwnAppends ==
  ASSUME NEW l, NEW c, NEW ld, NEW H, NEW g, NEW t, NEW d, OwnLog(l, c, ld, H, g, t, d),
         NEW base, NEW e, NEW t2, NEW H2, AddsEntry(H, g, t, d, base, e, t2, H2),
         LastIdx(l) = Len(base), Agrees(l, base, LastIdx(l)),
         NEW m, Emplaced(m, l, e), NEW ld2 \in BOOLEAN
  PROVE  OwnLog(m, c, ld2, H2, Append(base, e), t2, d) /\ m.snapshot = l.snapshot
<1>1. /\ History(H, g, t, d) /\ base \in Seq(Entries) /\ e \in Entries /\ e.idx = Len(base) + 1
      /\ e.term = t2 /\ Len(base) \in Nat
  BY DEF AddsEntry, LeaderLike
<1> DEFINE b == Append(base, e)
<1>2. /\ Len(b) = Len(base) + 1 /\ b[Len(base) + 1] = e /\ \A j \in 1..Len(base) : b[j] = base[j]
  BY <1>1
<1>3. History(H2, b, t2, d) /\ Extend(H, t, H2, t2) /\ Begins(g, b, d)
  BY NewEntry
<1> HIDE DEF b
<1>4. OwnLog(l, c, FALSE, H2, b, t2, d)
  <2>1. d \in Nat /\ d <= d
    BY <1>1, HistoryIs
  <2> QED BY <1>1, <1>3, <2>1, OwnStays
<1>5. /\ l.first_idx \in Nat \ {0} /\ LastIdx(l) \in Nat /\ l.snapshot.idx \in Nat /\ c \in Nat
      /\ l.snapshot.idx <= c /\ c <= d /\ c <= LastIdx(l)
      /\ IsLog(l, Entries) /\ e.idx = NextIdx(l)
  BY <1>1, OwnNumbers DEF OwnLog, NextIdx
<1>6. /\ IsLog(m, Entries) /\ m.snapshot = l.snapshot /\ m.first_idx = l.first_idx
      /\ LastIdx(m) = LastIdx(l) + 1 /\ GetEntry(m, LastIdx(m)) = e
      /\ \A i \in l.first_idx..LastIdx(l) : GetEntry(m, i) = GetEntry(l, i)
  BY <1>1, <1>5, EmplaceBackIs DEF Same, NextIdx, Emplaced
<1>7. Agrees(m, b, LastIdx(m))
  <2> SUFFICES ASSUME NEW j \in m.first_idx..LastIdx(m) PROVE GetEntry(m, j) = b[j]
    BY DEF Agrees
  <2>1. CASE j = LastIdx(m)
    BY <1>2, <1>6, <2>1
  <2>2. CASE j # LastIdx(m)
    <3>1. j \in l.first_idx..LastIdx(l) /\ j \in 1..Len(base)
      BY <1>5, <1>6, <2>2
    <3> QED BY <1>2, <1>6, <3>1 DEF Agrees
  <2> QED BY <2>1, <2>2
<1>8. FromLeaders(m, H2, t2)
  <2> SUFFICES ASSUME NEW i \in m.first_idx..LastIdx(m)
               PROVE  /\ GetEntry(m, i).term \in 1..t2
                      /\ i <= Len(H2[GetEntry(m, i).term])
                      /\ Agrees(m, H2[GetEntry(m, i).term], i)
    BY DEF FromLeaders
  <2>1. CASE i = LastIdx(m)
    BY <1>1, <1>2, <1>3, <1>5, <1>6, <1>7, <2>1, HistoryIs
  <2>2. CASE i # LastIdx(m)
    <3>1. i \in l.first_idx..LastIdx(l) /\ GetEntry(m, i) = GetEntry(l, i)
      BY <1>5, <1>6, <2>2
    <3>2. \A j \in m.first_idx..i : j \in l.first_idx..LastIdx(l) /\ j \in l.first_idx..i
      BY <1>5, <1>6, <3>1
    <3> QED BY <1>4, <1>6, <3>1, <3>2 DEF OwnLog, FromLeaders, Agrees
  <2> QED BY <2>1, <2>2
<1>9. Agrees(m, b, c)
  <2>1. \A j \in m.first_idx..c : j \in m.first_idx..LastIdx(m)
    BY <1>5, <1>6
  <2> QED BY <1>7, <2>1 DEF Agrees
<1>10. InOrder(m, c, d) /\ SnapshotMatches(m, b)
  BY <1>4, <1>5, <1>6 DEF OwnLog, InOrder, SnapshotMatches
<1>11. LeaderHasAll(m, b, ld2)
  BY <1>2, <1>6, <1>7 DEF LeaderHasAll
<1> QED BY <1>6, <1>8, <1>9, <1>10, <1>11 DEF OwnLog, b

\* Log m is log l, with entry e if its owner leads.
LeaderAdds(m, l, ld, e) == m = IF ld THEN EmplaceBack(l, e) ELSE l

\* fsm::add_entry(): the leader's log grows, whether or not this server is the leader.
LEMMA OwnAdds ==
  ASSUME NEW l, NEW c, NEW ld, NEW H, NEW g, NEW t, NEW d, OwnLog(l, c, ld, H, g, t, d),
         NEW e, NEW H2, AddsEntry(H, g, t, d, g, e, t, H2), NEW m, LeaderAdds(m, l, ld, e)
  PROVE  OwnLog(m, c, ld, H2, Append(g, e), t, d) /\ m.snapshot = l.snapshot
<1>1. ld \in BOOLEAN /\ History(H, g, t, d)
  BY DEF OwnLog, AddsEntry
<1>2. CASE ld
  <2>1. LastIdx(l) = Len(g) /\ Agrees(l, g, LastIdx(l)) /\ Emplaced(m, l, e)
    BY <1>2 DEF OwnLog, LeaderHasAll, LeaderAdds, Emplaced
  <2> QED BY <1>1, <2>1, OwnAppends
<1>3. CASE ~ld
  <2>1. m = l /\ d \in Nat /\ d <= d
    BY <1>1, <1>3, HistoryIs DEF LeaderAdds
  <2>2. History(H2, Append(g, e), t, d) /\ Extend(H, t, H2, t) /\ Begins(g, Append(g, e), d)
    BY NewEntry
  <2>3. OwnLog(l, c, FALSE, H2, Append(g, e), t, d)
    BY <1>1, <2>1, <2>2, OwnStays
  <2>4. ld = FALSE
    BY <1>1, <1>3
  <2> QED BY <2>1, <2>3, <2>4, Zenon
<1> QED BY <1>2, <1>3

\* This server's log from index 1.
IsWhole(b, l, g) == b = SubSeq(g, 1, l.first_idx - 1) \o l.entries

\* The server's log from index 1: what its snapshot replaced is the group's.
LEMMA WholeLogIs ==
  ASSUME NEW l, NEW c, NEW ld, NEW H, NEW g, NEW t, NEW d, OwnLog(l, c, ld, H, g, t, d),
         History(H, g, t, d), NEW b, IsWhole(b, l, g)
  PROVE  /\ b \in Seq(Entries) /\ Len(b) = LastIdx(l)
         /\ \A i \in 1..Len(b) : b[i] = IF i < l.first_idx THEN g[i] ELSE GetEntry(l, i)
<1>1. g \in Seq(Entries) /\ Len(g) \in Nat /\ d <= Len(g) /\ d \in Nat
  BY HistoryIs
<1>2. l.first_idx \in Nat \ {0} /\ l.first_idx <= d + 1
  <2>1. /\ l.first_idx \in Nat \ {0} /\ l.snapshot.idx \in Nat /\ c \in Nat
        /\ l.first_idx <= l.snapshot.idx + 1 /\ l.snapshot.idx <= c /\ c <= d
    BY OwnNumbers
  <2> QED BY <1>1, <2>1
<1>3. l.entries \in Seq(Entries) /\ Len(l.entries) \in Nat
  BY DEF OwnLog, IsLog, LogShape
<1>4. PICK n \in Nat : n = l.first_idx - 1
  BY <1>2
<1>5. PICK a \in Seq(Entries) : a = SubSeq(g, 1, n) /\ Len(a) = n /\ \A i \in 1..n : a[i] = g[i]
  <2>1. n \in 0..Len(g)
    BY <1>1, <1>2, <1>4
  <2>2. /\ SubSeq(g, 1, n) \in Seq(Entries) /\ Len(SubSeq(g, 1, n)) = n
        /\ \A i \in 1..n : SubSeq(g, 1, n)[i] = g[i]
    BY <1>1, <2>1
  <2> QED BY <2>2
<1>6. PICK z \in Seq(Entries) : z = l.entries /\ b = a \o z
  BY <1>3, <1>4, <1>5 DEF IsWhole
<1>7. /\ b \in Seq(Entries) /\ Len(b) = n + Len(z)
      /\ \A i \in 1..Len(b) : b[i] = IF i <= n THEN a[i] ELSE z[i - n]
  <2>1. /\ a \o z \in Seq(Entries) /\ Len(a \o z) = Len(a) + Len(z)
        /\ \A i \in 1..(Len(a) + Len(z)) : (a \o z)[i] = IF i <= Len(a) THEN a[i] ELSE z[i - Len(a)]
    BY ConcatProperties
  <2>2. Len(a) = n /\ b = a \o z
    BY <1>5, <1>6
  <2> QED BY <2>1, <2>2, Zenon
<1>8. Len(b) = LastIdx(l)
  BY <1>2, <1>3, <1>4, <1>6, <1>7 DEF LastIdx
<1>9. ASSUME NEW i \in 1..Len(b)
      PROVE  (i <= n <=> i < l.first_idx) /\ i - n = Pos(l, i) /\ (i <= n => i \in 1..n)
  <2>1. i \in Nat \ {0}
    BY <1>3, <1>6, <1>7
  <2> QED BY <1>2, <1>4, <2>1 DEF Pos
<1>10. ASSUME NEW i \in 1..Len(b)
       PROVE  b[i] = IF i < l.first_idx THEN g[i] ELSE GetEntry(l, i)
  <2>1. CASE i <= n
    BY <1>5, <1>7, <1>9, <2>1
  <2>2. CASE ~(i <= n)
    BY <1>6, <1>7, <1>9, <2>2 DEF GetEntry
  <2> QED BY <2>1, <2>2
<1> QED BY <1>7, <1>8, <1>10

\* With the decided entries, and no older than the last of them, it is one that a leader
\* may go on from: it is a part of the log of the leader that created its last entry.
LEMMA WholeLogIsLeaderLike ==
  ASSUME NEW l, NEW c, NEW ld, NEW H, NEW g, NEW t, NEW d, OwnLog(l, c, ld, H, g, t, d),
         History(H, g, t, d), NEW b, IsWhole(b, l, g),
         Begins(g, b, d), d > 0 => b[Len(b)].term >= g[d].term
  PROVE  LeaderLike(b, H, t) /\ Len(b) = LastIdx(l) /\ Agrees(l, b, LastIdx(l))
<1>1. /\ b \in Seq(Entries) /\ Len(b) = LastIdx(l)
      /\ \A i \in 1..Len(b) : b[i] = IF i < l.first_idx THEN g[i] ELSE GetEntry(l, i)
  BY WholeLogIs
<1>2. /\ l.first_idx \in Nat \ {0} /\ LastIdx(l) \in Nat /\ l.snapshot.idx \in Nat /\ c \in Nat
      /\ l.first_idx <= l.snapshot.idx + 1 /\ l.snapshot.idx <= c /\ c <= d
  BY OwnNumbers
<1>3. /\ d \in Nat /\ t \in Nat \ {0} /\ t \in 1..t /\ H[t] = g /\ d <= Len(g) /\ Len(g) \in Nat
      /\ \A s \in 1..t : Len(H[s]) \in Nat
      /\ \A s \in 1..t : LeaderLike(H[s], H, t)
  BY HistoryIs
<1>4. Agrees(l, b, LastIdx(l))
  <2> SUFFICES ASSUME NEW j \in l.first_idx..LastIdx(l) PROVE GetEntry(l, j) = b[j]
    BY DEF Agrees
  <2>1. j \in 1..Len(b) /\ ~(j < l.first_idx)
    BY <1>1, <1>2
  <2> QED BY <1>1, <2>1
<1>5. ASSUME NEW s \in 1..t, Begins(b, H[s], Len(b))
      PROVE  LeaderLike(b, H, t)
  <2>1. LeaderLike(H[s], H, t)
    BY <1>3
  <2> SUFFICES ASSUME NEW i \in 1..Len(b)
               PROVE  b[i].idx = i /\ b[i].term \in 1..t /\ Begins(b, H[b[i].term], i)
    BY <1>1 DEF LeaderLike
  <2>2. b[i] = H[s][i] /\ i \in 1..Len(H[s]) /\ \A j \in 1..i : b[j] = H[s][j]
    <3>1. Len(b) \in Nat /\ Len(H[s]) \in Nat /\ Len(b) <= Len(H[s])
      BY <1>1, <1>2, <1>3, <1>5 DEF Begins
    <3>2. i \in 1..Len(H[s]) /\ \A j \in 1..i : j \in 1..Len(b)
      BY <3>1
    <3> QED BY <1>5, <3>2 DEF Begins
  <2>3. H[s][i].idx = i /\ H[s][i].term \in 1..t /\ Begins(H[s], H[H[s][i].term], i)
    BY <2>1, <2>2 DEF LeaderLike
  <2> QED BY <2>2, <2>3 DEF Begins
<1>6. CASE d > 0
  <2> SUFFICES ASSUME NEW n, n = Len(b), NEW T, T = b[n].term
               PROVE  \E s \in 1..t : Begins(b, H[s], n)
    BY <1>1, <1>4, <1>5
  <2>1. d <= n /\ n \in 1..n /\ n \in Nat /\ \A j \in 1..d : b[j] = g[j]
    BY <1>1, <1>2, <1>3, <1>6 DEF Begins
  <2>2. CASE n < l.first_idx
    <3>1. d = n
      BY <1>2, <1>3, <2>1, <2>2
    <3>2. Begins(b, H[t], n)
      BY <1>3, <2>1, <3>1 DEF Begins
    <3> QED BY <1>3, <3>2
  <2>3. CASE ~(n < l.first_idx)
    <3>1. b[n] = GetEntry(l, n) /\ n \in l.first_idx..LastIdx(l)
      BY <1>1, <1>2, <2>1, <2>3
    <3>2. T \in 1..t /\ n <= Len(H[T]) /\ Agrees(l, H[T], n)
      BY <3>1 DEF OwnLog, FromLeaders
    <3>3. g[d].term \in Nat /\ d \in 1..Len(g)
      <4>1. d \in 1..Len(g)
        BY <1>3, <1>6
      <4> QED BY <1>3, <4>1, HistoryIs
    <3>4. T \in g[d].term..t
      <4>1. T >= g[d].term
        BY <1>6
      <4> QED BY <1>3, <3>2, <3>3, <4>1
    <3>5. Begins(g, H[T], d)
      BY <1>6, <3>4 DEF History, Complete
    <3>6. \A j \in 1..n : b[j] = H[T][j]
      <4> SUFFICES ASSUME NEW j \in 1..n PROVE b[j] = H[T][j]
        OBVIOUS
      <4>1. CASE j <= d
        <5>1. j \in 1..d
          BY <1>3, <2>1, <4>1
        <5> QED BY <2>1, <3>5, <5>1 DEF Begins
      <4>2. CASE ~(j <= d)
        <5>1. l.first_idx <= d + 1
          BY <1>2, <1>3
        <5>2. j \in l.first_idx..n /\ ~(j < l.first_idx)
          BY <1>2, <1>3, <2>1, <4>2, <5>1
        <5>3. b[j] = GetEntry(l, j)
          BY <1>1, <5>2
        <5> QED BY <3>2, <5>2, <5>3 DEF Agrees
      <4> QED BY <4>1, <4>2
    <3> QED BY <3>2, <3>6 DEF Begins
  <2> QED BY <2>2, <2>3
<1>7. CASE ~(d > 0)
  <2>1. l.first_idx = 1
    BY <1>2, <1>3, <1>7
  <2> SUFFICES ASSUME NEW i \in 1..Len(b)
               PROVE  b[i].idx = i /\ b[i].term \in 1..t /\ Begins(b, H[b[i].term], i)
    BY <1>1, <1>4 DEF LeaderLike
  <2>2. \A j \in 1..i : b[j] = GetEntry(l, j) /\ j \in l.first_idx..i
    BY <1>1, <1>2, <2>1
  <2>3. i \in l.first_idx..LastIdx(l) /\ b[i] = GetEntry(l, i)
    BY <1>1, <1>2, <2>1
  <2>4. GetEntry(l, i).idx = i
    BY <2>3, EntryIs DEF OwnLog
  <2> QED BY <2>2, <2>3, <2>4 DEF OwnLog, FromLeaders, Agrees, Begins
<1> QED BY <1>6, <1>7

\* A follower's log and an append of the leader's entries up to q, with commit index r.
LEMMA OwnTakesEntries ==
  ASSUME NEW l, NEW c, NEW ld, NEW H, NEW g, NEW t, NEW d, OwnLog(l, c, ld, H, g, t, d), ~ld,
         History(H, g, t, d), NEW q \in 1..Len(g), NEW r \in Nat, r <= d,
         NEW m, m = MaybeAppend(l, SubSeq(g, 1, q)), NEW c2, c2 = MaxOf(c, MinOf(r, q))
  PROVE  OwnLog(m, c2, ld, H, g, t, d) /\ m.snapshot = l.snapshot /\ c <= c2
<1>1. /\ l.first_idx \in Nat \ {0} /\ LastIdx(l) \in Nat /\ l.snapshot.idx \in Nat /\ c \in Nat
      /\ l.first_idx <= l.snapshot.idx + 1 /\ l.snapshot.idx <= c /\ c <= d /\ c <= LastIdx(l)
      /\ l.first_idx <= LastIdx(l) + 1 /\ l.snapshot.term \in Nat
  BY OwnNumbers
<1>2. /\ d \in Nat /\ t \in 1..t /\ H[t] = g /\ d <= Len(g) /\ Len(g) \in Nat /\ g \in Seq(Entries)
      /\ \A i \in 1..Len(g) : g[i].idx = i /\ g[i].term \in 1..t
      /\ \A i \in 1..Len(g) : Begins(g, H[g[i].term], i)
  BY HistoryIs DEF LeaderLike
<1>3. IsLog(l, Entries)
  BY DEF OwnLog
<1>4. PICK es \in Seq(Entries) : es = SubSeq(g, 1, q) /\ Len(es) = q /\ \A i \in 1..q : es[i] = g[i]
  <2>1. /\ SubSeq(g, 1, q) \in Seq(Entries) /\ Len(SubSeq(g, 1, q)) = q
        /\ \A i \in 1..q : SubSeq(g, 1, q)[i] = g[i]
    BY <1>2
  <2> QED BY <2>1
<1>5. \A i \in l.first_idx..LastIdx(l) :
        i <= Len(g) /\ GetEntry(l, i).term = g[i].term => GetEntry(l, i) = g[i]
  <2> SUFFICES ASSUME NEW i \in l.first_idx..LastIdx(l), i <= Len(g), GetEntry(l, i).term = g[i].term
               PROVE  GetEntry(l, i) = g[i]
    OBVIOUS
  <2>1. i \in 1..Len(g) /\ i \in l.first_idx..i /\ i \in 1..i
    BY <1>1, <1>2
  <2>2. Begins(g, H[g[i].term], i) /\ Agrees(l, H[g[i].term], i)
    BY <1>2, <2>1 DEF OwnLog, FromLeaders
  <2> QED BY <2>1, <2>2 DEF Begins, Agrees
<1>6. PICK k \in 1..(q + 1) : /\ k = FirstNew(l, es) /\ \A j \in 1..(k - 1) : AlreadyHas(l, es[j])
                              /\ k <= q => ~AlreadyHas(l, es[k])
  BY <1>4, FirstNewIs
<1>7. ASSUME NEW j \in 1..(k - 1), ~(j < l.first_idx)
      PROVE  j \in l.first_idx..LastIdx(l) /\ GetEntry(l, j) = g[j]
  <2>1. j \in 1..q /\ j \in 1..Len(g) /\ j <= Len(g) /\ j \in Nat
    BY <1>2
  <2>2. es[j] = g[j] /\ g[j].idx = j
    BY <1>2, <1>4, <2>1
  <2>3. j <= LastIdx(l) /\ GetEntry(l, j).term = g[j].term
    BY <1>6, <1>7, <2>2 DEF AlreadyHas
  <2> QED BY <1>1, <1>5, <1>7, <2>1, <2>3
<1>8. c2 \in Nat /\ c <= c2 /\ c2 <= d /\ (c2 = c \/ (c2 <= q /\ c2 > c))
  BY <1>1, <1>2 DEF MaxOf, MinOf
<1>9. CASE k > q
  <2>0. k = q + 1 /\ k - 1 = q
    BY <1>2, <1>9
  <2>1. m = l
    BY <1>2, <1>4, <1>6, <1>9 DEF MaybeAppend
  <2>2. Agrees(l, g, c2) /\ c2 <= LastIdx(l)
    <3>1. CASE c2 = c
      BY <1>1, <3>1 DEF OwnLog
    <3>2. CASE c2 <= q /\ c2 > c
      <4>1. \A j \in l.first_idx..c2 : j \in 1..(k - 1) /\ ~(j < l.first_idx)
        BY SMTT(60), <1>1, <1>2, <1>8, <2>0, <3>2
      <4>2. c2 \in l.first_idx..c2
        BY SMTT(60), <1>1, <1>8, <3>2
      <4>3. \A j \in l.first_idx..c2 : j \in l.first_idx..LastIdx(l) /\ GetEntry(l, j) = g[j]
        BY <1>7, <4>1
      <4> QED BY <1>1, <1>8, <4>2, <4>3 DEF Agrees
    <3> QED BY <1>8, <3>1, <3>2
  <2>3. InOrder(l, c2, d)
    BY <1>1, <1>8, <2>2 DEF InOrder
  <2>4. /\ IsLog(l, Entries) /\ FromLeaders(l, H, t) /\ SnapshotMatches(l, g)
        /\ LeaderHasAll(l, g, ld)
    BY DEF OwnLog
  <2> QED BY <1>8, <2>1, <2>2, <2>3, <2>4 DEF OwnLog
<1>10. CASE k <= q
  <2>1. k \in 1..q /\ k \in 1..Len(g) /\ k \in Nat /\ es[k] = g[k] /\ g[k].idx = k
    BY <1>2, <1>4, <1>10
  <2>2. l.first_idx <= k /\ k <= LastIdx(l) + 1 /\ k > c
    <3>1. ~(k < l.first_idx) /\ ~(k <= LastIdx(l) /\ GetEntry(l, k).term = g[k].term)
      BY <1>6, <1>10, <2>1 DEF AlreadyHas
    <3>2. ~(k <= c)
      <4> SUFFICES ASSUME k <= c PROVE FALSE
        OBVIOUS
      <4>1. k \in l.first_idx..c /\ k <= LastIdx(l)
        BY <1>1, <2>1, <3>1
      <4> QED BY <3>1, <4>1 DEF OwnLog, Agrees
    <3>3. k <= LastIdx(l) + 1
      <4>1. CASE k = 1
        BY <1>1, <4>1
      <4>2. CASE k > 1 /\ k - 1 < l.first_idx
        BY <1>1, <2>1, <4>2
      <4>3. CASE k > 1 /\ ~(k - 1 < l.first_idx)
        <5>1. k - 1 \in 1..(k - 1)
          BY <2>1, <4>3
        <5>2. k - 1 \in l.first_idx..LastIdx(l)
          BY <1>7, <4>3, <5>1
        <5> QED BY <1>1, <2>1, <5>2
      <4> QED BY <2>1, <4>1, <4>2, <4>3
    <3> QED BY <1>1, <2>1, <3>1, <3>2, <3>3
  <2>3. NewFrom(l, Entries, es, 0, k, k)
    <3>1. \A j \in 1..Len(es) : es[j].idx = 0 + j
      BY <1>2, <1>4
    <3>2. k \in 1..Len(es) /\ k = 0 + k /\ k <= NextIdx(l)
      BY <1>1, <1>4, <2>1, <2>2 DEF NextIdx
    <3> QED BY <1>3, <1>6, <2>2, <3>1, <3>2 DEF NewFrom
  <2>4. /\ IsLog(m, Entries) /\ m.snapshot = l.snapshot /\ m.first_idx = l.first_idx
        /\ LastIdx(m) = 0 + Len(es)
        /\ Same(m, l, l.first_idx, k - 1)
        /\ \A i \in k..(0 + Len(es)) : GetEntry(m, i) = es[i - 0]
    <3>1. m = MaybeAppend(l, es)
      BY <1>4
    <3> QED BY <2>3, <3>1, MaybeAppendIs
  <2>5. LastIdx(m) = q
    BY <1>2, <1>4, <2>4
  <2>6. Agrees(m, g, q)
    <3> SUFFICES ASSUME NEW j \in l.first_idx..q PROVE GetEntry(m, j) = g[j]
      BY <2>4 DEF Agrees
    <3>1. CASE j < k
      <4>1. j \in 1..(k - 1) /\ ~(j < l.first_idx) /\ j \in l.first_idx..(k - 1)
        BY <1>1, <1>2, <2>1, <3>1
      <4> QED BY <1>7, <2>4, <4>1 DEF Same
    <3>2. CASE ~(j < k)
      <4>1. j \in k..(0 + Len(es)) /\ j - 0 = j /\ j \in 1..q
        BY <1>1, <1>2, <1>4, <2>1, <3>2
      <4>2. GetEntry(m, j) = es[j]
        BY <2>4, <4>1
      <4> QED BY <1>4, <4>1, <4>2
    <3> QED BY <3>1, <3>2
  <2>7. c2 <= q /\ Agrees(m, g, c2)
    <3>1. c2 <= q
      BY <1>1, <1>2, <1>8, <2>1, <2>2
    <3>2. \A j \in m.first_idx..c2 : j \in m.first_idx..q
      BY <1>1, <1>2, <1>8, <2>4, <3>1
    <3> QED BY <2>6, <3>1, <3>2 DEF Agrees
  <2>8. FromLeaders(m, H, t)
    <3> SUFFICES ASSUME NEW i \in m.first_idx..LastIdx(m)
                 PROVE  /\ GetEntry(m, i).term \in 1..t
                        /\ i <= Len(H[GetEntry(m, i).term])
                        /\ Agrees(m, H[GetEntry(m, i).term], i)
      BY DEF FromLeaders
    <3>1. /\ i \in m.first_idx..q /\ i \in 1..Len(g) /\ i \in Nat
          /\ \A j \in m.first_idx..i : j \in m.first_idx..q /\ j \in 1..i
      BY SMTT(60), <1>1, <1>2, <2>4, <2>5
    <3>2. GetEntry(m, i) = g[i] /\ \A j \in m.first_idx..i : GetEntry(m, j) = g[j]
      BY <2>6, <3>1 DEF Agrees
    <3>3. g[i].term \in 1..t /\ Begins(g, H[g[i].term], i)
      BY <1>2, <3>1
    <3> QED BY <3>1, <3>2, <3>3 DEF Agrees, Begins
  <2>9. InOrder(m, c2, d)
    BY <1>1, <1>8, <2>4, <2>5, <2>7 DEF InOrder
  <2>10. SnapshotMatches(m, g) /\ LeaderHasAll(m, g, ld)
    BY <2>4 DEF OwnLog, SnapshotMatches, LeaderHasAll
  <2>11. IsLog(m, Entries) /\ m.snapshot = l.snapshot /\ Agrees(m, g, c2) /\ c <= c2
    BY <1>8, <2>4, <2>7
  <2> QED BY <2>8, <2>9, <2>10, <2>11 DEF OwnLog
<1>11. k > q \/ k <= q
  BY <1>2
<1> QED BY <1>9, <1>10, <1>11

\* A snapshot at index i, of this server or of the leader, is applied to the log.
Snapshots(l, c, g, d, i, snp, n, bytes, m, c2) ==
  /\ i \in Nat /\ i > l.snapshot.idx /\ i <= d
  /\ snp.idx = i /\ snp.term = g[i].term /\ snp.term \in Nat
  /\ n \in Nat /\ (i > c => n = 0) /\ bytes \in Nat
  /\ m = ApplySnapshot(l, snp, n, bytes) /\ c2 = MaxOf(c, i)

\* log::apply_snapshot() keeps what the log promises.
LEMMA OwnSnapshot ==
  ASSUME NEW l, NEW c, NEW ld, NEW H, NEW g, NEW t, NEW d, OwnLog(l, c, ld, H, g, t, d),
         History(H, g, t, d), NEW i, NEW snp, NEW n, NEW bytes, NEW m, NEW c2,
         Snapshots(l, c, g, d, i, snp, n, bytes, m, c2), ld => i <= c
  PROVE  OwnLog(m, c2, ld, H, g, t, d) /\ m.snapshot = snp
<1>1. /\ l.first_idx \in Nat \ {0} /\ LastIdx(l) \in Nat /\ l.snapshot.idx \in Nat /\ c \in Nat
      /\ l.first_idx <= l.snapshot.idx + 1 /\ l.snapshot.idx <= c /\ c <= d /\ c <= LastIdx(l)
  BY OwnNumbers
<1>2. d \in Nat
  BY HistoryIs
<1>3. /\ i \in Nat /\ i > l.snapshot.idx /\ i <= d /\ snp.idx = i /\ snp.term = g[i].term
      /\ snp.term \in Nat /\ n \in Nat /\ (i > c => n = 0) /\ bytes \in Nat
      /\ m = ApplySnapshot(l, snp, n, bytes) /\ c2 = MaxOf(c, i)
  BY DEF Snapshots
<1>4. AfterSnapshot(l, Entries, snp, n, bytes, m)
  <2>1. l.first_idx <= i + 1
    BY <1>1, <1>3
  <2>2. IsLog(l, Entries)
    BY DEF OwnLog
  <2> QED BY <1>3, <2>1, <2>2 DEF AfterSnapshot
<1>5. /\ IsLog(m, Entries) /\ m.snapshot = snp /\ LastIdx(m) = MaxOf(snp.idx, LastIdx(l))
      /\ l.first_idx <= m.first_idx /\ m.first_idx <= snp.idx + 1 /\ (n = 0 => m.first_idx = snp.idx + 1)
      /\ \A j \in m.first_idx..LastIdx(m) : j <= LastIdx(l) /\ GetEntry(m, j) = GetEntry(l, j)
  BY <1>4, ApplySnapshotIs
<1>6. m.first_idx \in Nat \ {0} /\ LastIdx(m) \in Nat
  BY <1>5, EntryIs
<1>7. c2 \in Nat /\ c2 <= d /\ c <= c2 /\ i <= c2 /\ (c2 = c \/ (c2 = i /\ i > c))
  BY <1>1, <1>2, <1>3 DEF MaxOf
<1>8. InOrder(m, c2, d)
  <2>1. m.first_idx <= i + 1 /\ c2 <= LastIdx(m)
    BY <1>1, <1>3, <1>5, <1>6, <1>7 DEF MaxOf
  <2>2. m.snapshot.idx = i /\ m.snapshot.term \in Nat
    BY <1>3, <1>5
  <2> QED BY <1>3, <1>7, <2>1, <2>2 DEF InOrder
<1>9. \A j \in m.first_idx..LastIdx(m) : j \in l.first_idx..LastIdx(l) /\ GetEntry(m, j) = GetEntry(l, j)
  BY <1>1, <1>5, <1>6
<1>10. FromLeaders(m, H, t)
  <2> SUFFICES ASSUME NEW j \in m.first_idx..LastIdx(m)
               PROVE  /\ GetEntry(m, j).term \in 1..t
                      /\ j <= Len(H[GetEntry(m, j).term])
                      /\ Agrees(m, H[GetEntry(m, j).term], j)
    BY DEF FromLeaders
  <2>1. \A k \in m.first_idx..j : k \in m.first_idx..LastIdx(m) /\ k \in l.first_idx..j
    BY <1>1, <1>5, <1>6
  <2> QED BY <1>9, <2>1 DEF OwnLog, FromLeaders, Agrees
<1>11. Agrees(m, g, c2)
  <2> SUFFICES ASSUME NEW j \in m.first_idx..c2 PROVE GetEntry(m, j) = g[j]
    BY DEF Agrees
  <2>1. CASE c2 = c
    <3>1. j \in m.first_idx..LastIdx(m) /\ j \in l.first_idx..c
      BY <1>1, <1>3, <1>5, <1>6, <2>1 DEF MaxOf
    <3> QED BY <1>9, <3>1 DEF OwnLog, Agrees
  <2>2. CASE c2 = i /\ i > c
    <3>1. m.first_idx = i + 1
      BY <1>3, <1>5, <2>2
    <3> QED BY <1>3, <1>6, <2>2, <3>1
  <2> QED BY <1>7, <2>1, <2>2
<1>12. SnapshotMatches(m, g)
  BY <1>1, <1>3, <1>5 DEF SnapshotMatches
<1>13. LeaderHasAll(m, g, ld)
  <2> SUFFICES ASSUME ld PROVE LastIdx(m) = Len(g) /\ Agrees(m, g, LastIdx(m))
    BY DEF LeaderHasAll
  <2>1. LastIdx(m) = LastIdx(l)
    BY <1>1, <1>3, <1>5 DEF MaxOf
  <2>2. LastIdx(l) = Len(g) /\ Agrees(l, g, LastIdx(l))
    BY DEF OwnLog, LeaderHasAll
  <2>3. Agrees(m, g, LastIdx(m))
    BY <1>9, <2>1, <2>2 DEF Agrees
  <2> QED BY <2>1, <2>2, <2>3
<1>14. ld \in BOOLEAN
  BY DEF OwnLog
<1> QED BY <1>5, <1>8, <1>10, <1>11, <1>12, <1>13, <1>14 DEF OwnLog

\* The commit index moves up within what is decided and what the leader has.
LEMMA OwnCommits ==
  ASSUME NEW l, NEW c, NEW ld, NEW H, NEW g, NEW t, NEW d, OwnLog(l, c, ld, H, g, t, d), ld,
         History(H, g, t, d), c <= d
  PROVE  OwnLog(l, d, ld, H, g, t, d)
<1>1. /\ l.first_idx \in Nat \ {0} /\ LastIdx(l) \in Nat /\ l.snapshot.idx \in Nat /\ c \in Nat
      /\ l.first_idx <= l.snapshot.idx + 1 /\ l.snapshot.idx <= c /\ l.snapshot.term \in Nat
  BY OwnNumbers
<1>2. d \in Nat /\ d <= Len(g) /\ Len(g) \in Nat
  BY HistoryIs
<1>3. LastIdx(l) = Len(g) /\ Agrees(l, g, LastIdx(l))
  BY DEF OwnLog, LeaderHasAll
<1>4. InOrder(l, d, d)
  BY <1>1, <1>2, <1>3 DEF InOrder
<1>5. Agrees(l, g, d)
  <2>1. \A j \in l.first_idx..d : j \in l.first_idx..LastIdx(l)
    BY <1>1, <1>2, <1>3
  <2> QED BY <1>3, <2>1 DEF Agrees
<1> QED BY <1>4, <1>5 DEF OwnLog

\* The term of a committed entry, as far as the log knows it.
LEMMA CommittedTerm ==
  ASSUME NEW l, NEW c, NEW ld, NEW H, NEW g, NEW t, NEW d, OwnLog(l, c, ld, H, g, t, d),
         History(H, g, t, d), NEW i \in Nat, i <= c
  PROVE  /\ TermFor(l, i) = NoTerm \/ (TermFor(l, i) \in Nat /\ (i > 0 => TermFor(l, i) = g[i].term))
         /\ i = 0 => TermFor(l, i) \in {NoTerm, 0}
         /\ TermFor(l, i) = NoTerm => i < l.snapshot.idx
         /\ i > l.snapshot.idx => TermFor(l, i) # NoTerm
<1>1. /\ l.first_idx \in Nat \ {0} /\ LastIdx(l) \in Nat /\ l.snapshot.idx \in Nat /\ c \in Nat
      /\ l.first_idx <= l.snapshot.idx + 1 /\ c <= LastIdx(l) /\ l.snapshot.term \in Nat
  BY OwnNumbers
<1>2. \A n \in Nat : n # NoTerm
  BY DEF NoTerm
<1>3. CASE i >= l.first_idx
  <2>1. i \in l.first_idx..c /\ i \in l.first_idx..LastIdx(l)
    BY <1>1, <1>3
  <2>2. GetEntry(l, i) = g[i] /\ GetEntry(l, i) \in Entries
    BY <2>1, EntryIs DEF OwnLog, Agrees
  <2>3. l.entries # << >>
    <3> SUFFICES ASSUME l.entries = << >> PROVE FALSE
      OBVIOUS
    <3>1. LastIdx(l) = l.first_idx - 1
      BY <1>1 DEF LastIdx
    <3> QED BY <1>1, <2>1, <3>1
  <2>4. TermFor(l, i) = g[i].term
    BY <1>3, <2>2, <2>3 DEF TermFor
  <2>5. g[i].term \in Nat
    BY <2>2 DEF Entries
  <2>6. i # 0
    BY <1>1, <1>3
  <2> QED BY <1>1, <1>2, <1>3, <2>4, <2>5, <2>6
<1>4. CASE i < l.first_idx
  <2>1. TermFor(l, i) = IF i = l.snapshot.idx THEN l.snapshot.term ELSE NoTerm
    BY <1>1, <1>4 DEF TermFor
  <2>2. i <= l.snapshot.idx
    BY <1>1, <1>4
  <2>3. CASE i = l.snapshot.idx
    BY <1>1, <1>2, <2>1, <2>3 DEF OwnLog, SnapshotMatches
  <2>4. CASE i # l.snapshot.idx
    BY <1>1, <2>1, <2>2, <2>4
  <2> QED BY <2>3, <2>4
<1> QED BY <1>1, <1>3, <1>4

----------------------------------------------------------------------------
(* Items one after the other.                                              *)

\* No item, no way.
LEMMA ChainEmpty ==
  ASSUME NEW g, NEW d, NEW s, NEW a, NEW b
  PROVE  /\ a \in Nat => Chain(<< >>, g, d, s, a, a)
         /\ Chain(<< >>, g, d, s, a, b) => a = b
<1>1. Len(<< >>) = 0 /\ 1..0 = {}
  OBVIOUS
<1>2. ASSUME a \in Nat PROVE Chain(<< >>, g, d, s, a, a)
  <2>1. PICK f : f = [k \in 0..0 |-> a]
    OBVIOUS
  <2>2. f \in [0..0 -> 0..a] /\ f[0] = a
    BY <1>2, <2>1
  <2>3. Stations(f, << >>, g, d, s, a, a)
    BY <1>1, <2>2 DEF Stations
  <2> QED BY <1>1, <2>2, <2>3 DEF Chain
<1>3. ASSUME Chain(<< >>, g, d, s, a, b) PROVE a = b
  BY <1>1, <1>3 DEF Chain, Stations
<1> QED BY <1>2, <1>3

\* One item is a chain.
LEMMA ChainOne ==
  ASSUME NEW v, NEW g, NEW d, NEW s, NEW a \in Nat, NEW b \in Nat, a <= b, Moves(v, g, d, s, a, b)
  PROVE  Chain(<<v>>, g, d, s, a, b)
<1>1. Len(<<v>>) = 1 /\ <<v>>[1] = v
  OBVIOUS
<1>2. PICK f : f = [k \in 0..1 |-> IF k = 0 THEN a ELSE b]
  OBVIOUS
<1>3. f \in [0..1 -> 0..b] /\ f[0] = a /\ f[1] = b
  BY <1>2
<1>4. \A k \in 1..1 : k = 1 /\ k - 1 = 0
  OBVIOUS
<1>5. Stations(f, <<v>>, g, d, s, a, b)
  BY <1>1, <1>3, <1>4 DEF Stations
<1> QED BY <1>1, <1>3, <1>5 DEF Chain

\* A chain never goes back.
LEMMA ChainIsUp ==
  ASSUME NEW q \in Seq(Items), NEW g, NEW d, NEW s, NEW a, NEW b \in Nat, Chain(q, g, d, s, a, b)
  PROVE  a \in Nat /\ a <= b
<1>1. 0 \in 0..Len(q)
  OBVIOUS
<1> QED BY <1>1 DEF Chain, Stations

\* Two chains make one.
LEMMA ChainConcat ==
  ASSUME NEW q \in Seq(Items), NEW r \in Seq(Items), NEW g, NEW d, NEW s, NEW a, NEW b \in Nat, NEW e \in Nat,
         Chain(q, g, d, s, a, b), Chain(r, g, d, s, b, e)
  PROVE  Chain(q \o r, g, d, s, a, e)
<1>1. PICK x \in [0..Len(q) -> 0..b] : Stations(x, q, g, d, s, a, b)
  BY DEF Chain
<1>2. PICK y \in [0..Len(r) -> 0..e] : Stations(y, r, g, d, s, b, e)
  BY DEF Chain
<1>3. PICK m \in Nat, n \in Nat : m = Len(q) /\ n = Len(r)
  OBVIOUS
<1>4. /\ Len(q \o r) = m + n
      /\ \A k \in 1..(m + n) : (q \o r)[k] = IF k <= m THEN q[k] ELSE r[k - m]
  BY <1>3, ConcatProperties
<1>5. b <= e
  BY <1>1, <1>2, <1>3, ChainIsUp
<1>6. PICK f : f = [k \in 0..(m + n) |-> IF k <= m THEN x[k] ELSE y[k - m]]
  OBVIOUS
<1>7. ASSUME NEW k \in 0..(m + n) PROVE f[k] \in 0..e
  <2>1. CASE k <= m
    <3>1. x[k] \in 0..b
      BY <1>3, <2>1
    <3> QED BY <1>5, <1>6, <2>1, <3>1
  <2>2. CASE ~(k <= m)
    <3>1. k - m \in 0..n
      BY <2>2
    <3> QED BY <1>3, <1>6, <2>2, <3>1
  <2> QED BY <2>1, <2>2
<1>8. f \in [0..(m + n) -> 0..e]
  BY <1>6, <1>7
<1>9. f[0] = a /\ f[m + n] = e
  <2>1. f[0] = x[0] /\ x[0] = a
    BY <1>1, <1>6 DEF Stations
  <2>2. CASE n = 0
    <3>1. f[m + n] = x[m] /\ x[m] = b /\ y[0] = b /\ y[0] = e
      BY <1>1, <1>2, <1>3, <1>6, <2>2 DEF Stations
    <3> QED BY <2>1, <3>1
  <2>3. CASE n # 0
    <3>1. m + n \in 0..(m + n) /\ ~(m + n <= m) /\ m + n - m = n
      BY <2>3
    <3> QED BY <1>2, <1>3, <1>6, <2>1, <3>1 DEF Stations
  <2> QED BY <2>2, <2>3
<1>10. ASSUME NEW k \in 1..(m + n)
       PROVE  Moves((q \o r)[k], g, d, s, f[k - 1], f[k])
  <2>1. CASE k <= m
    <3>1. k \in 1..m /\ k \in 0..(m + n) /\ k - 1 \in 0..(m + n) /\ k - 1 <= m
      BY <2>1
    <3>2. (q \o r)[k] = q[k] /\ f[k - 1] = x[k - 1] /\ f[k] = x[k]
      BY <1>4, <1>6, <2>1, <3>1
    <3> QED BY <1>1, <1>3, <3>1, <3>2 DEF Stations
  <2>2. CASE k = m + 1
    <3>1. /\ k \in 0..(m + n) /\ ~(k <= m) /\ k - m = 1 /\ k - 1 = m /\ m \in 0..(m + n) /\ m <= m
          /\ 1 \in 1..n /\ 1 - 1 = 0
      BY <2>2
    <3>2. (q \o r)[k] = r[1] /\ f[k - 1] = x[m] /\ f[k] = y[1]
      BY <1>4, <1>6, <3>1
    <3>3. x[m] = y[0]
      BY <1>1, <1>2, <1>3 DEF Stations
    <3>4. Moves(r[1], g, d, s, y[1 - 1], y[1])
      BY <1>2, <1>3, <3>1 DEF Stations
    <3>5. y[1 - 1] = x[m]
      BY <3>1, <3>3
    <3> QED BY <3>2, <3>4, <3>5, Zenon
  <2>3. CASE k > m + 1
    <3>1. /\ k \in 0..(m + n) /\ ~(k <= m) /\ k - 1 \in 0..(m + n) /\ ~(k - 1 <= m)
          /\ k - m \in 1..n /\ (k - 1) - m = (k - m) - 1
      BY <2>3
    <3>2. (q \o r)[k] = r[k - m] /\ f[k - 1] = y[(k - m) - 1] /\ f[k] = y[k - m]
      BY <1>4, <1>6, <3>1
    <3>3. Moves(r[k - m], g, d, s, y[(k - m) - 1], y[k - m])
      BY <1>2, <1>3, <3>1 DEF Stations
    <3> QED BY <3>2, <3>3, Zenon
  <2>4. k <= m \/ k = m + 1 \/ k > m + 1
    OBVIOUS
  <2> QED BY <2>1, <2>2, <2>3, <2>4
<1> QED BY <1>4, <1>8, <1>9, <1>10 DEF Chain, Stations

\* The first item of a chain, and the rest.
LEMMA ChainHead ==
  ASSUME NEW q \in Seq(Items), q # << >>, NEW g, NEW d, NEW s, NEW a, NEW e \in Nat,
         Chain(q, g, d, s, a, e)
  PROVE  \E b \in 0..e : Moves(Head(q), g, d, s, a, b) /\ Chain(Tail(q), g, d, s, b, e)
<1>1. PICK f \in [0..Len(q) -> 0..e] : Stations(f, q, g, d, s, a, e)
  BY DEF Chain
<1>2. PICK n \in Nat : Len(q) = n + 1
  <2>1. Len(q) \in Nat \ {0}
    BY EmptySeq
  <2>2. Len(q) - 1 \in Nat /\ Len(q) = (Len(q) - 1) + 1
    BY <2>1
  <2> QED BY <2>2
<1>3. Head(q) = q[1] /\ Len(Tail(q)) = n /\ \A k \in 1..n : Tail(q)[k] = q[k + 1]
  BY <1>2
<1>4. PICK h : h = [k \in 0..n |-> f[k + 1]]
  OBVIOUS
<1>5. h \in [0..n -> 0..e] /\ h[0] = f[1] /\ h[n] = f[n + 1] /\ \A k \in 0..n : h[k] = f[k + 1]
  BY <1>2, <1>4
<1>6. f[1] \in 0..e /\ Moves(Head(q), g, d, s, a, f[1])
  <2>1. 1 \in 1..Len(q) /\ 1 - 1 = 0 /\ 1 \in 0..Len(q)
    BY <1>2
  <2> QED BY <1>1, <1>3, <2>1 DEF Stations
<1>7. ASSUME NEW k \in 1..n PROVE Moves(Tail(q)[k], g, d, s, h[k - 1], h[k])
  <2>1. k + 1 \in 1..Len(q) /\ k - 1 \in 0..n /\ k \in 0..n /\ (k - 1) + 1 = k /\ (k + 1) - 1 = k
    BY <1>2
  <2>2. h[k - 1] = f[k] /\ h[k] = f[k + 1] /\ Tail(q)[k] = q[k + 1]
    BY <1>3, <1>5, <2>1
  <2>3. Moves(q[k + 1], g, d, s, f[(k + 1) - 1], f[k + 1])
    BY <1>1, <2>1 DEF Stations
  <2> QED BY <2>1, <2>2, <2>3
<1>8. Chain(Tail(q), g, d, s, f[1], e)
  <2>1. f[n + 1] = e
    BY <1>1, <1>2 DEF Stations
  <2> QED BY <1>3, <1>5, <1>7, <2>1 DEF Chain, Stations
<1> QED BY <1>6, <1>8

\* The group goes on, and so may the snapshot of the log.
LEMMA AdvancesStays ==
  ASSUME NEW es, NEW g, NEW g2, NEW d \in Nat, NEW d2 \in Nat, NEW a \in Nat, NEW b,
         Advances(es, g, d, a, b), Begins(g, g2, d), d <= d2
  PROVE  Advances(es, g2, d2, a, b)
<1>1. /\ es \in Seq(Entries) /\ Len(es) > 0 /\ b = a + Len(es) /\ b <= d /\ Len(es) \in Nat
      /\ \A k \in 1..Len(es) : es[k] = g[a + k]
  BY DEF Advances
<1>2. \A k \in 1..Len(es) : a + k \in 1..d
  BY <1>1
<1>3. \A k \in 1..Len(es) : es[k] = g2[a + k]
  BY <1>1, <1>2 DEF Begins
<1> QED BY <1>1, <1>3 DEF Advances

\* What an item does stays true while more is decided and the snapshot moves up.
LEMMA MovesStays ==
  ASSUME NEW v, NEW g, NEW g2, NEW d \in Nat, NEW d2 \in Nat, NEW s \in Nat, NEW s2 \in Nat,
         NEW a \in Nat, NEW b \in Nat,
         Moves(v, g, d, s, a, b), Begins(g, g2, d), d <= d2, s <= s2
  PROVE  Moves(v, g2, d2, s2, a, b)
<1>1. v.kind = "entries" => Advances(v.es, g2, d2, a, b)
  BY AdvancesStays DEF Moves
<1>2. v.kind = "snapshot" => Jumps(v.idx, d2, s2, a, b)
  BY DEF Moves, Jumps
<1> QED BY <1>1, <1>2 DEF Moves

\* So does what a chain does.
LEMMA ChainStays ==
  ASSUME NEW q \in Seq(Items), NEW g, NEW g2, NEW d \in Nat, NEW d2 \in Nat, NEW s \in Nat, NEW s2 \in Nat,
         NEW a, NEW b \in Nat,
         Chain(q, g, d, s, a, b), Begins(g, g2, d), d <= d2, s <= s2
  PROVE  Chain(q, g2, d2, s2, a, b)
<1>1. PICK f \in [0..Len(q) -> 0..b] : Stations(f, q, g, d, s, a, b)
  BY DEF Chain
<1>2. ASSUME NEW k \in 1..Len(q) PROVE Moves(q[k], g2, d2, s2, f[k - 1], f[k])
  <2>1. k - 1 \in 0..Len(q) /\ k \in 0..Len(q)
    BY SMTT(60)
  <2>2. f[k - 1] \in Nat /\ f[k] \in Nat
    BY SMTT(60), <2>1
  <2>3. Moves(q[k], g, d, s, f[k - 1], f[k])
    BY <1>1 DEF Stations
  <2> QED BY <2>2, <2>3, MovesStays
<1>3. Stations(f, q, g2, d2, s2, a, b)
  BY <1>1, <1>2 DEF Stations
<1> QED BY <1>3 DEF Chain

----------------------------------------------------------------------------
(* What the I/O fiber has to do.                                           *)

\* What one task pushes.
Pushed(k) == IF k.do = "push" THEN k.arg ELSE Nothing

\* A task pushes an item or nothing.
LEMMA TaskIs ==
  ASSUME NEW k \in Tasks
  PROVE  Pushed(k) \in Items
<1>1. Nothing \in Items
  BY DEF Items
<1>2. CASE k \in [do : {"push"}, arg : Items]
  BY <1>1, <1>2 DEF Pushed
<1>3. CASE k \in [do : {"store", "finish", "request"}, arg : Outputs]
  BY <1>1, <1>3 DEF Pushed
<1> QED BY <1>2, <1>3 DEF Tasks

\* What a list of tasks pushes, item by item.
LEMMA PushesAre ==
  ASSUME NEW td \in Seq(Tasks)
  PROVE  /\ Pushes(td) \in Seq(Items) /\ Len(Pushes(td)) = Len(td)
         /\ \A k \in 1..Len(td) : Pushes(td)[k] = Pushed(td[k])
<1>1. Len(td) \in Nat /\ \A k \in 1..Len(td) : td[k] \in Tasks
  OBVIOUS
<1>2. Pushes(td) = [k \in 1..Len(td) |-> Pushed(td[k])]
  BY DEF Pushes, Pushed
<1>3. \A k \in 1..Len(td) : Pushed(td[k]) \in Items
  BY <1>1, TaskIs
<1>4. Pushes(td) \in [1..Len(td) -> Items]
  BY <1>2, <1>3
<1>5. Pushes(td) \in Seq(Items) /\ Len(Pushes(td)) = Len(td)
  BY <1>1, <1>4, IsASeq, LenProperties
<1> QED BY <1>2, <1>5

\* No task, nothing pushed.
LEMMA RunEmpty ==
  ASSUME NEW g, NEW d, NEW s, NEW a, NEW b
  PROVE  /\ a \in Nat => Run(<< >>, g, d, s, a, a)
         /\ Run(<< >>, g, d, s, a, b) => a = b
<1>1. << >> \in Seq(Tasks) /\ Len(<< >>) = 0
  OBVIOUS
<1>2. Pushes(<< >>) = << >>
  BY <1>1, PushesAre, EmptySeq
<1> QED BY <1>1, <1>2, ChainEmpty DEF Run

\* One task does what its item does.
LEMMA RunOne ==
  ASSUME NEW k \in Tasks, NEW g, NEW d, NEW s, NEW a \in Nat, NEW b \in Nat, a <= b,
         Moves(Pushed(k), g, d, s, a, b)
  PROVE  Run(<<k>>, g, d, s, a, b)
<1>1. <<k>> \in Seq(Tasks) /\ Len(<<k>>) = 1 /\ <<k>>[1] = k
  OBVIOUS
<1>2. PICK p \in Seq(Items) : p = Pushes(<<k>>) /\ Len(p) = 1 /\ p[1] = Pushed(k)
  <2>1. 1 \in 1..1 /\ 1 \in 1..Len(<<k>>)
    BY <1>1
  <2>2. /\ Pushes(<<k>>) \in Seq(Items) /\ Len(Pushes(<<k>>)) = 1
        /\ \A i \in 1..Len(<<k>>) : Pushes(<<k>>)[i] = Pushed(<<k>>[i])
    BY <1>1, PushesAre
  <2>3. Pushes(<<k>>)[1] = Pushed(k)
    BY <1>1, <2>1, <2>2, Zenon
  <2> QED BY <2>2, <2>3
<1>3. p = <<Pushed(k)>>
  BY <1>2
<1>4. Chain(<<Pushed(k)>>, g, d, s, a, b)
  BY ChainOne
<1> QED BY <1>1, <1>2, <1>3, <1>4 DEF Run

\* Tasks after tasks.
LEMMA RunConcat ==
  ASSUME NEW x, NEW y, NEW g, NEW d, NEW s, NEW a, NEW b \in Nat, NEW e \in Nat,
         Run(x, g, d, s, a, b), Run(y, g, d, s, b, e)
  PROVE  Run(x \o y, g, d, s, a, e)
<1>1. x \in Seq(Tasks) /\ y \in Seq(Tasks)
  BY DEF Run
<1>2. PICK m \in Nat, n \in Nat : m = Len(x) /\ n = Len(y)
  BY <1>1
<1>3. PICK z \in Seq(Tasks) :
        z = x \o y /\ Len(z) = m + n /\ \A k \in 1..(m + n) : z[k] = IF k <= m THEN x[k] ELSE y[k - m]
  <2>1. /\ x \o y \in Seq(Tasks) /\ Len(x \o y) = m + n
        /\ \A k \in 1..(m + n) : (x \o y)[k] = IF k <= m THEN x[k] ELSE y[k - m]
    BY <1>1, <1>2, ConcatProperties
  <2> QED BY <2>1, Zenon
<1>4. PICK px \in Seq(Items), py \in Seq(Items), pz \in Seq(Items) :
        /\ px = Pushes(x) /\ Len(px) = m /\ \A k \in 1..m : px[k] = Pushed(x[k])
        /\ py = Pushes(y) /\ Len(py) = n /\ \A k \in 1..n : py[k] = Pushed(y[k])
        /\ pz = Pushes(z) /\ Len(pz) = m + n /\ \A k \in 1..(m + n) : pz[k] = Pushed(z[k])
  <2>1. Pushes(x) \in Seq(Items) /\ Len(Pushes(x)) = m /\ \A k \in 1..m : Pushes(x)[k] = Pushed(x[k])
    BY <1>1, <1>2, PushesAre
  <2>2. Pushes(y) \in Seq(Items) /\ Len(Pushes(y)) = n /\ \A k \in 1..n : Pushes(y)[k] = Pushed(y[k])
    BY <1>1, <1>2, PushesAre
  <2>3. Pushes(z) \in Seq(Items) /\ Len(Pushes(z)) = m + n /\ \A k \in 1..(m + n) : Pushes(z)[k] = Pushed(z[k])
    BY <1>3, PushesAre, Zenon
  <2> QED BY <2>1, <2>2, <2>3
<1>5. PICK pq \in Seq(Items) : 
        pq = px \o py /\ Len(pq) = m + n /\ \A k \in 1..(m + n) : pq[k] = IF k <= m THEN px[k] ELSE py[k - m]
  <2>0. Len(px) = m /\ Len(py) = n
    BY <1>4
  <2>1. /\ px \o py \in Seq(Items) /\ Len(px \o py) = m + n
        /\ \A k \in 1..(m + n) : (px \o py)[k] = IF k <= m THEN px[k] ELSE py[k - m]
    BY <2>0, ConcatProperties
  <2> QED BY <2>1, Zenon
<1>6. pz = pq
  <2>1. ASSUME NEW k \in 1..(m + n) PROVE pz[k] = pq[k]
    <3>1. CASE k <= m
      <4>1. k \in 1..m
        BY <3>1
      <4>2. pz[k] = Pushed(z[k]) /\ z[k] = x[k] /\ px[k] = Pushed(x[k]) /\ pq[k] = px[k]
        BY <1>3, <1>4, <1>5, <3>1, <4>1
      <4> QED BY <4>2
    <3>2. CASE ~(k <= m)
      <4>1. k - m \in 1..n
        BY <3>2
      <4>2. pz[k] = Pushed(z[k]) /\ z[k] = y[k - m] /\ py[k - m] = Pushed(y[k - m]) /\ pq[k] = py[k - m]
        BY <1>3, <1>4, <1>5, <3>2, <4>1
      <4> QED BY <4>2
    <3> QED BY <3>1, <3>2
  <2>2. Len(pz) = Len(pq) /\ \A k \in 1..Len(pz) : pz[k] = pq[k]
    BY <1>4, <1>5, <2>1
  <2> QED BY <2>2, SeqEqual
<1>7. Chain(px, g, d, s, a, b) /\ Chain(py, g, d, s, b, e)
  BY <1>4 DEF Run
<1>8. Chain(pz, g, d, s, a, e)
  BY <1>5, <1>6, <1>7, ChainConcat
<1> QED BY <1>3, <1>4, <1>8 DEF Run

\* The first task, and the rest.
LEMMA RunHead ==
  ASSUME NEW td, td # << >>, NEW g, NEW d, NEW s, NEW a, NEW e \in Nat, Run(td, g, d, s, a, e)
  PROVE  /\ Head(td) \in Tasks
         /\ \E b \in 0..e : Moves(Pushed(Head(td)), g, d, s, a, b) /\ Run(Tail(td), g, d, s, b, e)
<1>1. td \in Seq(Tasks)
  BY DEF Run
<1>2. PICK n \in Nat : Len(td) = n + 1
  <2>1. Len(td) \in Nat \ {0}
    BY <1>1, EmptySeq
  <2>2. Len(td) - 1 \in Nat /\ Len(td) = (Len(td) - 1) + 1
    BY <2>1
  <2> QED BY <2>2
<1>3. PICK u \in Seq(Tasks) : u = Tail(td) /\ Len(u) = n /\ \A k \in 1..n : u[k] = td[k + 1]
  <2>1. Tail(td) \in Seq(Tasks) /\ Len(Tail(td)) = n /\ \A k \in 1..n : Tail(td)[k] = td[k + 1]
    BY <1>1, <1>2
  <2> QED BY <2>1
<1>4. Head(td) = td[1] /\ Head(td) \in Tasks
  BY <1>1, <1>2
<1>5. PICK p \in Seq(Items) : p = Pushes(td) /\ Len(p) = n + 1 /\ \A k \in 1..(n + 1) : p[k] = Pushed(td[k])
  BY <1>1, <1>2, PushesAre
<1>6. PICK pu \in Seq(Items) : pu = Pushes(u) /\ Len(pu) = n /\ \A k \in 1..n : pu[k] = Pushed(u[k])
  BY <1>3, PushesAre
<1>7. p # << >> /\ Head(p) = p[1] /\ Tail(p) \in Seq(Items) /\ Len(Tail(p)) = n /\ \A k \in 1..n : Tail(p)[k] = p[k + 1]
  BY <1>5
<1>8. Head(p) = Pushed(Head(td))
  BY <1>4, <1>5, <1>7
<1>9. Tail(p) = pu
  <2>1. ASSUME NEW k \in 1..n PROVE Tail(p)[k] = pu[k]
    <3>1. k + 1 \in 1..(n + 1)
      OBVIOUS
    <3>2. Tail(p)[k] = p[k + 1] /\ p[k + 1] = Pushed(td[k + 1]) /\ u[k] = td[k + 1] /\ pu[k] = Pushed(u[k])
      BY <1>3, <1>5, <1>6, <1>7, <3>1
    <3> QED BY <3>2
  <2>2. Len(pu) = Len(Tail(p)) /\ \A k \in 1..Len(pu) : Tail(p)[k] = pu[k]
    BY <1>6, <1>7, <2>1
  <2> QED BY <1>7, <2>2, SeqEqual
<1>10. Chain(p, g, d, s, a, e)
  BY <1>5 DEF Run
<1>11. \E b \in 0..e : Moves(Head(p), g, d, s, a, b) /\ Chain(Tail(p), g, d, s, b, e)
  BY <1>7, <1>10, ChainHead
<1> QED BY <1>3, <1>4, <1>6, <1>8, <1>9, <1>11 DEF Run

----------------------------------------------------------------------------
(* The way from the applied to the observed index.                         *)

\* What the applier fiber is doing stays right while more is decided.
LEMMA WorkingStays ==
  ASSUME NEW w, NEW g, NEW g2, NEW d \in Nat, NEW d2 \in Nat, NEW s \in Nat, NEW s2 \in Nat,
         NEW a \in Nat, NEW b \in Nat, b <= d,
         Working(w, g, d, s, a, b), Begins(g, g2, d), d <= d2, s <= s2
  PROVE  Working(w, g2, d2, s2, a, b)
<1>1. CASE w.kind = "applying" /\ Advances(w.es, g, d, a, b)
  BY <1>1, AdvancesStays DEF Working
<1>2. CASE w.kind = "loading" /\ Jumps(w.idx, d, s, a, b)
  BY <1>2 DEF Working, Jumps
<1>3. CASE /\ w.kind = "taking" /\ w.idx = a /\ a = b
           /\ w.trailing \in Nat /\ w.term \in Nat /\ (a > 0 => w.term = g[a].term)
  <2>1. a > 0 => a \in 1..d
    BY <1>3
  <2>2. a > 0 => w.term = g2[a].term
    BY <1>3, <2>1 DEF Begins
  <2> QED BY <1>3, <2>2 DEF Working
<1>4. CASE w = Nothing /\ a = b
  BY <1>4 DEF Working
<1> QED BY <1>1, <1>2, <1>3, <1>4 DEF Working

\* So does the whole pipe.
LEMMA PipeStays ==
  ASSUME NEW w, NEW q, NEW td, NEW a, NEW o, NEW run, NEW g, NEW g2, NEW d \in Nat, NEW d2 \in Nat,
         NEW s \in Nat, NEW s2 \in Nat,
         Pipe(w, q, td, a, o, run, g, d, s), Begins(g, g2, d), d <= d2, s <= s2
  PROVE  Pipe(w, q, td, a, o, run, g2, d2, s2)
<1>1. q \in Seq(Items) /\ td \in Seq(Tasks) /\ a \in Nat /\ o \in Nat /\ o <= d
  BY DEF Pipe
<1>2. PICK b \in 0..o : /\ Working(w, g, d, s, a, b)
                        /\ run => \E e \in 0..o : Chain(q, g, d, s, b, e) /\ Run(td, g, d, s, e, o)
  BY DEF Pipe
<1>3. Working(w, g2, d2, s2, a, b)
  BY <1>1, <1>2, WorkingStays
<1>4. ASSUME run PROVE \E e \in 0..o : Chain(q, g2, d2, s2, b, e) /\ Run(td, g2, d2, s2, e, o)
  <2>1. PICK e \in 0..o : Chain(q, g, d, s, b, e) /\ Run(td, g, d, s, e, o)
    BY <1>2, <1>4
  <2>2. Chain(q, g2, d2, s2, b, e)
    BY <1>1, <2>1, ChainStays
  <2>3. Pushes(td) \in Seq(Items)
    BY <1>1, PushesAre
  <2>4. Chain(Pushes(td), g2, d2, s2, e, o)
    BY <1>1, <2>1, <2>3, ChainStays DEF Run
  <2> QED BY <1>1, <2>2, <2>4 DEF Run
<1>5. o <= d2
  BY <1>1
<1> QED BY <1>1, <1>2, <1>3, <1>4, <1>5 DEF Pipe

\* A batch was polled.
LEMMA PipePoll ==
  ASSUME NEW w, NEW q, NEW td, NEW a, NEW o, NEW o2 \in Nat, NEW run, NEW g, NEW d \in Nat, NEW s,
         Pipe(w, q, << >>, a, o, run, g, d, s), run, o <= o2, o2 <= d, Run(td, g, d, s, o, o2)
  PROVE  Pipe(w, q, td, a, o2, run, g, d, s)
<1>1. q \in Seq(Items) /\ a \in Nat /\ o \in Nat /\ td \in Seq(Tasks)
  BY DEF Pipe, Run
<1>2. PICK b \in 0..o, e \in 0..o :
        Working(w, g, d, s, a, b) /\ Chain(q, g, d, s, b, e) /\ Run(<< >>, g, d, s, e, o)
  BY DEF Pipe
<1>3. e = o
  BY <1>2, RunEmpty
<1>4. b \in 0..o2 /\ o \in 0..o2
  BY <1>1, <1>2
<1> QED BY <1>1, <1>2, <1>3, <1>4 DEF Pipe

\* A task that pushes nothing is done; it may leave one that moves nothing.
LEMMA PipeSkip ==
  ASSUME NEW w, NEW q, NEW td, NEW a, NEW o, NEW run, NEW g, NEW d, NEW s,
         Pipe(w, q, td, a, o, run, g, d, s), td # << >>, Head(td).do # "push",
         NEW x \in Seq(Tasks), \A n \in Nat : Run(x, g, d, s, n, n)
  PROVE  Pipe(w, q, x \o Tail(td), a, o, run, g, d, s)
<1>1. q \in Seq(Items) /\ td \in Seq(Tasks) /\ a \in Nat /\ o \in Nat /\ o <= d
  BY DEF Pipe
<1>2. PICK b \in 0..o : /\ Working(w, g, d, s, a, b)
                        /\ run => \E e \in 0..o : Chain(q, g, d, s, b, e) /\ Run(td, g, d, s, e, o)
  BY DEF Pipe
<1>3. x \o Tail(td) \in Seq(Tasks)
  BY <1>1, HeadTailProperties, ConcatProperties
<1>4. ASSUME run PROVE \E e \in 0..o : Chain(q, g, d, s, b, e) /\ Run(x \o Tail(td), g, d, s, e, o)
  <2>1. PICK e \in 0..o : Chain(q, g, d, s, b, e) /\ Run(td, g, d, s, e, o)
    BY <1>2, <1>4
  <2>2. PICK f \in 0..o : Moves(Pushed(Head(td)), g, d, s, e, f) /\ Run(Tail(td), g, d, s, f, o)
    BY <1>1, <2>1, RunHead
  <2>3. Pushed(Head(td)) = Nothing /\ Nothing.kind = "nothing"
    BY DEF Pushed, Nothing
  <2>4. e = f
    BY <2>2, <2>3 DEF Moves
  <2>5. Run(x \o Tail(td), g, d, s, e, o)
    BY <1>1, <2>1, <2>2, <2>4, RunConcat
  <2> QED BY <2>1, <2>5
<1> QED BY <1>1, <1>2, <1>3, <1>4 DEF Pipe

\* The I/O fiber's next item moves to the end of the queue.
LEMMA PipePush ==
  ASSUME NEW w, NEW q, NEW td, NEW a, NEW o, NEW run, NEW g, NEW d, NEW s,
         Pipe(w, q, td, a, o, run, g, d, s), run, td # << >>, Head(td).do = "push"
  PROVE  Pipe(w, Append(q, Head(td).arg), Tail(td), a, o, run, g, d, s)
<1>1. q \in Seq(Items) /\ td \in Seq(Tasks) /\ a \in Nat /\ o \in Nat /\ o <= d
  BY DEF Pipe
<1>2. PICK b \in 0..o, e \in 0..o :
        Working(w, g, d, s, a, b) /\ Chain(q, g, d, s, b, e) /\ Run(td, g, d, s, e, o)
  BY DEF Pipe
<1>3. PICK f \in 0..o : Moves(Pushed(Head(td)), g, d, s, e, f) /\ Run(Tail(td), g, d, s, f, o)
  BY <1>1, <1>2, RunHead
<1>4. PICK v \in Items : v = Pushed(Head(td)) /\ v = Head(td).arg
  <2>1. Head(td) \in Tasks
    BY <1>1, <1>2, RunHead
  <2> QED BY <2>1, TaskIs DEF Pushed
<1>5. e <= f
  BY <1>3, <1>4 DEF Moves, Advances, Jumps
<1>6. Chain(<<v>>, g, d, s, e, f)
  BY <1>2, <1>3, <1>4, <1>5, ChainOne
<1>7. <<v>> \in Seq(Items) /\ q \o <<v>> = Append(q, v) /\ Append(q, v) \in Seq(Items)
  BY <1>1, AppendIsConcat, AppendProperties
<1>8. Chain(Append(q, v), g, d, s, b, f)
  <2>1. PICK u \in Seq(Items) : u = <<v>>
    BY <1>7
  <2>2. Chain(u, g, d, s, e, f) /\ e \in Nat /\ f \in Nat
    BY <1>1, <1>2, <1>3, <1>6, <2>1
  <2>3. Chain(q \o u, g, d, s, b, f)
    BY <1>1, <1>2, <2>2, ChainConcat
  <2>4. q \o u = Append(q, v)
    BY <1>7, <2>1
  <2> QED BY <2>3, <2>4
<1>9. Tail(td) \in Seq(Tasks)
  BY <1>1, HeadTailProperties
<1> QED BY <1>1, <1>2, <1>3, <1>4, <1>7, <1>8, <1>9 DEF Pipe

\* In abort() queue and tasks no longer matter.
LEMMA PipeStops ==
  ASSUME NEW w, NEW q, NEW td, NEW a, NEW o, NEW run, NEW g, NEW d, NEW s,
         Pipe(w, q, td, a, o, run, g, d, s), NEW q2 \in Seq(Items), NEW td2 \in Seq(Tasks),
         NEW run2, ~run2
  PROVE  Pipe(w, q2, td2, a, o, run2, g, d, s)
BY DEF Pipe

\* The applier fiber takes the head of the queue in hand.
LEMMA PipePop ==
  ASSUME NEW q, NEW td, NEW a, NEW o, NEW run, NEW g, NEW d, NEW s,
         Pipe(Nothing, q, td, a, o, run, g, d, s), run, q # << >>,
         NEW w2, \A b \in 0..o : Moves(Head(q), g, d, s, a, b) => Working(w2, g, d, s, a, b)
  PROVE  Pipe(w2, Tail(q), td, a, o, run, g, d, s)
<1>1. q \in Seq(Items) /\ td \in Seq(Tasks) /\ a \in Nat /\ o \in Nat /\ o <= d
  BY DEF Pipe
<1>2. PICK b \in 0..o, e \in 0..o :
        Working(Nothing, g, d, s, a, b) /\ Chain(q, g, d, s, b, e) /\ Run(td, g, d, s, e, o)
  BY DEF Pipe
<1>3. a = b
  BY <1>2 DEF Working, Nothing
<1>4. PICK f \in 0..e : Moves(Head(q), g, d, s, a, f) /\ Chain(Tail(q), g, d, s, f, e)
  BY <1>1, <1>2, <1>3, ChainHead
<1>5. f \in 0..o /\ Tail(q) \in Seq(Items)
  BY <1>1, <1>2, <1>4, HeadTailProperties
<1>6. Working(w2, g, d, s, a, f)
  BY <1>4, <1>5
<1> QED BY <1>1, <1>2, <1>4, <1>5, <1>6 DEF Pipe

\* The work in hand is done.
LEMMA PipeWorked ==
  ASSUME NEW w, NEW q, NEW td, NEW a, NEW o, NEW run, NEW g, NEW d, NEW s,
         Pipe(w, q, td, a, o, run, g, d, s), NEW w2, NEW a2,
         \A b \in 0..o : Working(w, g, d, s, a, b) => b = a2 /\ Working(w2, g, d, s, b, b)
  PROVE  Pipe(w2, q, td, a2, o, run, g, d, s)
<1>1. q \in Seq(Items) /\ td \in Seq(Tasks) /\ a \in Nat /\ o \in Nat /\ o <= d
  BY DEF Pipe
<1>2. PICK b \in 0..o : /\ Working(w, g, d, s, a, b)
                        /\ run => \E e \in 0..o : Chain(q, g, d, s, b, e) /\ Run(td, g, d, s, e, o)
  BY DEF Pipe
<1>3. b = a2 /\ Working(w2, g, d, s, a2, a2) /\ a2 \in Nat
  BY <1>1, <1>2
<1> QED BY <1>1, <1>2, <1>3 DEF Pipe

----------------------------------------------------------------------------
(* The state machine.                                                      *)

\* What one entry does.
Effect(e) == IF e.kind = "command" THEN e ELSE Nothing

\* The effects of a batch, entry by entry.
LEMMA EffectsAre ==
  ASSUME NEW es \in Seq(Entries)
  PROVE  /\ Effects(es) \in Seq(Entries \cup {Nothing}) /\ Len(Effects(es)) = Len(es)
         /\ \A k \in 1..Len(es) : Effects(es)[k] = Effect(es[k])
<1>1. Len(es) \in Nat /\ \A k \in 1..Len(es) : es[k] \in Entries
  OBVIOUS
<1>2. Effects(es) = [k \in 1..Len(es) |-> Effect(es[k])]
  BY DEF Effects, Effect
<1>3. \A k \in 1..Len(es) : Effect(es[k]) \in Entries \cup {Nothing}
  BY <1>1 DEF Effect
<1>4. Effects(es) \in [1..Len(es) -> Entries \cup {Nothing}]
  BY <1>2, <1>3
<1>5. Effects(es) \in Seq(Entries \cup {Nothing}) /\ Len(Effects(es)) = Len(es)
  BY <1>1, <1>4, IsASeq, LenProperties
<1> QED BY <1>2, <1>5

\* Equal prefixes have equal effects.
LEMMA PrefixEffects ==
  ASSUME NEW g \in Seq(Entries), NEW a \in 0..Len(g)
  PROVE  LET m == Effects(SubSeq(g, 1, a))
         IN  /\ m \in Seq(Entries \cup {Nothing}) /\ Len(m) = a
             /\ \A k \in 1..a : m[k] = Effect(g[k])
<1>1. PICK es \in Seq(Entries) : es = SubSeq(g, 1, a) /\ Len(es) = a /\ \A k \in 1..a : es[k] = g[k]
  <2>1. Len(g) \in Nat
    OBVIOUS
  <2>2. SubSeq(g, 1, a) \in Seq(Entries) /\ Len(SubSeq(g, 1, a)) = a /\ \A k \in 1..a : SubSeq(g, 1, a)[k] = g[k]
    BY <2>1
  <2> QED BY <2>2
<1>2. /\ Effects(es) \in Seq(Entries \cup {Nothing}) /\ Len(Effects(es)) = Len(es)
      /\ \A k \in 1..Len(es) : Effects(es)[k] = Effect(es[k])
  BY EffectsAre
<1>3. \A k \in 1..a : Effects(es)[k] = Effect(g[k])
  BY <1>1, <1>2
<1> QED BY <1>1, <1>2, <1>3

\* The state machine stays right while the group goes on.
LEMMA MachineStays ==
  ASSUME NEW m, NEW x, NEW g \in Seq(Entries), NEW g2 \in Seq(Entries), NEW d \in Nat, NEW s \in Nat,
         NEW s2 \in Nat, NEW a \in Nat,
         Machine(m, x, g, s, a), a <= d, d <= Len(g), Begins(g, g2, d), s <= s2
  PROVE  Machine(m, x, g2, s2, a)
<1>1. /\ Len(g) \in Nat /\ Len(g2) \in Nat /\ a \in 0..Len(g) /\ a \in 0..Len(g2)
      /\ \A k \in 1..a : g[k] = g2[k]
  BY DEF Begins
<1>2. PICK u : /\ u = Effects(SubSeq(g, 1, a)) /\ u \in Seq(Entries \cup {Nothing}) /\ Len(u) = a
               /\ \A k \in 1..a : u[k] = Effect(g[k])
  BY <1>1, PrefixEffects
<1>3. PICK v : /\ v = Effects(SubSeq(g2, 1, a)) /\ v \in Seq(Entries \cup {Nothing}) /\ Len(v) = a
               /\ \A k \in 1..a : v[k] = Effect(g2[k])
  BY <1>1, PrefixEffects
<1>4. u = v
  <2>1. \A k \in 1..a : u[k] = v[k]
    BY <1>1, <1>2, <1>3
  <2> QED BY <1>2, <1>3, <2>1, SeqEqual
<1>5. m = v
  BY <1>2, <1>4 DEF Machine
<1>6. \A i \in 1..a : i > s2 => i > s
  OBVIOUS
<1>7. \A i \in 1..a : i > s2 => g2[i] \in x
  BY <1>1, <1>6 DEF Machine
<1> QED BY <1>3, <1>5, <1>7 DEF Machine

\* state_machine::apply() on the next batch takes it to the next decided prefix.
LEMMA MachineAdvances ==
  ASSUME NEW m, NEW x, NEW g \in Seq(Entries), NEW d \in Nat, NEW s \in Nat, NEW a \in Nat, NEW b, NEW es,
         Machine(m, x, g, s, a), d <= Len(g), Advances(es, g, d, a, b)
  PROVE  Machine(m \o Effects(es), x \cup {es[k] : k \in 1..Len(es)}, g, s, b)
<1>1. /\ es \in Seq(Entries) /\ Len(es) \in Nat /\ b = a + Len(es) /\ b <= d /\ Len(g) \in Nat
      /\ \A k \in 1..Len(es) : es[k] = g[a + k]
  BY DEF Advances
<1>2. PICK n \in Nat : n = Len(es)
  BY <1>1
<1>3. a \in 0..Len(g) /\ b \in 0..Len(g) /\ b = a + n
  BY <1>1, <1>2
<1>4. PICK u : /\ u = Effects(SubSeq(g, 1, b))
               /\ u \in Seq(Entries \cup {Nothing}) /\ Len(u) = b
               /\ \A k \in 1..b : u[k] = Effect(g[k])
  BY <1>3, PrefixEffects
<1>5. m \in Seq(Entries \cup {Nothing}) /\ Len(m) = a /\ \A k \in 1..a : m[k] = Effect(g[k])
  BY <1>3, PrefixEffects DEF Machine
<1>6. PICK v : /\ v = Effects(es) /\ v \in Seq(Entries \cup {Nothing}) /\ Len(v) = n
               /\ \A k \in 1..n : v[k] = Effect(es[k])
  BY <1>1, <1>2, EffectsAre
<1>7. /\ m \o v \in Seq(Entries \cup {Nothing}) /\ Len(m \o v) = a + n
      /\ \A k \in 1..(a + n) : (m \o v)[k] = IF k <= a THEN m[k] ELSE v[k - a]
  <2>1. Len(m) = a /\ Len(v) = n
    BY <1>5, <1>6
  <2>2. m \in Seq(Entries \cup {Nothing}) /\ v \in Seq(Entries \cup {Nothing})
    BY <1>5, <1>6
  <2> QED BY <2>1, <2>2, ConcatProperties
<1>8. ASSUME NEW k \in 1..(a + n) PROVE (m \o v)[k] = u[k]
  <2>1. u[k] = Effect(g[k])
    BY <1>3, <1>4
  <2>2. CASE k <= a
    <3>1. k \in 1..a
      BY <2>2
    <3> QED BY <1>5, <1>7, <2>1, <2>2, <3>1
  <2>3. CASE ~(k <= a)
    <3>1. k - a \in 1..n /\ a + (k - a) = k
      BY <2>3
    <3>2. v[k - a] = Effect(es[k - a]) /\ es[k - a] = g[k]
      BY <1>1, <1>2, <1>6, <3>1
    <3> QED BY <1>7, <2>1, <2>3, <3>2
  <2> QED BY <2>2, <2>3
<1>9. m \o v = u
  <2>1. PICK z : z = m \o v /\ z \in Seq(Entries \cup {Nothing}) /\ Len(z) = a + n /\ \A k \in 1..(a + n) : z[k] = u[k]
    BY <1>7, <1>8
  <2>2. Len(z) = Len(u) /\ \A k \in 1..Len(z) : z[k] = u[k]
    BY <1>3, <1>4, <2>1
  <2>3. z = u
    BY <1>4, <2>1, <2>2, SeqEqual
  <2> QED BY <2>1, <2>3
<1>10. ASSUME NEW i \in 1..b, i > s PROVE g[i] \in x \cup {es[k] : k \in 1..Len(es)}
  <2>1. CASE i <= a
    <3>1. i \in 1..a
      BY <1>3, <2>1
    <3> QED BY <1>10, <3>1 DEF Machine
  <2>2. CASE ~(i <= a)
    <3>1. i - a \in 1..n /\ a + (i - a) = i
      BY <1>3, <2>2
    <3>2. es[i - a] = g[i] /\ i - a \in 1..Len(es)
      BY <1>1, <1>2, <3>1
    <3> QED BY <3>2
  <2> QED BY <2>1, <2>2
<1> QED BY <1>4, <1>6, <1>9, <1>10 DEF Machine

----------------------------------------------------------------------------
(* The callers.                                                            *)

\* Calls go on, or are forgotten; nothing is entered.
Follows(cs2, cs) ==
  \A v \in Client : Entered(cs2[v]) => /\ Entered(cs[v])
                                       /\ cs2[v].idx = cs[v].idx /\ cs2[v].term = cs[v].term

\* Calls that change as one of them may: identities of entries stay distinct.
LEMMA CallsFollow ==
  ASSUME NEW cs, NEW w, NEW a, NEW x, NEW H, NEW g, NEW t, NEW d, CallsOk(cs, w, a, x, H, g, t, d),
         NEW cs2, NEW w2, NEW a2, NEW x2, NEW H2, NEW g2, NEW t2, NEW d2,
         DOMAIN cs2 = Client, cs2 = [v \in Client |-> cs2[v]], Follows(cs2, cs),
         \A v \in Client : CallOk(cs2[v], w2, a2, x2, H2, g2, t2, d2)
  PROVE  CallsOk(cs2, w2, a2, x2, H2, g2, t2, d2)
<1>1. \A v \in Client : cs2[v] \in CallRecords
  BY DEF CallOk
<1>2. cs2 \in [Client -> CallRecords]
  BY <1>1
<1>3. Distinct(cs2)
  BY DEF CallsOk, Distinct, Follows
<1> QED BY <1>2, <1>3 DEF CallsOk

\* A call that is told nothing.
LEMMA CallKeeps ==
  ASSUME NEW c, NEW w, NEW a \in Nat, NEW x, NEW H, NEW g, NEW t, NEW d, CallOk(c, w, a, x, H, g, t, d),
         NEW w2, NEW a2 \in Nat, NEW x2, Waits(c, w2, a2), a <= a2, x \subseteq x2
  PROVE  CallOk(c, w2, a2, x2, H, g, t, d)
<1>1. c.idx \in Nat
  BY DEF CallOk, CallRecords
<1>2. Truth(c, a2, x2, g, d)
  BY <1>1 DEF CallOk, Truth
<1> QED BY <1>2 DEF CallOk

\* A call whose entry nobody remembers.
LEMMA CallUnknown ==
  ASSUME NEW c, NEW outcome, outcome \notin {"ok", "dropped"},
         NEW w, NEW a, NEW x, NEW H, NEW g, NEW t, NEW d
  PROVE  CallOk(Told(c, outcome), w, a, x, H, g, t, d) /\ ~Entered(Told(c, outcome))
<1>1. Told(c, outcome) = [status |-> "unknown", type |-> "none", idx |-> 0, term |-> 0]
  BY DEF Told, NoCall
<1>2. PICK r : r = Told(c, outcome) /\ r \in CallRecords /\ r.status = "unknown" /\ r.type = "none"
  BY <1>1 DEF CallRecords, Statuses
<1>3. CallOk(r, w, a, x, H, g, t, d) /\ ~Entered(r)
  BY <1>2 DEF CallOk, Entered, Waits, Truth, Adds
<1> QED BY <1>2, <1>3

\* The entry of a call is decided.
LEMMA CallSucceeds ==
  ASSUME NEW c, NEW w, NEW a, NEW x, NEW H, NEW g, NEW t, NEW d, CallOk(c, w, a, x, H, g, t, d),
         Entered(c), Decided(c, g, d),
         NEW w2, NEW a2, NEW x2, c.type = "applied" => \E e \in x2 : e.idx = c.idx /\ e.term = c.term
  PROVE  /\ CallOk(Told(c, "ok"), w2, a2, x2, H, g, t, d)
         /\ Told(c, "ok").idx = c.idx /\ Told(c, "ok").term = c.term
<1>1. c \in CallRecords /\ c.type \in Adds
  BY DEF CallOk, Entered
<1>2. PICK r : /\ r = Told(c, "ok") /\ r \in CallRecords /\ r.status = "ok"
               /\ r.type = c.type /\ r.idx = c.idx /\ r.term = c.term
  <2>1. PICK r : r = [c EXCEPT !.status = "ok"]
    OBVIOUS
  <2>2. /\ r \in CallRecords /\ r.status = "ok"
        /\ r.type = c.type /\ r.idx = c.idx /\ r.term = c.term
    BY <1>1, <2>1 DEF CallRecords, Statuses
  <2>3. r = Told(c, "ok")
    BY <2>1 DEF Told
  <2> QED BY <2>2, <2>3
<1>3. Waits(r, w2, a2)
  BY <1>2 DEF Waits
<1>4. Truth(r, a2, x2, g, d)
  BY <1>1, <1>2 DEF Truth, Decided, Adds
<1>5. Created(r, H, t)
  BY <1>2 DEF CallOk, Created
<1> QED BY <1>1, <1>2, <1>3, <1>4, <1>5 DEF CallOk

\* It never will be.
LEMMA CallFails ==
  ASSUME NEW c, NEW w, NEW a, NEW x, NEW H, NEW g, NEW t, NEW d, CallOk(c, w, a, x, H, g, t, d),
         Entered(c), c.type = "committed" => Dead(c, g, d),
         NEW w2, NEW a2, NEW x2
  PROVE  /\ CallOk(Told(c, "dropped"), w2, a2, x2, H, g, t, d)
         /\ Told(c, "dropped").idx = c.idx /\ Told(c, "dropped").term = c.term
<1>1. c \in CallRecords /\ c.type \in Adds
  BY DEF CallOk, Entered
<1>2. PICK r : /\ r = Told(c, "dropped") /\ r \in CallRecords /\ r.status = "dropped"
               /\ r.type = c.type /\ r.idx = c.idx /\ r.term = c.term
  <2>1. PICK r : r = [c EXCEPT !.status = "dropped"]
    OBVIOUS
  <2>2. /\ r \in CallRecords /\ r.status = "dropped"
        /\ r.type = c.type /\ r.idx = c.idx /\ r.term = c.term
    BY <1>1, <2>1 DEF CallRecords, Statuses
  <2>3. r = Told(c, "dropped")
    BY <2>1 DEF Told
  <2> QED BY <2>2, <2>3
<1>3. Waits(r, w2, a2)
  BY <1>2 DEF Waits
<1>4. Truth(r, a2, x2, g, d)
  BY <1>1, <1>2 DEF Truth, Dead, Adds
<1>5. Created(r, H, t)
  BY <1>2 DEF CallOk, Created
<1> QED BY <1>1, <1>2, <1>3, <1>4, <1>5 DEF CallOk

\* The group goes on.
LEMMA CallStays ==
  ASSUME NEW c, NEW w, NEW a, NEW x, NEW H, NEW g, NEW t, NEW d, CallOk(c, w, a, x, H, g, t, d),
         History(H, g, t, d),
         NEW H2, NEW g2, NEW t2, NEW d2, History(H2, g2, t2, d2),
         Extend(H, t, H2, t2), Begins(g, g2, d), d <= d2
  PROVE  CallOk(c, w, a, x, H2, g2, t2, d2)
<1>1. t \in Nat /\ t2 \in Nat /\ t <= t2 /\ d \in Nat /\ d2 \in Nat
  BY HistoryIs DEF Extend
<1>2. c \in CallRecords /\ c.idx \in Nat /\ c.term \in Nat
  BY DEF CallOk, CallRecords
<1>3. ASSUME Created(c, H, t) PROVE Created(c, H2, t2) /\ c.idx \in Nat \ {0}
  <2>1. /\ c.term \in 1..t /\ c.term \in 1..t2 /\ c.idx \in 1..Len(H[c.term])
        /\ H[c.term][c.idx].term = c.term
    BY <1>1, <1>3 DEF Created
  <2>2. Begins(H[c.term], H2[c.term], Len(H[c.term]))
    BY <2>1 DEF Extend
  <2>3. Len(H[c.term]) \in Nat /\ Len(H2[c.term]) \in Nat
    BY <2>1, HistoryIs
  <2>4. c.idx \in 1..Len(H2[c.term]) /\ H2[c.term][c.idx] = H[c.term][c.idx]
    BY <2>1, <2>2, <2>3 DEF Begins
  <2> QED BY <2>1, <2>3, <2>4 DEF Created
<1>4. ASSUME Dead(c, g, d) PROVE Dead(c, g2, d2)
  <2>1. PICK n \in 1..d : n <= c.idx /\ (g[n].term > c.term \/ (n = c.idx /\ g[n].term # c.term))
    BY <1>4 DEF Dead
  <2>2. n \in 1..d2 /\ g2[n] = g[n]
    BY <1>1 DEF Begins
  <2> QED BY <2>1, <2>2 DEF Dead
<1>5. ASSUME Decided(c, g, d), c.idx \in Nat \ {0} PROVE Decided(c, g2, d2)
  <2>1. c.idx \in 1..d
    BY <1>1, <1>5 DEF Decided
  <2>2. g2[c.idx] = g[c.idx] /\ c.idx <= d2
    BY <1>1, <2>1 DEF Begins
  <2> QED BY <1>5, <2>2 DEF Decided
<1>6. Truth(c, a, x, g2, d2)
  <2>1. ASSUME c.status = "ok", c.type # "read" PROVE Decided(c, g2, d2)
    <3>1. Entered(c)
      BY <2>1 DEF CallOk, Entered
    <3>2. Created(c, H, t) /\ Decided(c, g, d)
      BY <2>1, <3>1 DEF CallOk, Truth
    <3> QED BY <1>3, <1>5, <3>2
  <2>2. ASSUME c.status = "dropped", c.type = "committed" PROVE Dead(c, g2, d2)
    BY <1>4, <2>2 DEF CallOk, Truth
  <2> QED BY <2>1, <2>2 DEF CallOk, Truth
<1>7. Entered(c) => Created(c, H2, t2)
  BY <1>3 DEF CallOk
<1> QED BY <1>6, <1>7 DEF CallOk

\* The calls stay right while the group goes on.
LEMMA CallsStay ==
  ASSUME NEW cs, NEW w, NEW a, NEW x, NEW H, NEW g, NEW t, NEW d, CallsOk(cs, w, a, x, H, g, t, d),
         History(H, g, t, d),
         NEW H2, NEW g2, NEW t2, NEW d2, History(H2, g2, t2, d2),
         Extend(H, t, H2, t2), Begins(g, g2, d), d <= d2
  PROVE  CallsOk(cs, w, a, x, H2, g2, t2, d2)
<1>1. ASSUME NEW v \in Client PROVE CallOk(cs[v], w, a, x, H2, g2, t2, d2)
  BY CallStays DEF CallsOk
<1> QED BY <1>1 DEF CallsOk

\* Callers that are not told anything still wait for what is to come.
StillWait(cs, told, w, a, w2, a2) ==
  \A v \in Client : v \notin told /\ Waits(cs[v], w, a) => Waits(cs[v], w2, a2)

\* read_barrier() callers are woken.
LEMMA SignalOk ==
  ASSUME NEW cs, NEW w, NEW a \in Nat, NEW x, NEW H, NEW g, NEW t, NEW d, CallsOk(cs, w, a, x, H, g, t, d),
         NEW i, i \in Nat, i <= a
  PROVE  CallsOk(Signal(cs, i), w, a, x, H, g, t, d)
<1>1. PICK cs2 : cs2 = Signal(cs, i)
  OBVIOUS
<1>2. DOMAIN cs2 = Client /\ cs2 = [v \in Client |-> cs2[v]]
  BY <1>1 DEF Signal
<1>3. ASSUME NEW v \in Client
      PROVE  /\ CallOk(cs2[v], w, a, x, H, g, t, d)
             /\ Entered(cs2[v]) => /\ Entered(cs[v])
                                   /\ cs2[v].idx = cs[v].idx /\ cs2[v].term = cs[v].term
  <2>0. CallOk(cs[v], w, a, x, H, g, t, d)
    BY DEF CallsOk
  <2>1. CASE v \in Waiting(cs, "read") /\ cs[v].idx <= i
    <3>1. cs2[v] = Told(cs[v], "ok") /\ cs[v].type = "read"
      BY <1>1, <2>1 DEF Signal, Waiting
    <3>2. PICK r : r = [cs[v] EXCEPT !.status = "ok"]
      OBVIOUS
    <3>3. cs2[v] = r
      BY <3>1, <3>2 DEF Told
    <3>4. cs[v] \in CallRecords
      BY <2>0 DEF CallOk
    <3>5. r \in CallRecords /\ r.status = "ok" /\ r.type = "read" /\ r.idx = cs[v].idx /\ r.idx \in Nat
      BY <3>1, <3>2, <3>4 DEF CallRecords, Statuses
    <3>6. r.idx <= a
      BY <2>1, <3>5
    <3>7. CallOk(r, w, a, x, H, g, t, d) /\ ~Entered(r)
      BY <3>5, <3>6 DEF CallOk, Entered, Waits, Truth, Adds
    <3> QED BY <3>3, <3>7
  <2>2. CASE ~(v \in Waiting(cs, "read") /\ cs[v].idx <= i)
    <3>1. cs2[v] = cs[v]
      BY <1>1, <2>2 DEF Signal
    <3> QED BY <2>0, <3>1
  <2> QED BY <2>1, <2>2
<1> QED BY <1>1, <1>2, <1>3, CallsFollow DEF Follows

\* A snapshot has replaced the entries, or the server has left.
LEMMA DropOk ==
  ASSUME NEW cs, NEW w, NEW a \in Nat, NEW x, NEW H, NEW g, NEW t, NEW d, CallsOk(cs, w, a, x, H, g, t, d),
         NEW i, NEW w2, NEW a2 \in Nat, a <= a2,
         StillWait(cs, {v \in Client : cs[v].idx <= i}, w, a, w2, a2)
  PROVE  CallsOk(Drop(cs, i), w2, a2, x, H, g, t, d)
<1>1. PICK cs2 : cs2 = Drop(cs, i)
  OBVIOUS
<1>2. DOMAIN cs2 = Client /\ cs2 = [v \in Client |-> cs2[v]]
  BY <1>1 DEF Drop
<1>3. ASSUME NEW v \in Client
      PROVE  /\ CallOk(cs2[v], w2, a2, x, H, g, t, d)
             /\ Entered(cs2[v]) => /\ Entered(cs[v])
                                   /\ cs2[v].idx = cs[v].idx /\ cs2[v].term = cs[v].term
  <2>0. CallOk(cs[v], w, a, x, H, g, t, d) /\ Waits(cs[v], w, a)
    BY DEF CallsOk, CallOk
  <2>1. CASE v \in Waiting(cs, "committed") \cup Waiting(cs, "applied") /\ cs[v].idx <= i
    <3>1. cs2[v] = Told(cs[v], "unknown")
      BY <1>1, <2>1 DEF Drop
    <3> QED BY <3>1, CallUnknown
  <2>2. CASE ~(v \in Waiting(cs, "committed") \cup Waiting(cs, "applied") /\ cs[v].idx <= i)
    <3>1. cs2[v] = cs[v]
      BY <1>1, <2>2 DEF Drop
    <3>2. Waits(cs[v], w2, a2)
      <4>1. CASE cs[v].idx <= i
        BY <2>2, <4>1 DEF Waits, Waiting, Adds
      <4>2. CASE ~(cs[v].idx <= i)
        BY <2>0, <4>2 DEF StillWait
      <4> QED BY <4>1, <4>2
    <3> QED BY <2>0, <3>1, <3>2, CallKeeps
  <2> QED BY <2>1, <2>2
<1> QED BY <1>1, <1>2, <1>3, CallsFollow DEF Follows

\* A batch of entries, committed or applied, and the callers that wait for them.
LEMMA NotifyOk ==
  ASSUME NEW cs, NEW w, NEW a \in Nat, NEW x, NEW H, NEW g, NEW t, NEW d, CallsOk(cs, w, a, x, H, g, t, d),
         History(H, g, t, d), NEW es, NEW b, Advances(es, g, d, a, b), NEW type \in Adds,
         NEW w2, NEW a2 \in Nat, a <= a2, NEW x2, x \subseteq x2,
         type = "applied" => \A k \in 1..Len(es) : es[k] \in x2,
         StillWait(cs, {v \in Waiting(cs, type) : cs[v].idx <= b}, w, a, w2, a2)
  PROVE  CallsOk(Notify(cs, es, type), w2, a2, x2, H, g, t, d)
<1>1. PICK cs2 : cs2 = Notify(cs, es, type)
  OBVIOUS
<1>2. DOMAIN cs2 = Client /\ cs2 = [v \in Client |-> cs2[v]]
  BY <1>1 DEF Notify
<1>3. /\ es \in Seq(Entries) /\ Len(es) \in Nat \ {0} /\ b = a + Len(es) /\ b <= d /\ b \in Nat
      /\ d \in Nat /\ d <= Len(g) /\ Len(g) \in Nat
      /\ \A k \in 1..Len(es) : es[k] = g[a + k] /\ a + k \in 1..d
  <2>1. d \in Nat /\ d <= Len(g) /\ Len(g) \in Nat
    BY HistoryIs
  <2>2. /\ es \in Seq(Entries) /\ Len(es) \in Nat \ {0} /\ b = a + Len(es) /\ b <= d
        /\ \A k \in 1..Len(es) : es[k] = g[a + k]
    BY DEF Advances
  <2> QED BY <2>1, <2>2
<1>4. \A i \in 1..d : g[i].idx = i /\ g[i].term \in Nat
  <2>1. \A i \in 1..Len(g) : g[i].idx = i /\ g[i].term \in 1..t
    BY HistoryIs
  <2>2. \A i \in 1..d : i \in 1..Len(g)
    BY <1>3
  <2> QED BY <2>1, <2>2
<1>5. PICK n \in Nat \ {0} : n = Len(es)
  BY <1>3
<1>6. es[n].idx = b /\ es[n] = g[b] /\ b \in 1..d
  <2>1. n \in 1..Len(es) /\ a + n = b
    BY <1>3, <1>5
  <2> QED BY <1>3, <1>4, <2>1
<1>7. ASSUME NEW v \in Client
      PROVE  /\ CallOk(cs2[v], w2, a2, x2, H, g, t, d)
             /\ Entered(cs2[v]) => /\ Entered(cs[v])
                                   /\ cs2[v].idx = cs[v].idx /\ cs2[v].term = cs[v].term
  <2> DEFINE Hit == \E e \in {es[k] : k \in 1..Len(es)} : e.idx = cs[v].idx /\ e.term = cs[v].term
             Old == \A u \in Waiting(cs, type) :
                      cs[u].idx \in (b + 1)..cs[v].idx => cs[u].term < es[n].term
  <2>0. CallOk(cs[v], w, a, x, H, g, t, d) /\ Waits(cs[v], w, a)
    BY DEF CallsOk, CallOk
  <2>1. cs2[v] = IF v \notin Waiting(cs, type) THEN cs[v]
                 ELSE IF cs[v].idx <= b THEN Told(cs[v], IF Hit THEN "ok" ELSE "dropped")
                 ELSE IF Old THEN Told(cs[v], "dropped") ELSE cs[v]
    <3>1. es[Len(es)].idx = b /\ es[Len(es)].term = es[n].term
      BY <1>5, <1>6
    <3> QED BY <1>1, <3>1 DEF Notify
  <2> HIDE DEF Hit, Old
  <2>2. CASE cs2[v] = cs[v] /\ ~(v \in Waiting(cs, type) /\ cs[v].idx <= b)
    <3>1. Waits(cs[v], w2, a2)
      BY <2>0, <2>2 DEF StillWait
    <3> QED BY <2>0, <2>2, <3>1, CallKeeps
  <2>3. ASSUME v \in Waiting(cs, type)
        PROVE  /\ Entered(cs[v]) /\ cs[v].type = type /\ cs[v].idx \in Nat /\ cs[v].term \in Nat
               /\ cs[v].idx > a
    <3>1. cs[v].status = "waiting" /\ cs[v].type = type
      BY <2>3 DEF Waiting
    <3>2. Entered(cs[v]) /\ cs[v].idx > a
      BY <2>0, <3>1 DEF Entered, Waits
    <3>3. cs[v].idx \in Nat /\ cs[v].term \in Nat
      BY <2>0 DEF CallOk, CallRecords
    <3> QED BY <3>1, <3>2, <3>3
  <2>4. CASE v \in Waiting(cs, type) /\ cs[v].idx <= b /\ Hit
    <3>1. PICK k \in 1..Len(es) : es[k].idx = cs[v].idx /\ es[k].term = cs[v].term
      BY <2>4 DEF Hit
    <3>2. es[k] = g[a + k] /\ a + k \in 1..d /\ g[a + k].idx = a + k
      BY <1>3, <1>4
    <3>3. cs[v].idx = a + k /\ Decided(cs[v], g, d)
      BY <3>1, <3>2 DEF Decided
    <3>4. cs[v].type = "applied" => \E e \in x2 : e.idx = cs[v].idx /\ e.term = cs[v].term
      BY <2>3, <2>4, <3>1
    <3>5. cs2[v] = Told(cs[v], "ok") /\ Entered(cs[v])
      BY <2>1, <2>3, <2>4
    <3> QED BY SMTT(60), <2>0, <3>3, <3>4, <3>5, CallSucceeds
  <2>5. CASE v \in Waiting(cs, type) /\ cs[v].idx <= b /\ ~Hit
    <3>1. PICK k \in Nat : k = cs[v].idx - a /\ k \in 1..Len(es) /\ a + k = cs[v].idx
      BY SMTT(60), <1>3, <2>3, <2>5
    <3>2. g[cs[v].idx] = es[k] /\ es[k].idx = cs[v].idx /\ cs[v].idx \in 1..d
      BY <1>3, <1>4, <3>1
    <3>3. g[cs[v].idx].term # cs[v].term
      BY <2>5, <3>1, <3>2 DEF Hit
    <3>4. Dead(cs[v], g, d)
      <4>1. cs[v].idx <= cs[v].idx
        BY <2>3, <2>5
      <4> QED BY <3>2, <3>3, <4>1 DEF Dead
    <3>5. cs2[v] = Told(cs[v], "dropped") /\ Entered(cs[v])
      BY <2>1, <2>3, <2>5
    <3> QED BY <2>0, <3>4, <3>5, CallFails
  <2>6. CASE v \in Waiting(cs, type) /\ ~(cs[v].idx <= b) /\ Old
    <3>1. cs[v].idx \in (b + 1)..cs[v].idx /\ b <= cs[v].idx
      BY <1>3, <2>3, <2>6
    <3>2. cs[v].term < g[b].term
      BY <1>6, <2>6, <3>1 DEF Old
    <3>3. g[b].term > cs[v].term
      BY <1>4, <1>6, <2>3, <2>6, <3>2
    <3>4. Dead(cs[v], g, d)
      BY <1>6, <3>1, <3>3 DEF Dead
    <3>5. cs2[v] = Told(cs[v], "dropped") /\ Entered(cs[v])
      BY <2>1, <2>3, <2>6
    <3> QED BY <2>0, <3>4, <3>5, CallFails
  <2> QED BY <2>1, <2>2, <2>4, <2>5, <2>6
<1> QED BY <1>1, <1>2, <1>7, CallsFollow DEF Follows

----------------------------------------------------------------------------
(* The group's actions.                                                    *)

\* What a leader leaves behind.
Leaves(P2, g, P, t, t2) == P2 = IF t2 = t THEN P ELSE [P EXCEPT ![t] = g]

\* The logs of the leaders, with the new one.
LEMMA LogsNext ==
  ASSUME NEW g, NEW P, NEW t, NEW d, NEW base, NEW e, NEW t2, NEW H2, NEW P2,
         PastLogs(P, t), AddsEntry(Logs(g, P, t), g, t, d, base, e, t2, H2), t2 <= MaxTerm,
         Leaves(P2, g, P, t, t2)
  PROVE  Logs(Append(base, e), P2, t2) = H2 /\ PastLogs(P2, t2)
<1>0. PICK H : H = Logs(g, P, t)
  OBVIOUS
<1>1. /\ t \in Nat \ {0} /\ t2 \in {t, t + 1} /\ t2 \in Nat /\ g \in Seq(Entries)
      /\ H2 = [s \in 1..t2 |-> IF s = t2 THEN Append(base, e) ELSE H[s]]
  BY <1>0, HistoryIs DEF AddsEntry
<1>2. MaxTerm \in Nat /\ P \in [1..MaxTerm -> Seq(Entries)] /\ \A s \in 1..MaxTerm : s >= t => P[s] = << >>
  BY BoundsAssumption DEF PastLogs
<1>3. t \in 1..MaxTerm
  BY <1>1, <1>2 DEF PastLogs
<1>4. P2 \in [1..MaxTerm -> Seq(Entries)]
  BY <1>1, <1>2 DEF Leaves
<1>5. PICK b : b = Append(base, e)
  OBVIOUS
<1>6. ASSUME NEW s \in 1..t2, s # t2 PROVE H[s] = P2[s]
  <2>1. s \in 1..t
    BY <1>1, <1>6
  <2>2. H[s] = IF s = t THEN g ELSE P[s]
    BY <1>0, <2>1 DEF Logs
  <2>3. s \in 1..MaxTerm
    BY <1>3, <2>1, <1>2
  <2>4. CASE t2 = t
    BY <1>6, <2>2, <2>4 DEF Leaves
  <2>5. CASE t2 # t
    BY <1>2, <1>3, <2>2, <2>3, <2>5 DEF Leaves
  <2> QED BY <2>4, <2>5
<1>7. Logs(b, P2, t2) = H2
  <2>1. H2 = [s \in 1..t2 |-> IF s = t2 THEN b ELSE H[s]]
    BY <1>1, <1>5
  <2>2. \A s \in 1..t2 : (IF s = t2 THEN b ELSE H[s]) = (IF s = t2 THEN b ELSE P2[s])
    BY <1>6
  <2> QED BY <2>1, <2>2, Zenon DEF Logs
<1>8. ASSUME NEW s \in 1..MaxTerm, s >= t2 PROVE P2[s] = << >>
  <2>1. CASE t2 = t
    BY <1>2, <1>8, <2>1 DEF Leaves
  <2>2. CASE t2 = t + 1
    <3>1. s # t /\ s >= t
      BY <1>1, <1>8, <2>2
    <3>2. P2[s] = P[s]
      BY <1>1, <1>2, <2>2, <3>1 DEF Leaves
    <3> QED BY <1>2, <3>1, <3>2
  <2> QED BY <1>1, <2>1, <2>2
<1> QED BY <1>4, <1>5, <1>7, <1>8 DEF PastLogs

\* The indices of the server.
LEMMA Numbers ==
  ASSUME IInv
  PROVE  /\ applied \in Nat /\ observed \in Nat /\ commit \in Nat /\ decided \in Nat /\ Index \in Nat
         /\ applied <= observed /\ observed <= commit /\ commit <= decided /\ Index <= commit
         /\ term \in Nat \ {0} /\ Len(group) \in Nat /\ decided <= Len(group) /\ group \in Seq(Entries)
         /\ work.kind = "applying" => applied + Len(work.es) <= observed /\ Len(work.es) \in Nat
<1>1. /\ observed \in Nat /\ applied \in Nat /\ observed <= commit
      /\ \E b \in 0..observed : Working(work, group, decided, Index, applied, b)
  BY DEF IInv, Pipe
<1>2. /\ term \in Nat \ {0} /\ Len(group) \in Nat /\ decided \in Nat /\ decided <= Len(group)
      /\ group \in Seq(Entries)
  BY HistoryIs DEF IInv
<1>3. commit \in Nat /\ commit <= decided /\ Index \in Nat /\ Index <= commit
  BY OwnNumbers DEF IInv, Index
<1>4. PICK b \in 0..observed : Working(work, group, decided, Index, applied, b)
  BY <1>1
<1>5. applied <= b
  BY <1>1, <1>4 DEF Working, Advances, Jumps
<1>6. work.kind = "applying" => applied + Len(work.es) = b /\ Len(work.es) \in Nat
  BY <1>4 DEF Working, Advances, Nothing
<1> QED BY <1>1, <1>2, <1>3, <1>4, <1>5, <1>6

\* A leader, the present or the next one, adds an entry.
LEMMA EntryAdded ==
  ASSUME IInv, NEW base, NEW e, NEW H2,
         AddsEntry(LeaderLogs, group, term, decided, base, e, term', H2),
         group' = Append(base, e), term' <= MaxTerm,
         Leaves(past', group, past, term, term'),
         UNCHANGED <<plan, decided, commit, observed, output, fiberVars, smVars, phase>>,
         OwnLog(log', commit, leads', H2, group', term', decided), log'.snapshot = log.snapshot,
         CallsOk(calls', work, applied, executed, H2, group', term', decided)
  PROVE  IInv'
<1>1. /\ plan \in DOMAIN Plans /\ PastLogs(past, term)
      /\ History(LeaderLogs, group, term, decided)
      /\ OwnLog(log, commit, leads, LeaderLogs, group, term, decided)
      /\ Pipe(work, queue, todo, applied, observed, phase = "running", group, decided, Index)
      /\ observed <= commit /\ Ahead(output, Index, observed)
      /\ Machine(machine, executed, group, Index, applied)
  BY DEF IInv
<1>2. History(H2, group', term', decided) /\ Begins(group, group', decided)
  BY NewEntry
<1>3. LeaderLogs' = H2 /\ PastLogs(past', term')
  <2>1. PICK P2, t2 : P2 = past' /\ t2 = term'
    OBVIOUS
  <2>2. /\ Leaves(P2, group, past, term, t2) /\ t2 <= MaxTerm
        /\ AddsEntry(Logs(group, past, term), group, term, decided, base, e, t2, H2)
    BY <2>1 DEF LeaderLogs
  <2>3. Logs(Append(base, e), P2, t2) = H2 /\ PastLogs(P2, t2)
    BY <1>1, <2>2, LogsNext
  <2>4. LeaderLogs' = Logs(group', past', term')
    BY DEF LeaderLogs
  <2> QED BY <2>1, <2>3, <2>4
<1>4. decided \in Nat /\ decided <= decided /\ Index \in Nat /\ Index <= Index
  BY <1>1, HistoryIs, OwnNumbers DEF Index
<1>5. Pipe(work, queue, todo, applied, observed, phase = "running", group', decided, Index)
  BY <1>1, <1>2, <1>4, PipeStays
<1>6. applied \in Nat /\ applied <= decided
  BY Numbers
<1>7. Machine(machine, executed, group', Index, applied)
  <2>1. group \in Seq(Entries) /\ group' \in Seq(Entries) /\ decided <= Len(group)
    BY <1>1, <1>2, HistoryIs
  <2> QED BY <1>1, <1>2, <1>4, <1>6, <2>1, MachineStays
<1>8. Index' = Index
  BY DEF Index
<1> QED BY <1>1, <1>2, <1>3, <1>5, <1>7, <1>8 DEF IInv, fiberVars, smVars

\* fsm::add_entry() on the leader, here or elsewhere.
LEMMA AddedOk ==
  ASSUME IInv, NEW e \in Entries, e.idx = Len(group) + 1, e.term = term, Added(e),
         UNCHANGED <<plan, decided, term, past, leads, commit, observed, output, fiberVars, smVars, phase>>,
         \A H2 : /\ History(H2, group', term, decided) /\ Extend(LeaderLogs, term, H2, term)
                 /\ H2[term] = group' /\ Begins(group, group', decided)
                 => CallsOk(calls', work, applied, executed, H2, group', term, decided)
  PROVE  IInv'
<1>1. /\ PastLogs(past, term) /\ History(LeaderLogs, group, term, decided)
      /\ OwnLog(log, commit, leads, LeaderLogs, group, term, decided)
  BY DEF IInv
<1>2. /\ term \in Nat \ {0} /\ decided \in Nat /\ Len(group) \in Nat /\ decided <= Len(group)
      /\ LeaderLike(group, LeaderLogs, term) /\ term <= MaxTerm
  BY <1>1, HistoryIs DEF PastLogs
<1>3. PICK H2 : H2 = [s \in 1..term |-> IF s = term THEN Append(group, e) ELSE LeaderLogs[s]]
  OBVIOUS
<1>4. AddsEntry(LeaderLogs, group, term, decided, group, e, term, H2)
  <2>1. Begins(group, group, decided)
    BY <1>2 DEF Begins
  <2> QED BY <1>1, <1>2, <1>3, <2>1 DEF AddsEntry
<1>5. group' = Append(group, e) /\ log' = IF leads THEN EmplaceBack(log, e) ELSE log
  BY DEF Added
<1>6. /\ History(H2, group', term, decided) /\ Extend(LeaderLogs, term, H2, term)
      /\ Begins(group, group', decided)
  BY <1>4, <1>5, NewEntry
<1>7. H2[term] = group'
  BY <1>6, HistoryIs
<1>9. OwnLog(log', commit, leads, H2, group', term, decided) /\ log'.snapshot = log.snapshot
  <2>1. PICK m : m = log' /\ LeaderAdds(m, log, leads, e)
    BY <1>5 DEF LeaderAdds
  <2>2. OwnLog(m, commit, leads, H2, Append(group, e), term, decided) /\ m.snapshot = log.snapshot
    BY <1>1, <1>4, <2>1, OwnAdds
  <2> QED BY <1>5, <2>1, <2>2
<1>10. Leaves(past', group, past, term, term') /\ term' = term /\ leads' = leads
  BY DEF Leaves
<1>11. CallsOk(calls', work, applied, executed, H2, group', term, decided)
  BY <1>6, <1>7
<1> QED BY <1>2, <1>4, <1>5, <1>9, <1>10, <1>11, EntryAdded

\* The actions, one by one: a client of another server.
LEMMA OtherEntryOk ==
  ASSUME IInv, OtherEntry
  PROVE  IInv'
<1>1. PICK e : e = Entry(Len(group) + 1, term, "command")
  OBVIOUS
<1>2. e \in Entries /\ e.idx = Len(group) + 1 /\ e.term = term
  BY <1>1, Numbers DEF Entries, Entry
<1>3. /\ Added(e)
      /\ UNCHANGED <<plan, decided, term, past, leads, commit, observed, output, fiberVars, smVars, phase>>
      /\ calls' = calls
  BY <1>1 DEF OtherEntry, callVars
<1>4. ASSUME NEW H2, History(H2, group', term, decided), Extend(LeaderLogs, term, H2, term),
             Begins(group, group', decided)
      PROVE  CallsOk(calls', work, applied, executed, H2, group', term, decided)
  <2>1. decided <= decided
    BY Numbers
  <2>2. /\ CallsOk(calls, work, applied, executed, LeaderLogs, group, term, decided)
        /\ History(LeaderLogs, group, term, decided)
    BY DEF IInv
  <2>3. CallsOk(calls, work, applied, executed, H2, group', term, decided)
    BY <1>4, <2>1, <2>2, CallsStay
  <2> QED BY <1>3, <2>3
<1> QED BY <1>2, <1>3, <1>4, AddedOk

\* add_entry() gives a caller an entry nobody else has.
LEMMA AddEntryOk ==
  ASSUME IInv, NEW w \in Client, NEW type \in Adds, AddEntry(w, type)
  PROVE  IInv'
<1>1. PICK e : e = Entry(Len(group) + 1, term, "command")
  OBVIOUS
<1>2. e \in Entries /\ e.idx = Len(group) + 1 /\ e.term = term
  BY <1>1, Numbers DEF Entries, Entry
<1>3. PICK r : r = [status |-> "added", type |-> type, idx |-> e.idx, term |-> e.term]
  OBVIOUS
<1>4. /\ Added(e) /\ calls' = [calls EXCEPT ![w] = r]
      /\ UNCHANGED <<plan, decided, term, past, leads, commit, observed, output, fiberVars, smVars, phase>>
  BY <1>1, <1>3 DEF AddEntry
<1>5. /\ CallsOk(calls, work, applied, executed, LeaderLogs, group, term, decided)
      /\ History(LeaderLogs, group, term, decided)
  BY DEF IInv
<1>6. r \in CallRecords /\ r.status = "added" /\ r.type = type /\ r.idx = Len(group) + 1 /\ r.term = term
  BY <1>2, <1>3 DEF CallRecords, Statuses, Entries
<1>7. ASSUME NEW H2, History(H2, group', term, decided), Extend(LeaderLogs, term, H2, term),
             H2[term] = group', Begins(group, group', decided)
      PROVE  CallsOk(calls', work, applied, executed, H2, group', term, decided)
  <2>1. CallsOk(calls, work, applied, executed, H2, group', term, decided)
    <3>1. decided <= decided
      BY Numbers
    <3> QED BY <1>5, <1>7, <3>1, CallsStay
  <2>2. Created(r, H2, term)
    <3>1. /\ group' = Append(group, e) /\ group \in Seq(Entries) /\ Len(group) \in Nat /\ term \in Nat \ {0}
      BY <1>4, Numbers DEF Added
    <3>2. Len(group') = Len(group) + 1 /\ group'[Len(group) + 1] = e
      BY <3>1
    <3> QED BY <1>2, <1>6, <1>7, <3>1, <3>2 DEF Created
  <2>3. CallOk(r, work, applied, executed, H2, group', term, decided) /\ Entered(r)
    BY <1>6, <2>2 DEF CallOk, Entered, Waits, Truth
  <2>4. calls \in [Client -> CallRecords] /\ Distinct(calls)
    BY <1>5 DEF CallsOk
  <2>5. /\ calls' \in [Client -> CallRecords] /\ calls'[w] = r
        /\ \A v \in Client : v # w => calls'[v] = calls[v]
    BY <1>4, <1>6, <2>4
  <2>6. \A v \in Client : CallOk(calls'[v], work, applied, executed, H2, group', term, decided)
    BY <2>1, <2>3, <2>5 DEF CallsOk
  <2>7. ASSUME NEW v \in Client, v # w, Entered(calls[v])
        PROVE  calls[v].idx # r.idx \/ calls[v].term # r.term
    <3>1. Created(calls[v], LeaderLogs, term)
      BY <1>5, <2>7 DEF CallsOk, CallOk
    <3>2. calls[v].term = term => calls[v].idx \in 1..Len(group)
      <4>1. LeaderLogs[term] = group
        BY <1>5, HistoryIs
      <4> QED BY <3>1, <4>1 DEF Created
    <3> QED BY <1>6, <3>2, Numbers
  <2>8. Distinct(calls')
    BY <2>4, <2>5, <2>7 DEF Distinct
  <2> QED BY <2>5, <2>6, <2>8 DEF CallsOk
<1> QED BY <1>2, <1>4, <1>7, AddedOk

\* A majority has an entry: what is decided grows.
LEMMA DecideOk ==
  ASSUME IInv, Decide
  PROVE  IInv'
<1>1. PICK n \in (decided + 1)..Len(group) : group[n].term = term /\ decided' = n
  BY DEF Decide
<1>2. UNCHANGED <<plan, group, term, past, fsmVars, fiberVars, smVars, callVars, phase>>
  BY DEF Decide
<1>3. /\ plan \in DOMAIN Plans /\ PastLogs(past, term)
      /\ History(LeaderLogs, group, term, decided)
      /\ OwnLog(log, commit, leads, LeaderLogs, group, term, decided)
      /\ Pipe(work, queue, todo, applied, observed, phase = "running", group, decided, Index)
      /\ observed <= commit /\ Ahead(output, Index, observed)
      /\ Machine(machine, executed, group, Index, applied)
      /\ CallsOk(calls, work, applied, executed, LeaderLogs, group, term, decided)
  BY DEF IInv
<1>4. History(LeaderLogs, group, term, n)
  BY <1>1, <1>3, NewDecision
<1>5. n \in Nat /\ decided <= n /\ Begins(group, group, decided) /\ Index <= Index
  BY <1>1, Numbers DEF Begins
<1>6. Extend(LeaderLogs, term, LeaderLogs, term)
  BY <1>3, HistoryIs DEF Extend, Begins
<1>7. leads \in BOOLEAN
  BY <1>3 DEF OwnLog
<1>8. OwnLog(log, commit, leads, LeaderLogs, group, term, n)
  BY <1>3, <1>4, <1>5, <1>6, <1>7, OwnStays
<1>9. Pipe(work, queue, todo, applied, observed, phase = "running", group, n, Index)
  BY <1>3, <1>5, Numbers, PipeStays
<1>10. CallsOk(calls, work, applied, executed, LeaderLogs, group, term, n)
  BY <1>3, <1>4, <1>5, <1>6, CallsStay
<1>11. LeaderLogs' = LeaderLogs /\ Index' = Index
  BY <1>2 DEF LeaderLogs, Index, fsmVars
<1> QED BY <1>1, <1>2, <1>3, <1>4, <1>8, <1>9, <1>10, <1>11
        DEF IInv, fsmVars, fiberVars, smVars, callVars

\* become_leader(), here or elsewhere, on a log that a leader may have.
LEMMA NewLeaderOk ==
  ASSUME IInv, NEW self \in BOOLEAN, NEW base, NewLeader(self, base), LeaderLike(base, LeaderLogs, term),
         self => LastIdx(log) = Len(base) /\ Agrees(log, base, LastIdx(log))
  PROVE  IInv'
<1>1. /\ plan \in DOMAIN Plans /\ PastLogs(past, term) /\ History(LeaderLogs, group, term, decided)
      /\ OwnLog(log, commit, leads, LeaderLogs, group, term, decided)
      /\ CallsOk(calls, work, applied, executed, LeaderLogs, group, term, decided)
  BY DEF IInv
<1>2. PICK e : e = Entry(Len(base) + 1, term + 1, "dummy")
  OBVIOUS
<1>3. /\ group' = Append(base, e) /\ log' = (IF self THEN EmplaceBack(log, e) ELSE log)
      /\ term' = term + 1 /\ leads' = self /\ past' = [past EXCEPT ![term] = group]
      /\ UNCHANGED <<plan, decided, commit, observed, output, fiberVars, smVars, phase>>
      /\ calls' = calls
  BY <1>2 DEF NewLeader, callVars
<1>4. /\ decided \in Nat /\ Len(base) \in Nat /\ base \in Seq(Entries) /\ group \in Seq(Entries)
      /\ term \in Nat \ {0} /\ Len(group) \in Nat /\ decided <= Len(group)
  BY Numbers DEF LeaderLike
<1>5. e \in Entries /\ e.idx = Len(base) + 1 /\ e.term = term + 1
  BY <1>2, <1>4 DEF Entries, Entry
<1>6. term + 1 <= MaxTerm
  <2>1. term < Plans[plan].terms
    BY DEF NewLeader, Plan, Scenarios
  <2>2. Plans[plan].terms \in 1..MaxTerm /\ MaxTerm \in Nat
    BY <1>1, BoundsAssumption
  <2> QED BY <1>4, <2>1, <2>2
<1>7. Begins(group, base, decided)
  <2>1. decided <= Len(base) /\ SubSeq(base, 1, decided) = SubSeq(group, 1, decided)
    BY <1>4 DEF NewLeader
  <2>2. \A j \in 1..decided : SubSeq(base, 1, decided)[j] = base[j]
    BY <1>4, <2>1
  <2>3. \A j \in 1..decided : SubSeq(group, 1, decided)[j] = group[j]
    BY <1>4
  <2> QED BY <2>1, <2>2, <2>3 DEF Begins
<1>8. PICK t2, H2 : /\ t2 = term + 1
                    /\ H2 = [s \in 1..t2 |-> IF s = t2 THEN Append(base, e) ELSE LeaderLogs[s]]
  OBVIOUS
<1>9. AddsEntry(LeaderLogs, group, term, decided, base, e, t2, H2)
  BY <1>1, <1>4, <1>5, <1>7, <1>8 DEF AddsEntry
<1>10. /\ History(H2, Append(base, e), t2, decided) /\ Extend(LeaderLogs, term, H2, t2)
       /\ Begins(group, Append(base, e), decided) /\ decided <= decided
  BY <1>4, <1>9, NewEntry
<1>11. OwnLog(log', commit, self, H2, Append(base, e), t2, decided) /\ log'.snapshot = log.snapshot
  <2>1. CASE self
    <3>1. PICK m : m = log' /\ Emplaced(m, log, e)
      BY <1>3, <2>1 DEF Emplaced
    <3>2. LastIdx(log) = Len(base) /\ Agrees(log, base, LastIdx(log))
      BY <2>1
    <3>3. OwnLog(m, commit, self, H2, Append(base, e), t2, decided) /\ m.snapshot = log.snapshot
      BY <1>1, <1>9, <3>1, <3>2, OwnAppends
    <3> QED BY <3>1, <3>3
  <2>2. CASE ~self
    <3>1. log' = log
      BY <1>3, <2>2
    <3>2. OwnLog(log, commit, self, H2, Append(base, e), t2, decided)
      BY <1>1, <1>10, <2>2, OwnStays
    <3> QED BY <3>1, <3>2
  <2> QED BY <2>1, <2>2
<1>12. CallsOk(calls, work, applied, executed, H2, Append(base, e), t2, decided)
  BY <1>1, <1>10, CallsStay
<1>13. Leaves(past', group, past, term, term')
  BY <1>3, <1>4 DEF Leaves
<1>14. term' = t2 /\ leads' = self /\ group' = Append(base, e) /\ term' <= MaxTerm
  BY <1>3, <1>6, <1>8
<1>15. /\ AddsEntry(LeaderLogs, group, term, decided, base, e, term', H2)
       /\ OwnLog(log', commit, leads', H2, group', term', decided)
       /\ CallsOk(calls', work, applied, executed, H2, group', term', decided)
  BY <1>3, <1>9, <1>11, <1>12, <1>14
<1> QED BY <1>3, <1>11, <1>13, <1>14, <1>15, EntryAdded

\* This server wins an election.
LEMMA WholeLogOk ==
  ASSUME IInv, NewLeader(TRUE, WholeLog)
  PROVE  IInv'
<1>1. History(LeaderLogs, group, term, decided) /\ OwnLog(log, commit, leads, LeaderLogs, group, term, decided)
  BY DEF IInv
<1>2. PICK b : b = WholeLog /\ IsWhole(b, log, group)
  BY DEF WholeLog, IsWhole
<1>3. PICK self \in BOOLEAN : self = TRUE /\ NewLeader(self, b)
  BY <1>2
<1>4. decided \in Nat /\ group \in Seq(Entries) /\ Len(group) \in Nat /\ decided <= Len(group)
  BY Numbers
<1>5. b \in Seq(Entries) /\ Len(b) \in Nat
  BY <1>1, <1>2, WholeLogIs
<1>6. Begins(group, b, decided) /\ (decided > 0 => b[Len(b)].term >= group[decided].term)
  <2>1. /\ decided <= Len(b) /\ SubSeq(b, 1, decided) = SubSeq(group, 1, decided)
        /\ decided > 0 => b[Len(b)].term >= group[decided].term
    BY <1>3, <1>4, <1>5 DEF NewLeader
  <2>2. \A j \in 1..decided : SubSeq(b, 1, decided)[j] = b[j]
    BY <1>4, <1>5, <2>1
  <2>3. \A j \in 1..decided : SubSeq(group, 1, decided)[j] = group[j]
    BY <1>4
  <2> QED BY <2>1, <2>2, <2>3 DEF Begins
<1>7. LeaderLike(b, LeaderLogs, term) /\ Len(b) = LastIdx(log) /\ Agrees(log, b, LastIdx(log))
  BY <1>1, <1>2, <1>6, WholeLogIsLeaderLike
<1> QED BY <1>3, <1>7, NewLeaderOk

\* Another server does.
LEMMA OtherLeaderOk ==
  ASSUME IInv, NEW base \in Prefixes, NewLeader(FALSE, base)
  PROVE  IInv'
<1>1. History(LeaderLogs, group, term, decided) /\ PastLogs(past, term)
  BY DEF IInv
<1>2. PICK self \in BOOLEAN : self = FALSE /\ NewLeader(self, base)
  OBVIOUS
<1>3. PICK l \in {past[t] : t \in 1..MaxTerm} \cup {group} : \E n \in 0..Len(l) : base = SubSeq(l, 1, n)
  BY DEF Prefixes
<1>4. LeaderLike(l, LeaderLogs, term)
  <2>1. term \in 1..term /\ LeaderLogs[term] = group /\ \A s \in 1..term : LeaderLike(LeaderLogs[s], LeaderLogs, term)
    BY <1>1, HistoryIs
  <2>2. CASE l = group
    BY <2>1, <2>2
  <2>3. CASE l # group
    <3>1. PICK t \in 1..MaxTerm : l = past[t]
      BY <1>3, <2>3
    <3>2. CASE t >= term
      <4>1. l = << >>
        BY <1>1, <3>1, <3>2 DEF PastLogs
      <4> QED BY <4>1 DEF LeaderLike
    <3>3. CASE ~(t >= term)
      <4>1. t \in 1..term /\ t # term
        BY <3>3, Numbers, BoundsAssumption
      <4>2. LeaderLogs[t] = l
        BY <3>1, <4>1 DEF LeaderLogs, Logs
      <4> QED BY <2>1, <4>1, <4>2
    <3> QED BY <3>2, <3>3
  <2> QED BY <2>2, <2>3
<1>5. LeaderLike(base, LeaderLogs, term)
  BY <1>3, <1>4, PrefixIsLeaderLike
<1> QED BY <1>2, <1>5, NewLeaderOk

\* What changes the log and commit index of this server, and its snapshot perhaps.
LEMMA LogChanges ==
  ASSUME IInv, UNCHANGED <<groupVars, leads, observed, fiberVars, smVars, callVars, phase>>,
         OwnLog(log', commit', leads, LeaderLogs, group, term, decided), commit <= commit',
         Index <= Index', Ahead(output', Index', observed)
  PROVE  IInv'
<1>1. /\ plan \in DOMAIN Plans /\ PastLogs(past, term)
      /\ History(LeaderLogs, group, term, decided)
      /\ Pipe(work, queue, todo, applied, observed, phase = "running", group, decided, Index)
      /\ Machine(machine, executed, group, Index, applied)
      /\ CallsOk(calls, work, applied, executed, LeaderLogs, group, term, decided)
  BY DEF IInv
<1>2. Begins(group, group, decided) /\ decided <= decided
  BY Numbers DEF Begins
<1>3. PICK s2 \in Nat : s2 = Index' /\ Index <= s2
  BY OwnNumbers DEF Index
<1>4. Pipe(work, queue, todo, applied, observed, phase = "running", group, decided, s2)
  BY <1>1, <1>2, <1>3, Numbers, PipeStays
<1>5. Machine(machine, executed, group, s2, applied)
  BY <1>1, <1>2, <1>3, Numbers, MachineStays
<1>6. LeaderLogs' = LeaderLogs
  BY DEF LeaderLogs, groupVars
<1>7. observed <= commit'
  <2>1. commit' \in Nat
    BY OwnNumbers
  <2> QED BY <2>1, Numbers
<1> QED BY <1>1, <1>3, <1>4, <1>5, <1>6, <1>7 DEF IInv, groupVars, fiberVars, smVars, callVars

\* fsm::append_entries() on a follower.
LEMMA AppendEntriesOk ==
  ASSUME IInv, NEW q \in 1..Len(group), NEW c \in {0} \cup (commit + 1)..MinOf(q, decided), AppendEntries(q, c)
  PROVE  IInv'
<1>1. /\ History(LeaderLogs, group, term, decided) /\ Ahead(output, Index, observed)
      /\ OwnLog(log, commit, leads, LeaderLogs, group, term, decided)
  BY DEF IInv
<1>2. c \in Nat /\ c <= decided
  BY Numbers DEF MinOf
<1>3. PICK m, c2 : m = log' /\ c2 = commit' /\ m = MaybeAppend(log, SubSeq(group, 1, q)) /\ c2 = MaxOf(commit, MinOf(c, q))
  BY DEF AppendEntries
<1>4. OwnLog(m, c2, leads, LeaderLogs, group, term, decided) /\ m.snapshot = log.snapshot /\ commit <= c2
  BY <1>1, <1>2, <1>3, OwnTakesEntries DEF AppendEntries
<1>5. Index' = Index /\ Index <= Index
  BY <1>3, <1>4, Numbers DEF Index
<1>6. UNCHANGED <<groupVars, leads, observed, output, fiberVars, smVars, callVars, phase>>
  BY DEF AppendEntries
<1> QED BY <1>1, <1>3, <1>4, <1>5, <1>6, LogChanges

\* maybe_commit() on the leader.
LEMMA LeaderCommitOk ==
  ASSUME IInv, LeaderCommit
  PROVE  IInv'
<1>1. /\ History(LeaderLogs, group, term, decided) /\ Ahead(output, Index, observed)
      /\ OwnLog(log, commit, leads, LeaderLogs, group, term, decided)
  BY DEF IInv
<1>2. leads /\ commit <= decided /\ commit' = decided /\ log' = log
  BY Numbers DEF LeaderCommit
<1>3. OwnLog(log, decided, leads, LeaderLogs, group, term, decided)
  BY <1>1, <1>2, OwnCommits
<1>4. Index' = Index /\ Index <= Index
  BY <1>2, Numbers DEF Index
<1>5. UNCHANGED <<groupVars, leads, observed, output, fiberVars, smVars, callVars, phase>>
  BY DEF LeaderCommit
<1> QED BY <1>1, <1>2, <1>3, <1>4, <1>5, LogChanges

\* A snapshot of the leader replaces the log's beginning.
LEMMA InstallSnapshotOk ==
  ASSUME IInv, NEW i \in 1..decided, InstallSnapshot(i)
  PROVE  IInv'
<1>1. /\ History(LeaderLogs, group, term, decided)
      /\ OwnLog(log, commit, leads, LeaderLogs, group, term, decided)
  BY DEF IInv
<1>2. i \in Nat /\ i <= decided /\ i > commit /\ i > log.snapshot.idx /\ ~leads /\ i \in 1..Len(group)
  BY Numbers DEF InstallSnapshot, Index
<1>3. PICK snp : snp = Snapshot(i, group[i].term)
  OBVIOUS
<1>4. snp.idx = i /\ snp.term = group[i].term /\ snp.term \in Nat
  BY <1>1, <1>2, <1>3, HistoryIs DEF Snapshot
<1>5. PICK m, c2 : m = log' /\ c2 = commit' /\ m = ApplySnapshot(log, snp, 0, 0) /\ c2 = i
  BY <1>3 DEF InstallSnapshot
<1>6. Snapshots(log, commit, group, decided, i, snp, 0, 0, m, c2)
  BY <1>2, <1>4, <1>5, Numbers DEF Snapshots, MaxOf
<1>7. OwnLog(m, c2, leads, LeaderLogs, group, term, decided) /\ m.snapshot = snp
  BY <1>1, <1>2, <1>6, OwnSnapshot
<1>8. Index' = i /\ Index <= i /\ commit <= i /\ observed <= i
  BY <1>2, <1>4, <1>5, <1>7, Numbers DEF Index
<1>9. output' = [kind |-> "remote", idx |-> i]
  BY DEF InstallSnapshot
<1>10. Ahead(output', Index', observed)
  BY <1>2, <1>8, <1>9 DEF Ahead, Outputs
<1>11. UNCHANGED <<groupVars, leads, observed, fiberVars, smVars, callVars, phase>>
  BY DEF InstallSnapshot
<1> QED BY <1>5, <1>7, <1>8, <1>10, <1>11, LogChanges

----------------------------------------------------------------------------
(* The callers' actions.                                                   *)

\* What the invariant says of the calls.
Answers(cs) == CallsOk(cs, work, applied, executed, LeaderLogs, group, term, decided)
AnswerOk(c) == CallOk(c, work, applied, executed, LeaderLogs, group, term, decided)

\* Only the calls change.
LEMMA CallsChange ==
  ASSUME IInv, UNCHANGED <<groupVars, fsmVars, fiberVars, smVars>>,
         phase' = phase \/ phase' # "running", Answers(calls')
  PROVE  IInv'
<1>1. LeaderLogs' = LeaderLogs /\ Index' = Index
  BY DEF LeaderLogs, Index, groupVars, fsmVars
<1>2. Pipe(work, queue, todo, applied, observed, phase = "running", group, decided, Index)
  BY DEF IInv
<1>3. PICK run : run = (phase' = "running")
  OBVIOUS
<1>4. Pipe(work, queue, todo, applied, observed, run, group, decided, Index)
  <2>1. CASE phase' = phase
    BY <1>2, <1>3, <2>1
  <2>2. CASE phase' # "running"
    <3>1. ~run /\ queue \in Seq(Items) /\ todo \in Seq(Tasks)
      BY <1>2, <1>3, <2>2 DEF Pipe
    <3> QED BY <1>2, <3>1, PipeStops
  <2> QED BY <2>1, <2>2
<1> QED BY <1>1, <1>3, <1>4 DEF IInv, Answers, groupVars, fsmVars, fiberVars, smVars

\* One caller is told something.
LEMMA OneAnswer ==
  ASSUME IInv, NEW w \in Client, NEW r, AnswerOk(r),
         Entered(r) => Entered(calls[w]) /\ r.idx = calls[w].idx /\ r.term = calls[w].term
  PROVE  Answers([calls EXCEPT ![w] = r])
<1>1. CallsOk(calls, work, applied, executed, LeaderLogs, group, term, decided)
  BY DEF IInv
<1>2. calls \in [Client -> CallRecords] /\ r \in CallRecords
  BY <1>1 DEF CallsOk, AnswerOk, CallOk
<1>3. PICK cs2 : cs2 = [calls EXCEPT ![w] = r]
  OBVIOUS
<1>4. /\ DOMAIN cs2 = Client /\ cs2 = [v \in Client |-> cs2[v]] /\ cs2[w] = r
      /\ \A v \in Client : v # w => cs2[v] = calls[v]
  BY <1>2, <1>3
<1>5. \A v \in Client : CallOk(cs2[v], work, applied, executed, LeaderLogs, group, term, decided)
  BY <1>1, <1>4 DEF CallsOk, AnswerOk
<1>6. Follows(cs2, calls)
  BY <1>4 DEF Follows
<1> QED BY <1>1, <1>3, <1>4, <1>5, <1>6, CallsFollow DEF Answers

\* A caller that is told nothing definite.
LEMMA UnknownOk ==
  ASSUME IInv, NEW w \in Client, NEW outcome, outcome \notin {"ok", "dropped"},
         UNCHANGED <<groupVars, fsmVars, fiberVars, smVars>>, phase' = phase,
         calls' = [calls EXCEPT ![w] = Told(calls[w], outcome)]
  PROVE  IInv'
<1>1. PICK r : r = Told(calls[w], outcome)
  OBVIOUS
<1>2. AnswerOk(r) /\ ~Entered(r)
  BY <1>1, CallUnknown DEF AnswerOk
<1>3. Answers(calls')
  BY <1>1, <1>2, OneAnswer
<1> QED BY <1>3, CallsChange

\* A caller without a reply.
LEMMA LoseReplyOk ==
  ASSUME IInv, NEW w \in Client, LoseReply(w)
  PROVE  IInv'
<1>1. /\ calls' = [calls EXCEPT ![w] = Told(calls[w], "unknown")] /\ phase' = phase
      /\ UNCHANGED <<groupVars, fsmVars, fiberVars, smVars>>
  BY DEF LoseReply
<1>2. "unknown" \notin {"ok", "dropped"}
  OBVIOUS
<1> QED BY <1>1, <1>2, UnknownOk

\* A caller that gives up.
LEMMA CancelOk ==
  ASSUME IInv, NEW w \in Client, Cancel(w)
  PROVE  IInv'
<1>1. /\ calls' = [calls EXCEPT ![w] = Told(calls[w], "aborted")] /\ phase' = phase
      /\ UNCHANGED <<groupVars, fsmVars, fiberVars, smVars>>
  BY DEF Cancel
<1>2. "aborted" \notin {"ok", "dropped"}
  OBVIOUS
<1> QED BY <1>1, <1>2, UnknownOk

\* read_barrier().
LEMMA ReadBarrierOk ==
  ASSUME IInv, NEW w \in Client, ReadBarrier(w)
  PROVE  IInv'
<1>1. PICK r : r = [status |-> IF decided <= applied THEN "ok" ELSE "waiting",
                    type |-> "read", idx |-> decided, term |-> 0]
  OBVIOUS
<1>2. /\ r \in CallRecords /\ r.status \in {"ok", "waiting"} /\ r.type = "read" /\ r.idx = decided
      /\ r.status = "ok" => decided <= applied
  BY <1>1, Numbers DEF CallRecords, Statuses
<1>3. AnswerOk(r) /\ ~Entered(r)
  BY <1>2, Numbers DEF AnswerOk, CallOk, Entered, Waits, Truth, Adds
<1>4. calls' = [calls EXCEPT ![w] = r]
  BY <1>1 DEF ReadBarrier
<1>5. Answers(calls')
  BY <1>3, <1>4, OneAnswer
<1> QED BY <1>5, CallsChange DEF ReadBarrier

\* trigger_snapshot() touches nothing the invariant speaks of.
LEMMA TriggerSnapshotOk ==
  ASSUME IInv, TriggerSnapshot
  PROVE  IInv'
<1>1. Answers(calls')
  BY DEF TriggerSnapshot, IInv, Answers
<1> QED BY <1>1, CallsChange DEF TriggerSnapshot

\* abort() leaves the work in hand.
LEMMA AbortOk ==
  ASSUME IInv, Abort
  PROVE  IInv'
<1>1. Answers(calls')
  BY DEF Abort, IInv, Answers
<1>2. phase' # "running"
  BY DEF Abort
<1> QED BY <1>1, <1>2, CallsChange DEF Abort

\* The waiters of a stopped server are told nothing.
LEMMA StoppedOk ==
  ASSUME IInv, Stopped
  PROVE  IInv'
<1>1. CallsOk(calls, work, applied, executed, LeaderLogs, group, term, decided)
  BY DEF IInv
<1>2. PICK cs2 : /\ cs2 = calls'
                 /\ cs2 = [w \in Client |-> IF calls[w].status = "waiting"
                                            THEN Told(calls[w], "stopped") ELSE calls[w]]
  BY DEF Stopped
<1>3. ASSUME NEW v \in Client
      PROVE  /\ CallOk(cs2[v], work, applied, executed, LeaderLogs, group, term, decided)
             /\ Entered(cs2[v]) => /\ Entered(calls[v])
                                   /\ cs2[v].idx = calls[v].idx /\ cs2[v].term = calls[v].term
  <2>1. CASE calls[v].status = "waiting"
    <3>1. cs2[v] = Told(calls[v], "stopped")
      BY <1>2, <2>1
    <3> QED BY <3>1, CallUnknown
  <2>2. CASE calls[v].status # "waiting"
    <3>1. cs2[v] = calls[v]
      BY <1>2, <2>2
    <3> QED BY <1>1, <3>1 DEF CallsOk
  <2> QED BY <2>1, <2>2
<1>4. DOMAIN cs2 = Client /\ cs2 = [v \in Client |-> cs2[v]]
  BY <1>2
<1>5. Answers(calls')
  BY <1>1, <1>2, <1>3, <1>4, CallsFollow DEF Answers, Follows
<1>6. phase' # "running"
  BY DEF Stopped
<1> QED BY <1>5, <1>6, CallsChange DEF Stopped

\* wait_for_entry(), when the fate of the entry is known.
LEMMA VerdictOk ==
  ASSUME IInv, NEW w \in Client, calls[w].status = "added", Settled(calls[w])
  PROVE  LET r == Told(calls[w], Verdict(calls[w]))
         IN  AnswerOk(r) /\ (Entered(r) => /\ Entered(calls[w])
                                           /\ r.idx = calls[w].idx /\ r.term = calls[w].term)
<1>1. PICK c, T : c = calls[w] /\ T = TermFor(log, c.idx)
  OBVIOUS
<1>2. CallOk(c, work, applied, executed, LeaderLogs, group, term, decided)
  BY <1>1 DEF IInv, CallsOk
<1>3. Entered(c) /\ c.type \in Adds /\ c.idx \in Nat /\ c.term \in Nat
  <2>1. c.type \in Adds /\ c.status = "added"
    BY <1>1, <1>2 DEF CallOk
  <2> QED BY <1>2, <2>1 DEF Entered, CallOk, CallRecords
<1>4. /\ History(LeaderLogs, group, term, decided)
      /\ OwnLog(log, commit, leads, LeaderLogs, group, term, decided)
      /\ Machine(machine, executed, group, Index, applied)
  BY DEF IInv
<1>5. Created(c, LeaderLogs, term) /\ c.term \in 1..term /\ c.idx \in Nat \ {0}
  <2>1. Created(c, LeaderLogs, term)
    BY <1>2, <1>3 DEF CallOk
  <2>2. c.term \in 1..term /\ c.idx \in 1..Len(LeaderLogs[c.term])
    BY <2>1 DEF Created
  <2> QED BY <1>3, <2>1, <2>2
<1>6. c.idx <= commit /\ (c.type = "committed" \/ c.idx <= applied)
  BY <1>1 DEF Settled
<1>7. c.idx \in 1..decided /\ c.idx \in 1..Len(group) /\ c.idx <= decided
  BY <1>3, <1>5, <1>6, Numbers
<1>8. /\ T = NoTerm \/ (T \in Nat /\ T = group[c.idx].term)
      /\ T = NoTerm => c.idx < Index
  BY <1>1, <1>3, <1>4, <1>5, <1>6, CommittedTerm DEF Index
<1>9. PICK o : /\ o = Verdict(c)
               /\ o = IF T = NoTerm
                      THEN IF c.type = "committed" /\ log.snapshot.term = c.term THEN "ok" ELSE "unknown"
                      ELSE IF T # c.term THEN "dropped"
                      ELSE IF c.type = "applied" /\ log.snapshot.idx >= c.idx THEN "unknown" ELSE "ok"
  BY <1>1 DEF Verdict
<1>10. CASE o = "ok" /\ T = NoTerm
  <2>1. c.type = "committed" /\ log.snapshot.term = c.term /\ c.idx < Index
    BY <1>8, <1>9, <1>10
  <2>2. Index \in 1..decided /\ Index \in 1..Len(group)
    BY <1>5, <2>1, Numbers
  <2>3. group[Index].term = c.term
    BY <1>4, <2>1, <2>2 DEF OwnLog, SnapshotMatches, Index
  <2>4. Begins(group, LeaderLogs[c.term], Index)
    BY <1>4, <2>2, <2>3, HistoryIs DEF LeaderLike
  <2>5. c.idx \in 1..Index
    BY <1>5, <2>1, Numbers
  <2>6. group[c.idx] = LeaderLogs[c.term][c.idx]
    BY <2>4, <2>5 DEF Begins
  <2>7. Decided(c, group, decided)
    BY <1>5, <1>7, <2>6 DEF Decided, Created
  <2>8. /\ AnswerOk(Told(c, "ok")) /\ Told(c, "ok").idx = c.idx /\ Told(c, "ok").term = c.term
    BY <1>2, <1>3, <2>1, <2>7, CallSucceeds DEF AnswerOk
  <2> QED BY <1>1, <1>3, <1>9, <1>10, <2>8
<1>11. CASE o = "ok" /\ T # NoTerm
  <2>1. T = c.term /\ ~(c.type = "applied" /\ log.snapshot.idx >= c.idx) /\ group[c.idx].term = c.term
    BY <1>8, <1>9, <1>11
  <2>2. Decided(c, group, decided)
    BY <1>7, <2>1 DEF Decided
  <2>3. c.type = "applied" => \E e \in executed : e.idx = c.idx /\ e.term = c.term
    <3> SUFFICES ASSUME c.type = "applied" PROVE \E e \in executed : e.idx = c.idx /\ e.term = c.term
      OBVIOUS
    <3>1. c.idx \in 1..applied /\ c.idx > Index
      BY <1>5, <1>6, <2>1, Numbers DEF Index
    <3>2. group[c.idx] \in executed
      BY <1>4, <3>1 DEF Machine
    <3>3. group[c.idx].idx = c.idx
      BY <1>4, <1>7, HistoryIs
    <3> QED BY <2>1, <3>2, <3>3
  <2>4. /\ AnswerOk(Told(c, "ok")) /\ Told(c, "ok").idx = c.idx /\ Told(c, "ok").term = c.term
    BY <1>2, <1>3, <2>2, <2>3, CallSucceeds DEF AnswerOk
  <2> QED BY <1>1, <1>3, <1>9, <1>11, <2>4
<1>12. CASE o = "dropped"
  <2>1. T # c.term /\ T # NoTerm /\ group[c.idx].term # c.term
    BY <1>8, <1>9, <1>12
  <2>2. Dead(c, group, decided)
    <3>1. c.idx <= c.idx
      BY <1>3
    <3> QED BY <1>7, <2>1, <3>1 DEF Dead
  <2>3. /\ AnswerOk(Told(c, "dropped")) /\ Told(c, "dropped").idx = c.idx /\ Told(c, "dropped").term = c.term
    BY <1>2, <1>3, <2>2, CallFails DEF AnswerOk
  <2> QED BY <1>1, <1>3, <1>9, <1>12, <2>3
<1>13. CASE o = "unknown"
  <2>1. AnswerOk(Told(c, o)) /\ ~Entered(Told(c, o))
    BY <1>13, CallUnknown DEF AnswerOk
  <2> QED BY <1>1, <1>9, <2>1
<1>14. o \in {"ok", "dropped", "unknown"}
  BY <1>9
<1> QED BY <1>10, <1>11, <1>12, <1>13, <1>14

\* The loser of two waiters at one index beyond what is committed here.
LEMMA LoserOk ==
  ASSUME IInv, NEW v \in Client, Entered(calls[v]), calls[v].type = "committed" => calls[v].idx > commit
  PROVE  LET r == Told(calls[v], Loser(calls[v]))
         IN  AnswerOk(r) /\ (Entered(r) => r.idx = calls[v].idx /\ r.term = calls[v].term)
<1>1. PICK c, T : c = calls[v] /\ T = TermFor(log, commit)
  OBVIOUS
<1>2. CallOk(c, work, applied, executed, LeaderLogs, group, term, decided)
  BY <1>1 DEF IInv, CallsOk
<1>3. c.idx \in Nat /\ c.term \in Nat
  BY <1>2 DEF CallOk, CallRecords
<1>4. /\ History(LeaderLogs, group, term, decided)
      /\ OwnLog(log, commit, leads, LeaderLogs, group, term, decided)
  BY DEF IInv
<1>5. commit <= commit /\ commit \in Nat
  BY Numbers
<1>6. /\ T = NoTerm \/ (T \in Nat /\ (commit > 0 => T = group[commit].term))
      /\ commit = 0 => T \in {NoTerm, 0}
  BY <1>1, <1>4, <1>5, CommittedTerm
<1>7. CASE T > c.term
  <2>1. commit > 0 /\ T = group[commit].term
    BY <1>3, <1>5, <1>6, <1>7 DEF NoTerm
  <2>2. c.type = "committed" => Dead(c, group, decided)
    <3> SUFFICES ASSUME c.type = "committed" PROVE Dead(c, group, decided)
      OBVIOUS
    <3>1. commit \in 1..decided /\ commit <= c.idx
      BY <1>1, <1>3, <2>1, Numbers
    <3> QED BY <1>7, <2>1, <3>1 DEF Dead
  <2>3. /\ AnswerOk(Told(c, "dropped")) /\ Told(c, "dropped").idx = c.idx /\ Told(c, "dropped").term = c.term
    BY <1>1, <1>2, <2>2, CallFails DEF AnswerOk
  <2>4. Loser(c) = "dropped"
    BY <1>1, <1>7 DEF Loser
  <2> QED BY <1>1, <2>3, <2>4
<1>8. CASE ~(T > c.term)
  <2>1. Loser(c) = "unknown"
    BY <1>1, <1>8 DEF Loser
  <2>2. AnswerOk(Told(c, "unknown")) /\ ~Entered(Told(c, "unknown"))
    BY CallUnknown DEF AnswerOk
  <2> QED BY <1>1, <2>1, <2>2
<1> QED BY <1>7, <1>8

\* Of two waiters at one index the one of the higher term stays.
LEMMA EnqueueOk ==
  ASSUME IInv, NEW w \in Client, calls[w].status = "added", ~Settled(calls[w]), Enqueue(w)
  PROVE  Answers(calls')
<1>1. CallsOk(calls, work, applied, executed, LeaderLogs, group, term, decided)
  BY DEF IInv
<1>2. PICK c : c = calls[w]
  OBVIOUS
<1>3. CallOk(c, work, applied, executed, LeaderLogs, group, term, decided) /\ c.status = "added"
  BY <1>1, <1>2 DEF CallsOk
<1>4. c \in CallRecords /\ c.idx \in Nat /\ c.type \in Adds /\ Entered(c) /\ Created(c, LeaderLogs, term)
  <2>1. c \in CallRecords /\ c.type \in Adds
    BY <1>3 DEF CallOk
  <2> QED BY <1>3, <2>1 DEF Entered, CallOk, CallRecords
<1>5. (c.type = "committed" => c.idx > commit) /\ c.idx > applied
  BY <1>2, <1>4, Numbers DEF Settled, Adds
<1>6. PICK rivals : rivals = {v \in Waiting(calls, c.type) : calls[v].idx = c.idx}
  OBVIOUS
<1>7. PICK cs2 : /\ cs2 = calls'
                 /\ cs2 = [v \in Client |->
                            IF v = w /\ \A x \in rivals : calls[x].term < c.term THEN [c EXCEPT !.status = "waiting"]
                            ELSE IF v = w \/ (v \in rivals /\ calls[v].term < c.term)
                                 THEN Told(calls[v], Loser(calls[v]))
                            ELSE calls[v]]
  BY <1>2, <1>6 DEF Enqueue
<1>8. DOMAIN cs2 = Client /\ cs2 = [v \in Client |-> cs2[v]]
  BY <1>7
<1>9. ASSUME NEW v \in Client
      PROVE  /\ AnswerOk(cs2[v])
             /\ Entered(cs2[v]) => /\ Entered(calls[v])
                                   /\ cs2[v].idx = calls[v].idx /\ cs2[v].term = calls[v].term
  <2>1. CASE v = w /\ cs2[v] = [c EXCEPT !.status = "waiting"]
    <3>1. PICK r : r = [c EXCEPT !.status = "waiting"]
      OBVIOUS
    <3>2. /\ r \in CallRecords /\ r.status = "waiting" /\ r.type = c.type /\ r.idx = c.idx /\ r.term = c.term
      BY <1>4, <3>1 DEF CallRecords, Statuses
    <3>3. Waits(r, work, applied)
      BY <1>4, <1>5, <3>2, Numbers DEF Waits
    <3>4. Created(r, LeaderLogs, term)
      BY <1>4, <3>2 DEF Created
    <3>5. AnswerOk(r)
      BY <1>4, <3>2, <3>3, <3>4 DEF AnswerOk, CallOk, Truth
    <3> QED BY <1>2, <1>4, <2>1, <3>1, <3>2, <3>5
  <2>2. CASE (v = w \/ v \in rivals) /\ cs2[v] = Told(calls[v], Loser(calls[v]))
    <3>1. calls[v].type = c.type /\ calls[v].idx = c.idx /\ (v # w => calls[v].status = "waiting")
      BY <1>2, <1>6, <2>2 DEF Waiting
    <3>2. Entered(calls[v])
      BY <1>2, <1>4, <3>1 DEF Entered
    <3>3. calls[v].type = "committed" => calls[v].idx > commit
      BY <1>5, <3>1
    <3> QED BY <2>2, <3>2, <3>3, LoserOk
  <2>3. CASE cs2[v] = calls[v]
    BY <1>1, <2>3 DEF CallsOk, AnswerOk
  <2> QED BY <1>7, <2>1, <2>2, <2>3
<1>10. Follows(cs2, calls) /\ \A v \in Client : AnswerOk(cs2[v])
  BY <1>9 DEF Follows
<1>11. CallsOk(cs2, work, applied, executed, LeaderLogs, group, term, decided)
  BY <1>1, <1>8, <1>10, CallsFollow DEF AnswerOk
<1>12. cs2 = calls'
  BY <1>7
<1> QED BY <1>11, <1>12 DEF Answers

\* wait_for_entry().
LEMMA WaitForEntryOk ==
  ASSUME IInv, NEW w \in Client, WaitForEntry(w)
  PROVE  IInv'
<1>1. /\ calls[w].status = "added" /\ phase' = phase /\ UNCHANGED <<groupVars, fsmVars, fiberVars, smVars>>
      /\ IF Settled(calls[w]) THEN calls' = [calls EXCEPT ![w] = Told(calls[w], Verdict(calls[w]))]
         ELSE IF phase # "running" THEN calls' = [calls EXCEPT ![w] = Told(calls[w], "stopped")]
         ELSE Enqueue(w)
  BY DEF WaitForEntry
<1>2. CASE Settled(calls[w])
  <2>1. PICK r : r = Told(calls[w], Verdict(calls[w]))
    OBVIOUS
  <2>2. AnswerOk(r) /\ (Entered(r) => Entered(calls[w]) /\ r.idx = calls[w].idx /\ r.term = calls[w].term)
    BY <1>1, <1>2, <2>1, VerdictOk
  <2>3. Answers(calls')
    BY <1>1, <1>2, <2>1, <2>2, OneAnswer
  <2> QED BY <1>1, <2>3, CallsChange
<1>3. CASE ~Settled(calls[w]) /\ phase # "running"
  <2>1. PICK r : r = Told(calls[w], "stopped")
    OBVIOUS
  <2>2. AnswerOk(r) /\ ~Entered(r)
    BY <2>1, CallUnknown DEF AnswerOk
  <2>3. calls' = [calls EXCEPT ![w] = r]
    BY <1>1, <1>3, <2>1
  <2>4. Answers(calls')
    BY <2>2, <2>3, OneAnswer
  <2> QED BY <1>1, <2>4, CallsChange
<1>4. CASE ~Settled(calls[w]) /\ phase = "running"
  <2>1. Answers(calls')
    BY <1>1, <1>4, EnqueueOk
  <2> QED BY <1>1, <2>1, CallsChange
<1> QED BY <1>2, <1>3, <1>4

----------------------------------------------------------------------------
(* The I/O fiber's actions.                                                *)

\* Only the I/O fiber's share changes.
LEMMA PipeChanges ==
  ASSUME IInv, UNCHANGED <<groupVars, leads, log, commit, work, applied, machine, executed, calls, phase>>,
         Pipe(work, queue', todo', applied, observed', phase = "running", group, decided, Index),
         observed' <= commit, Ahead(output', Index, observed')
  PROVE  IInv'
<1>1. LeaderLogs' = LeaderLogs /\ Index' = Index
  BY DEF LeaderLogs, Index, groupVars
<1> QED BY <1>1 DEF IInv, groupVars

\* A task that may be there and pushes nothing.
LEMMA RunIf ==
  ASSUME NEW p, NEW k \in Tasks, k.do # "push", NEW g, NEW d, NEW s, NEW a \in Nat
  PROVE  Run(IF p THEN <<k>> ELSE << >>, g, d, s, a, a)
<1>1. Moves(Pushed(k), g, d, s, a, a) /\ a <= a
  BY DEF Pushed, Moves, Nothing
<1>2. Run(<<k>>, g, d, s, a, a) /\ Run(<< >>, g, d, s, a, a)
  BY <1>1, RunOne, RunEmpty
<1> QED BY <1>2

\* io_fiber() polls: snapshot, entries and requests lead from the observed index to the commit index.
LEMMA PollOk ==
  ASSUME IInv, NEW m, Poll(m)
  PROVE  IInv'
<1>1. /\ History(LeaderLogs, group, term, decided) /\ Ahead(output, Index, observed)
      /\ OwnLog(log, commit, leads, LeaderLogs, group, term, decided)
      /\ Pipe(work, queue, todo, applied, observed, phase = "running", group, decided, Index)
  BY DEF IInv
<1>2. PICK seen, has : /\ seen = MaxOf(observed, log.snapshot.idx)
                       /\ has = (output # Nothing \/ seen < commit \/ m # member)
  OBVIOUS
<1>3. PICK A, B, C, D, E :
        /\ A = IF output = Nothing THEN << >> ELSE <<Do("store", output)>>
        /\ B = IF output.kind = "remote"
               THEN <<Do("push", [kind |-> "snapshot", idx |-> output.idx])>> ELSE << >>
        /\ C = IF seen < commit
               THEN <<Do("push", [kind |-> "entries", es |-> Slice(log, seen + 1, commit)])>>
               ELSE << >>
        /\ D = IF has THEN <<Do("finish", Nothing)>> ELSE << >>
        /\ E = IF wanted THEN <<Do("request", Nothing)>> ELSE << >>
  OBVIOUS
<1>4. /\ phase = "running" /\ todo = << >> /\ todo' = A \o B \o C \o D \o E
      /\ observed' = commit /\ output' = Nothing /\ queue' = queue
      /\ UNCHANGED <<groupVars, leads, log, commit, work, applied, machine, executed, calls, phase>>
  BY <1>2, <1>3 DEF Poll, smVars, callVars
<1>5. /\ seen \in Nat /\ seen <= commit /\ Index <= seen /\ observed <= seen
      /\ output.kind = "remote" => output.idx = Index /\ seen = Index
      /\ output.kind # "remote" => seen = observed
      /\ output \in Outputs
  BY <1>1, <1>2, Numbers DEF Ahead, MaxOf, Index
<1>6. Nothing \in Outputs
  BY DEF Outputs
<1>7. Run(A, group, decided, Index, observed, observed)
  <2>1. Do("store", output) \in Tasks /\ Do("store", output).do # "push"
    BY <1>5 DEF Tasks, Do
  <2>2. Run(IF output # Nothing THEN <<Do("store", output)>> ELSE << >>, group, decided, Index, observed, observed)
    BY <2>1, Numbers, RunIf
  <2> QED BY <1>3, <2>2
<1>8. Run(B, group, decided, Index, observed, seen)
  <2>1. CASE output.kind = "remote"
    <3>1. PICK v : v = [kind |-> "snapshot", idx |-> output.idx]
      OBVIOUS
    <3>2. v \in Items /\ v.kind = "snapshot" /\ v.idx = Index
      BY <1>5, <2>1, <3>1, Numbers DEF Items
    <3>3. PICK k : k = Do("push", v)
      OBVIOUS
    <3>4. k \in Tasks /\ Pushed(k) = v
      BY <3>2, <3>3 DEF Tasks, Do, Pushed
    <3>5. Moves(v, group, decided, Index, observed, seen)
      BY <1>5, <2>1, <3>2, Numbers DEF Moves, Jumps
    <3>6. Run(<<k>>, group, decided, Index, observed, seen)
      BY <1>5, <3>4, <3>5, Numbers, RunOne
    <3> QED BY <1>3, <2>1, <3>1, <3>3, <3>6
  <2>2. CASE output.kind # "remote"
    <3>1. B = << >> /\ seen = observed
      BY <1>3, <1>5, <2>2
    <3> QED BY <3>1, Numbers, RunEmpty
  <2> QED BY <2>1, <2>2
<1>9. Run(C, group, decided, Index, seen, commit)
  <2>1. CASE seen < commit
    <3>1. PICK es : es = Slice(log, seen + 1, commit)
      OBVIOUS
    <3>2. Advances(es, group, decided, seen, commit)
      <4>1. /\ IsLog(log, Entries) /\ Agrees(log, group, commit)
            /\ log.first_idx \in Nat /\ log.first_idx <= Index + 1 /\ commit <= LastIdx(log)
        BY <1>1, OwnNumbers DEF OwnLog, Index
      <4>2. PICK lo \in Nat : lo = seen + 1 /\ log.first_idx <= lo /\ lo <= commit
        BY <1>5, <2>1, <4>1, Numbers
      <4>3. PICK n \in Nat : n = commit - seen /\ n > 0 /\ commit = seen + n /\ commit - lo + 1 = n
        <5>1. commit \in Nat /\ seen \in Nat /\ seen < commit /\ lo = seen + 1
          BY <1>5, <2>1, <4>2, Numbers
        <5>2. /\ commit - seen \in Nat /\ commit - seen > 0 /\ commit = seen + (commit - seen)
              /\ commit - lo + 1 = commit - seen
          BY <5>1
        <5> QED BY <5>2
      <4>4. /\ es \in Seq(Entries) /\ Len(es) = IF lo <= commit THEN commit - lo + 1 ELSE 0
            /\ \A k \in 1..(commit - lo + 1) : es[k] = GetEntry(log, lo + k - 1)
        <5>1. es = Slice(log, lo, commit)
          BY <3>1, <4>2
        <5>2. commit \in Nat
          BY Numbers
        <5>3. /\ Slice(log, lo, commit) \in Seq(Entries)
              /\ Len(Slice(log, lo, commit)) = IF lo <= commit THEN commit - lo + 1 ELSE 0
              /\ \A k \in 1..(commit - lo + 1) : Slice(log, lo, commit)[k] = GetEntry(log, lo + k - 1)
          BY <4>1, <4>2, <5>2, SliceIs
        <5> QED BY <5>1, <5>3, Zenon
      <4>5. Len(es) = n /\ \A k \in 1..n : es[k] = GetEntry(log, lo + k - 1)
        BY <4>2, <4>3, <4>4
      <4>6. \A k \in 1..n : lo + k - 1 = seen + k /\ seen + k \in log.first_idx..commit
        BY <1>5, <4>1, <4>2, <4>3, Numbers
      <4>7. \A k \in 1..n : es[k] = group[seen + k]
        BY <4>1, <4>5, <4>6 DEF Agrees
      <4> QED BY <4>3, <4>4, <4>5, <4>7, Numbers DEF Advances
    <3>3. PICK v : v = [kind |-> "entries", es |-> es]
      OBVIOUS
    <3>4. v \in Items /\ v.kind = "entries" /\ v.es = es
      BY <3>2, <3>3 DEF Items, Advances
    <3>5. PICK k : k = Do("push", v)
      OBVIOUS
    <3>6. k \in Tasks /\ Pushed(k) = v
      BY <3>4, <3>5 DEF Tasks, Do, Pushed
    <3>7. Moves(v, group, decided, Index, seen, commit)
      BY <3>2, <3>4 DEF Moves
    <3>8. Run(<<k>>, group, decided, Index, seen, commit)
      BY <1>5, <3>6, <3>7, Numbers, RunOne
    <3> QED BY <1>3, <2>1, <3>1, <3>3, <3>5, <3>8
  <2>2. CASE ~(seen < commit)
    <3>1. C = << >> /\ seen = commit
      BY <1>3, <1>5, <2>2, Numbers
    <3> QED BY <3>1, Numbers, RunEmpty
  <2> QED BY <2>1, <2>2
<1>10. Run(D, group, decided, Index, commit, commit) /\ Run(E, group, decided, Index, commit, commit)
  <2>1. /\ Do("finish", Nothing) \in Tasks /\ Do("finish", Nothing).do # "push"
        /\ Do("request", Nothing) \in Tasks /\ Do("request", Nothing).do # "push"
    BY <1>6 DEF Tasks, Do
  <2>2. /\ Run(IF has THEN <<Do("finish", Nothing)>> ELSE << >>, group, decided, Index, commit, commit)
        /\ Run(IF wanted THEN <<Do("request", Nothing)>> ELSE << >>, group, decided, Index, commit, commit)
    BY <2>1, Numbers, RunIf
  <2> QED BY <1>3, <2>2
<1>11. Run(A \o B \o C \o D \o E, group, decided, Index, observed, commit)
  <2>1. Run(A \o B, group, decided, Index, observed, seen)
    BY <1>5, <1>7, <1>8, Numbers, RunConcat
  <2>2. Run(A \o B \o C, group, decided, Index, observed, commit)
    BY <1>5, <1>9, <2>1, Numbers, RunConcat
  <2>3. Run(A \o B \o C \o D, group, decided, Index, observed, commit)
    BY <1>10, <2>2, Numbers, RunConcat
  <2> QED BY <1>10, <2>3, Numbers, RunConcat
<1>12. Pipe(work, queue, todo', applied, commit, phase = "running", group, decided, Index)
  <2>1. PICK td : td = A \o B \o C \o D \o E
    OBVIOUS
  <2>2. PICK run : run = (phase = "running") /\ run
    BY <1>4
  <2>3. Run(td, group, decided, Index, observed, commit) /\ observed <= commit /\ commit <= decided
    BY <1>11, <2>1, Numbers
  <2>4. Pipe(work, queue, << >>, applied, observed, run, group, decided, Index)
    BY <1>1, <1>4, <2>2
  <2>5. Pipe(work, queue, td, applied, commit, run, group, decided, Index)
    BY <2>2, <2>3, <2>4, Numbers, PipePoll
  <2> QED BY <1>4, <2>1, <2>2, <2>5
<1>13. Ahead(output', Index, commit) /\ commit <= commit
  BY <1>4, <1>6, Numbers DEF Ahead, Nothing
<1>14. Pipe(work, queue', todo', applied, observed', phase = "running", group, decided, Index)
  BY <1>4, <1>12
<1> QED BY <1>4, <1>13, <1>14, PipeChanges

\* The I/O fiber does its next task, which leaves x in its place.
LEMMA TaskDone ==
  ASSUME IInv, todo # << >>, Head(todo).do # "push",
         NEW x \in Seq(Tasks), \A n \in Nat : Run(x, group, decided, Index, n, n),
         todo' = x \o Tail(todo), queue' = queue, observed' = observed, output' = output,
         UNCHANGED <<groupVars, leads, log, commit, work, applied, machine, executed, calls, phase>>
  PROVE  IInv'
<1>1. /\ Pipe(work, queue, todo, applied, observed, phase = "running", group, decided, Index)
      /\ observed <= commit /\ Ahead(output, Index, observed)
  BY DEF IInv
<1>2. Pipe(work, queue, x \o Tail(todo), applied, observed, phase = "running", group, decided, Index)
  BY <1>1, PipeSkip
<1> QED BY <1>1, <1>2, PipeChanges

\* The snapshot descriptor is stored.
LEMMA StoreSnapshotOk ==
  ASSUME IInv, StoreSnapshot
  PROVE  IInv'
<1>1. << >> \in Seq(Tasks) /\ \A n \in Nat : Run(<< >>, group, decided, Index, n, n)
  BY RunEmpty
<1>2. todo # << >> /\ Head(todo).do # "push" /\ todo' = Tail(todo)
  BY DEF StoreSnapshot, Head1
<1>3. todo \in Seq(Tasks)
  BY DEF IInv, Pipe
<1>4. << >> \o Tail(todo) = Tail(todo)
  BY <1>2, <1>3
<1>5. /\ queue' = queue /\ observed' = observed /\ output' = output
      /\ UNCHANGED <<groupVars, leads, log, commit, work, applied, machine, executed, calls, phase>>
  BY DEF StoreSnapshot, fsmVars
<1> QED BY <1>1, <1>2, <1>4, <1>5, TaskDone

\* Messages that move nothing.
LEMMA IdlePush ==
  ASSUME NEW kind \in {"removed", "trigger"}, NEW g, NEW d, NEW s
  PROVE  /\ <<Do("push", [kind |-> kind])>> \in Seq(Tasks)
         /\ \A n \in Nat : Run(<<Do("push", [kind |-> kind])>>, g, d, s, n, n)
<1>1. PICK v : v = [kind |-> kind]
  OBVIOUS
<1>2. v \in Items /\ v.kind = kind
  BY <1>1 DEF Items
<1>3. PICK k \in Tasks : k = Do("push", v) /\ Pushed(k) = v
  <2>1. Do("push", v) \in Tasks /\ Pushed(Do("push", v)) = v
    BY <1>2 DEF Tasks, Do, Pushed
  <2> QED BY <2>1
<1>4. ASSUME NEW n \in Nat PROVE Run(<<k>>, g, d, s, n, n)
  <2>1. Moves(v, g, d, s, n, n) /\ n <= n
    BY <1>2 DEF Moves
  <2> QED BY <1>3, <2>1, RunOne
<1>5. <<k>> \in Seq(Tasks)
  OBVIOUS
<1> QED BY <1>1, <1>3, <1>4, <1>5

\* The end of process_fsm_output().
LEMMA FinishBatchOk ==
  ASSUME IInv, FinishBatch
  PROVE  IInv'
<1>1. PICK x : x = IF ~leads /\ ~member THEN <<Do("push", [kind |-> "removed"])>> ELSE << >>
  OBVIOUS
<1>2. x \in Seq(Tasks) /\ \A n \in Nat : Run(x, group, decided, Index, n, n)
  <2>1. CASE x = << >>
    BY <2>1, RunEmpty
  <2>2. CASE x = <<Do("push", [kind |-> "removed"])>>
    BY <2>2, IdlePush
  <2> QED BY <1>1, <2>1, <2>2
<1>3. todo # << >> /\ Head(todo).do # "push" /\ todo' = x \o Tail(todo)
  BY <1>1 DEF FinishBatch, Head1
<1>4. /\ queue' = queue /\ observed' = observed /\ output' = output
      /\ UNCHANGED <<groupVars, leads, log, commit, work, applied, machine, executed, calls, phase>>
  BY DEF FinishBatch, fsmVars, smVars, callVars
<1> QED BY <1>2, <1>3, <1>4, TaskDone

\* process_server_requests().
LEMMA ServerRequestOk ==
  ASSUME IInv, ServerRequest
  PROVE  IInv'
<1>1. PICK x : x = <<Do("push", [kind |-> "trigger"])>>
  OBVIOUS
<1>2. x \in Seq(Tasks) /\ \A n \in Nat : Run(x, group, decided, Index, n, n)
  BY <1>1, IdlePush
<1>3. todo # << >> /\ Head(todo).do # "push" /\ todo' = x \o Tail(todo)
  BY <1>1 DEF ServerRequest, Head1
<1>4. /\ queue' = queue /\ observed' = observed /\ output' = output
      /\ UNCHANGED <<groupVars, leads, log, commit, work, applied, machine, executed, calls, phase>>
  BY DEF ServerRequest, fsmVars, smVars
<1> QED BY <1>2, <1>3, <1>4, TaskDone

\* push_eventually().
LEMMA PushOk ==
  ASSUME IInv, Push
  PROVE  IInv'
<1>1. /\ Pipe(work, queue, todo, applied, observed, phase = "running", group, decided, Index)
      /\ observed <= commit /\ Ahead(output, Index, observed)
  BY DEF IInv
<1>2. PICK run : run = (phase = "running") /\ run
  BY DEF Push
<1>3. todo # << >> /\ Head(todo).do = "push" /\ queue' = Append(queue, Head(todo).arg) /\ todo' = Tail(todo)
  BY DEF Push, Head1
<1>4. Pipe(work, queue, todo, applied, observed, run, group, decided, Index)
  BY <1>1, <1>2
<1>5. Pipe(work, Append(queue, Head(todo).arg), Tail(todo), applied, observed, run, group, decided, Index)
  BY <1>2, <1>3, <1>4, PipePush
<1>6. Pipe(work, queue', todo', applied, observed, phase = "running", group, decided, Index)
  BY <1>2, <1>3, <1>5
<1>7. /\ observed' = observed /\ output' = output
      /\ UNCHANGED <<groupVars, leads, log, commit, work, applied, machine, executed, calls, phase>>
  BY DEF Push, fsmVars, smVars, callVars
<1> QED BY <1>1, <1>6, <1>7, PipeChanges

\* The I/O fiber ends.
LEMMA IoStopsOk ==
  ASSUME IInv, IoStops
  PROVE  IInv'
<1>1. /\ Pipe(work, queue, todo, applied, observed, phase = "running", group, decided, Index)
      /\ observed <= commit /\ Ahead(output, Index, observed)
  BY DEF IInv
<1>2. PICK run : run = (phase = "running") /\ ~run
  BY DEF IoStops
<1>3. todo' = << >> /\ queue' = queue /\ << >> \in Seq(Tasks) /\ queue \in Seq(Items)
  BY <1>1 DEF IoStops, Pipe
<1>4. Pipe(work, queue, << >>, applied, observed, run, group, decided, Index)
  BY <1>1, <1>2, <1>3, PipeStops
<1>5. Pipe(work, queue', todo', applied, observed, phase = "running", group, decided, Index)
  BY <1>2, <1>3, <1>4
<1>6. /\ observed' = observed /\ output' = output
      /\ UNCHANGED <<groupVars, leads, log, commit, work, applied, machine, executed, calls, phase>>
  BY DEF IoStops, fsmVars, smVars, callVars
<1> QED BY <1>1, <1>5, <1>6, PipeChanges

----------------------------------------------------------------------------
(* The applier fiber's actions.                                            *)

\* Only the applier fiber's share changes.
LEMMA WorkChanges ==
  ASSUME IInv, UNCHANGED <<groupVars, fsmVars, todo>>,
         Pipe(work', queue', todo, applied', observed, phase' = "running", group, decided, Index),
         Machine(machine', executed', group, Index, applied'),
         CallsOk(calls', work', applied', executed', LeaderLogs, group, term, decided)
  PROVE  IInv'
<1>1. LeaderLogs' = LeaderLogs /\ Index' = Index
  BY DEF LeaderLogs, Index, groupVars, fsmVars
<1> QED BY <1>1 DEF IInv, groupVars, fsmVars

\* Entries are not being applied.
LEMMA CallsIdle ==
  ASSUME NEW cs, NEW w, NEW a \in Nat, NEW x, NEW H, NEW g, NEW t, NEW d, CallsOk(cs, w, a, x, H, g, t, d),
         NEW w2, w2.kind # "applying"
  PROVE  CallsOk(cs, w2, a, x, H, g, t, d)
<1>1. ASSUME NEW v \in Client PROVE CallOk(cs[v], w2, a, x, H, g, t, d)
  <2>1. CallOk(cs[v], w, a, x, H, g, t, d)
    BY DEF CallsOk
  <2>2. Waits(cs[v], w2, a) /\ a <= a
    BY <2>1 DEF CallOk, Waits
  <2> QED BY <2>1, <2>2, CallKeeps
<1> QED BY <1>1 DEF CallsOk

\* The next item of the queue.
LEMMA NextMoves ==
  ASSUME NEW q, NEW td, NEW a, NEW o, NEW run, NEW g, NEW d, NEW s,
         Pipe(Nothing, q, td, a, o, run, g, d, s), run, q # << >>
  PROVE  Head(q) \in Items /\ Tail(q) \in Seq(Items) /\ \E b \in 0..o : Moves(Head(q), g, d, s, a, b)
<1>1. q \in Seq(Items) /\ o \in Nat
  BY DEF Pipe
<1>2. PICK b \in 0..o, e \in 0..o :
        Working(Nothing, g, d, s, a, b) /\ Chain(q, g, d, s, b, e) /\ Run(td, g, d, s, e, o)
  BY DEF Pipe
<1>3. a = b
  BY <1>2 DEF Working, Nothing
<1>4. PICK f \in 0..e : Moves(Head(q), g, d, s, a, f)
  BY <1>1, <1>2, <1>3, ChainHead
<1>5. f \in 0..o /\ Head(q) \in Items /\ Tail(q) \in Seq(Items)
  BY <1>1, <1>2, HeadTailProperties
<1> QED BY <1>4, <1>5

\* The applier fiber takes an item and, for entries, tells who waits for their commit.
LEMMA PopOk ==
  ASSUME IInv, Pop
  PROVE  IInv'
<1>1. PICK run : run = (phase = "running") /\ run
  BY DEF Pop
<1>2. /\ work = Nothing /\ queue # << >> /\ queue' = Tail(queue) /\ work.kind = "nothing"
      /\ UNCHANGED <<groupVars, fsmVars, todo, smVars>>
  BY DEF Pop, Nothing
<1>3. /\ History(LeaderLogs, group, term, decided)
      /\ OwnLog(log, commit, leads, LeaderLogs, group, term, decided)
      /\ Pipe(work, queue, todo, applied, observed, phase = "running", group, decided, Index)
      /\ Machine(machine, executed, group, Index, applied)
      /\ CallsOk(calls, work, applied, executed, LeaderLogs, group, term, decided)
  BY DEF IInv
<1>4. Pipe(Nothing, queue, todo, applied, observed, run, group, decided, Index)
  BY <1>1, <1>2, <1>3
<1>5. PICK v \in Items : v = Head(queue)
  BY <1>1, <1>2, <1>4, NextMoves
<1>6. PICK b \in 0..observed : Moves(v, group, decided, Index, applied, b)
  BY <1>1, <1>2, <1>4, <1>5, NextMoves
<1>7. machine' = machine /\ executed' = executed /\ applied' = applied
  BY <1>2 DEF smVars
<1>8. ASSUME phase' = phase, CallsOk(calls', work', applied, executed, LeaderLogs, group, term, decided),
             \A n \in 0..observed : Moves(v, group, decided, Index, applied, n)
                                      => Working(work', group, decided, Index, applied, n)
      PROVE  IInv'
  <2>1. Pipe(work', Tail(queue), todo, applied, observed, run, group, decided, Index)
    BY <1>1, <1>2, <1>4, <1>5, <1>8, PipePop
  <2>2. Pipe(work', queue', todo, applied', observed, phase' = "running", group, decided, Index)
    BY <1>1, <1>2, <1>7, <1>8, <2>1
  <2> QED BY <1>2, <1>3, <1>7, <1>8, <2>2, WorkChanges
<1>9. CASE v.kind = "entries" /\ phase' = phase /\ calls' = Notify(calls, v.es, "committed")
           /\ work' = [kind |-> "applying", es |-> v.es]
  <2>1. Advances(v.es, group, decided, applied, b)
    BY <1>6, <1>9 DEF Moves
  <2>2. work'.kind = "applying" /\ work'.es = v.es
    BY <1>9
  <2>3. \A n \in 0..observed : Moves(v, group, decided, Index, applied, n)
                                 => Working(work', group, decided, Index, applied, n)
    BY <1>9, <2>2 DEF Moves, Working
  <2>4. StillWait(calls, {u \in Waiting(calls, "committed") : calls[u].idx <= b}, work, applied, work', applied)
    <3> SUFFICES ASSUME NEW u \in Client, u \notin {y \in Waiting(calls, "committed") : calls[y].idx <= b},
                        Waits(calls[u], work, applied)
                 PROVE  Waits(calls[u], work', applied)
      BY DEF StillWait
    <3>1. b = applied + Len(v.es) /\ b \in Nat
      BY <2>1 DEF Advances
    <3>2. calls[u].idx \in Nat
      BY <1>3 DEF CallsOk, CallRecords
    <3> QED BY <2>2, <3>1, <3>2 DEF Waits, Waiting
  <2>5. CallsOk(Notify(calls, v.es, "committed"), work', applied, executed, LeaderLogs, group, term, decided)
    <3>1. "committed" \in Adds /\ "committed" # "applied" /\ applied \in Nat /\ applied <= applied
      BY Numbers DEF Adds
    <3> QED BY <1>3, <2>1, <2>4, <3>1, NotifyOk
  <2> QED BY <1>8, <1>9, <2>3, <2>5
<1>10. CASE v.kind = "snapshot" /\ phase' = phase /\ calls' = calls
            /\ work' = [kind |-> "loading", idx |-> v.idx]
  <2>1. work'.kind = "loading" /\ work'.idx = v.idx /\ work'.kind # "applying"
    BY <1>10
  <2>2. \A n \in 0..observed : Moves(v, group, decided, Index, applied, n)
                                 => Working(work', group, decided, Index, applied, n)
    BY <1>10, <2>1 DEF Moves, Working
  <2>3. CallsOk(calls, work', applied, executed, LeaderLogs, group, term, decided)
    BY <1>3, <2>1, Numbers, CallsIdle
  <2> QED BY <1>8, <1>10, <2>2, <2>3
<1>11. CASE v.kind = "removed" /\ phase' = phase /\ calls' = Signal(Drop(calls, MaxIdx), applied)
            /\ work' = work
  <2>1. \A n \in 0..observed : Moves(v, group, decided, Index, applied, n)
                                 => Working(work', group, decided, Index, applied, n)
    BY <1>2, <1>11 DEF Moves, Working
  <2>2. StillWait(calls, {u \in Client : calls[u].idx <= MaxIdx}, work, applied, work, applied)
    BY DEF StillWait
  <2>3. CallsOk(Drop(calls, MaxIdx), work, applied, executed, LeaderLogs, group, term, decided)
    BY <1>3, <2>2, Numbers, DropOk
  <2>4. CallsOk(Signal(Drop(calls, MaxIdx), applied), work, applied, executed, LeaderLogs, group, term, decided)
    BY <2>3, Numbers, SignalOk
  <2> QED BY <1>8, <1>11, <2>1, <2>4
<1>12. CASE v.kind = "trigger" /\ TermFor(log, applied) # NoTerm /\ phase' = phase /\ calls' = calls
            /\ work' = [kind |-> "taking", idx |-> applied, term |-> TermFor(log, applied), trailing |-> 0]
  <2>1. PICK T : T = TermFor(log, applied)
    OBVIOUS
  <2>2. T \in Nat /\ (applied > 0 => T = group[applied].term)
    <3>1. applied \in Nat /\ applied <= commit
      BY Numbers
    <3> QED BY <1>3, <1>12, <2>1, <3>1, CommittedTerm
  <2>3. work'.kind = "taking" /\ work'.idx = applied /\ work'.term = T /\ work'.trailing = 0
    BY <1>12, <2>1
  <2>4. \A n \in 0..observed : Moves(v, group, decided, Index, applied, n)
                                 => Working(work', group, decided, Index, applied, n)
    BY <1>12, <2>2, <2>3 DEF Moves, Working
  <2>5. CallsOk(calls, work', applied, executed, LeaderLogs, group, term, decided)
    <3>1. work'.kind # "applying"
      BY <2>3
    <3> QED BY <1>3, <3>1, Numbers, CallsIdle
  <2> QED BY <1>8, <1>12, <2>4, <2>5
<1>13. CASE phase' = "dead" /\ calls' = calls /\ work' = work
  <2>1. Tail(queue) \in Seq(Items) /\ todo \in Seq(Tasks)
    BY <1>1, <1>2, <1>3, <1>4, NextMoves DEF Pipe
  <2>2. PICK run2 : run2 = (phase' = "running") /\ ~run2
    BY <1>13
  <2>3. Pipe(work, Tail(queue), todo, applied, observed, run2, group, decided, Index)
    BY <1>3, <2>1, <2>2, PipeStops
  <2>4. Pipe(work', queue', todo, applied', observed, phase' = "running", group, decided, Index)
    BY <1>2, <1>7, <1>13, <2>2, <2>3
  <2> QED BY <1>2, <1>3, <1>7, <1>13, <2>4, WorkChanges
<1> QED BY <1>5, <1>9, <1>10, <1>11, <1>12, <1>13 DEF Pop

\* A batch that takes the state machine to b ends in the decided entry of that index.
LEMMA LastOfBatch ==
  ASSUME NEW H, NEW g, NEW t, NEW d, History(H, g, t, d),
         NEW es, NEW a \in Nat, NEW b, Advances(es, g, d, a, b)
  PROVE  /\ es[Len(es)].idx = b /\ es[Len(es)].term \in Nat /\ es[Len(es)].term = g[b].term
         /\ b \in Nat /\ b <= d /\ a < b /\ b = a + Len(es) /\ Len(es) \in Nat /\ es[1].idx = a + 1
<1>1. /\ es \in Seq(Entries) /\ Len(es) > 0 /\ b = a + Len(es) /\ b <= d
      /\ \A k \in 1..Len(es) : es[k] = g[a + k]
  BY DEF Advances
<1>2. Len(es) \in Nat /\ Len(es) \in 1..Len(es) /\ 1 \in 1..Len(es) /\ b \in Nat /\ a < b
  BY <1>1
<1>3. es[Len(es)] = g[b] /\ es[1] = g[a + 1]
  BY <1>1, <1>2
<1>4. b \in 1..Len(g) /\ a + 1 \in 1..Len(g)
  BY <1>1, <1>2, HistoryIs
<1>5. g[b].idx = b /\ g[a + 1].idx = a + 1 /\ g[b] \in Entries
  BY <1>4, HistoryIs
<1> QED BY <1>1, <1>2, <1>3, <1>5 DEF Entries

\* What the applier fiber has in hand.
LEMMA WorkIs ==
  ASSUME IInv
  PROVE  \E b \in 0..observed :
           /\ Working(work, group, decided, Index, applied, b)
           /\ work.kind = "applying" => Advances(work.es, group, decided, applied, b)
           /\ work.kind = "loading" => Jumps(work.idx, decided, Index, applied, b)
           /\ work.kind = "taking" => /\ work.idx = applied /\ applied = b /\ work.trailing \in Nat
                                      /\ work.term \in Nat /\ (applied > 0 => work.term = group[applied].term)
<1>1. PICK b \in 0..observed : Working(work, group, decided, Index, applied, b)
  BY DEF IInv, Pipe
<1> QED BY <1>1 DEF Working, Nothing

\* state_machine::apply() has returned: who waits for it is told, a snapshot may be due.
LEMMA AppliedOk ==
  ASSUME IInv, Applied
  PROVE  IInv'
<1>1. /\ History(LeaderLogs, group, term, decided)
      /\ Pipe(work, queue, todo, applied, observed, phase = "running", group, decided, Index)
      /\ Machine(machine, executed, group, Index, applied)
      /\ CallsOk(calls, work, applied, executed, LeaderLogs, group, term, decided)
  BY DEF IInv
<1>2. work.kind = "applying" /\ UNCHANGED <<groupVars, fsmVars, todo>> /\ queue' = queue /\ phase' = phase
  BY DEF Applied
<1>3. PICK b \in 0..observed : Advances(work.es, group, decided, applied, b)
  BY <1>2, WorkIs
<1>4. PICK es : es = work.es
  OBVIOUS
<1>5. Advances(es, group, decided, applied, b) /\ applied \in Nat
  BY <1>3, <1>4, Numbers
<1>6. /\ es[Len(es)].idx = b /\ es[Len(es)].term \in Nat /\ es[Len(es)].term = group[b].term
      /\ b \in Nat /\ b <= decided /\ applied < b /\ b = applied + Len(es) /\ Len(es) \in Nat
  BY <1>1, <1>5, LastOfBatch
<1>7. PICK x : x = executed \cup {es[k] : k \in 1..Len(es)}
  OBVIOUS
<1>8. PICK told : told = Notify(calls, es, "applied")
  OBVIOUS
<1>9. /\ applied' = b /\ machine' = machine \o Effects(es) /\ executed' = x
      /\ \/ /\ work' = [kind |-> "taking", idx |-> b, term |-> es[Len(es)].term, trailing |-> SnapshotTrailing]
            /\ calls' = told
         \/ work' = Nothing /\ calls' = Signal(told, b)
  BY <1>4, <1>6, <1>7, <1>8 DEF Applied
<1>10. work'.kind # "applying"
  BY <1>9 DEF Nothing
<1>11. Machine(machine', executed', group, Index, b)
  <2>1. group \in Seq(Entries) /\ decided \in Nat /\ Index \in Nat /\ decided <= Len(group)
    BY Numbers
  <2>2. Machine(machine \o Effects(es), executed \cup {es[k] : k \in 1..Len(es)}, group, Index, b)
    BY <1>1, <1>5, <2>1, MachineAdvances
  <2> QED BY <1>7, <1>9, <2>2
<1>12. CallsOk(told, work', b, x, LeaderLogs, group, term, decided)
  <2>1. StillWait(calls, {u \in Waiting(calls, "applied") : calls[u].idx <= b}, work, applied, work', b)
    <3> SUFFICES ASSUME NEW u \in Client, u \notin {y \in Waiting(calls, "applied") : calls[y].idx <= b},
                        Waits(calls[u], work, applied)
                 PROVE  Waits(calls[u], work', b)
      BY DEF StillWait
    <3>1. calls[u].idx \in Nat
      BY <1>1 DEF CallsOk, CallRecords
    <3> QED BY <1>2, <1>4, <1>6, <1>10, <3>1 DEF Waits, Waiting, Adds
  <2>2. "applied" \in Adds /\ executed \subseteq x /\ \A k \in 1..Len(es) : es[k] \in x
    BY <1>7 DEF Adds
  <2>3. applied <= b
    BY <1>5, <1>6
  <2>4. CallsOk(Notify(calls, es, "applied"), work', b, x, LeaderLogs, group, term, decided)
    BY <1>1, <1>5, <1>6, <2>1, <2>2, <2>3, NotifyOk
  <2> QED BY <1>8, <2>4
<1>13. CallsOk(calls', work', b, x, LeaderLogs, group, term, decided)
  <2>1. b <= b
    BY <1>6
  <2>2. CallsOk(Signal(told, b), work', b, x, LeaderLogs, group, term, decided)
    BY <1>6, <1>12, <2>1, SignalOk
  <2> QED BY <1>9, <1>12, <2>2
<1>14. Working(work', group, decided, Index, b, b)
  <2>1. CASE work' = Nothing
    BY <2>1 DEF Working
  <2>2. CASE work' = [kind |-> "taking", idx |-> b, term |-> es[Len(es)].term, trailing |-> SnapshotTrailing]
    <3>1. work'.kind = "taking" /\ work'.idx = b /\ work'.term = es[Len(es)].term /\ work'.trailing \in Nat
      BY <2>2, BoundsAssumption
    <3> QED BY <1>6, <3>1 DEF Working
  <2> QED BY <1>9, <2>1, <2>2
<1>15. Pipe(work', queue, todo, b, observed, phase = "running", group, decided, Index)
  <2>1. ASSUME NEW n \in 0..observed, Working(work, group, decided, Index, applied, n) PROVE n = b
    <3>1. Advances(es, group, decided, applied, n)
      BY <1>2, <1>4, <2>1 DEF Working, Nothing
    <3> QED BY <1>6, <3>1 DEF Advances
  <2> QED BY <1>1, <1>14, <2>1, PipeWorked
<1> QED BY <1>1, <1>2, <1>9, <1>11, <1>13, <1>15, WorkChanges

\* state_machine::load_snapshot() has returned: the state machine jumps.
LEMMA SnapshotLoadedOk ==
  ASSUME IInv, SnapshotLoaded
  PROVE  IInv'
<1>1. /\ Pipe(work, queue, todo, applied, observed, phase = "running", group, decided, Index)
      /\ CallsOk(calls, work, applied, executed, LeaderLogs, group, term, decided)
  BY DEF IInv
<1>2. /\ work.kind = "loading" /\ UNCHANGED <<groupVars, fsmVars, todo>> /\ queue' = queue /\ phase' = phase
      /\ executed' = executed /\ work' = Nothing
  BY DEF SnapshotLoaded
<1>3. PICK b \in 0..observed : Jumps(work.idx, decided, Index, applied, b)
  BY <1>2, WorkIs
<1>4. work.idx = b /\ applied <= b /\ b <= decided /\ b <= Index /\ b \in Nat /\ b <= b
  BY <1>3, Numbers DEF Jumps
<1>5. applied' = b /\ machine' = Effects(SubSeq(group, 1, b)) /\ calls' = Signal(Drop(calls, b), b)
  BY <1>4 DEF SnapshotLoaded
<1>6. Machine(machine', executed', group, Index, b)
  BY <1>4, <1>5, Numbers DEF Machine
<1>7. CallsOk(calls', work', b, executed, LeaderLogs, group, term, decided)
  <2>1. StillWait(calls, {u \in Client : calls[u].idx <= b}, work, applied, work', b)
    <3> SUFFICES ASSUME NEW u \in Client, u \notin {y \in Client : calls[y].idx <= b},
                        Waits(calls[u], work, applied)
                 PROVE  Waits(calls[u], work', b)
      BY DEF StillWait
    <3>1. calls[u].idx \in Nat /\ work'.kind # "applying"
      BY <1>1, <1>2 DEF CallsOk, CallRecords, Nothing
    <3> QED BY <1>4, <3>1 DEF Waits
  <2>2. CallsOk(Drop(calls, b), work', b, executed, LeaderLogs, group, term, decided)
    BY <1>1, <1>4, <2>1, Numbers, DropOk
  <2>3. CallsOk(Signal(Drop(calls, b), b), work', b, executed, LeaderLogs, group, term, decided)
    BY <1>4, <2>2, SignalOk
  <2> QED BY <1>5, <2>3
<1>8. Pipe(work', queue, todo, b, observed, phase = "running", group, decided, Index)
  <2>1. ASSUME NEW n \in 0..observed, Working(work, group, decided, Index, applied, n) PROVE n = b
    BY <1>2, <1>4, <2>1 DEF Working, Nothing, Jumps
  <2>2. Working(work', group, decided, Index, b, b)
    BY <1>2 DEF Working
  <2> QED BY <1>1, <2>1, <2>2, PipeWorked
<1> QED BY <1>1, <1>2, <1>5, <1>6, <1>7, <1>8, WorkChanges

\* state_machine::take_snapshot() has returned: the log is cut, unless it was cut further meanwhile.
LEMMA SnapshotTakenOk ==
  ASSUME IInv, SnapshotTaken
  PROVE  IInv'
<1>1. /\ plan \in DOMAIN Plans /\ PastLogs(past, term) /\ History(LeaderLogs, group, term, decided)
      /\ OwnLog(log, commit, leads, LeaderLogs, group, term, decided)
      /\ Pipe(work, queue, todo, applied, observed, phase = "running", group, decided, Index)
      /\ observed <= commit /\ Ahead(output, Index, observed)
      /\ Machine(machine, executed, group, Index, applied)
      /\ CallsOk(calls, work, applied, executed, LeaderLogs, group, term, decided)
  BY DEF IInv
<1>2. /\ work.kind = "taking" /\ work' = Nothing /\ calls' = Signal(calls, applied)
      /\ plan' = plan /\ past' = past /\ term' = term /\ group' = group /\ decided' = decided
      /\ leads' = leads /\ commit' = commit /\ observed' = observed /\ todo' = todo /\ queue' = queue
      /\ applied' = applied /\ machine' = machine /\ executed' = executed /\ phase' = phase
      /\ LeaderLogs' = LeaderLogs
  BY DEF SnapshotTaken, groupVars, smVars, LeaderLogs
<1>3. /\ work.idx = applied /\ work.trailing \in Nat /\ work.term \in Nat
      /\ applied > 0 => work.term = group[applied].term
  BY <1>2, WorkIs
<1>4. /\ OwnLog(log', commit, leads, LeaderLogs, group, term, decided) /\ Index' \in Nat
      /\ Index <= Index' /\ Ahead(output', Index', observed)
  <2>1. CASE work.idx > log.snapshot.idx
    <3>1. PICK snp : snp = Snapshot(applied, work.term)
      OBVIOUS
    <3>2. snp.idx = applied /\ snp.term = work.term
      BY <3>1 DEF Snapshot
    <3>3. log' = ApplySnapshot(log, snp, work.trailing, MaxIdx) /\ output' = [kind |-> "local", idx |-> applied]
      BY <1>3, <2>1, <3>1 DEF SnapshotTaken
    <3>4. applied \in Nat /\ applied > Index /\ applied <= decided /\ applied <= commit /\ Index \in Nat
          /\ applied <= observed /\ applied > 0
      BY <1>3, <2>1, Numbers DEF Index
    <3>5. commit = MaxOf(commit, applied)
      BY <3>4, Numbers DEF MaxOf
    <3>6. Snapshots(log, commit, group, decided, applied, snp, work.trailing, MaxIdx, log', commit)
      <4>1. /\ applied \in Nat /\ applied > log.snapshot.idx /\ applied <= decided
            /\ applied > commit => work.trailing = 0
        BY <3>4, Numbers DEF Index
      <4>2. snp.idx = applied /\ snp.term = group[applied].term /\ snp.term \in Nat /\ work.trailing \in Nat
        BY <1>3, <3>2, <3>4
      <4> QED BY <3>3, <3>5, <4>1, <4>2, BoundsAssumption, Zenon DEF Snapshots
    <3>7. OwnLog(log', commit, leads, LeaderLogs, group, term, decided) /\ log'.snapshot = snp
      BY <1>1, <3>4, <3>6, OwnSnapshot
    <3>8. Index' = applied
      BY <3>2, <3>7 DEF Index
    <3>9. Ahead(output', applied, observed)
      BY <3>3, <3>4 DEF Ahead, Outputs
    <3> QED BY <3>4, <3>7, <3>8, <3>9
  <2>2. CASE ~(work.idx > log.snapshot.idx)
    <3>1. log' = log /\ output' = output /\ Index' = Index
      BY <2>2 DEF SnapshotTaken, Index
    <3> QED BY <1>1, <3>1, Numbers
  <2> QED BY <2>1, <2>2
<1>5. Begins(group, group, decided) /\ decided <= decided
  BY Numbers DEF Begins
<1>6. Pipe(work', queue, todo, applied, observed, phase = "running", group, decided, Index')
  <2>1. Pipe(work, queue, todo, applied, observed, phase = "running", group, decided, Index')
    BY <1>1, <1>4, <1>5, Numbers, PipeStays
  <2>2. ASSUME NEW n \in 0..observed, Working(work, group, decided, Index', applied, n) PROVE n = applied
    BY <1>2, <2>2 DEF Working, Nothing
  <2>3. Working(work', group, decided, Index', applied, applied)
    BY <1>2 DEF Working
  <2> QED BY <2>1, <2>2, <2>3, PipeWorked
<1>7. Machine(machine, executed, group, Index', applied)
  <2>1. applied <= decided
    BY Numbers
  <2> QED BY <1>1, <1>4, <1>5, <2>1, Numbers, MachineStays
<1>8. CallsOk(calls', work', applied, executed, LeaderLogs, group, term, decided)
  <2>1. applied \in Nat /\ applied <= applied /\ work'.kind # "applying"
    BY <1>2, Numbers DEF Nothing
  <2>2. CallsOk(calls, work', applied, executed, LeaderLogs, group, term, decided)
    BY <1>1, <2>1, CallsIdle
  <2> QED BY <1>2, <2>1, <2>2, SignalOk
<1> QED BY <1>1, <1>2, <1>4, <1>6, <1>7, <1>8 DEF IInv

----------------------------------------------------------------------------
(* The invariant holds.                                                    *)

\* The initial states.
LEMMA InitOk ==
  ASSUME Init
  PROVE  IInv
<1>1. PICK e : e = Entry(1, 1, "dummy")
  OBVIOUS
<1>2. e \in Entries /\ e.idx = 1 /\ e.term = 1
  BY <1>1 DEF Entry, Entries
<1>3. /\ plan \in DOMAIN Plans /\ group = <<e>> /\ decided = 0 /\ term = 1
      /\ past = [t \in 1..MaxTerm |-> << >>] /\ leads = FALSE /\ log = NewLog(Snapshot(0, 0), << >>)
      /\ commit = 0 /\ observed = 0 /\ output = Nothing /\ todo = << >> /\ queue = << >> /\ work = Nothing
      /\ applied = 0 /\ machine = << >> /\ calls = [w \in Client |-> NoCall]
  BY <1>1 DEF Init, Scenarios
<1>4. /\ group \in Seq(Entries) /\ Len(group) = 1 /\ group[1] = e
  BY <1>2, <1>3
<1>5. PastLogs(past, term)
  <2>1. << >> \in Seq(Entries) /\ MaxTerm \in Nat /\ 1 <= MaxTerm
    BY <1>3, BoundsAssumption
  <2>2. past \in [1..MaxTerm -> Seq(Entries)] /\ \A s \in 1..MaxTerm : past[s] = << >>
    BY <1>3, <2>1
  <2> QED BY <1>3, <2>1, <2>2 DEF PastLogs
<1>6. History(LeaderLogs, group, term, decided)
  <2>1. PICK H : H = LeaderLogs
    OBVIOUS
  <2>2. H = [s \in 1..1 |-> group]
    BY <1>3, <2>1 DEF LeaderLogs, Logs
  <2>3. H \in [1..1 -> Seq(Entries)] /\ \A s \in 1..1 : H[s] = group /\ s = 1
    BY <1>4, <2>2
  <2>4. Matching(H, 1)
    <3>1. \A s \in 1..1 : \A i \in 1..Len(H[s]) : s = 1 /\ i = 1 /\ H[s] = group /\ H[s][i] = e
      BY <1>4, <2>3
    <3>2. Begins(group, group, 1) /\ H[1] = group
      BY <1>4, <2>3 DEF Begins
    <3> QED BY <1>2, <3>1, <3>2 DEF Matching
  <2>5. Complete(H, group, 1, 0)
    BY DEF Complete
  <2> QED BY <1>3, <1>4, <2>1, <2>3, <2>4, <2>5 DEF History
<1>7. OwnLog(log, commit, leads, LeaderLogs, group, term, decided)
  <2>1. PICK snp : snp = Snapshot(0, 0)
    OBVIOUS
  <2>2. snp.idx = 0 /\ snp.term = 0
    BY <2>1 DEF Snapshot
  <2>3. log = NewLog(snp, << >>)
    BY <1>3, <2>1
  <2>4. /\ log.entries = << >> /\ log.snapshot = snp /\ log.first_idx = 1
    BY <2>2, <2>3 DEF NewLog
  <2>5. IsLog(log, Entries) /\ LastIdx(log) = 0
    <3>1. LogShape(log, Entries)
      <4>1. DOMAIN log = Fields
        BY <2>3 DEF NewLog, Fields
      <4>2. log.stable_idx = 0 /\ << >> \in Seq(Entries)
        BY <2>2, <2>3 DEF NewLog
      <4> QED BY <2>4, <4>1, <4>2 DEF LogShape
    <3> QED BY <2>4, <3>1 DEF IsLog, LastIdx
  <2>6. InOrder(log, commit, decided) /\ SnapshotMatches(log, group)
    BY <1>3, <2>2, <2>4, <2>5 DEF InOrder, SnapshotMatches
  <2>7. FromLeaders(log, LeaderLogs, term) /\ Agrees(log, group, commit) /\ LeaderHasAll(log, group, leads)
    BY <1>3, <2>4, <2>5 DEF FromLeaders, Agrees, LeaderHasAll
  <2> QED BY <1>3, <2>5, <2>6, <2>7 DEF OwnLog
<1>8. Pipe(work, queue, todo, applied, observed, phase = "running", group, decided, Index)
  <2>1. << >> \in Seq(Items) /\ << >> \in Seq(Tasks) /\ 0 \in 0..0
    OBVIOUS
  <2>2. Working(work, group, decided, Index, 0, 0)
    BY <1>3 DEF Working
  <2>3. Chain(<< >>, group, decided, Index, 0, 0) /\ Run(<< >>, group, decided, Index, 0, 0)
    BY ChainEmpty, RunEmpty
  <2> QED BY <1>3, <2>1, <2>2, <2>3 DEF Pipe
<1>9. Index = 0
  BY <1>3 DEF NewLog, Snapshot, Index
<1>10. Ahead(output, Index, observed)
  BY <1>3, <1>9 DEF Ahead, Outputs, Nothing
<1>11. Machine(machine, executed, group, Index, applied)
  <2>1. Effects(SubSeq(group, 1, 0)) = << >>
    <3>1. SubSeq(group, 1, 0) = << >>
      BY <1>4
    <3> QED BY <3>1 DEF Effects
  <2> QED BY <1>3, <1>9, <2>1 DEF Machine
<1>12. CallsOk(calls, work, applied, executed, LeaderLogs, group, term, decided)
  <2>1. NoCall \in CallRecords /\ NoCall.status = "idle" /\ NoCall.type = "none"
    BY DEF NoCall, CallRecords, Statuses, Adds
  <2>2. CallOk(NoCall, work, applied, executed, LeaderLogs, group, term, decided)
    BY <2>1 DEF CallOk, Entered, Waits, Truth
  <2>3. \A w \in Client : calls[w] = NoCall
    BY <1>3
  <2> QED BY <1>3, <2>1, <2>2, <2>3 DEF CallsOk, Distinct, Entered
<1> QED BY <1>3, <1>5, <1>6, <1>7, <1>8, <1>10, <1>11, <1>12 DEF IInv

\* A step that changes nothing.
LEMMA StutterOk ==
  ASSUME IInv, UNCHANGED vars
  PROVE  IInv'
<1>1. UNCHANGED <<plan, group, decided, term, past, leads, log, commit, observed, output, todo, queue, work,
                  applied, machine, executed, calls, phase>>
  BY DEF vars, groupVars, fsmVars, fiberVars, smVars, callVars
<1>2. LeaderLogs' = LeaderLogs /\ Index' = Index
  BY <1>1 DEF LeaderLogs, Index
<1> QED BY <1>1, <1>2 DEF IInv

\* Every step of the group, of the callers and of the two fibers keeps the invariant.
LEMMA NextOk ==
  ASSUME IInv, [Next]_vars
  PROVE  IInv'
<1>1. CASE Group
  BY <1>1, OtherEntryOk, DecideOk, WholeLogOk, OtherLeaderOk, AppendEntriesOk, LeaderCommitOk,
     InstallSnapshotOk DEF Group
<1>2. CASE Callers
  <2>1. CASE \E w \in Client, type \in {"committed", "applied"} : AddEntry(w, type)
    <3>1. PICK w \in Client, type \in Adds : AddEntry(w, type)
      BY <2>1 DEF Adds
    <3> QED BY <3>1, AddEntryOk
  <2>2. CASE \E w \in Client : WaitForEntry(w) \/ LoseReply(w) \/ Cancel(w) \/ ReadBarrier(w)
    BY <2>2, WaitForEntryOk, LoseReplyOk, CancelOk, ReadBarrierOk
  <2>3. CASE TriggerSnapshot \/ Abort
    BY <2>3, TriggerSnapshotOk, AbortOk
  <2> QED BY <1>2, <2>1, <2>2, <2>3 DEF Callers
<1>3. CASE IoFiber \/ (May("leave") /\ Poll(FALSE))
  <2>1. CASE Poll(member) \/ Poll(FALSE)
    <3>1. PICK m : Poll(m)
      BY <2>1
    <3> QED BY <3>1, PollOk
  <2>2. CASE StoreSnapshot \/ Push \/ FinishBatch \/ ServerRequest \/ IoStops
    BY <2>2, StoreSnapshotOk, PushOk, FinishBatchOk, ServerRequestOk, IoStopsOk
  <2> QED BY <1>3, <2>1, <2>2 DEF IoFiber
<1>4. CASE ApplierFiber
  BY <1>4, PopOk, AppliedOk, SnapshotTakenOk, SnapshotLoadedOk DEF ApplierFiber
<1>5. CASE Stopped
  BY <1>5, StoppedOk
<1>6. CASE UNCHANGED vars
  BY <1>6, StutterOk
<1> QED BY <1>1, <1>2, <1>3, <1>4, <1>5, <1>6 DEF Next

\* The invariant holds in every reachable state.
THEOREM ServerInvariant == Spec => []IInv
<1>1. Init => IInv
  BY InitOk
<1>2. IInv /\ [Next]_vars => IInv'
  BY NextOk
<1> QED BY <1>1, <1>2, PTL DEF Spec

\* However batches of entries, snapshots of the leader and snapshots of its own follow one
\* another through the queue of the applier fiber, and whatever leaders come and go, the
\* state machine of this server is what the decided entries up to _applied_idx make of it.
THEOREM MachineTheorem == Spec => []MachineIsDecidedPrefix
<1>1. IInv => MachineIsDecidedPrefix
  <2> SUFFICES ASSUME IInv PROVE MachineIsDecidedPrefix
    OBVIOUS
  <2>1. applied <= decided
    BY Numbers
  <2>2. machine = Effects(SubSeq(group, 1, applied))
    BY DEF IInv, Machine
  <2> QED BY <2>1, <2>2 DEF MachineIsDecidedPrefix
<1> QED BY <1>1, ServerInvariant, PTL

\* An entry that another one replaced is not decided, now or later.
LEMMA DeadIsNotDecided ==
  ASSUME NEW H, NEW g, NEW t, NEW d, History(H, g, t, d), NEW c \in CallRecords,
         Dead(c, g, d), c.idx <= d
  PROVE  g[c.idx].term # c.term
<1>1. PICK n \in 1..d : n <= c.idx /\ (g[n].term > c.term \/ (n = c.idx /\ g[n].term # c.term))
  BY DEF Dead
<1>2. c.idx \in Nat /\ c.term \in Nat /\ d \in Nat /\ Len(g) \in Nat /\ d <= Len(g)
  BY HistoryIs DEF CallRecords
<1>3. c.idx \in 1..Len(g) /\ n \in 1..c.idx /\ n \in 1..Len(g)
  BY <1>1, <1>2
<1>4. g[n].term <= g[c.idx].term
  BY <1>3, TermsAscend
<1>5. g \in Seq(Entries)
  BY HistoryIs
<1>6. g[n] \in Entries /\ g[c.idx] \in Entries
  BY <1>3, <1>5
<1>7. g[n].term \in Nat /\ g[c.idx].term \in Nat
  BY <1>6 DEF Entries
<1> QED BY <1>1, <1>2, <1>4, <1>7

\* What add_entry() and read_barrier() tell their callers is true, whichever of
\* wait_for_entry(), notify_waiters(), drop_waiters() and signal_applied() says it.
THEOREM AnswersTheorem == Spec => []AnswersAreTrue
<1>1. IInv => AnswersAreTrue
  <2> SUFFICES ASSUME IInv, NEW w \in Client
               PROVE  /\ calls[w].status = "ok" =>
                           /\ calls[w].type # "read" => Has(calls[w])
                           /\ calls[w].type = "applied" =>
                                \E e \in executed : e.idx = calls[w].idx /\ e.term = calls[w].term
                           /\ calls[w].type = "read" => applied >= calls[w].idx
                      /\ calls[w].status = "dropped" /\ calls[w].type = "committed" => ~Has(calls[w])
    BY DEF AnswersAreTrue
  <2>1. PICK c : c = calls[w]
    OBVIOUS
  <2>2. /\ CallOk(c, work, applied, executed, LeaderLogs, group, term, decided)
        /\ History(LeaderLogs, group, term, decided)
    BY <2>1 DEF IInv, CallsOk
  <2>3. Truth(c, applied, executed, group, decided) /\ c \in CallRecords
    BY <2>2 DEF CallOk
  <2>4. Dead(c, group, decided) => ~Has(c)
    BY <2>2, <2>3, DeadIsNotDecided DEF Has
  <2> QED BY <2>1, <2>3, <2>4 DEF Truth, Decided, Has
<1> QED BY <1>1, ServerInvariant, PTL

\* The assertions of raft/server.cc and of fsm::apply_snapshot() never fail, but for the one on
\* trigger_snapshot(), which is another matter (TriggerAsserts).
THEOREM AssertsTheorem == Spec => []ServerAsserts
<1>1. IInv => ServerAsserts
  <2> SUFFICES ASSUME IInv PROVE ServerAsserts
    OBVIOUS
  <2>1. /\ History(LeaderLogs, group, term, decided)
        /\ OwnLog(log, commit, leads, LeaderLogs, group, term, decided)
        /\ CallsOk(calls, work, applied, executed, LeaderLogs, group, term, decided)
        /\ applied \in Nat /\ commit \in Nat /\ commit <= commit
    BY Numbers DEF IInv
  <2>2. ASSUME NEW w \in Client
        PROVE  Waits(calls[w], work, applied) /\ calls[w] \in CallRecords /\ calls[w].idx \in Nat
    BY <2>1 DEF CallsOk, CallOk, CallRecords
  <2>3. ASSUME phase = "running", work = Nothing, queue # << >>
        PROVE  LET v == Head(queue)
               IN  /\ v.kind = "entries" =>
                        /\ v.es[Len(v.es)].idx = applied + Len(v.es)
                        /\ \A w \in Waiting(calls, "committed") : calls[w].idx >= v.es[1].idx
                   /\ v.kind = "snapshot" => v.idx >= applied
    <3>1. PICK run : run = (phase = "running") /\ run
      BY <2>3
    <3>2. Pipe(Nothing, queue, todo, applied, observed, run, group, decided, Index)
      BY <2>3, <3>1 DEF IInv
    <3>3. PICK v : v = Head(queue)
      OBVIOUS
    <3>4. PICK b \in 0..observed : Moves(v, group, decided, Index, applied, b)
      BY <2>3, <3>1, <3>2, <3>3, NextMoves
    <3>5. ASSUME v.kind = "entries"
          PROVE  /\ v.es[Len(v.es)].idx = applied + Len(v.es)
                 /\ \A w \in Waiting(calls, "committed") : calls[w].idx >= v.es[1].idx
      <4>1. PICK es : es = v.es
        OBVIOUS
      <4>2. Advances(es, group, decided, applied, b)
        BY <3>4, <3>5, <4>1 DEF Moves
      <4>3. es[Len(es)].idx = b /\ b = applied + Len(es) /\ es[1].idx = applied + 1
        BY <2>1, <4>2, LastOfBatch
      <4>4. \A w \in Waiting(calls, "committed") : calls[w].idx \in Nat /\ calls[w].idx > applied
        BY <2>2 DEF Waiting, Waits, Adds
      <4>5. \A w \in Waiting(calls, "committed") : calls[w].idx >= applied + 1
        BY <2>1, <4>4
      <4> QED BY <4>1, <4>3, <4>5
    <3>6. v.kind = "snapshot" => v.idx >= applied
      BY <2>1, <3>4 DEF Moves, Jumps
    <3> QED BY <3>3, <3>5, <3>6
  <2>4. ASSUME work.kind = "applying", NEW w \in Waiting(calls, "applied")
        PROVE  calls[w].idx >= work.es[1].idx
    <3>1. PICK b \in 0..observed : Advances(work.es, group, decided, applied, b)
      BY <2>4, WorkIs
    <3>2. work.es[1].idx = applied + 1
      BY <2>1, <3>1, LastOfBatch
    <3>3. calls[w].idx \in Nat /\ calls[w].idx > applied
      BY <2>2 DEF Waiting, Waits, Adds
    <3> QED BY <2>1, <3>2, <3>3
  <2>5. work.kind = "taking" => work.idx <= observed
    BY WorkIs, Numbers
  <2>6. TermFor(log, commit) # NoTerm
    <3>1. TermFor(log, commit) = NoTerm => commit < log.snapshot.idx
      BY <2>1, CommittedTerm
    <3> QED BY <3>1, Numbers DEF Index
  <2>7. ASSUME NEW w \in Client, Settled(calls[w]), TermFor(log, calls[w].idx) = NoTerm
        PROVE  log.snapshot.idx >= calls[w].idx
    <3>1. calls[w].idx \in Nat /\ calls[w].idx <= commit
      BY <2>2, <2>7 DEF Settled
    <3>2. calls[w].idx < log.snapshot.idx
      BY <2>1, <2>7, <3>1, CommittedTerm
    <3> QED BY <3>1, <3>2, Numbers DEF Index
  <2>8. ASSUME NEW w \in Client, calls[w].status = "added", NEW v \in Waiting(calls, calls[w].type),
               calls[v].idx = calls[w].idx
        PROVE  calls[v].term # calls[w].term
    <3>1. v \in Client /\ calls[v].status = "waiting" /\ calls[v].type = calls[w].type /\ v # w
      BY <2>8 DEF Waiting
    <3>2. CallOk(calls[w], work, applied, executed, LeaderLogs, group, term, decided)
      BY <2>1 DEF CallsOk
    <3>3. calls[w].type \in Adds
      BY <2>8, <3>2 DEF CallOk
    <3>4. Entered(calls[w]) /\ Entered(calls[v])
      BY <2>8, <3>1, <3>3 DEF Entered
    <3> QED BY <2>1, <2>8, <3>1, <3>4 DEF CallsOk, Distinct
  <2> QED BY <2>3, <2>4, <2>5, <2>6, <2>7, <2>8 DEF ServerAsserts
<1> QED BY <1>1, ServerInvariant, PTL
=============================================================================
