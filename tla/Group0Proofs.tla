---------------------------- MODULE Group0Proofs ----------------------------
(* Changes of the group 0 state are linearizable: proofs about Group0 for any *)
(* servers, operations and scenarios.                                         *)
(*                                                                            *)
(* The committed commands that are not obsolete form a chain (Chain): each    *)
(* follows the state id of the one before it.  A server that has the first h  *)
(* changes and looks at any later stretch of the log finds exactly the changes*)
(* that follow (BatchIs), also when it replays commands or got its tables from*)
(* another server, since Count, the number of changes in a prefix of the log, *)
(* only grows.  A guard reads tables that are at least as new as its state id *)
(* (CommandOf), so a command that is not obsolete when it is committed was    *)
(* computed from exactly the changes before it (CommitIs).  An operation that *)
(* is over is based on a state that is not the last any more (OpOK), so that a*)
(* late copy of its entry changes nothing.                                    *)
EXTENDS Group0, SequenceTheorems, WellFoundedInduction, TLAPS

\* The least number principle, from the induction theorems of the library.
LEMMA LeastNumber ==
  ASSUME NEW S \in SUBSET Nat, S # {}
  PROVE  \E n \in S : \A m \in S : n <= m
<1> DEFINE R == {ss \in Nat \X Nat : ss[1] < ss[2]}
<1>1. IsWellFoundedOn(R, Nat)
  BY NatLessThanWellFounded DEF OpToRel
<1>2. PICK n \in S : \A m \in S : <<m, n>> \notin R
  <2> HIDE DEF R
  <2> QED BY WFMin, <1>1
<1>3. \A m \in S : ~(m < n)
  BY <1>2
<1> QED BY <1>3

----------------------------------------------------------------------------
(* The commands of a batch, one by one.                                    *)

Begun(last) == [last |-> last, cmds |-> << >>]
\* f[i]: what is known after i commands of batch b, for i up to n.
Runs(f, last, b, n) ==
  f = [i \in 0..n |-> IF i = 0 THEN Begun(last) ELSE Advance(f[i-1], b[i].cmd)]

\* The states of a batch, command by command, exist.
LEMMA RunsExist ==
  ASSUME NEW last, NEW S, NEW b \in Seq(S)
  PROVE  \E f : Runs(f, last, b, Len(b))
<1> DEFINE Bad == {n \in 0..Len(b) : ~\E f : Runs(f, last, b, n)}
<1>1. Bad = {}
  <2> SUFFICES ASSUME Bad # {} PROVE FALSE
    OBVIOUS
  <2>1. PICK n \in Bad : \A m \in Bad : n <= m
    <3>1. Bad \in SUBSET Nat
      OBVIOUS
    <3> HIDE DEF Bad
    <3> QED BY <3>1, LeastNumber
  <2>2. CASE n = 0
    <3>1. Runs([i \in 0..0 |-> Begun(last)], last, b, 0)
      BY DEF Runs
    <3> QED BY <2>1, <2>2, <3>1
  <2>3. CASE n # 0
    <3>1. n - 1 \in 0..Len(b) /\ n - 1 \notin Bad /\ n \in Nat
      BY <2>1, <2>3
    <3>2. PICK f : Runs(f, last, b, n - 1)
      BY <3>1
    <3>3. PICK g : g = [i \in 0..n |-> IF i = n THEN Advance(f[n-1], b[n].cmd) ELSE f[i]]
      OBVIOUS
    <3>4. \A i \in 0..(n-1) : f[i] = IF i = 0 THEN Begun(last) ELSE Advance(f[i-1], b[i].cmd)
      BY <3>2 DEF Runs
    <3>5. DOMAIN g = 0..n /\ g[n] = Advance(f[n-1], b[n].cmd) /\ \A i \in 0..(n-1) : g[i] = f[i]
      BY <3>1, <3>3, <2>3
    <3>6. \A i \in 0..n : g[i] = IF i = 0 THEN Begun(last) ELSE Advance(g[i-1], b[i].cmd)
      BY <3>1, <3>4, <3>5, <2>3
    <3>7. Runs(g, last, b, n)
      BY <3>3, <3>5, <3>6 DEF Runs
    <3> QED BY <2>1, <3>7
  <2> QED BY <2>2, <2>3
<1>2. Len(b) \in 0..Len(b)
  BY LenProperties
<1> QED BY <1>1, <1>2

\* Run is the last of these states.
LEMMA RunIs ==
  ASSUME NEW last, NEW S, NEW b \in Seq(S)
  PROVE  \E f : /\ Runs(f, last, b, Len(b))
                /\ Run(last, b) = f[Len(b)]
<1> DEFINE h == CHOOSE f : Runs(f, last, b, Len(b))
<1>1. Runs(h, last, b, Len(b))
  BY RunsExist
<1>2. Run(last, b) = h[Len(b)]
  BY DEF Run, Runs, Begun
<1> QED BY <1>1, <1>2

\* No commands.
LEMMA RunNothing ==
  ASSUME NEW last
  PROVE  Run(last, << >>) = Begun(last)
<1>1. << >> \in Seq({}) /\ Len(<< >>) = 0
  OBVIOUS
<1>2. PICK f : Runs(f, last, << >>, 0) /\ Run(last, << >>) = f[0]
  BY <1>1, RunIs
<1> QED BY <1>2 DEF Runs

\* One command more.
LEMMA RunOneMore ==
  ASSUME NEW last, NEW S, NEW b \in Seq(S), NEW e \in S
  PROVE  Run(last, Append(b, e)) = Advance(Run(last, b), e.cmd)
<1>1. PICK c : c = Append(b, e)
  OBVIOUS
<1>2. PICK n : n = Len(b)
  OBVIOUS
<1>3. /\ n \in Nat /\ c \in Seq(S) /\ Len(c) = n + 1 /\ c[n+1] = e /\ \A i \in 1..n : c[i] = b[i]
  BY <1>1, <1>2, AppendProperties, LenProperties
<1>4. PICK f : Runs(f, last, b, n) /\ Run(last, b) = f[n]
  BY <1>2, RunIs
<1>5. PICK g : Runs(g, last, c, n + 1) /\ Run(last, c) = g[n + 1]
  BY <1>3, RunIs
<1>6. \A i \in 0..n : f[i] = IF i = 0 THEN Begun(last) ELSE Advance(f[i-1], b[i].cmd)
  BY <1>4 DEF Runs
<1>7. \A i \in 0..(n+1) : g[i] = IF i = 0 THEN Begun(last) ELSE Advance(g[i-1], c[i].cmd)
  BY <1>5 DEF Runs
<1>8. PICK Bad : Bad = {i \in 0..n : f[i] # g[i]}
  OBVIOUS
<1>9. Bad = {}
  <2> SUFFICES ASSUME Bad # {} PROVE FALSE
    OBVIOUS
  <2>1. Bad \in SUBSET Nat
    BY <1>3, <1>8
  <2>2. PICK k \in Bad : \A m \in Bad : k <= m
    BY <2>1, LeastNumber
  <2>3. k \in 0..n /\ k \in 0..(n+1) /\ f[k] # g[k]
    BY <1>3, <1>8, <2>2
  <2>4. k # 0
    BY <1>6, <1>7, <2>3
  <2>5. k - 1 \in 0..n /\ k - 1 \notin Bad /\ k \in 1..n
    BY <1>3, <2>2, <2>3, <2>4
  <2>6. f[k-1] = g[k-1] /\ b[k] = c[k]
    BY <1>3, <1>8, <2>5
  <2> QED BY <1>6, <1>7, <2>3, <2>4, <2>6
<1>10. f[n] = g[n]
  BY <1>3, <1>8, <1>9
<1>11. g[n+1] = Advance(g[n], c[n+1].cmd)
  BY <1>3, <1>7
<1> QED BY <1>1, <1>3, <1>4, <1>5, <1>10, <1>11

----------------------------------------------------------------------------
(* The inductive invariant: l stands for the log, d for the changes that   *)
(* its commands make (Decided).                                            *)

Ids == [ts : Nat, op : Operation]
Cells == [ts : Nat, v : Seq(Operation)]
Cmds == [prev : Ids \cup {NoId}, new : Ids, schema : Cells, topology : Cells]
Entries == [cmd : Cmds, attempt : Nat]

\* The state id after i changes, the ids of the first i changes, and a table with them.
Id(d, i) == IF i = 0 THEN NoId ELSE d[i].new
IdsUpTo(d, i) == {d[j].new : j \in 1..i}
Table(d, i) == TableCell(Id(d, i).ts, SubSeq(Ops(d), 1, i))
\* How many changes the first j commands of the log make.
Count(l, j) == Len(Effective(NoId, SubSeq(l, 1, j)))

\* Every change follows the one before it, is later, and is of the whole state.
Chain(d) ==
  /\ d \in Seq(Cmds)
  /\ \A i \in 1..Len(d) : d[i].prev = Id(d, i - 1) /\ d[i].schema = Table(d, i) /\ d[i].topology = Table(d, i)
  /\ \A i, j \in 0..Len(d) : i < j => Id(d, i).ts < Id(d, j).ts

\* Command p of the log makes a change, or its guard was taken before a change that
\* is in the log before it.
Applies(l, d, p) ==
  \E k \in 0..Len(d) :
    /\ l[p].cmd.prev = Id(d, k)
    /\ \/ k = Count(l, p - 1) /\ Count(l, p) = k + 1 /\ k < Len(d) /\ d[k + 1] = l[p].cmd
       \/ k < Count(l, p - 1) /\ Count(l, p) = Count(l, p - 1)
Follows(l, d) ==
  /\ l \in Seq(Entries)
  /\ Run(NoId, l) = [last |-> Id(d, Len(d)), cmds |-> d]
  /\ Count(l, Len(l)) = Len(d)
  /\ \A j \in 0..Len(l) : Count(l, j) \in 0..Len(d)
  /\ \A i, j \in 0..Len(l) : i <= j => Count(l, i) <= Count(l, j)
  /\ \A p \in 1..Len(l) : Applies(l, d, p)

\* A command of o, computed from tables that have at least the changes up to its
\* previous state id.
Computed(v, ts, o, d, k) ==
  \E s \in k..Len(d) : v = TableCell(ts, Append(SubSeq(Ops(d), 1, s), o))
CommandOf(c, o, d) ==
  /\ c \in Cmds /\ c.new.op = o /\ c.new.ts > c.prev.ts
  /\ \E k \in 0..Len(d) : /\ c.prev = Id(d, k)
                          /\ Computed(c.schema, c.new.ts, o, d, k)
                          /\ Computed(c.topology, c.new.ts, o, d, k)

\* The tables of a server have the changes of its history and maybe more, and its
\* history those of the commands that it has applied and maybe more.
IsTable(c, d) == Len(c.v) \in 0..Len(d) /\ c = Table(d, Len(c.v))
NodeFields == {"schema", "topology", "history", "applied", "mutex"}
NodeAt(x, l, d, h) ==
  /\ DOMAIN x = NodeFields
  /\ IsTable(x.schema, d) /\ IsTable(x.topology, d)
  /\ x.history = IdsUpTo(d, h) /\ h <= Len(x.schema.v) /\ h <= Len(x.topology.v)
  /\ x.applied \in 0..Len(l) /\ Count(l, x.applied) <= h
NodeOK(x, l, d) == \E h \in 0..Len(d) : NodeAt(x, l, d, h)

\* A batch continues the history of its server x.
WorkOK(w, x, l, d) ==
  \/ w = NoWork
  \/ /\ DOMAIN w = {"step", "upto", "cmds"} /\ w.step \in {"schema", "topology", "history"}
     /\ w.upto \in 0..Len(l)
     /\ \E k, y \in 0..Len(d) :
          /\ k < y /\ w.cmds = SubSeq(d, k + 1, y) /\ IdsUpTo(d, k) \subseteq x.history
          /\ Count(l, w.upto) <= y
          /\ w.step # "schema" => y <= Len(x.schema.v)
          /\ w.step = "history" => y <= Len(x.topology.v)

\* A snapshot that server x takes from server m.
PullOK(p, x, m, l, d) ==
  \/ p = NoPull
  \/ /\ p.step \in {"pull", "schema", "topology", "history"}
     /\ DOMAIN p = IF p.step = "pull" THEN {"step", "from", "idx", "schema", "history"}
                   ELSE {"step", "from", "idx", "schema", "history", "topology"}
     /\ p.from \in Node /\ p.idx \in 0..Len(l) /\ IsTable(p.schema, d)
     /\ \E g \in 0..Len(d) :
          /\ p.history = IdsUpTo(d, g) /\ Count(l, p.idx) <= g /\ g <= Len(p.schema.v)
          /\ p.step = "pull" => g <= Len(m.topology.v)
          /\ p.step # "pull" => IsTable(p.topology, d) /\ g <= Len(p.topology.v)
          /\ p.step \in {"topology", "history"} => g <= Len(x.schema.v)
          /\ p.step = "history" => g <= Len(x.topology.v)

\* An operation that is over was based on a state that is not the last one any more.
OpOK(r, o, d) ==
  /\ DOMAIN r = {"phase", "barrier", "cmd", "attempt"} /\ r.attempt \in Nat
  /\ r.phase \in {"idle", "barrier", "guard", "sent", "done", "conflict", "lost"}
  /\ r.phase \in {"guard", "sent", "done", "conflict"} => CommandOf(r.cmd, o, d)
  /\ r.phase \in {"done", "conflict"} => \E k \in 0..Len(d) : k < Len(d) /\ r.cmd.prev = Id(d, k)
  /\ r.phase = "done" => \E i \in 1..Len(d) : d[i] = r.cmd
  /\ r.phase = "conflict" => \A i \in 1..Len(d) : d[i] # r.cmd
SentPhases == {"sent", "done", "conflict", "lost"}
Sent(c, ops) == c.new.op \in Operation /\ ops[c.new.op].cmd = c /\ ops[c.new.op].phase \in SentPhases
EntryOK(e, ops, d) == e \in Entries /\ CommandOf(e.cmd, e.cmd.new.op, d) /\ Sent(e.cmd, ops)

ChangesOK(l, d, ops, fl) ==
  /\ Chain(d) /\ Follows(l, d)
  /\ \A i \in 1..Len(d) : Sent(d[i], ops)
  /\ \A i \in 1..Len(l) : EntryOK(l[i], ops, d)
  /\ \A e \in fl : EntryOK(e, ops, d)
OperationsOK(ops, d, home) ==
  /\ DOMAIN ops = Operation
  /\ \A o \in Operation : OpOK(ops[o], o, d) /\ (ops[o].phase # "idle" => o \in DOMAIN home)
ServersOK(nodes, ws, ps, l, d) ==
  /\ DOMAIN nodes = Node /\ DOMAIN ws = Node /\ DOMAIN ps = Node
  /\ \A n \in Node : /\ NodeOK(nodes[n], l, d) /\ WorkOK(ws[n], nodes[n], l, d)
                     /\ PullOK(ps[n], nodes[n], nodes[ps[n].from], l, d)

IInv ==
  /\ scenario \in DOMAIN Scenarios
  /\ ChangesOK(log, Decided, op, flight)
  /\ OperationsOK(op, Decided, Home)
  /\ ServersOK(node, work, pull, log, Decided)

----------------------------------------------------------------------------
(* Sequences that grow.                                                    *)

\* The first n elements of a sequence.
LEMMA FirstOf ==
  ASSUME NEW S, NEW s \in Seq(S), NEW n \in 0..Len(s)
  PROVE  /\ SubSeq(s, 1, n) \in Seq(S) /\ Len(SubSeq(s, 1, n)) = n
         /\ \A i \in 1..n : SubSeq(s, 1, n)[i] = s[i]
<1>1. n \in Nat /\ Len(s) \in Nat /\ n <= Len(s)
  BY LenProperties
<1>2. \A i \in 1..n : s[i] \in S
  BY <1>1
<1>3. PICK r : r = SubSeq(s, 1, n)
  OBVIOUS
<1>4. /\ r \in Seq(S) /\ Len(r) = IF 1 <= n THEN n - 1 + 1 ELSE 0
      /\ \A i \in 1..(n - 1 + 1) : r[i] = s[1 + i - 1]
  BY <1>1, <1>2, <1>3, SubSeqProperties
<1>5. Len(r) = n /\ \A i \in 1..n : r[i] = s[i]
  BY <1>1, <1>4
<1> QED BY <1>3, <1>4, <1>5

\* Sequences that agree on their first n elements have the same first n elements.
LEMMA FirstSame ==
  ASSUME NEW S, NEW s \in Seq(S), NEW t \in Seq(S), NEW n \in Nat, n <= Len(s), n <= Len(t),
         \A i \in 1..n : s[i] = t[i]
  PROVE  SubSeq(s, 1, n) = SubSeq(t, 1, n)
<1>1. n \in 0..Len(s) /\ n \in 0..Len(t)
  BY LenProperties
<1>2. PICK a, b : a = SubSeq(s, 1, n) /\ b = SubSeq(t, 1, n)
  OBVIOUS
<1>3. a \in Seq(S) /\ Len(a) = n /\ \A i \in 1..n : a[i] = s[i]
  BY <1>1, <1>2, FirstOf
<1>4. b \in Seq(S) /\ Len(b) = n /\ \A i \in 1..n : b[i] = t[i]
  BY <1>1, <1>2, FirstOf
<1>5. a = b
  BY <1>3, <1>4, SeqEqual
<1> QED BY <1>2, <1>5

\* One element more.
LEMMA OneMore ==
  ASSUME NEW S, NEW s \in Seq(S), NEW a \in Nat \ {0}, NEW b \in Nat, a <= b + 1, b < Len(s)
  PROVE  SubSeq(s, a, b + 1) = Append(SubSeq(s, a, b), s[b + 1])
<1>1. PICK c : c = b + 1
  OBVIOUS
<1>2. Len(s) \in Nat /\ c \in a..Len(s) /\ a \in 1..Len(s) /\ c - 1 = b
  BY <1>1, LenProperties
<1>3. SubSeq(s, a, c) = SubSeq(s, a, b) \o <<s[c]>>
  BY <1>2, SubSeqRecursiveSecond
<1>4. SubSeq(s, a, b) \in Seq(S) /\ s[c] \in S
  <2>1. \A i \in a..b : s[i] \in S
    BY <1>1, <1>2
  <2> QED BY <1>1, <1>2, <2>1, SubSeqProperties
<1> QED BY <1>1, <1>3, <1>4, AppendIsConcat

\* The operations of a sequence of changes.
LEMMA OpsIs ==
  ASSUME NEW d \in Seq(Cmds)
  PROVE  /\ Ops(d) \in Seq(Operation) /\ Len(Ops(d)) = Len(d) /\ Len(d) \in Nat
         /\ \A i \in 1..Len(d) : Ops(d)[i] = d[i].new.op /\ d[i] \in Cmds /\ d[i].new \in Ids
<1>1. Len(d) \in Nat /\ DOMAIN d = 1..Len(d) /\ \A i \in 1..Len(d) : d[i] \in Cmds
  BY LenProperties, ElementOfSeq
<1>2. \A i \in 1..Len(d) : d[i].new \in Ids /\ d[i].new.op \in Operation
  BY <1>1 DEF Cmds, Ids
<1>3. Ops(d) = [i \in 1..Len(d) |-> d[i].new.op]
  BY <1>1 DEF Ops
<1>4. Ops(d) \in Seq(Operation) /\ Len(Ops(d)) = Len(d)
  BY <1>1, <1>2, <1>3
<1> QED BY <1>1, <1>2, <1>3, <1>4

\* Changes d, and maybe more.
Grown(d, e) ==
  /\ d \in Seq(Cmds) /\ e \in Seq(Cmds) /\ Len(d) <= Len(e)
  /\ \A i \in 1..Len(d) : e[i] = d[i]

\* The first changes, their ids and their tables stay when changes are added.
LEMMA GrownIs ==
  ASSUME NEW d, NEW e, Grown(d, e)
  PROVE  /\ Len(d) \in Nat /\ Len(e) \in Nat /\ Len(d) <= Len(e)
         /\ \A i \in 0..Len(d) : /\ Id(e, i) = Id(d, i) /\ IdsUpTo(e, i) = IdsUpTo(d, i)
                                /\ SubSeq(Ops(e), 1, i) = SubSeq(Ops(d), 1, i)
                                /\ Table(e, i) = Table(d, i)
<1>1. /\ d \in Seq(Cmds) /\ e \in Seq(Cmds) /\ Len(d) \in Nat /\ Len(e) \in Nat /\ Len(d) <= Len(e)
      /\ \A i \in 1..Len(d) : e[i] = d[i]
  BY LenProperties DEF Grown
<1>2. /\ Ops(d) \in Seq(Operation) /\ Len(Ops(d)) = Len(d)
      /\ \A i \in 1..Len(d) : Ops(d)[i] = d[i].new.op
  BY <1>1, OpsIs
<1>3. /\ Ops(e) \in Seq(Operation) /\ Len(Ops(e)) = Len(e)
      /\ \A i \in 1..Len(e) : Ops(e)[i] = e[i].new.op
  BY <1>1, OpsIs
<1>4. ASSUME NEW i \in 0..Len(d)
      PROVE  /\ Id(e, i) = Id(d, i) /\ IdsUpTo(e, i) = IdsUpTo(d, i)
             /\ SubSeq(Ops(e), 1, i) = SubSeq(Ops(d), 1, i)
  <2>1. \A j \in 1..i : j \in 1..Len(d) /\ j \in 1..Len(e) /\ e[j] = d[j]
    BY <1>1
  <2>2. Id(e, i) = Id(d, i)
    BY <1>1 DEF Id
  <2>3. IdsUpTo(e, i) = IdsUpTo(d, i)
    BY <2>1 DEF IdsUpTo
  <2>4. \A j \in 1..i : Ops(e)[j] = Ops(d)[j]
    BY <1>2, <1>3, <2>1
  <2>5. i \in Nat /\ i <= Len(Ops(d)) /\ i <= Len(Ops(e))
    BY <1>1, <1>2, <1>3
  <2>6. SubSeq(Ops(e), 1, i) = SubSeq(Ops(d), 1, i)
    BY <1>2, <1>3, <2>4, <2>5, FirstSame
  <2> QED BY <2>2, <2>3, <2>6
<1> QED BY <1>1, <1>4 DEF Table

\* State ids tell states apart.
LEMMA IdsDiffer ==
  ASSUME NEW d, Chain(d), NEW i \in 0..Len(d), NEW j \in 0..Len(d), Id(d, i) = Id(d, j)
  PROVE  i = j
<1>1. Len(d) \in Nat
  BY LenProperties DEF Chain
<1>2. ASSUME NEW a \in 0..Len(d), NEW b \in 0..Len(d), a < b PROVE Id(d, a) # Id(d, b)
  <2>1. Id(d, a).ts < Id(d, b).ts
    BY <1>2 DEF Chain
  <2>2. Id(d, a).ts \in Nat
    <3>1. a = 0 \/ a \in 1..Len(d)
      BY <1>1
    <3>2. CASE a = 0
      BY <3>2 DEF Id, NoId
    <3>3. CASE a \in 1..Len(d)
      <4>1. d[a].new \in Ids
        BY <3>3, OpsIs DEF Chain
      <4> QED BY <3>3, <4>1 DEF Id, Ids
    <3> QED BY <3>1, <3>2, <3>3
  <2> QED BY <2>1, <2>2
<1> QED BY <1>1, <1>2

\* Log m has the commands of l and maybe more, and makes the changes d and maybe more.
Later(l, d, m, f) ==
  /\ Grown(d, f)
  /\ Len(l) \in Nat /\ Len(m) \in Nat /\ Len(l) <= Len(m)
  /\ \A i \in 1..Len(l) : m[i] = l[i]
  /\ \A j \in 0..Len(l) : Count(m, j) = Count(l, j)

\* What a command of the log does stays when commands are added.
LEMMA AppliesLater ==
  ASSUME NEW l, NEW d, NEW m, NEW f, Later(l, d, m, f), NEW p \in 1..Len(l), Applies(l, d, p)
  PROVE  Applies(m, f, p)
<1>1. PICK k \in 0..Len(d) :
        /\ l[p].cmd.prev = Id(d, k)
        /\ \/ k = Count(l, p - 1) /\ Count(l, p) = k + 1 /\ k < Len(d) /\ d[k + 1] = l[p].cmd
           \/ k < Count(l, p - 1) /\ Count(l, p) = Count(l, p - 1)
  BY DEF Applies
<1>2. /\ Len(l) \in Nat /\ m[p] = l[p] /\ p - 1 \in 0..Len(l) /\ p \in 0..Len(l)
      /\ Count(m, p - 1) = Count(l, p - 1) /\ Count(m, p) = Count(l, p)
  BY DEF Later
<1>3. Grown(d, f)
  BY DEF Later
<1>4. k \in 0..Len(f) /\ Id(f, k) = Id(d, k) /\ Len(d) \in Nat /\ Len(f) \in Nat /\ Len(d) <= Len(f)
  BY <1>3, GrownIs
<1>5. k < Len(d) => k < Len(f) /\ f[k + 1] = d[k + 1]
  BY <1>3, <1>4 DEF Grown
<1> QED BY <1>1, <1>2, <1>4, <1>5 DEF Applies

\* A command c is committed: log m makes the changes f, those before it and maybe c.
Committed(l, d, c, m, f) ==
  /\ Later(l, d, m, f) /\ Chain(f) /\ Follows(m, f)
  /\ f = d \/ (f = Append(d, c) /\ c.prev = Id(d, Len(d)))

\* An entry is committed: its command makes a change if its guard saw the last state.
LEMMA CommitIs ==
  ASSUME NEW l, NEW d, Chain(d), Follows(l, d), NEW e \in Entries, NEW o, CommandOf(e.cmd, o, d)
  PROVE  Committed(l, d, e.cmd, Append(l, e), Effective(NoId, Append(l, e)))
<1> SUFFICES ASSUME NEW m, m = Append(l, e), NEW f, f = Effective(NoId, m)
             PROVE  Committed(l, d, e.cmd, m, f)
  OBVIOUS
<1>1. PICK n, N, c : n = Len(d) /\ N = Len(l) /\ c = e.cmd
  OBVIOUS
<1>2. d \in Seq(Cmds) /\ n \in Nat /\ l \in Seq(Entries) /\ N \in Nat /\ c \in Cmds
  BY <1>1, LenProperties DEF Chain, Follows, Entries
<1>3. m \in Seq(Entries) /\ Len(m) = N + 1 /\ m[N + 1] = e /\ \A i \in 1..N : m[i] = l[i]
  BY <1>1, <1>2, AppendProperties
<1>4. Run(NoId, m) = Advance([last |-> Id(d, n), cmds |-> d], c)
  <2>1. Run(NoId, l) = [last |-> Id(d, n), cmds |-> d]
    BY <1>1 DEF Follows
  <2>2. Run(NoId, m) = Advance(Run(NoId, l), e.cmd)
    BY <1>2, RunOneMore
  <2> QED BY <1>1, <2>1, <2>2
<1>5. \A j \in 0..N : Count(m, j) = Count(l, j)
  <2> SUFFICES ASSUME NEW j \in 0..N PROVE SubSeq(m, 1, j) = SubSeq(l, 1, j)
    BY DEF Count
  <2>1. j \in Nat /\ j <= Len(l) /\ j <= Len(m) /\ \A i \in 1..j : m[i] = l[i]
    BY <1>1, <1>2, <1>3
  <2> QED BY <1>2, <1>3, <2>1, FirstSame
<1>6. Count(m, N + 1) = Len(f)
  BY <1>3, SubSeqFull DEF Count
<1>7. Count(l, N) = n /\ \A j \in 0..N : Count(l, j) \in 0..n
  BY <1>1 DEF Follows
<1>8. \A i, j \in 0..N : i <= j => Count(l, i) <= Count(l, j)
  BY <1>1 DEF Follows
<1>9. PICK k \in 0..n : /\ c.prev = Id(d, k)
                        /\ Computed(c.schema, c.new.ts, o, d, k)
                        /\ Computed(c.topology, c.new.ts, o, d, k)
  BY <1>1 DEF CommandOf
<1>10. Grown(d, f) /\ Len(f) \in Nat => Later(l, d, m, f)
  BY <1>1, <1>2, <1>3, <1>5 DEF Later
<1>11. ASSUME Later(l, d, m, f), Len(f) \in Nat,
              Run(NoId, m) = [last |-> Id(f, Len(f)), cmds |-> f], n <= Len(f), Applies(m, f, N + 1)
       PROVE  Follows(m, f)
  <2>1. Count(m, Len(m)) = Len(f)
    BY <1>3, <1>6
  <2>2. \A j \in 0..Len(m) : j \in 0..N \/ j = N + 1
    BY <1>2, <1>3
  <2>3. \A j \in 0..N : Count(m, j) \in 0..Len(f) /\ Count(m, j) \in Nat /\ Count(m, j) <= Len(f)
    BY <1>2, <1>5, <1>7, <1>11
  <2>4. \A j \in 0..Len(m) : Count(m, j) \in 0..Len(f)
    BY <1>6, <1>11, <2>2, <2>3
  <2>5. \A i, j \in 0..Len(m) : i <= j => Count(m, i) <= Count(m, j)
    <3> SUFFICES ASSUME NEW i \in 0..Len(m), NEW j \in 0..Len(m), i <= j
                 PROVE  Count(m, i) <= Count(m, j)
      OBVIOUS
    <3>1. CASE j = N + 1
      BY <1>6, <1>11, <2>4, <3>1
    <3>2. CASE j \in 0..N
      <4>1. i \in 0..N
        BY <1>2, <1>3, <3>2
      <4> QED BY <1>5, <1>8, <3>2, <4>1
    <3> QED BY <2>2, <3>1, <3>2
  <2>6. \A p \in 1..Len(m) : Applies(m, f, p)
    <3> SUFFICES ASSUME NEW p \in 1..Len(m) PROVE Applies(m, f, p)
      OBVIOUS
    <3>1. CASE p = N + 1
      BY <1>11, <3>1
    <3>2. CASE p # N + 1
      <4>1. p \in 1..Len(l)
        BY <1>1, <1>2, <1>3, <3>2
      <4>2. Applies(l, d, p)
        BY <4>1 DEF Follows
      <4> QED BY <1>11, <4>1, <4>2, AppliesLater
    <3> QED BY <3>1, <3>2
  <2> QED BY <1>3, <1>11, <2>1, <2>4, <2>5, <2>6 DEF Follows
<1>12. CASE c.prev # Id(d, n)
  <2>1. Run(NoId, m) = [last |-> Id(d, n), cmds |-> d]
    BY <1>4, <1>12 DEF Advance
  <2>2. f = d
    BY <2>1 DEF Effective
  <2>3. Grown(d, f)
    BY <1>1, <1>2, <2>2 DEF Grown
  <2>4. Later(l, d, m, f)
    BY <1>1, <1>2, <1>10, <2>2, <2>3
  <2>5. k < n
    BY <1>2, <1>9, <1>12
  <2>6. Applies(m, f, N + 1)
    <3>1. Count(m, N) = n /\ Count(m, N + 1) = n /\ (N + 1) - 1 = N /\ m[N + 1].cmd = c
      BY <1>1, <1>2, <1>3, <1>5, <1>6, <1>7, <2>2
    <3> QED BY <1>1, <1>9, <2>2, <2>5, <3>1 DEF Applies
  <2>7. Follows(m, f)
    BY <1>1, <1>2, <1>11, <2>1, <2>2, <2>4, <2>6
  <2>8. Chain(f)
    BY <2>2
  <2> QED BY <2>2, <2>4, <2>7, <2>8 DEF Committed
<1>13. CASE c.prev = Id(d, n)
  <2>1. c.new.ts > Id(d, n).ts
    BY <1>1, <1>13 DEF CommandOf
  <2>2. Run(NoId, m) = [last |-> c.new, cmds |-> Append(d, c)]
    BY <1>4, <1>13, <2>1 DEF Advance
  <2>3. f = Append(d, c)
    BY <2>2 DEF Effective
  <2>4. f \in Seq(Cmds) /\ Len(f) = n + 1 /\ f[n + 1] = c /\ \A i \in 1..n : f[i] = d[i]
    BY <1>1, <1>2, <2>3, AppendProperties
  <2>5. Grown(d, f)
    BY <1>1, <1>2, <2>4 DEF Grown
  <2>6. Later(l, d, m, f)
    BY <1>2, <1>10, <2>4, <2>5
  <2>7. k = n
    <3>1. n \in 0..Len(d) /\ k \in 0..Len(d)
      BY <1>1, <1>2
    <3> QED BY <1>9, <1>13, <3>1, IdsDiffer
  <2>8. Id(f, n + 1) = c.new
    BY <1>2, <2>4 DEF Id
  <2>9. \A i \in 0..n : /\ Id(f, i) = Id(d, i) /\ Table(f, i) = Table(d, i)
                       /\ SubSeq(Ops(f), 1, i) = SubSeq(Ops(d), 1, i)
    BY <1>1, <2>5, GrownIs
  <2>10. Applies(m, f, N + 1)
    <3>1. Count(m, N) = n /\ Count(m, N + 1) = n + 1 /\ (N + 1) - 1 = N /\ m[N + 1].cmd = c
      BY <1>1, <1>2, <1>3, <1>5, <1>6, <1>7, <2>4
    <3>2. n \in 0..Len(f) /\ n < Len(f) /\ c.prev = Id(f, n)
      BY <1>2, <1>13, <2>4, <2>9
    <3> QED BY <2>4, <3>1, <3>2 DEF Applies
  <2>11. Follows(m, f)
    <3>1. Len(f) \in Nat /\ n <= Len(f) /\ Id(f, Len(f)) = c.new
      BY <1>2, <2>4, <2>8
    <3> QED BY <1>11, <2>2, <2>3, <2>6, <2>10, <3>1
  <2>12. SubSeq(Ops(f), 1, n + 1) = Append(SubSeq(Ops(d), 1, n), o)
    <3>1. Ops(f) \in Seq(Operation) /\ Len(Ops(f)) = n + 1 /\ Ops(f)[n + 1] = c.new.op
      BY <1>2, <2>4, OpsIs
    <3>2. SubSeq(Ops(f), 1, n + 1) = Append(SubSeq(Ops(f), 1, n), Ops(f)[n + 1])
      BY <1>2, <3>1, OneMore
    <3>3. c.new.op = o
      BY <1>1 DEF CommandOf
    <3>4. SubSeq(Ops(f), 1, n) = SubSeq(Ops(d), 1, n)
      BY <1>2, <2>9
    <3> QED BY <3>1, <3>2, <3>3, <3>4
  <2>13. c.schema = Table(f, n + 1) /\ c.topology = Table(f, n + 1)
    <3>1. \A s \in k..Len(d) : s = n
      BY <1>1, <1>2, <2>7
    <3> QED BY <1>9, <2>8, <2>12, <3>1 DEF Computed, Table
  <2>14. Chain(f)
    <3>1. ASSUME NEW i \in 1..Len(f)
          PROVE  f[i].prev = Id(f, i - 1) /\ f[i].schema = Table(f, i) /\ f[i].topology = Table(f, i)
      <4>1. CASE i = n + 1
        <5>1. i - 1 = n /\ n \in 0..n
          BY <1>2, <4>1
        <5> QED BY <1>13, <2>4, <2>9, <2>13, <4>1, <5>1
      <4>2. CASE i # n + 1
        <5>1. i \in 1..n /\ i - 1 \in 0..n /\ i \in 0..n
          BY <1>2, <2>4, <4>2
        <5>2. d[i].prev = Id(d, i - 1) /\ d[i].schema = Table(d, i) /\ d[i].topology = Table(d, i)
          BY <1>1, <5>1 DEF Chain
        <5> QED BY <2>4, <2>9, <5>1, <5>2
      <4> QED BY <4>1, <4>2
    <3>2. ASSUME NEW i \in 0..Len(f), NEW j \in 0..Len(f), i < j
          PROVE  Id(f, i).ts < Id(f, j).ts
      <4>1. i \in 0..n
        BY <1>2, <2>4, <3>2
      <4>2. CASE j \in 0..n
        BY <1>1, <2>9, <3>2, <4>1, <4>2 DEF Chain
      <4>3. CASE j = n + 1
        <5>1. Id(d, i).ts < Id(d, n).ts \/ i = n
          BY <1>1, <1>2, <4>1 DEF Chain
        <5>2. Id(d, i).ts \in Nat /\ Id(d, n).ts \in Nat /\ c.new.ts \in Nat
          <6>1. \A x \in 1..n : d[x].new.ts \in Nat
            BY <1>1, <1>2, OpsIs DEF Ids
          <6>2. c.new.ts \in Nat
            BY <1>2 DEF Cmds, Ids
          <6>3. \A x \in 0..n : Id(d, x).ts \in Nat
            BY <1>2, <6>1 DEF Id, NoId
          <6> QED BY <1>2, <4>1, <6>2, <6>3
        <5>3. Id(d, i).ts < c.new.ts
          BY <2>1, <5>1, <5>2
        <5> QED BY <2>8, <2>9, <4>1, <4>3, <5>3
      <4> QED BY <1>2, <2>4, <4>2, <4>3
    <3> QED BY <2>4, <3>1, <3>2 DEF Chain
  <2>15. f = Append(d, e.cmd) /\ e.cmd.prev = Id(d, Len(d))
    BY <1>1, <1>13, <2>3
  <2> QED BY <2>6, <2>11, <2>14, <2>15 DEF Committed
<1> QED BY <1>12, <1>13

----------------------------------------------------------------------------
(* What the servers do with the changes.                                   *)

\* How far a server is, that had h changes and looks at the first u commands.
Top(l, h, u) == IF Count(l, u) > h THEN Count(l, u) ELSE h

\* apply(): of a batch that begins at or before the commands that the server has the
\* changes of, the commands that are not obsolete are the changes that follow.
LEMMA BatchIs ==
  ASSUME NEW l, NEW d, Chain(d), Follows(l, d), NEW h \in 0..Len(d),
         NEW a \in 0..Len(l), NEW u \in a..Len(l), Count(l, a) <= h
  PROVE  /\ Effective(Id(d, h), SubSeq(l, a + 1, u)) = SubSeq(d, h + 1, Top(l, h, u))
         /\ Top(l, h, u) \in h..Len(d) /\ Count(l, u) <= Top(l, h, u)
<1>1. /\ l \in Seq(Entries) /\ d \in Seq(Cmds) /\ Len(l) \in Nat /\ Len(d) \in Nat
      /\ a \in Nat /\ h \in Nat /\ h <= Len(d)
  BY LenProperties DEF Chain, Follows
<1>2. /\ \A j \in 0..Len(l) : Count(l, j) \in 0..Len(d)
      /\ \A p \in 1..Len(l) : Applies(l, d, p)
  BY DEF Follows
<1>3. \A j \in 0..Len(l) : Top(l, h, j) \in h..Len(d) /\ Count(l, j) <= Top(l, h, j)
  BY <1>1, <1>2 DEF Top
<1>4. PICK State : State = [j \in 0..Len(l) |-> [last |-> Id(d, Top(l, h, j)),
                                                 cmds |-> SubSeq(d, h + 1, Top(l, h, j))]]
  OBVIOUS
<1>5. PICK Bad : Bad = {j \in a..Len(l) : Run(Id(d, h), SubSeq(l, a + 1, j)) # State[j]}
  OBVIOUS
<1>6. Bad = {}
  <2> SUFFICES ASSUME Bad # {} PROVE FALSE
    OBVIOUS
  <2>1. Bad \in SUBSET Nat
    BY <1>1, <1>5
  <2>2. PICK j \in Bad : \A i \in Bad : j <= i
    BY <2>1, LeastNumber
  <2>3. j \in a..Len(l) /\ j \in 0..Len(l) /\ Run(Id(d, h), SubSeq(l, a + 1, j)) # State[j]
    BY <1>1, <1>5, <2>2
  <2>4. CASE j = a
    <3>1. SubSeq(l, a + 1, a) = << >>
      BY <1>1, SubSeqProperties, EmptySeq
    <3>2. SubSeq(d, h + 1, h) = << >>
      BY <1>1, SubSeqProperties, EmptySeq
    <3>3. Top(l, h, a) = h
      <4>1. Count(l, a) \in Nat
        BY <1>1, <1>2
      <4> QED BY <1>1, <4>1 DEF Top
    <3>4. State[a] = [last |-> Id(d, h), cmds |-> << >>]
      BY <1>4, <3>2, <3>3
    <3> QED BY <2>3, <2>4, <3>1, <3>4, RunNothing DEF Begun
  <2>5. CASE j # a
    <3>1. PICK i : i = j - 1
      OBVIOUS
    <3>2. /\ i \in Nat /\ j = i + 1 /\ i \in a..Len(l) /\ i \in 0..Len(l) /\ j \in 1..Len(l)
          /\ i < Len(l) /\ a + 1 <= i + 1 /\ a + 1 \in Nat \ {0} /\ i \notin Bad
      BY <1>1, <2>2, <2>3, <2>5, <3>1
    <3>3. PICK b, c : b = SubSeq(l, a + 1, i) /\ c = l[j].cmd
      OBVIOUS
    <3>4. Run(Id(d, h), b) = State[i]
      BY <1>5, <3>2, <3>3
    <3>5. SubSeq(l, a + 1, j) = Append(b, l[j])
      BY <1>1, <3>2, <3>3, OneMore
    <3>6. b \in Seq(Entries) /\ l[j] \in Entries
      <4>1. \A x \in (a + 1)..i : l[x] \in Entries
        BY <1>1, <3>2
      <4> QED BY <1>1, <3>2, <3>3, <4>1, SubSeqProperties
    <3>7. Run(Id(d, h), SubSeq(l, a + 1, j)) = Advance(State[i], c)
      <4>1. Run(Id(d, h), Append(b, l[j])) = Advance(Run(Id(d, h), b), l[j].cmd)
        BY <3>6, RunOneMore
      <4> QED BY <3>3, <3>4, <3>5, <4>1
    <3>8. PICK T : T = Top(l, h, i)
      OBVIOUS
    <3>9. /\ T \in h..Len(d) /\ T \in 0..Len(d) /\ T \in Nat /\ Count(l, i) <= T
          /\ Count(l, i) \in Nat /\ Count(l, j) \in Nat
          /\ State[i] = [last |-> Id(d, T), cmds |-> SubSeq(d, h + 1, T)]
      <4>1. T \in h..Len(d) /\ Count(l, i) <= T
        BY <1>3, <3>2, <3>8
      <4>2. Count(l, i) \in 0..Len(d) /\ Count(l, j) \in 0..Len(d)
        BY <1>2, <2>3, <3>2
      <4>3. State[i] = [last |-> Id(d, T), cmds |-> SubSeq(d, h + 1, T)]
        BY Zenon, <1>4, <3>2, <3>8
      <4> QED BY <1>1, <4>1, <4>2, <4>3
    <3>10. PICK k \in 0..Len(d) :
            /\ c.prev = Id(d, k)
            /\ \/ k = Count(l, i) /\ Count(l, j) = k + 1 /\ k < Len(d) /\ d[k + 1] = c
               \/ k < Count(l, i) /\ Count(l, j) = Count(l, i)
      BY <1>2, <3>1, <3>2, <3>3 DEF Applies
    <3>11. CASE k = T
      <4>1. k = Count(l, i) /\ Count(l, j) = k + 1 /\ k < Len(d) /\ d[k + 1] = c
        BY <3>9, <3>10, <3>11
      <4>2. Top(l, h, j) = T + 1
        BY <1>1, <3>9, <3>11, <4>1 DEF Top
      <4>3. c.new = Id(d, T + 1) /\ c.new.ts > Id(d, T).ts
        <5>1. T + 1 \in 0..Len(d) /\ T < T + 1
          BY <1>1, <3>9, <3>11, <4>1
        <5>2. Id(d, T).ts < Id(d, T + 1).ts
          BY <3>9, <5>1 DEF Chain
        <5>3. c.new = Id(d, T + 1)
          BY <3>9, <3>11, <4>1 DEF Id
        <5>4. Id(d, T).ts \in Nat /\ Id(d, T + 1).ts \in Nat
          <6>1. \A x \in 1..Len(d) : d[x].new.ts \in Nat
            BY <1>1, OpsIs DEF Ids
          <6>2. \A x \in 0..Len(d) : Id(d, x).ts \in Nat
            BY <1>1, <6>1 DEF Id, NoId
          <6> QED BY <3>9, <5>1, <6>2
        <5> QED BY <5>2, <5>3, <5>4
      <4>4. SubSeq(d, h + 1, T + 1) = Append(SubSeq(d, h + 1, T), c)
        <5>1. h + 1 \in Nat \ {0} /\ h + 1 <= T + 1 /\ T < Len(d)
          BY <1>1, <3>9, <3>11, <4>1
        <5>2. SubSeq(d, h + 1, T + 1) = Append(SubSeq(d, h + 1, T), d[T + 1])
          BY <1>1, <3>9, <5>1, OneMore
        <5>3. d[T + 1] = c
          BY <3>11, <4>1
        <5> QED BY Zenon, <5>2, <5>3
      <4>5. Advance(State[i], c) = [last |-> Id(d, T + 1), cmds |-> SubSeq(d, h + 1, T + 1)]
        <5>1. State[i].last = Id(d, T) /\ State[i].cmds = SubSeq(d, h + 1, T) /\ c.prev = Id(d, T)
          BY <3>9, <3>10, <3>11
        <5> QED BY <4>3, <4>4, <5>1 DEF Advance
      <4> QED BY <1>4, <2>3, <3>7, <4>2, <4>5
    <3>12. CASE k # T
      <4>1. Id(d, k) # Id(d, T)
        BY <3>9, <3>12, IdsDiffer
      <4>2. Top(l, h, j) = T
        BY <1>1, <3>8, <3>9, <3>10, <3>12 DEF Top
      <4>3. Advance(State[i], c) = State[i]
        BY <3>9, <3>10, <4>1 DEF Advance
      <4> QED BY <1>4, <2>3, <3>7, <3>9, <4>2, <4>3
    <3> QED BY <3>11, <3>12
  <2> QED BY <2>4, <2>5
<1>7. Run(Id(d, h), SubSeq(l, a + 1, u)) = State[u] /\ u \in 0..Len(l)
  BY <1>1, <1>5, <1>6
<1> QED BY <1>3, <1>4, <1>7 DEF Effective

\* Times of state ids, and tables.
LEMMA TablesAre ==
  ASSUME NEW d, Chain(d)
  PROVE  /\ d \in Seq(Cmds) /\ Len(d) \in Nat
         /\ \A i \in 0..Len(d) : /\ Id(d, i).ts \in Nat
                                /\ Table(d, i).ts = Id(d, i).ts
                                /\ Table(d, i).v \in Seq(Operation) /\ Len(Table(d, i).v) = i
                                /\ Table(d, i) \in Cells /\ IsTable(Table(d, i), d)
         /\ \A i, j \in 0..Len(d) : i < j <=> Table(d, i).ts < Table(d, j).ts
<1>1. /\ d \in Seq(Cmds) /\ Len(d) \in Nat
      /\ \A i, j \in 0..Len(d) : i < j => Id(d, i).ts < Id(d, j).ts
  BY LenProperties DEF Chain
<1>2. \A x \in 1..Len(d) : d[x].new.ts \in Nat
  BY <1>1, OpsIs DEF Ids
<1>3. \A i \in 0..Len(d) : Id(d, i).ts \in Nat
  BY <1>1, <1>2 DEF Id, NoId
<1>4. \A i \in 0..Len(d) : /\ SubSeq(Ops(d), 1, i) \in Seq(Operation)
                           /\ Len(SubSeq(Ops(d), 1, i)) = i
  BY <1>1, OpsIs, FirstOf
<1>5. \A i \in 0..Len(d) : Table(d, i).ts = Id(d, i).ts /\ Table(d, i).v = SubSeq(Ops(d), 1, i)
  BY DEF Table, TableCell
<1>6. \A i \in 0..Len(d) : Table(d, i) \in Cells /\ IsTable(Table(d, i), d)
  <2> SUFFICES ASSUME NEW i \in 0..Len(d) PROVE Table(d, i) \in Cells /\ IsTable(Table(d, i), d)
    OBVIOUS
  <2>1. Table(d, i) \in Cells
    BY <1>3, <1>4 DEF Table, TableCell, Cells
  <2>2. Len(Table(d, i).v) = i
    BY <1>4, <1>5
  <2> QED BY <2>1, <2>2 DEF IsTable
<1>7. \A i, j \in 0..Len(d) : i < j <=> Id(d, i).ts < Id(d, j).ts
  <2> SUFFICES ASSUME NEW i \in 0..Len(d), NEW j \in 0..Len(d), ~(i < j)
               PROVE  ~(Id(d, i).ts < Id(d, j).ts)
    BY <1>1
  <2>1. i = j \/ Id(d, j).ts < Id(d, i).ts
    BY <1>1
  <2> QED BY <1>3, <2>1
<1> QED BY <1>1, <1>3, <1>4, <1>5, <1>6, <1>7

\* The last state id of a history.
LEMMA LastIdIs ==
  ASSUME NEW d, Chain(d), NEW h \in 0..Len(d)
  PROVE  LastId(IdsUpTo(d, h)) = Id(d, h)
<1>1. Len(d) \in Nat /\ \A i \in 0..Len(d) : Id(d, i).ts \in Nat
  BY TablesAre
<1>2. CASE h = 0
  <2>1. IdsUpTo(d, h) = {}
    BY <1>2 DEF IdsUpTo
  <2> QED BY <1>2, <2>1 DEF LastId, Id
<1>3. CASE h # 0
  <2>1. h \in 1..h /\ h \in 1..Len(d)
    BY <1>1, <1>3
  <2>2. PICK H : H = IdsUpTo(d, h)
    OBVIOUS
  <2>3. Id(d, h) \in H /\ \A x \in H : \E i \in 1..h : x = Id(d, i)
    BY <2>1, <2>2 DEF IdsUpTo, Id
  <2>4. ASSUME NEW x \in H, x # Id(d, h) PROVE x.ts < Id(d, h).ts
    <3>1. PICK i \in 1..h : x = Id(d, i)
      BY <2>3
    <3>2. i \in 0..Len(d) /\ i < h
      BY <1>1, <2>4, <3>1
    <3> QED BY <3>1, <3>2 DEF Chain
  <2>5. \A x \in H : x.ts \in Nat
    BY <1>1, <2>3
  <2>6. \A x \in H : Id(d, h).ts >= x.ts
    BY <2>3, <2>4, <2>5
  <2>7. \A y \in H : (\A x \in H : y.ts >= x.ts) => y = Id(d, h)
    <3> SUFFICES ASSUME NEW y \in H, \A x \in H : y.ts >= x.ts, y # Id(d, h) PROVE FALSE
      OBVIOUS
    <3>1. y.ts >= Id(d, h).ts /\ y.ts < Id(d, h).ts /\ y.ts \in Nat /\ Id(d, h).ts \in Nat
      BY <1>1, <2>3, <2>4, <2>5
    <3> QED BY <3>1
  <2>8. (CHOOSE i \in H : \A j \in H : i.ts >= j.ts) = Id(d, h)
    BY <2>3, <2>6, <2>7
  <2> QED BY <2>2, <2>3, <2>8 DEF LastId
<1> QED BY <1>2, <1>3

\* The later of two tables.
LEMMA MergeIs ==
  ASSUME NEW d, Chain(d), NEW s \in 0..Len(d), NEW t \in 0..Len(d)
  PROVE  MergeCell(Table(d, s), Table(d, t)) = Table(d, IF t > s THEN t ELSE s)
<1>1. Len(d) \in Nat /\ Table(d, s).ts \in Nat /\ Table(d, t).ts \in Nat
      /\ (s < t <=> Table(d, s).ts < Table(d, t).ts)
  BY TablesAre
<1>2. Table(d, t).ts > Table(d, s).ts <=> t > s
  BY <1>1
<1> QED BY <1>2 DEF MergeCell

\* The ids and the tables of the changes k + 1..y, and of a set of changes.
TablesOf(d, k, y) == {Table(d, i) : i \in (k + 1)..y}
IdsOf(d, k, y) == {d[i].new : i \in (k + 1)..y}
Schemas(C) == {c.schema : c \in C}
Topologies(C) == {c.topology : c \in C}
StateIds(C) == {c.new : c \in C}

\* The latest of a table and of those of the changes k + 1..y.
LEMMA NewestIs ==
  ASSUME NEW d, Chain(d), NEW s \in 0..Len(d), NEW k \in 0..Len(d), NEW y \in 0..Len(d), k < y,
         NEW S, S = TablesOf(d, k, y)
  PROVE  NewestCell(Table(d, s), S) = Table(d, IF y > s THEN y ELSE s)
<1>1. /\ Len(d) \in Nat /\ \A i \in 0..Len(d) : Table(d, i).ts \in Nat
      /\ \A i, j \in 0..Len(d) : i < j <=> Table(d, i).ts < Table(d, j).ts
  BY TablesAre
<1>2. PICK q : q = IF y > s THEN y ELSE s
  OBVIOUS
<1>3. q \in 0..Len(d) /\ s <= q /\ y <= q
  BY <1>1, <1>2
<1>4. PICK T : T = S \cup {Table(d, s)}
  OBVIOUS
<1>5. \A c \in T : \E i \in 0..Len(d) : i <= q /\ c = Table(d, i)
  <2> SUFFICES ASSUME NEW c \in T PROVE \E i \in 0..Len(d) : i <= q /\ c = Table(d, i)
    OBVIOUS
  <2>1. CASE c = Table(d, s)
    BY <1>3, <2>1
  <2>2. CASE c \in S
    <3>1. PICK i \in (k + 1)..y : c = Table(d, i)
      BY <2>2 DEF TablesOf
    <3>2. i \in 0..Len(d) /\ i <= q
      BY <1>1, <1>3
    <3> QED BY <3>1, <3>2
  <2> QED BY <1>4, <2>1, <2>2
<1>6. Table(d, q) \in T
  <2>1. y \in (k + 1)..y
    BY <1>1
  <2> QED BY <1>2, <1>4, <2>1 DEF TablesOf
<1>7. \A c \in T : Table(d, q).ts >= c.ts
  <2> SUFFICES ASSUME NEW c \in T PROVE Table(d, q).ts >= c.ts
    OBVIOUS
  <2>1. PICK i \in 0..Len(d) : i <= q /\ c = Table(d, i)
    BY <1>5
  <2>2. ~(q < i)
    BY <1>1, <1>3, <2>1
  <2>3. ~(Table(d, q).ts < Table(d, i).ts) /\ Table(d, q).ts \in Nat /\ Table(d, i).ts \in Nat
    BY <1>1, <1>3, <2>2
  <2> QED BY <2>1, <2>3
<1>8. \A e \in T : (\A c \in T : e.ts >= c.ts) => e = Table(d, q)
  <2> SUFFICES ASSUME NEW e \in T, \A c \in T : e.ts >= c.ts PROVE e = Table(d, q)
    OBVIOUS
  <2>1. PICK i \in 0..Len(d) : i <= q /\ e = Table(d, i)
    BY <1>5
  <2>2. Table(d, i).ts >= Table(d, q).ts
    BY <1>6, <2>1
  <2>3. ~(i < q)
    BY <1>1, <1>3, <2>2
  <2>4. i = q
    BY <1>1, <1>3, <2>1, <2>3
  <2> QED BY <2>1, <2>4
<1>9. (CHOOSE e \in T : \A c \in T : e.ts >= c.ts) = Table(d, q)
  BY <1>6, <1>7, <1>8
<1> QED BY <1>2, <1>4, <1>9 DEF NewestCell

\* The changes k + 1..y.
LEMMA ChangesAre ==
  ASSUME NEW d, Chain(d), NEW k \in 0..Len(d), NEW y \in 0..Len(d), k < y,
         NEW C, C = ToSet(SubSeq(d, k + 1, y))
  PROVE  Schemas(C) = TablesOf(d, k, y) /\ Topologies(C) = TablesOf(d, k, y) /\ StateIds(C) = IdsOf(d, k, y)
<1>1. /\ d \in Seq(Cmds) /\ Len(d) \in Nat
      /\ \A i \in 1..Len(d) : d[i].schema = Table(d, i) /\ d[i].topology = Table(d, i)
  BY LenProperties DEF Chain
<1>2. PICK r, a : a = k + 1 /\ r = SubSeq(d, a, y)
  OBVIOUS
<1>3. a \in Nat /\ y \in Nat /\ a <= y /\ a..y \subseteq 1..Len(d) /\ \A i \in a..y : d[i] \in Cmds
  BY <1>1, <1>2
<1>4. r \in Seq(Cmds) /\ Len(r) = y - a + 1 /\ \A i \in 1..(y - a + 1) : r[i] = d[a + i - 1]
  BY <1>1, <1>2, <1>3, SubSeqProperties
<1>5. DOMAIN r = 1..(y - a + 1)
  BY <1>4, LenProperties
<1>6. C = {r[i] : i \in 1..(y - a + 1)}
  BY <1>2, <1>5 DEF ToSet
<1>7. C = {d[i] : i \in a..y}
  <2>1. \A i \in 1..(y - a + 1) : r[i] = d[a + i - 1] /\ a + i - 1 \in a..y
    BY <1>3, <1>4
  <2>2. \A i \in a..y : i - a + 1 \in 1..(y - a + 1) /\ a + (i - a + 1) - 1 = i
    BY <1>3
  <2>3. \A i \in a..y : d[i] = r[i - a + 1] /\ i - a + 1 \in 1..(y - a + 1)
    BY <2>1, <2>2
  <2>4. \A x \in C : \E i \in a..y : x = d[i]
    BY <1>6, <2>1
  <2>5. \A i \in a..y : d[i] \in C
    BY <1>6, <2>3
  <2> QED BY Zenon, <2>4, <2>5
<1>8. \A i \in a..y : d[i].schema = Table(d, i) /\ d[i].topology = Table(d, i)
  BY <1>1, <1>3
<1>9. {c.schema : c \in C} = {Table(d, i) : i \in a..y}
  <2>1. {c.schema : c \in C} = {d[i].schema : i \in a..y}
    BY Zenon, <1>7
  <2> QED BY <1>8, <2>1
<1>10. {c.topology : c \in C} = {Table(d, i) : i \in a..y}
  <2>1. {c.topology : c \in C} = {d[i].topology : i \in a..y}
    BY Zenon, <1>7
  <2> QED BY <1>8, <2>1
<1>11. {c.new : c \in C} = {d[i].new : i \in a..y}
  BY Zenon, <1>7
<1> QED BY Zenon, <1>2, <1>9, <1>10, <1>11 DEF Schemas, Topologies, StateIds, TablesOf, IdsOf

----------------------------------------------------------------------------
(* What stays true when the log or a server moves on.                      *)

\* Any stretch of the first changes stays when changes are added.
LEMMA PartSame ==
  ASSUME NEW d, NEW f, Grown(d, f), NEW a \in Nat \ {0}, NEW y \in 0..Len(d)
  PROVE  SubSeq(f, a, y) = SubSeq(d, a, y)
<1>1. /\ d \in Seq(Cmds) /\ f \in Seq(Cmds) /\ Len(d) \in Nat /\ Len(f) \in Nat /\ Len(d) <= Len(f)
      /\ \A i \in 1..Len(d) : f[i] = d[i]
  BY LenProperties DEF Grown
<1>2. y \in Int /\ a \in Int /\ \A i \in a..y : i \in 1..Len(d)
  BY <1>1
<1>3. \A i \in a..y : d[i] \in Cmds /\ f[i] \in Cmds /\ f[i] = d[i]
  BY <1>1, <1>2
<1>4. PICK r, q : r = SubSeq(d, a, y) /\ q = SubSeq(f, a, y)
  OBVIOUS
<1>5. /\ r \in Seq(Cmds) /\ Len(r) = IF a <= y THEN y - a + 1 ELSE 0
      /\ \A i \in 1..(y - a + 1) : r[i] = d[a + i - 1]
  BY <1>2, <1>3, <1>4, SubSeqProperties
<1>6. /\ q \in Seq(Cmds) /\ Len(q) = IF a <= y THEN y - a + 1 ELSE 0
      /\ \A i \in 1..(y - a + 1) : q[i] = f[a + i - 1]
  BY <1>2, <1>3, <1>4, SubSeqProperties
<1>7. \A i \in 1..Len(r) : i \in 1..(y - a + 1) /\ a + i - 1 \in a..y
  BY <1>2, <1>5
<1>8. \A i \in 1..Len(r) : q[i] = r[i]
  BY <1>3, <1>5, <1>6, <1>7
<1>9. Len(q) = Len(r)
  BY <1>5, <1>6
<1>10. q = r
  BY <1>5, <1>6, <1>8, <1>9, SeqEqual
<1> QED BY <1>4, <1>10

\* A longer log keeps what the log had: ids, tables and counts.
LEMMA LaterIs ==
  ASSUME NEW l, NEW d, NEW m, NEW f, Later(l, d, m, f)
  PROVE  /\ Grown(d, f) /\ Len(d) \in Nat /\ Len(f) \in Nat /\ Len(d) <= Len(f)
         /\ \A i \in 0..Len(d) : i \in 0..Len(f) /\ Id(f, i) = Id(d, i) /\ IdsUpTo(f, i) = IdsUpTo(d, i)
         /\ \A i \in 0..Len(l) : i \in 0..Len(m) /\ Count(m, i) = Count(l, i)
         /\ \A c : IsTable(c, d) => IsTable(c, f)
<1>1. /\ Grown(d, f) /\ Len(l) \in Nat /\ Len(m) \in Nat /\ Len(l) <= Len(m)
      /\ \A j \in 0..Len(l) : Count(m, j) = Count(l, j)
  BY DEF Later
<1>2. /\ Len(d) \in Nat /\ Len(f) \in Nat /\ Len(d) <= Len(f)
      /\ \A i \in 0..Len(d) : Id(f, i) = Id(d, i) /\ IdsUpTo(f, i) = IdsUpTo(d, i) /\ Table(f, i) = Table(d, i)
  BY <1>1, GrownIs
<1>3. (\A i \in 0..Len(d) : i \in 0..Len(f)) /\ (\A i \in 0..Len(l) : i \in 0..Len(m))
  BY <1>1, <1>2
<1>4. \A c : IsTable(c, d) => IsTable(c, f)
  BY <1>2, <1>3 DEF IsTable
<1> QED BY <1>1, <1>2, <1>3, <1>4

\* A command that was computed from the changes stays one.
LEMMA CommandLater ==
  ASSUME NEW d, NEW f, Grown(d, f), NEW c, NEW o, CommandOf(c, o, d)
  PROVE  CommandOf(c, o, f)
<1>1. /\ Len(d) \in Nat /\ Len(f) \in Nat /\ Len(d) <= Len(f)
      /\ \A i \in 0..Len(d) : Id(f, i) = Id(d, i) /\ SubSeq(Ops(f), 1, i) = SubSeq(Ops(d), 1, i)
  BY GrownIs
<1>2. PICK k \in 0..Len(d) : /\ c.prev = Id(d, k)
                             /\ Computed(c.schema, c.new.ts, o, d, k)
                             /\ Computed(c.topology, c.new.ts, o, d, k)
  BY DEF CommandOf
<1>3. \A s \in k..Len(d) : s \in k..Len(f) /\ s \in 0..Len(d)
  BY <1>1
<1>4. ASSUME NEW v, NEW ts, Computed(v, ts, o, d, k) PROVE Computed(v, ts, o, f, k)
  <2>1. PICK s \in k..Len(d) : v = TableCell(ts, Append(SubSeq(Ops(d), 1, s), o))
    BY <1>4 DEF Computed
  <2> QED BY <1>1, <1>3, <2>1 DEF Computed
<1>5. k \in 0..Len(f) /\ c.prev = Id(f, k)
  BY <1>1, <1>2
<1>6. Computed(c.schema, c.new.ts, o, f, k) /\ Computed(c.topology, c.new.ts, o, f, k)
  BY <1>2, <1>4
<1> QED BY <1>5, <1>6 DEF CommandOf

\* A server that is right stays right when the log grows.
LEMMA NodeLater ==
  ASSUME NEW l, NEW d, NEW m, NEW f, Later(l, d, m, f), NEW x, NodeOK(x, l, d)
  PROVE  NodeOK(x, m, f)
<1>1. PICK h \in 0..Len(d) : NodeAt(x, l, d, h)
  BY DEF NodeOK
<1>2. h \in 0..Len(f) /\ NodeAt(x, m, f, h)
  BY <1>1, LaterIs DEF NodeAt
<1> QED BY <1>2 DEF NodeOK

\* So does the batch that it applies ...
LEMMA WorkLater ==
  ASSUME NEW l, NEW d, NEW m, NEW f, Later(l, d, m, f), NEW w, NEW x, WorkOK(w, x, l, d)
  PROVE  WorkOK(w, x, m, f)
<1>1. CASE w = NoWork
  BY <1>1 DEF WorkOK
<1>2. CASE w # NoWork
  <2>1. /\ DOMAIN w = {"step", "upto", "cmds"} /\ w.step \in {"schema", "topology", "history"}
        /\ w.upto \in 0..Len(l)
    BY <1>2 DEF WorkOK
  <2>2. PICK k, y \in 0..Len(d) :
          /\ k < y /\ w.cmds = SubSeq(d, k + 1, y) /\ IdsUpTo(d, k) \subseteq x.history
          /\ Count(l, w.upto) <= y
          /\ w.step # "schema" => y <= Len(x.schema.v)
          /\ w.step = "history" => y <= Len(x.topology.v)
    BY <1>2 DEF WorkOK
  <2>3. k \in 0..Len(f) /\ y \in 0..Len(f) /\ IdsUpTo(f, k) = IdsUpTo(d, k) /\ Grown(d, f)
    BY LaterIs
  <2>4. k + 1 \in Nat \ {0}
    OBVIOUS
  <2>5. w.cmds = SubSeq(f, k + 1, y)
    BY <2>2, <2>3, <2>4, PartSame
  <2>6. w.upto \in 0..Len(m) /\ Count(m, w.upto) <= y
    BY <2>1, <2>2, LaterIs
  <2> QED BY <2>1, <2>2, <2>3, <2>5, <2>6 DEF WorkOK
<1> QED BY <1>1, <1>2

\* ... and the snapshot that it takes.
LEMMA PullLater ==
  ASSUME NEW l, NEW d, NEW m, NEW f, Later(l, d, m, f), NEW p, NEW x, NEW z, PullOK(p, x, z, l, d)
  PROVE  PullOK(p, x, z, m, f)
<1>1. CASE p = NoPull
  BY <1>1 DEF PullOK
<1>2. CASE p # NoPull
  <2>1. PICK g \in 0..Len(d) :
          /\ p.history = IdsUpTo(d, g) /\ Count(l, p.idx) <= g /\ g <= Len(p.schema.v)
          /\ p.step = "pull" => g <= Len(z.topology.v)
          /\ p.step # "pull" => IsTable(p.topology, d) /\ g <= Len(p.topology.v)
          /\ p.step \in {"topology", "history"} => g <= Len(x.schema.v)
          /\ p.step = "history" => g <= Len(x.topology.v)
    BY <1>2 DEF PullOK
  <2>2. g \in 0..Len(f) /\ IdsUpTo(f, g) = IdsUpTo(d, g) /\ \A c : IsTable(c, d) => IsTable(c, f)
    BY LaterIs
  <2>3. p.idx \in 0..Len(l) /\ IsTable(p.schema, d)
    BY <1>2 DEF PullOK
  <2>4. p.idx \in 0..Len(m) /\ Count(m, p.idx) = Count(l, p.idx) /\ IsTable(p.schema, f)
    BY <2>2, <2>3, LaterIs
  <2> QED BY <1>2, <2>1, <2>2, <2>4 DEF PullOK
<1> QED BY <1>1, <1>2

\* A server has more than before.
Moved(x, y) ==
  /\ x.history \subseteq y.history
  /\ Len(x.schema.v) \in Nat /\ Len(y.schema.v) \in Nat /\ Len(x.schema.v) <= Len(y.schema.v)
  /\ Len(x.topology.v) \in Nat /\ Len(y.topology.v) \in Nat /\ Len(x.topology.v) <= Len(y.topology.v)

\* A transfer goes on when its receiver and its sender have more than before.
LEMMA PullMoved ==
  ASSUME NEW l, NEW d, Len(d) \in Nat, NEW p, NEW x, NEW z, PullOK(p, x, z, l, d),
         NEW y, x = y \/ Moved(x, y), NEW u, z = u \/ Moved(z, u)
  PROVE  PullOK(p, y, u, l, d)
<1>1. CASE p = NoPull
  BY <1>1 DEF PullOK
<1>2. CASE p # NoPull
  <2>1. PICK g \in 0..Len(d) :
          /\ p.history = IdsUpTo(d, g) /\ Count(l, p.idx) <= g /\ g <= Len(p.schema.v)
          /\ p.step = "pull" => g <= Len(z.topology.v)
          /\ p.step # "pull" => IsTable(p.topology, d) /\ g <= Len(p.topology.v)
          /\ p.step \in {"topology", "history"} => g <= Len(x.schema.v)
          /\ p.step = "history" => g <= Len(x.topology.v)
    BY <1>2 DEF PullOK
  <2>2. g <= Len(z.topology.v) => g <= Len(u.topology.v)
    BY DEF Moved
  <2>3. /\ g <= Len(x.schema.v) => g <= Len(y.schema.v)
        /\ g <= Len(x.topology.v) => g <= Len(y.topology.v)
    BY DEF Moved
  <2> QED BY <1>2, <2>1, <2>2, <2>3 DEF PullOK
<1> QED BY <1>1, <1>2

\* Only server n moves.
Only(n, a, b) == DOMAIN b = Node /\ \A q \in Node : q # n => b[q] = a[q]

\* When one server moves, the others and their transfers stay right.
LEMMA ServerStep ==
  ASSUME NEW nodes, NEW ws, NEW ps, NEW l, NEW d, Len(d) \in Nat, ServersOK(nodes, ws, ps, l, d),
         NEW n \in Node, NEW nodes2, NEW ws2, NEW ps2,
         Only(n, nodes, nodes2), Only(n, ws, ws2), Only(n, ps, ps2),
         nodes[n] = nodes2[n] \/ Moved(nodes[n], nodes2[n]),
         NodeOK(nodes2[n], l, d), WorkOK(ws2[n], nodes2[n], l, d),
         PullOK(ps2[n], nodes2[n], nodes2[ps2[n].from], l, d)
  PROVE  ServersOK(nodes2, ws2, ps2, l, d)
<1>1. ASSUME NEW q \in Node, q # n
      PROVE  /\ NodeOK(nodes2[q], l, d) /\ WorkOK(ws2[q], nodes2[q], l, d)
             /\ PullOK(ps2[q], nodes2[q], nodes2[ps2[q].from], l, d)
  <2>1. nodes2[q] = nodes[q] /\ ws2[q] = ws[q] /\ ps2[q] = ps[q]
    BY <1>1 DEF Only
  <2>2. /\ NodeOK(nodes[q], l, d) /\ WorkOK(ws[q], nodes[q], l, d)
        /\ PullOK(ps[q], nodes[q], nodes[ps[q].from], l, d)
    BY DEF ServersOK
  <2>3. CASE ps[q] = NoPull
    BY <2>1, <2>2, <2>3 DEF PullOK
  <2>4. CASE ps[q] # NoPull
    <3>1. PICK r : r = ps[q].from
      OBVIOUS
    <3>2. r \in Node
      BY <2>2, <2>4, <3>1 DEF PullOK
    <3>3. nodes[r] = nodes2[r] \/ Moved(nodes[r], nodes2[r])
      BY <3>2 DEF Only
    <3>4. PullOK(ps[q], nodes[q], nodes2[r], l, d)
      BY <2>2, <3>1, <3>3, PullMoved
    <3> QED BY <2>1, <2>2, <3>1, <3>4
  <2> QED BY <2>3, <2>4
<1> QED BY <1>1 DEF ServersOK, Only

----------------------------------------------------------------------------
(* The steps of an operation.                                              *)

\* The command of an operation that reads the tables of server x.
Guarded(x, t, o) ==
  [prev |-> LastId(x.history), new |-> [ts |-> t, op |-> o],
   schema |-> TableCell(t, Append(x.schema.v, o)), topology |-> TableCell(t, Append(x.topology.v, o))]

\* start_operation: a command is computed from tables at least as new as its state id.
LEMMA GuardIs ==
  ASSUME NEW l, NEW d, Chain(d), NEW x, NodeOK(x, l, d), NEW o \in Operation,
         NEW t \in Nat, t > LastId(x.history).ts
  PROVE  CommandOf(Guarded(x, t, o), o, d)
<1>1. PICK h \in 0..Len(d) : NodeAt(x, l, d, h)
  BY DEF NodeOK
<1>2. LastId(x.history) = Id(d, h)
  BY <1>1, LastIdIs DEF NodeAt
<1>3. PICK s, u : s = Len(x.schema.v) /\ u = Len(x.topology.v)
  OBVIOUS
<1>4. /\ s \in 0..Len(d) /\ u \in 0..Len(d) /\ x.schema = Table(d, s) /\ x.topology = Table(d, u)
      /\ h <= s /\ h <= u
  BY <1>1, <1>3 DEF NodeAt, IsTable
<1>5. /\ Len(d) \in Nat /\ s \in h..Len(d) /\ u \in h..Len(d)
      /\ x.schema.v \in Seq(Operation) /\ x.topology.v \in Seq(Operation)
  BY <1>4, TablesAre
<1>6. x.schema.v = SubSeq(Ops(d), 1, s) /\ x.topology.v = SubSeq(Ops(d), 1, u)
  BY <1>4 DEF Table, TableCell
<1>7. Id(d, h) \in Ids \cup {NoId}
  <2>1. CASE h = 0
    BY <2>1 DEF Id
  <2>2. CASE h # 0
    <3>1. d \in Seq(Cmds) /\ h \in 1..Len(d)
      BY <1>5, <2>2 DEF Chain
    <3> QED BY <2>2, <3>1, OpsIs DEF Id
  <2> QED BY <2>1, <2>2
<1>8. PICK c : c = Guarded(x, t, o)
  OBVIOUS
<1>9. /\ c.prev = Id(d, h) /\ c.new = [ts |-> t, op |-> o]
      /\ c.schema = TableCell(t, Append(x.schema.v, o)) /\ c.topology = TableCell(t, Append(x.topology.v, o))
      /\ c = [prev |-> c.prev, new |-> c.new, schema |-> c.schema, topology |-> c.topology]
  BY <1>2, <1>8 DEF Guarded
<1>10. c.new \in Ids /\ c.schema \in Cells /\ c.topology \in Cells
  <2>1. Append(x.schema.v, o) \in Seq(Operation) /\ Append(x.topology.v, o) \in Seq(Operation)
    BY <1>5, AppendProperties
  <2> QED BY <1>9, <2>1 DEF Ids, Cells, TableCell
<1>11. c \in Cmds
  BY <1>7, <1>9, <1>10 DEF Cmds
<1>12. Computed(c.schema, t, o, d, h) /\ Computed(c.topology, t, o, d, h)
  BY <1>5, <1>6, <1>9 DEF Computed
<1>13. c.new.ts = t /\ c.new.op = o /\ t > c.prev.ts
  BY <1>2, <1>9
<1>14. CommandOf(c, o, d)
  BY <1>9, <1>11, <1>12, <1>13 DEF CommandOf
<1> QED BY <1>8, <1>14

\* An entry that server x has applied is settled, and its history tells how.
LEMMA FinishIs ==
  ASSUME NEW l, NEW d, NEW ops, NEW fl, ChangesOK(l, d, ops, fl), NEW x, NodeOK(x, l, d),
         NEW o, NEW c, CommandOf(c, o, d), c = ops[o].cmd, NEW i \in 1..x.applied, l[i].cmd = c
  PROVE  /\ \E k \in 0..Len(d) : k < Len(d) /\ c.prev = Id(d, k)
         /\ c.new \in x.history => \E j \in 1..Len(d) : d[j] = c
         /\ c.new \notin x.history => \A j \in 1..Len(d) : d[j] # c
<1>1. Chain(d) /\ Follows(l, d) /\ (\A j \in 1..Len(d) : Sent(d[j], ops))
  BY DEF ChangesOK
<1>2. PICK h \in 0..Len(d) : NodeAt(x, l, d, h)
  BY DEF NodeOK
<1>3. Len(d) \in Nat /\ Len(l) \in Nat
  BY <1>1, LenProperties DEF Chain, Follows
<1>4. i \in 1..Len(l) /\ i - 1 \in 0..Len(l) /\ i \in 0..Len(l) /\ x.applied \in 0..Len(l) /\ i <= x.applied
  BY <1>2, <1>3 DEF NodeAt
<1>5. /\ Count(l, i) \in 0..Len(d) /\ Count(l, i - 1) \in 0..Len(d) /\ Count(l, x.applied) \in 0..Len(d)
      /\ Count(l, i) <= Count(l, x.applied) /\ Applies(l, d, i)
  BY <1>1, <1>4 DEF Follows
<1>6. PICK k \in 0..Len(d) : c.prev = Id(d, k) /\ k < Count(l, i)
  BY <1>3, <1>5 DEF Applies
<1>7. k < h /\ k < Len(d)
  <2>1. Count(l, x.applied) <= h
    BY <1>2 DEF NodeAt
  <2> QED BY <1>3, <1>5, <1>6, <2>1
<1>8. x.history = IdsUpTo(d, h)
  BY <1>2 DEF NodeAt
<1>9. ASSUME c.new \in x.history PROVE \E j \in 1..Len(d) : d[j] = c
  <2>1. PICK j \in 1..h : c.new = d[j].new
    BY <1>8, <1>9 DEF IdsUpTo
  <2>2. j \in 1..Len(d)
    BY <1>3
  <2>3. ops[d[j].new.op].cmd = d[j]
    BY <1>1, <2>2 DEF Sent
  <2>4. d[j].new.op = o
    BY <2>1 DEF CommandOf
  <2> QED BY <2>2, <2>3, <2>4
<1>10. ASSUME NEW j \in 1..Len(d), d[j] = c PROVE c.new \in x.history
  <2>1. c.prev = Id(d, j - 1) /\ j - 1 \in 0..Len(d)
    BY <1>1, <1>3, <1>10 DEF Chain
  <2>2. j - 1 = k
    BY <1>1, <1>6, <2>1, IdsDiffer
  <2>3. j \in 1..h
    BY <1>3, <1>7, <2>2
  <2> QED BY <1>8, <1>10, <2>3 DEF IdsUpTo
<1> QED BY <1>6, <1>7, <1>9, <1>10

\* Operations change, and keep what they have sent.
OpStep(r, q, o, d, home) ==
  \/ q = r
  \/ /\ OpOK(q, o, d) /\ (q.phase # "idle" => o \in DOMAIN home)
     /\ r.phase \in SentPhases => q.phase \in SentPhases /\ q.cmd = r.cmd

\* The changes and the entries keep their operations.
LEMMA OperationsStep ==
  ASSUME NEW l, NEW d, NEW ops, NEW fl, NEW home, ChangesOK(l, d, ops, fl), OperationsOK(ops, d, home),
         NEW ops2, DOMAIN ops2 = Operation, \A o \in Operation : OpStep(ops[o], ops2[o], o, d, home)
  PROVE  ChangesOK(l, d, ops2, fl) /\ OperationsOK(ops2, d, home)
<1>1. ASSUME NEW c, Sent(c, ops) PROVE Sent(c, ops2)
  BY <1>1 DEF Sent, OpStep
<1>2. ASSUME NEW e, EntryOK(e, ops, d) PROVE EntryOK(e, ops2, d)
  BY <1>1, <1>2 DEF EntryOK
<1>3. ChangesOK(l, d, ops2, fl)
  BY <1>1, <1>2 DEF ChangesOK
<1>4. OperationsOK(ops2, d, home)
  BY DEF OperationsOK, OpStep
<1> QED BY <1>3, <1>4

----------------------------------------------------------------------------
(* The steps of a server.                                                  *)

SameTables(x, y) ==
  DOMAIN y = NodeFields /\ y.schema = x.schema /\ y.topology = x.topology /\ y.history = x.history

\* The index of the last applied command is set back, or forward over obsolete ones.
LEMMA IndexIs ==
  ASSUME NEW l, NEW d, Len(d) \in Nat, NEW x, NEW y, SameTables(x, y), NEW h \in 0..Len(d), NodeAt(x, l, d, h),
         y.applied \in 0..Len(l), Count(l, y.applied) <= h
  PROVE  NodeOK(y, l, d) /\ Moved(x, y)
<1>1. NodeAt(y, l, d, h)
  BY DEF NodeAt, SameTables
<1>2. Moved(x, y)
  BY DEF NodeAt, SameTables, Moved, IsTable
<1> QED BY <1>1, <1>2 DEF NodeOK

\* The index is set back: the server replays commands that it has applied.
LEMMA BackIs ==
  ASSUME NEW l, NEW d, Chain(d), Follows(l, d), NEW x, NEW y, SameTables(x, y), NodeOK(x, l, d),
         y.applied \in 0..x.applied
  PROVE  NodeOK(y, l, d) /\ Moved(x, y)
<1>1. PICK h \in 0..Len(d) : NodeAt(x, l, d, h)
  BY DEF NodeOK
<1>2. Len(d) \in Nat /\ Len(l) \in Nat
  BY LenProperties DEF Chain, Follows
<1>3. x.applied \in 0..Len(l) /\ Count(l, x.applied) <= h
  BY <1>1 DEF NodeAt
<1>4. y.applied \in 0..Len(l) /\ y.applied <= x.applied
  BY <1>2, <1>3
<1>5. Count(l, y.applied) <= Count(l, x.applied) /\ Count(l, y.applied) \in Nat /\ Count(l, x.applied) \in Nat
  <2>1. \A j \in 0..Len(l) : Count(l, j) \in Nat
    BY <1>2 DEF Follows
  <2> QED BY <1>3, <1>4, <2>1 DEF Follows
<1>6. Count(l, y.applied) <= h
  BY <1>2, <1>3, <1>5
<1> QED BY <1>1, <1>2, <1>4, <1>6, IndexIs

\* apply() begins: the batch has no effect, or there is work.
LEMMA ApplyIs ==
  ASSUME NEW l, NEW d, Chain(d), Follows(l, d), NEW x, NodeOK(x, l, d),
         NEW u \in x.applied..Len(l), NEW cmds, cmds = Effective(LastId(x.history), SubSeq(l, x.applied + 1, u)),
         NEW y, SameTables(x, y)
  PROVE  /\ cmds = << >> /\ y.applied = u => NodeOK(y, l, d) /\ Moved(x, y)
         /\ cmds # << >> => WorkOK([step |-> "schema", upto |-> u, cmds |-> cmds], y, l, d)
<1>1. PICK h \in 0..Len(d) : NodeAt(x, l, d, h)
  BY DEF NodeOK
<1>2. Len(d) \in Nat /\ Len(l) \in Nat
  BY LenProperties DEF Chain, Follows
<1>3. x.applied \in 0..Len(l) /\ Count(l, x.applied) <= h /\ x.history = IdsUpTo(d, h)
  BY <1>1 DEF NodeAt
<1>4. u \in 0..Len(l)
  BY <1>2, <1>3
<1>5. PICK t : t = Top(l, h, u)
  OBVIOUS
<1>6. cmds = SubSeq(d, h + 1, t) /\ t \in h..Len(d) /\ Count(l, u) <= t
  <2>1. LastId(x.history) = Id(d, h)
    BY <1>3, LastIdIs
  <2> QED BY <1>3, <1>5, <2>1, BatchIs
<1>7. CASE t = h
  <2>1. cmds = << >>
    BY <1>2, <1>6, <1>7, SubSeqEmpty
  <2> QED BY <1>1, <1>2, <1>4, <1>6, <1>7, <2>1, IndexIs
<1>8. CASE t # h
  <2>1. t \in 0..Len(d) /\ h < t /\ h + 1 \in Nat /\ t \in Nat /\ h + 1 <= t
    BY <1>2, <1>6, <1>8
  <2>2. \A i \in (h + 1)..t : d[i] \in Cmds
    BY <1>2, <2>1 DEF Chain
  <2>3. Len(cmds) = t - (h + 1) + 1
    BY <1>6, <2>1, <2>2, SubSeqProperties
  <2>4. cmds # << >>
    BY <2>1, <2>3
  <2>5. IdsUpTo(d, h) \subseteq y.history
    BY <1>3 DEF SameTables
  <2>6. PICK w : w = [step |-> "schema", upto |-> u, cmds |-> cmds]
    OBVIOUS
  <2>7. DOMAIN w = {"step", "upto", "cmds"} /\ w.step = "schema" /\ w.upto = u /\ w.cmds = cmds
    BY <2>6
  <2>8. WorkOK(w, y, l, d)
    BY <1>4, <1>6, <2>1, <2>5, <2>7 DEF WorkOK
  <2> QED BY <2>4, <2>6, <2>8
<1> QED BY <1>7, <1>8

\* The order in which tables are written.
LEMMA StepsAre == NextStep("schema") = "topology" /\ NextStep("topology") = "history"
<1>1. Steps[1] = "schema" /\ Steps[2] = "topology" /\ Steps[3] = "history"
  BY DEF Steps
<1>2. (CHOOSE i \in 1..2 : Steps[i] = "schema") = 1
  BY <1>1
<1>3. (CHOOSE i \in 1..2 : Steps[i] = "topology") = 2
  BY <1>1
<1> QED BY <1>1, <1>2, <1>3 DEF NextStep

\* A table of a server is written.
LEMMA TableIs ==
  ASSUME NEW l, NEW d, Chain(d), NEW x, NodeOK(x, l, d), NEW q \in 0..Len(d), NEW y, DOMAIN y = NodeFields,
         y.history = x.history, y.applied = x.applied,
         \/ /\ y.topology = x.topology /\ y.schema = Table(d, q) /\ Len(x.schema.v) <= q
         \/ /\ y.schema = x.schema /\ y.topology = Table(d, q) /\ Len(x.topology.v) <= q
  PROVE  NodeOK(y, l, d) /\ Moved(x, y)
<1>1. PICK h \in 0..Len(d) : NodeAt(x, l, d, h)
  BY DEF NodeOK
<1>2. /\ Len(x.schema.v) \in 0..Len(d) /\ Len(x.topology.v) \in 0..Len(d)
      /\ h <= Len(x.schema.v) /\ h <= Len(x.topology.v)
      /\ IsTable(x.schema, d) /\ IsTable(x.topology, d)
  BY <1>1 DEF NodeAt, IsTable
<1>3. Len(d) \in Nat /\ IsTable(Table(d, q), d) /\ Len(Table(d, q).v) = q
  BY TablesAre
<1>4. /\ IsTable(y.schema, d) /\ Len(x.schema.v) <= Len(y.schema.v)
      /\ Len(x.schema.v) \in Nat /\ Len(y.schema.v) \in Nat
  BY <1>2, <1>3
<1>5. /\ IsTable(y.topology, d) /\ Len(x.topology.v) <= Len(y.topology.v)
      /\ Len(x.topology.v) \in Nat /\ Len(y.topology.v) \in Nat
  BY <1>2, <1>3
<1>6. h <= Len(y.schema.v) /\ h <= Len(y.topology.v)
  BY <1>2, <1>4, <1>5
<1>7. NodeAt(y, l, d, h)
  BY <1>1, <1>4, <1>5, <1>6 DEF NodeAt
<1>8. Moved(x, y)
  BY <1>4, <1>5 DEF Moved
<1> QED BY <1>7, <1>8 DEF NodeOK

\* The changes of a batch are written to one table.
LEMMA WriteIs ==
  ASSUME NEW l, NEW d, Chain(d), NEW x, NodeOK(x, l, d), NEW w, WorkOK(w, x, l, d),
         w.step \in {"schema", "topology"}, NEW C, C = ToSet(w.cmds),
         NEW y, DOMAIN y = NodeFields, y.history = x.history, y.applied = x.applied,
         y.schema = IF w.step = "schema" THEN NewestCell(x.schema, Schemas(C)) ELSE x.schema,
         y.topology = IF w.step = "topology" THEN NewestCell(x.topology, Topologies(C)) ELSE x.topology,
         NEW v, v = [w EXCEPT !.step = NextStep(@)]
  PROVE  NodeOK(y, l, d) /\ Moved(x, y) /\ WorkOK(v, y, l, d)
<1>1. w # NoWork
  BY DEF NoWork
<1>2. DOMAIN w = {"step", "upto", "cmds"} /\ w.upto \in 0..Len(l)
  BY <1>1 DEF WorkOK
<1>3. PICK k, b \in 0..Len(d) :
        /\ k < b /\ w.cmds = SubSeq(d, k + 1, b) /\ IdsUpTo(d, k) \subseteq x.history
        /\ Count(l, w.upto) <= b
        /\ w.step # "schema" => b <= Len(x.schema.v)
        /\ w.step = "history" => b <= Len(x.topology.v)
  BY <1>1 DEF WorkOK
<1>4. PICK S : S = TablesOf(d, k, b)
  OBVIOUS
<1>5. Schemas(C) = S /\ Topologies(C) = S
  <2>1. C = ToSet(SubSeq(d, k + 1, b))
    BY <1>3
  <2> QED BY <1>3, <1>4, <2>1, ChangesAre
<1>6. IsTable(x.schema, d) /\ IsTable(x.topology, d) /\ Len(d) \in Nat
  BY TablesAre DEF NodeOK, NodeAt
<1>7. CASE w.step = "schema"
  <2>1. PICK s : s = Len(x.schema.v)
    OBVIOUS
  <2>2. s \in 0..Len(d) /\ x.schema = Table(d, s)
    BY <1>6, <2>1 DEF IsTable
  <2>3. PICK q : q = IF b > s THEN b ELSE s
    OBVIOUS
  <2>4. NewestCell(Table(d, s), S) = Table(d, q)
    BY <1>3, <1>4, <2>2, <2>3, NewestIs
  <2>5. q \in 0..Len(d) /\ s <= q /\ b <= q
    BY <1>6, <2>2, <2>3
  <2>6. y.schema = Table(d, q) /\ y.topology = x.topology
    BY <1>5, <1>7, <2>2, <2>4
  <2>7. NodeOK(y, l, d) /\ Moved(x, y)
    BY <2>1, <2>5, <2>6, TableIs
  <2>8. DOMAIN v = {"step", "upto", "cmds"} /\ v.step = "topology" /\ v.upto = w.upto /\ v.cmds = w.cmds
    BY <1>2, <1>7, StepsAre
  <2>9. b <= Len(y.schema.v)
    BY <2>5, <2>6, TablesAre
  <2>10. WorkOK(v, y, l, d)
    BY <1>2, <1>3, <2>8, <2>9 DEF WorkOK
  <2> QED BY <2>7, <2>10
<1>8. CASE w.step = "topology"
  <2>1. PICK s : s = Len(x.topology.v)
    OBVIOUS
  <2>2. s \in 0..Len(d) /\ x.topology = Table(d, s)
    BY <1>6, <2>1 DEF IsTable
  <2>3. PICK q : q = IF b > s THEN b ELSE s
    OBVIOUS
  <2>4. NewestCell(Table(d, s), S) = Table(d, q)
    BY <1>3, <1>4, <2>2, <2>3, NewestIs
  <2>5. q \in 0..Len(d) /\ s <= q /\ b <= q
    BY <1>6, <2>2, <2>3
  <2>6. y.topology = Table(d, q) /\ y.schema = x.schema
    BY <1>5, <1>8, <2>2, <2>4
  <2>7. NodeOK(y, l, d) /\ Moved(x, y)
    BY <2>1, <2>5, <2>6, TableIs
  <2>8. DOMAIN v = {"step", "upto", "cmds"} /\ v.step = "history" /\ v.upto = w.upto /\ v.cmds = w.cmds
    BY <1>2, <1>8, StepsAre
  <2>9. b <= Len(y.topology.v) /\ b <= Len(y.schema.v)
    BY <1>3, <1>8, <2>5, <2>6, TablesAre
  <2>10. WorkOK(v, y, l, d)
    BY <1>2, <1>3, <2>8, <2>9 DEF WorkOK
  <2> QED BY <2>7, <2>10
<1> QED BY <1>7, <1>8

\* State ids are written to the history of a server that has their changes.
LEMMA HistoryIs ==
  ASSUME NEW l, NEW d, Chain(d), Follows(l, d), NEW x, NodeOK(x, l, d),
         NEW k \in 0..Len(d), NEW b \in 0..Len(d), IdsUpTo(d, k) \subseteq x.history,
         b <= Len(x.schema.v), b <= Len(x.topology.v),
         NEW u \in 0..Len(l), Count(l, u) <= b,
         NEW y, DOMAIN y = NodeFields, y.schema = x.schema, y.topology = x.topology,
         y.history = x.history \cup IdsOf(d, k, b),
         y.applied = IF u > x.applied THEN u ELSE x.applied
  PROVE  NodeOK(y, l, d) /\ Moved(x, y)
<1>1. PICK h \in 0..Len(d) : NodeAt(x, l, d, h)
  BY DEF NodeOK
<1>2. Len(d) \in Nat /\ Len(l) \in Nat /\ \A j \in 0..Len(l) : Count(l, j) \in Nat
  BY LenProperties DEF Chain, Follows
<1>3. /\ x.applied \in 0..Len(l) /\ Count(l, x.applied) <= h /\ x.history = IdsUpTo(d, h)
      /\ IsTable(x.schema, d) /\ IsTable(x.topology, d) /\ h <= Len(x.schema.v) /\ h <= Len(x.topology.v)
  BY <1>1 DEF NodeAt
<1>4. k <= h
  <2> SUFFICES ASSUME h < k PROVE FALSE
    BY <1>2
  <2>1. k \in 1..k /\ k \in 1..Len(d)
    BY <1>2
  <2>2. d[k].new \in IdsUpTo(d, h)
    BY <1>3, <2>1 DEF IdsUpTo
  <2>3. PICK j \in 1..h : d[k].new = d[j].new
    BY <2>2 DEF IdsUpTo
  <2>4. j \in 0..Len(d) /\ j # 0 /\ k # 0 /\ j < k
    BY <1>2, <2>1
  <2>5. Id(d, k) = Id(d, j)
    BY <2>3, <2>4 DEF Id
  <2> QED BY <1>2, <2>4, <2>5, IdsDiffer
<1>5. PICK q : q = IF b > h THEN b ELSE h
  OBVIOUS
<1>6. q \in 0..Len(d) /\ h <= q /\ b <= q /\ q <= Len(x.schema.v) /\ q <= Len(x.topology.v)
  BY <1>2, <1>3, <1>5
<1>7. y.history = IdsUpTo(d, q)
  <2>1. \A i \in 1..q : i \in 1..h \/ i \in (k + 1)..b
    BY <1>2, <1>4, <1>5
  <2>2. (\A i \in 1..h : i \in 1..q) /\ (\A i \in (k + 1)..b : i \in 1..q)
    BY <1>2, <1>6
  <2>3. y.history = {d[j].new : j \in 1..h} \cup {d[i].new : i \in (k + 1)..b}
    BY <1>3 DEF IdsUpTo, IdsOf
  <2>4. y.history \subseteq {d[j].new : j \in 1..q}
    BY <2>2, <2>3
  <2>5. {d[j].new : j \in 1..q} \subseteq y.history
    BY <2>1, <2>3
  <2> QED BY <2>4, <2>5 DEF IdsUpTo
<1>8. y.applied \in 0..Len(l) /\ Count(l, y.applied) <= q
  BY <1>2, <1>3, <1>6
<1>9. NodeAt(y, l, d, q)
  BY <1>3, <1>6, <1>7, <1>8 DEF NodeAt
<1>10. Moved(x, y)
  BY <1>2, <1>3 DEF Moved, IsTable
<1> QED BY <1>6, <1>9, <1>10 DEF NodeOK

\* A whole history.
LEMMA HistoriesAre ==
  ASSUME NEW d, NEW g
  PROVE  IdsUpTo(d, 0) = {} /\ IdsUpTo(d, g) = IdsOf(d, 0, g)
<1>1. 1..0 = {} /\ 0 + 1 = 1
  OBVIOUS
<1> QED BY <1>1 DEF IdsUpTo, IdsOf

PullFields == {"step", "from", "idx", "schema", "history"}

\* The two requests of a snapshot transfer from server m.
LEMMA PullSchemaIs ==
  ASSUME NEW l, NEW d, Chain(d), Follows(l, d), NEW x, NEW m \in Node, NEW z, NodeOK(z, l, d),
         NEW i \in 0..z.applied,
         NEW p, p = [step |-> "pull", from |-> m, idx |-> i, schema |-> z.schema, history |-> z.history]
  PROVE  PullOK(p, x, z, l, d)
<1>1. PICK h \in 0..Len(d) : NodeAt(z, l, d, h)
  BY DEF NodeOK
<1>2. Len(d) \in Nat /\ Len(l) \in Nat /\ \A j \in 0..Len(l) : Count(l, j) \in Nat
  BY LenProperties DEF Chain, Follows
<1>3. /\ z.applied \in 0..Len(l) /\ Count(l, z.applied) <= h /\ z.history = IdsUpTo(d, h)
      /\ IsTable(z.schema, d) /\ h <= Len(z.schema.v) /\ h <= Len(z.topology.v)
  BY <1>1 DEF NodeAt
<1>4. i \in 0..Len(l) /\ i <= z.applied
  BY <1>2, <1>3
<1>5. Count(l, i) <= Count(l, z.applied)
  BY <1>3, <1>4 DEF Follows
<1>6. Count(l, i) <= h
  BY <1>2, <1>3, <1>4, <1>5
<1>7. /\ DOMAIN p = PullFields /\ p.step = "pull" /\ p.from = m /\ p.idx = i
      /\ p.schema = z.schema /\ p.history = z.history
  BY DEF PullFields
<1> QED BY <1>3, <1>4, <1>6, <1>7 DEF PullOK, PullFields

\* The second request adds a topology at least as new as the history of the first.
LEMMA PullTopologyIs ==
  ASSUME NEW l, NEW d, Chain(d), NEW x, NEW z, NodeOK(z, l, d), NEW p, p.step = "pull", PullOK(p, x, z, l, d),
         NEW r, r = [topology |-> z.topology, step |-> "schema", from |-> p.from, idx |-> p.idx,
                     schema |-> p.schema, history |-> p.history]
  PROVE  \A y : PullOK(r, x, y, l, d)
<1>1. IsTable(z.topology, d)
  BY DEF NodeOK, NodeAt
<1>2. p # NoPull
  BY DEF NoPull
<1>3. /\ p.from \in Node /\ p.idx \in 0..Len(l) /\ IsTable(p.schema, d)
      /\ \E g \in 0..Len(d) : /\ p.history = IdsUpTo(d, g) /\ Count(l, p.idx) <= g /\ g <= Len(p.schema.v)
                              /\ g <= Len(z.topology.v)
  BY <1>2 DEF PullOK
<1>4. /\ DOMAIN r = PullFields \cup {"topology"} /\ r.step = "schema" /\ r.from = p.from /\ r.idx = p.idx
      /\ r.schema = p.schema /\ r.history = p.history /\ r.topology = z.topology
  BY DEF PullFields
<1> QED BY <1>1, <1>3, <1>4 DEF PullOK, PullFields

\* The tables of a snapshot are installed.
LEMMA InstallIs ==
  ASSUME NEW l, NEW d, Chain(d), NEW x, NodeOK(x, l, d), NEW z, NEW p, PullOK(p, x, z, l, d),
         NEW y, DOMAIN y = NodeFields, y.history = x.history, y.applied = x.applied,
         \/ /\ p.step = "schema" /\ y.topology = x.topology /\ y.schema = MergeCell(x.schema, p.schema)
         \/ /\ p.step = "topology" /\ y.schema = x.schema /\ y.topology = MergeCell(x.topology, p.topology),
         NEW r, r = [p EXCEPT !.step = NextStep(@)]
  PROVE  NodeOK(y, l, d) /\ Moved(x, y) /\ \A u : PullOK(r, y, u, l, d)
<1>1. p # NoPull
  BY DEF NoPull
<1>2. /\ DOMAIN p = PullFields \cup {"topology"} /\ p.from \in Node /\ p.idx \in 0..Len(l)
      /\ IsTable(p.schema, d) /\ IsTable(p.topology, d)
  BY <1>1 DEF PullOK, PullFields
<1>3. PICK g \in 0..Len(d) :
        /\ p.history = IdsUpTo(d, g) /\ Count(l, p.idx) <= g
        /\ g <= Len(p.schema.v) /\ g <= Len(p.topology.v)
        /\ p.step = "topology" => g <= Len(x.schema.v)
  BY <1>1 DEF PullOK
<1>4. IsTable(x.schema, d) /\ IsTable(x.topology, d) /\ Len(d) \in Nat
  BY TablesAre DEF NodeOK, NodeAt
<1>5. CASE p.step = "schema"
  <2>1. PICK s, t : s = Len(x.schema.v) /\ t = Len(p.schema.v)
    OBVIOUS
  <2>2. s \in 0..Len(d) /\ t \in 0..Len(d) /\ x.schema = Table(d, s) /\ p.schema = Table(d, t) /\ g <= t
    BY <1>2, <1>3, <1>4, <2>1 DEF IsTable
  <2>3. PICK q : q = IF t > s THEN t ELSE s
    OBVIOUS
  <2>4. q \in 0..Len(d) /\ s <= q /\ g <= q
    BY <1>4, <2>2, <2>3
  <2>5. y.schema = Table(d, q) /\ y.topology = x.topology
    BY <1>5, <2>2, <2>3, MergeIs
  <2>6. NodeOK(y, l, d) /\ Moved(x, y)
    BY <2>1, <2>4, <2>5, TableIs
  <2>7. g <= Len(y.schema.v)
    BY <2>4, <2>5, TablesAre
  <2>8. /\ DOMAIN r = PullFields \cup {"topology"} /\ r.step = "topology" /\ r.from = p.from /\ r.idx = p.idx
        /\ r.schema = p.schema /\ r.history = p.history /\ r.topology = p.topology
    BY <1>2, <1>5, StepsAre DEF PullFields
  <2>9. \A u : PullOK(r, y, u, l, d)
    BY <1>2, <1>3, <2>7, <2>8 DEF PullOK, PullFields
  <2> QED BY <2>6, <2>9
<1>6. CASE p.step = "topology"
  <2>1. PICK s, t : s = Len(x.topology.v) /\ t = Len(p.topology.v)
    OBVIOUS
  <2>2. s \in 0..Len(d) /\ t \in 0..Len(d) /\ x.topology = Table(d, s) /\ p.topology = Table(d, t) /\ g <= t
    BY <1>2, <1>3, <1>4, <2>1 DEF IsTable
  <2>3. PICK q : q = IF t > s THEN t ELSE s
    OBVIOUS
  <2>4. q \in 0..Len(d) /\ s <= q /\ g <= q
    BY <1>4, <2>2, <2>3
  <2>5. y.topology = Table(d, q) /\ y.schema = x.schema
    BY <1>6, <2>2, <2>3, MergeIs
  <2>6. NodeOK(y, l, d) /\ Moved(x, y)
    BY <2>1, <2>4, <2>5, TableIs
  <2>7. g <= Len(y.topology.v) /\ g <= Len(y.schema.v)
    BY <1>3, <1>6, <2>4, <2>5, TablesAre
  <2>8. /\ DOMAIN r = PullFields \cup {"topology"} /\ r.step = "history" /\ r.from = p.from /\ r.idx = p.idx
        /\ r.schema = p.schema /\ r.history = p.history /\ r.topology = p.topology
    BY <1>2, <1>6, StepsAre DEF PullFields
  <2>9. \A u : PullOK(r, y, u, l, d)
    BY <1>2, <1>3, <2>7, <2>8 DEF PullOK, PullFields
  <2> QED BY <2>6, <2>9
<1> QED BY <1>5, <1>6

----------------------------------------------------------------------------
(* The actions of the client.                                              *)

\* What the invariant says of every variable.
LEMMA Facts ==
  ASSUME IInv
  PROVE  /\ Chain(Decided) /\ Follows(log, Decided) /\ Decided \in Seq(Cmds) /\ log \in Seq(Entries)
         /\ Len(Decided) \in Nat /\ Len(log) \in Nat
         /\ DOMAIN node = Node /\ DOMAIN work = Node /\ DOMAIN pull = Node /\ DOMAIN op = Operation
         /\ \A n \in Node : /\ NodeOK(node[n], log, Decided) /\ WorkOK(work[n], node[n], log, Decided)
                            /\ PullOK(pull[n], node[n], node[pull[n].from], log, Decided)
                            /\ DOMAIN node[n] = NodeFields /\ node[n].applied \in 0..Len(log)
         /\ \A o \in Operation : /\ OpOK(op[o], o, Decided)
                                 /\ (op[o].phase # "idle" => o \in DOMAIN Home /\ Home[o] \in Node)
<1>1. Chain(Decided) /\ Follows(log, Decided)
  BY DEF IInv, ChangesOK
<1>2. Decided \in Seq(Cmds) /\ log \in Seq(Entries) /\ Len(Decided) \in Nat /\ Len(log) \in Nat
  BY <1>1, LenProperties DEF Chain, Follows
<1>3. /\ DOMAIN node = Node /\ DOMAIN work = Node /\ DOMAIN pull = Node
      /\ \A n \in Node : /\ NodeOK(node[n], log, Decided) /\ WorkOK(work[n], node[n], log, Decided)
                         /\ PullOK(pull[n], node[n], node[pull[n].from], log, Decided)
  BY DEF IInv, ServersOK
<1>4. \A n \in Node : DOMAIN node[n] = NodeFields /\ node[n].applied \in 0..Len(log)
  BY <1>3 DEF NodeOK, NodeAt
<1>5. \A o \in DOMAIN Home : Home[o] \in Node
  BY ScenariosAssumption DEF IInv, Home
<1>6. /\ DOMAIN op = Operation
      /\ \A o \in Operation : OpOK(op[o], o, Decided) /\ (op[o].phase # "idle" => o \in DOMAIN Home)
  BY DEF IInv, OperationsOK
<1> QED BY <1>1, <1>2, <1>3, <1>4, <1>5, <1>6

\* The changes and the homes of the operations only depend on the log and the scenario.
LEMMA SameLog ==
  ASSUME log' = log, scenario' = scenario
  PROVE  Decided' = Decided /\ Home' = Home
BY DEF Decided, Home

\* A step that changes operations only.
LEMMA OperationsOnly ==
  ASSUME IInv, UNCHANGED <<scenario, log, flight, node, work, pull>>, DOMAIN op' = Operation,
         \A o \in Operation : OpStep(op[o], op'[o], o, Decided, Home)
  PROVE  IInv'
<1>1. ChangesOK(log, Decided, op', flight) /\ OperationsOK(op', Decided, Home)
  BY OperationsStep DEF IInv
<1>2. log' = log /\ Decided' = Decided /\ Home' = Home
  BY SameLog
<1> QED BY <1>1, <1>2 DEF IInv

\* start_operation keeps the invariant.
LEMMA StartOperationStep ==
  ASSUME IInv, UNCHANGED scenario, NEW o \in Operation, StartOperation(o)
  PROVE  IInv'
<1>1. /\ o \in DOMAIN Home /\ op[o].phase = "idle"
      /\ op' = [op EXCEPT ![o].phase = "barrier", ![o].barrier = Len(log)]
      /\ UNCHANGED <<scenario, log, flight, node, work, pull>>
  BY DEF StartOperation
<1>2. DOMAIN op = Operation /\ OpOK(op[o], o, Decided)
  BY Facts
<1>3. /\ DOMAIN op' = Operation /\ \A p \in Operation : p # o => op'[p] = op[p]
      /\ DOMAIN op'[o] = DOMAIN op[o] /\ op'[o].phase = "barrier" /\ op'[o].attempt = op[o].attempt
  BY <1>1, <1>2 DEF OpOK
<1>4. OpOK(op'[o], o, Decided)
  BY <1>2, <1>3 DEF OpOK
<1>5. OpStep(op[o], op'[o], o, Decided, Home)
  BY <1>1, <1>4 DEF OpStep, SentPhases
<1>6. \A p \in Operation : OpStep(op[p], op'[p], p, Decided, Home)
  BY <1>3, <1>5 DEF OpStep
<1> QED BY <1>1, <1>3, <1>6, OperationsOnly

\* add_entry returns: the operation is settled, with the outcome its history tells.
LEMMA FinishOperationStep ==
  ASSUME IInv, UNCHANGED scenario, NEW o \in Operation, FinishOperation(o)
  PROVE  /\ IInv'
         /\ op[o].phase = "sent" /\ UNCHANGED log
         /\ \E ph \in {"done", "conflict"} : op' = [op EXCEPT ![o].phase = ph]
<1>1. PICK n : n = Home[o]
  OBVIOUS
<1>2. PICK ph : ph = IF op[o].cmd.new \in node[n].history THEN "done" ELSE "conflict"
  OBVIOUS
<1>3. /\ op[o].phase = "sent" /\ op' = [op EXCEPT ![o].phase = ph]
      /\ \E i \in 1..node[n].applied : log[i] = Entry(o, op[o].attempt)
      /\ UNCHANGED <<scenario, log, flight, node, work, pull>>
  BY <1>1, <1>2 DEF FinishOperation
<1>4. DOMAIN op = Operation /\ OpOK(op[o], o, Decided) /\ n \in Node /\ o \in DOMAIN Home
      /\ NodeOK(node[n], log, Decided)
  BY <1>1, <1>3, Facts
<1>5. /\ DOMAIN op' = Operation /\ \A p \in Operation : p # o => op'[p] = op[p]
      /\ DOMAIN op'[o] = DOMAIN op[o] /\ op'[o].phase = ph /\ op'[o].attempt = op[o].attempt
      /\ op'[o].cmd = op[o].cmd
  BY <1>3, <1>4 DEF OpOK
<1>6. PICK c : c = op[o].cmd
  OBVIOUS
<1>7. CommandOf(c, o, Decided)
  BY <1>3, <1>4, <1>6 DEF OpOK
<1>8. PICK i \in 1..node[n].applied : log[i].cmd = c
  BY <1>3, <1>6 DEF Entry
<1>9. ChangesOK(log, Decided, op, flight)
  BY DEF IInv
<1>10. /\ \E k \in 0..Len(Decided) : k < Len(Decided) /\ c.prev = Id(Decided, k)
       /\ c.new \in node[n].history => \E j \in 1..Len(Decided) : Decided[j] = c
       /\ c.new \notin node[n].history => \A j \in 1..Len(Decided) : Decided[j] # c
  BY <1>4, <1>6, <1>7, <1>8, <1>9, FinishIs
<1>11. OpOK(op'[o], o, Decided)
  BY <1>2, <1>4, <1>5, <1>6, <1>7, <1>10 DEF OpOK
<1>12. OpStep(op[o], op'[o], o, Decided, Home)
  BY <1>2, <1>4, <1>5, <1>11 DEF OpStep, SentPhases
<1>13. \A p \in Operation : OpStep(op[p], op'[p], p, Decided, Home)
  BY <1>5, <1>12 DEF OpStep
<1>14. IInv'
  BY <1>3, <1>5, <1>13, OperationsOnly
<1> QED BY <1>2, <1>3, <1>14

\* What server n is doing goes on while its tables change.
LEMMA GoesOn ==
  ASSUME IInv, NEW n \in Node, Only(n, node, node'), node[n] = node'[n] \/ Moved(node[n], node'[n])
  PROVE  /\ WorkOK(work[n], node'[n], log, Decided)
         /\ PullOK(pull[n], node'[n], node'[pull[n].from], log, Decided)
<1>1. /\ Len(Decided) \in Nat /\ WorkOK(work[n], node[n], log, Decided)
      /\ PullOK(pull[n], node[n], node[pull[n].from], log, Decided)
  BY Facts
<1>2. WorkOK(work[n], node'[n], log, Decided)
  <2>1. CASE work[n] = NoWork
    BY <2>1 DEF WorkOK
  <2>2. CASE work[n] # NoWork
    <3>1. PICK w, x, y : w = work[n] /\ x = node[n] /\ y = node'[n]
      OBVIOUS
    <3>2. PICK k, b \in 0..Len(Decided) :
            /\ k < b /\ w.cmds = SubSeq(Decided, k + 1, b) /\ IdsUpTo(Decided, k) \subseteq x.history
            /\ Count(log, w.upto) <= b
            /\ w.step # "schema" => b <= Len(x.schema.v)
            /\ w.step = "history" => b <= Len(x.topology.v)
      BY <1>1, <2>2, <3>1 DEF WorkOK
    <3>3. /\ x.history \subseteq y.history
          /\ b <= Len(x.schema.v) => b <= Len(y.schema.v)
          /\ b <= Len(x.topology.v) => b <= Len(y.topology.v)
      <4>1. x = y \/ Moved(x, y)
        BY <3>1
      <4>2. CASE x = y
        BY <4>2
      <4>3. CASE Moved(x, y)
        BY <1>1, <4>3 DEF Moved
      <4> QED BY <4>1, <4>2, <4>3
    <3>4. /\ DOMAIN w = {"step", "upto", "cmds"} /\ w.step \in {"schema", "topology", "history"}
          /\ w.upto \in 0..Len(log)
      BY <1>1, <2>2, <3>1 DEF WorkOK
    <3>5. WorkOK(w, y, log, Decided)
      BY <3>2, <3>3, <3>4 DEF WorkOK
    <3> QED BY <3>1, <3>5
  <2> QED BY <2>1, <2>2
<1>3. PullOK(pull[n], node'[n], node'[pull[n].from], log, Decided)
  <2>1. CASE pull[n] = NoPull
    BY <2>1 DEF PullOK
  <2>2. CASE pull[n] # NoPull
    <3>1. PICK r : r = pull[n].from
      OBVIOUS
    <3>2. r \in Node
      BY <1>1, <2>2, <3>1 DEF PullOK
    <3>3. node[r] = node'[r] \/ Moved(node[r], node'[r])
      BY <3>2 DEF Only
    <3> QED BY <1>1, <3>1, <3>3, PullMoved
  <2> QED BY <2>1, <2>2
<1> QED BY <1>2, <1>3

\* The mutex of a server changes hands, or its index is set back.
LEMMA MutexStep ==
  ASSUME IInv, NEW n \in Node, Only(n, node, node'), SameTables(node[n], node'[n]),
         node'[n].applied \in 0..node[n].applied, UNCHANGED <<work, pull>>
  PROVE  ServersOK(node', work', pull', log, Decided)
<1>1. /\ Chain(Decided) /\ Follows(log, Decided) /\ Len(Decided) \in Nat
      /\ DOMAIN work = Node /\ DOMAIN pull = Node /\ NodeOK(node[n], log, Decided)
  BY Facts
<1>2. Only(n, work, work') /\ Only(n, pull, pull')
  BY <1>1 DEF Only
<1>3. NodeOK(node'[n], log, Decided) /\ Moved(node[n], node'[n])
  BY <1>1, BackIs
<1>4. /\ WorkOK(work'[n], node'[n], log, Decided)
      /\ PullOK(pull'[n], node'[n], node'[pull'[n].from], log, Decided)
  BY <1>3, GoesOn
<1>5. ServersOK(node, work, pull, log, Decided)
  BY DEF IInv
<1> QED BY <1>1, <1>2, <1>3, <1>4, <1>5, ServerStep

\* The guard of start_operation is taken.
LEMMA TakeGuardStep ==
  ASSUME IInv, UNCHANGED scenario, NEW o \in Operation, TakeGuard(o)
  PROVE  /\ IInv'
         /\ op[o].phase = "barrier" /\ UNCHANGED log
         /\ \E c : op' = [op EXCEPT ![o].phase = "guard", ![o].cmd = c]
<1>1. PICK n : n = Home[o]
  OBVIOUS
<1>2. PICK last, x : last = LastId(node[n].history) /\ x = node[n]
  OBVIOUS
<1>3. /\ op[o].phase = "barrier" /\ node' = [node EXCEPT ![n].mutex = "guard"]
      /\ UNCHANGED <<scenario, log, flight, work, pull>>
      /\ \E id \in NewIds(last, o) :
           op' = [op EXCEPT ![o].phase = "guard",
                            ![o].cmd = [prev |-> last, new |-> id,
                                        schema |-> TableCell(id.ts, Append(x.schema.v, o)),
                                        topology |-> TableCell(id.ts, Append(x.topology.v, o))]]
  BY <1>1, <1>2 DEF TakeGuard
<1>4. PICK t \in (last.ts + 1)..(last.ts + Scenarios[scenario].skew) :
        op' = [op EXCEPT ![o].phase = "guard", ![o].cmd = Guarded(x, t, o)]
  <2>1. PICK id \in NewIds(last, o) :
          op' = [op EXCEPT ![o].phase = "guard",
                           ![o].cmd = [prev |-> last, new |-> id,
                                       schema |-> TableCell(id.ts, Append(x.schema.v, o)),
                                       topology |-> TableCell(id.ts, Append(x.topology.v, o))]]
    BY <1>3
  <2>2. PICK t \in (last.ts + 1)..(last.ts + Scenarios[scenario].skew) : id = [ts |-> t, op |-> o]
    BY DEF NewIds
  <2>3. id.ts = t
    BY <2>2
  <2>4. Guarded(x, t, o) = [prev |-> last, new |-> id,
                            schema |-> TableCell(id.ts, Append(x.schema.v, o)),
                            topology |-> TableCell(id.ts, Append(x.topology.v, o))]
    BY Zenon, <1>2, <2>2, <2>3 DEF Guarded
  <2> QED BY Zenon, <2>1, <2>4
<1>5. /\ Chain(Decided) /\ Len(log) \in Nat
      /\ DOMAIN op = Operation /\ OpOK(op[o], o, Decided) /\ n \in Node /\ o \in DOMAIN Home
      /\ DOMAIN node = Node /\ NodeOK(x, log, Decided)
      /\ DOMAIN node[n] = NodeFields /\ node[n].applied \in 0..Len(log)
  BY <1>1, <1>2, <1>3, Facts
<1>6. last.ts \in Nat /\ t \in Nat /\ t > last.ts
  <2>1. PICK h \in 0..Len(Decided) : x.history = IdsUpTo(Decided, h)
    BY <1>5 DEF NodeOK, NodeAt
  <2>2. last = Id(Decided, h)
    BY <1>2, <1>5, <2>1, LastIdIs
  <2>3. last.ts \in Nat
    BY <1>5, <2>2, TablesAre
  <2>4. Scenarios[scenario].skew \in Nat
    BY ScenariosAssumption DEF IInv
  <2> QED BY <2>3, <2>4
<1>7. CommandOf(Guarded(x, t, o), o, Decided)
  BY <1>2, <1>5, <1>6, GuardIs
<1>8. PICK c : c = Guarded(x, t, o)
  OBVIOUS
<1>9. op' = [op EXCEPT ![o].phase = "guard", ![o].cmd = c]
  BY <1>4, <1>8
<1>10. /\ DOMAIN op' = Operation /\ \A p \in Operation : p # o => op'[p] = op[p]
       /\ DOMAIN op'[o] = DOMAIN op[o] /\ op'[o].phase = "guard" /\ op'[o].attempt = op[o].attempt
       /\ op'[o].cmd = c
  BY <1>5, <1>9 DEF OpOK
<1>11. OpOK(op'[o], o, Decided)
  BY <1>5, <1>7, <1>8, <1>10 DEF OpOK
<1>12. OpStep(op[o], op'[o], o, Decided, Home)
  BY <1>3, <1>5, <1>11 DEF OpStep, SentPhases
<1>13. \A p \in Operation : OpStep(op[p], op'[p], p, Decided, Home)
  BY <1>10, <1>12 DEF OpStep
<1>14. ChangesOK(log, Decided, op', flight) /\ OperationsOK(op', Decided, Home)
  BY <1>10, <1>13, OperationsStep DEF IInv
<1>15. Only(n, node, node') /\ SameTables(node[n], node'[n]) /\ node'[n].applied = node[n].applied
  BY <1>3, <1>5 DEF Only, SameTables, NodeFields
<1>16. node'[n].applied \in 0..node[n].applied
  BY <1>5, <1>15
<1>17. ServersOK(node', work', pull', log, Decided)
  BY <1>3, <1>5, <1>15, <1>16, MutexStep
<1>18. log' = log /\ flight' = flight /\ Decided' = Decided /\ Home' = Home
  BY <1>3, SameLog
<1>19. IInv'
  BY <1>3, <1>14, <1>17, <1>18 DEF IInv
<1> QED BY <1>3, <1>9, <1>19

\* An entry is added: e is the entry, the server maybe gives up its mutex.
LEMMA EntryAdded ==
  ASSUME IInv, UNCHANGED <<scenario, log>>, NEW o \in Operation, op[o].phase \in {"guard", "sent"},
         NEW a \in Nat, flight' = flight \cup {Entry(o, a)},
         op' = [op EXCEPT ![o].phase = "sent", ![o].attempt = a],
         ServersOK(node', work', pull', log, Decided)
  PROVE  IInv'
<1>1. DOMAIN op = Operation /\ OpOK(op[o], o, Decided) /\ o \in DOMAIN Home
  BY Facts
<1>2. PICK c : c = op[o].cmd
  OBVIOUS
<1>3. CommandOf(c, o, Decided)
  BY <1>1, <1>2 DEF OpOK
<1>4. /\ DOMAIN op' = Operation /\ \A p \in Operation : p # o => op'[p] = op[p]
      /\ DOMAIN op'[o] = DOMAIN op[o] /\ op'[o].phase = "sent" /\ op'[o].attempt = a
      /\ op'[o].cmd = c
  BY <1>1, <1>2 DEF OpOK
<1>5. OpOK(op'[o], o, Decided)
  BY <1>1, <1>3, <1>4 DEF OpOK
<1>6. OpStep(op[o], op'[o], o, Decided, Home)
  BY <1>1, <1>2, <1>4, <1>5 DEF OpStep, SentPhases
<1>7. \A p \in Operation : OpStep(op[p], op'[p], p, Decided, Home)
  BY <1>4, <1>6 DEF OpStep
<1>8. ChangesOK(log, Decided, op', flight) /\ OperationsOK(op', Decided, Home)
  <2>1. ChangesOK(log, Decided, op, flight) /\ OperationsOK(op, Decided, Home)
    BY DEF IInv
  <2>2. DOMAIN op' = Operation
    BY <1>4
  <2> QED BY <1>7, <2>1, <2>2, OperationsStep
<1>9. PICK e : e = Entry(o, a)
  OBVIOUS
<1>10. EntryOK(e, op', Decided)
  <2>1. e = [cmd |-> c, attempt |-> a] /\ e.cmd = c
    BY <1>2, <1>9 DEF Entry
  <2>2. c \in Cmds /\ c.new.op = o
    BY <1>3 DEF CommandOf
  <2>3. e \in Entries
    BY <2>1, <2>2 DEF Entries
  <2>4. Sent(c, op')
    BY <1>4, <2>2 DEF Sent, SentPhases
  <2> QED BY <1>3, <2>1, <2>2, <2>3, <2>4 DEF EntryOK
<1>11. ChangesOK(log, Decided, op', flight')
  BY <1>8, <1>9, <1>10 DEF ChangesOK
<1>12. log' = log /\ Decided' = Decided /\ Home' = Home
  BY SameLog
<1> QED BY <1>8, <1>11, <1>12 DEF IInv

\* add_entry adds the entry.
LEMMA AddEntryStep ==
  ASSUME IInv, UNCHANGED scenario, NEW o \in Operation, AddEntry(o)
  PROVE  IInv'
<1>1. PICK n : n = Home[o]
  OBVIOUS
<1>2. /\ op[o].phase = "guard" /\ node' = [node EXCEPT ![n].mutex = "free"]
      /\ flight' = flight \cup {Entry(o, 1)} /\ op' = [op EXCEPT ![o].phase = "sent", ![o].attempt = 1]
      /\ UNCHANGED <<scenario, log, work, pull>>
  BY <1>1 DEF AddEntry
<1>3. /\ n \in Node /\ DOMAIN node = Node /\ DOMAIN node[n] = NodeFields /\ Len(log) \in Nat
      /\ node[n].applied \in 0..Len(log)
  BY <1>1, <1>2, Facts
<1>4. Only(n, node, node') /\ SameTables(node[n], node'[n]) /\ node'[n].applied = node[n].applied
  BY <1>2, <1>3 DEF Only, SameTables, NodeFields
<1>5. node'[n].applied \in 0..node[n].applied
  BY <1>3, <1>4
<1>6. ServersOK(node', work', pull', log, Decided)
  BY <1>2, <1>3, <1>4, <1>5, MutexStep
<1> QED BY <1>2, <1>6, EntryAdded

\* add_entry adds the entry again.
LEMMA RetryEntryStep ==
  ASSUME IInv, UNCHANGED scenario, NEW o \in Operation, RetryEntry(o)
  PROVE  IInv'
<1> DEFINE a == op[o].attempt + 1
<1>1. /\ op[o].phase = "sent" /\ flight' = flight \cup {Entry(o, a)} /\ op' = [op EXCEPT ![o].attempt = a]
      /\ UNCHANGED <<scenario, log, node, work, pull>>
  BY DEF RetryEntry
<1>2. DOMAIN op = Operation /\ DOMAIN op[o] = {"phase", "barrier", "cmd", "attempt"} /\ a \in Nat
  BY Facts DEF OpOK
<1> HIDE DEF a
<1>3. op' = [op EXCEPT ![o].phase = "sent", ![o].attempt = a]
  BY <1>1, <1>2
<1>4. ServersOK(node', work', pull', log, Decided)
  BY <1>1 DEF IInv
<1> QED BY <1>1, <1>2, <1>3, <1>4, EntryAdded

\* Raft commits an entry: the changes grow by its command or not at all.
LEMMA CommitStep ==
  ASSUME IInv, UNCHANGED scenario, NEW e \in flight, Commit(e)
  PROVE  /\ IInv' /\ UNCHANGED op
         /\ EntryOK(e, op, Decided)
         /\ \/ Decided' = Decided
            \/ Decided' = Append(Decided, e.cmd) /\ e.cmd.prev = Id(Decided, Len(Decided))
<1>1. /\ log' = Append(log, e) /\ flight' = flight \ {e} /\ UNCHANGED <<scenario, node, work, pull, op>>
  BY DEF Commit
<1>2. PICK l, d, m, f : l = log /\ d = Decided /\ m = log' /\ f = Decided'
  OBVIOUS
<1>3. /\ ChangesOK(l, d, op, flight) /\ OperationsOK(op, d, Home) /\ ServersOK(node, work, pull, l, d)
      /\ scenario \in DOMAIN Scenarios
  BY <1>2 DEF IInv
<1>4. Chain(d) /\ Follows(l, d) /\ EntryOK(e, op, d)
  BY <1>3 DEF ChangesOK
<1>5. e \in Entries /\ CommandOf(e.cmd, e.cmd.new.op, d) /\ Sent(e.cmd, op)
  BY <1>4 DEF EntryOK
<1>6. m = Append(l, e) /\ f = Effective(NoId, m)
  BY <1>1, <1>2 DEF Decided
<1>7. /\ Later(l, d, m, f) /\ Chain(f) /\ Follows(m, f)
      /\ f = d \/ (f = Append(d, e.cmd) /\ e.cmd.prev = Id(d, Len(d)))
  <2>1. Committed(l, d, e.cmd, Append(l, e), Effective(NoId, Append(l, e)))
    BY <1>4, <1>5, CommitIs
  <2>2. Committed(l, d, e.cmd, m, f)
    BY <1>6, <2>1
  <2> QED BY <2>2 DEF Committed
<1>8. /\ Grown(d, f) /\ d \in Seq(Cmds) /\ Len(d) \in Nat /\ Len(f) \in Nat /\ Len(d) <= Len(f)
      /\ \A i \in 0..Len(d) : i \in 0..Len(f) /\ Id(f, i) = Id(d, i)
      /\ \A i \in 1..Len(d) : f[i] = d[i]
  BY <1>7, LaterIs DEF Grown
<1>9. \A i \in 1..Len(f) : i \in 1..Len(d) \/ (f[i] = e.cmd /\ e.cmd.prev = Id(d, Len(d)))
  <2>1. CASE f = d
    BY <2>1
  <2>2. CASE f = Append(d, e.cmd) /\ e.cmd.prev = Id(d, Len(d))
    <3>1. e.cmd \in Cmds
      BY <1>5 DEF Entries
    <3>2. Len(f) = Len(d) + 1 /\ f[Len(d) + 1] = e.cmd
      BY <1>8, <2>2, <3>1, AppendProperties
    <3>3. \A i \in 1..Len(f) : i \in 1..Len(d) \/ i = Len(d) + 1
      BY <1>8, <3>2
    <3> QED BY <2>2, <3>2, <3>3
  <2> QED BY <1>7, <2>1, <2>2
<1>10. ASSUME NEW x, EntryOK(x, op, d) PROVE EntryOK(x, op, f)
  BY <1>8, <1>10, CommandLater DEF EntryOK
<1>11. ChangesOK(m, f, op, flight')
  <2>1. \A i \in 1..Len(f) : Sent(f[i], op)
    BY <1>3, <1>5, <1>8, <1>9 DEF ChangesOK
  <2>2. \A x \in flight' : EntryOK(x, op, f)
    BY <1>1, <1>3, <1>10 DEF ChangesOK
  <2>3. \A i \in 1..Len(m) : EntryOK(m[i], op, f)
    <3>1. l \in Seq(Entries) /\ Len(l) \in Nat
      BY <1>4, LenProperties DEF Follows
    <3>2. Len(m) = Len(l) + 1 /\ m[Len(l) + 1] = e /\ \A i \in 1..Len(l) : m[i] = l[i]
      BY <1>5, <1>6, <3>1, AppendProperties
    <3>3. \A i \in 1..Len(m) : i \in 1..Len(l) \/ i = Len(l) + 1
      BY <3>1, <3>2
    <3>4. \A i \in 1..Len(l) : EntryOK(l[i], op, d)
      BY <1>3 DEF ChangesOK
    <3> QED BY <1>4, <1>10, <3>2, <3>3, <3>4
  <2> QED BY <1>7, <2>1, <2>2, <2>3 DEF ChangesOK
<1>12. OperationsOK(op, f, Home)
  <2> SUFFICES ASSUME NEW o \in Operation PROVE OpOK(op[o], o, f)
    BY <1>3 DEF OperationsOK
  <2>1. PICK r : r = op[o]
    OBVIOUS
  <2>2. OpOK(r, o, d)
    BY <1>3, <2>1 DEF OperationsOK
  <2>3. CommandOf(r.cmd, o, d) => CommandOf(r.cmd, o, f)
    BY <1>8, CommandLater
  <2>4. ASSUME r.phase \in {"done", "conflict"}
        PROVE  \E k \in 0..Len(f) : k < Len(f) /\ k < Len(d) /\ r.cmd.prev = Id(f, k) /\ r.cmd.prev = Id(d, k)
    <3>1. PICK k \in 0..Len(d) : k < Len(d) /\ r.cmd.prev = Id(d, k)
      BY <2>2, <2>4 DEF OpOK
    <3> QED BY <1>8, <3>1
  <2>5. ASSUME r.phase = "done" PROVE \E i \in 1..Len(f) : f[i] = r.cmd
    <3>1. PICK i \in 1..Len(d) : d[i] = r.cmd
      BY <2>2, <2>5 DEF OpOK
    <3>2. i \in 1..Len(f) /\ f[i] = d[i]
      BY <1>8
    <3> QED BY <3>1, <3>2
  <2>6. ASSUME r.phase = "conflict", NEW i \in 1..Len(f) PROVE f[i] # r.cmd
    <3>1. CASE i \in 1..Len(d)
      BY <1>8, <2>2, <2>6, <3>1 DEF OpOK
    <3>2. CASE f[i] = e.cmd /\ e.cmd.prev = Id(d, Len(d))
      <4>1. PICK k \in 0..Len(d) : k < Len(d) /\ r.cmd.prev = Id(d, k)
        BY <2>2, <2>6 DEF OpOK
      <4>2. Len(d) \in 0..Len(d) /\ k # Len(d)
        BY <1>8, <4>1
      <4>3. Id(d, k) # Id(d, Len(d))
        BY <1>4, <4>2, IdsDiffer
      <4> QED BY <3>2, <4>1, <4>3
    <3> QED BY <1>9, <3>1, <3>2
  <2>7. OpOK(r, o, f)
    BY <2>2, <2>3, <2>4, <2>5, <2>6 DEF OpOK
  <2> QED BY <2>1, <2>7
<1>13. ServersOK(node, work, pull, m, f)
  BY <1>3, <1>7, NodeLater, WorkLater, PullLater DEF ServersOK
<1>14. Home' = Home
  BY <1>1 DEF Home
<1>15. IInv'
  BY <1>1, <1>2, <1>3, <1>11, <1>12, <1>13, <1>14 DEF IInv
<1> QED BY <1>1, <1>2, <1>4, <1>7, <1>15

----------------------------------------------------------------------------
(* The actions of the servers.                                             *)

\* A step of server n that leaves the log and the operations alone.
LEMMA ServerOnly ==
  ASSUME IInv, UNCHANGED <<scenario, log, flight, op>>, NEW n \in Node,
         Only(n, node, node'), Only(n, work, work'), Only(n, pull, pull'),
         node[n] = node'[n] \/ Moved(node[n], node'[n]),
         NodeOK(node'[n], log, Decided), WorkOK(work'[n], node'[n], log, Decided),
         PullOK(pull'[n], node'[n], node'[pull'[n].from], log, Decided)
  PROVE  IInv'
<1>1. Len(Decided) \in Nat /\ ServersOK(node, work, pull, log, Decided)
  BY Facts DEF IInv
<1>2. ServersOK(node', work', pull', log, Decided)
  BY <1>1, ServerStep
<1>3. log' = log /\ Decided' = Decided /\ Home' = Home
  BY SameLog
<1> QED BY <1>2, <1>3 DEF IInv

\* apply() begins a batch.
LEMMA StartApplyStep ==
  ASSUME IInv, UNCHANGED scenario, NEW n \in Node, NEW k \in Nat, StartApply(n, k)
  PROVE  IInv' /\ UNCHANGED <<log, op>>
<1>1. PICK x, u : x = node[n] /\ u = x.applied + k
  OBVIOUS
<1>2. PICK cmds : cmds = Effective(LastId(x.history), SubSeq(log, x.applied + 1, u))
  OBVIOUS
<1>3. /\ u <= Len(log) /\ UNCHANGED <<scenario, log, flight, pull, op>>
      /\ IF cmds = << >>
         THEN node' = [node EXCEPT ![n].applied = u] /\ UNCHANGED work
         ELSE /\ node' = [node EXCEPT ![n].mutex = "apply"]
              /\ work' = [work EXCEPT ![n] = [step |-> "schema", upto |-> u, cmds |-> cmds]]
  BY <1>1, <1>2 DEF StartApply
<1>4. /\ Chain(Decided) /\ Follows(log, Decided) /\ Len(log) \in Nat
      /\ DOMAIN node = Node /\ DOMAIN work = Node /\ DOMAIN pull = Node
      /\ DOMAIN x = NodeFields /\ x.applied \in 0..Len(log) /\ NodeOK(x, log, Decided)
  BY <1>1, Facts
<1>5. u \in x.applied..Len(log)
  BY <1>1, <1>3, <1>4
<1>6. Only(n, pull, pull') /\ pull'[n] = pull[n] /\ Only(n, node, node') /\ Only(n, work, work')
  BY <1>3, <1>4 DEF Only
<1>7. SameTables(x, node'[n])
  BY <1>1, <1>3, <1>4 DEF SameTables, NodeFields
<1>8. /\ cmds = << >> /\ node'[n].applied = u => NodeOK(node'[n], log, Decided) /\ Moved(x, node'[n])
      /\ cmds # << >> => WorkOK([step |-> "schema", upto |-> u, cmds |-> cmds], node'[n], log, Decided)
  BY <1>2, <1>4, <1>5, <1>7, ApplyIs
<1>9. CASE cmds = << >>
  <2>1. node'[n].applied = u /\ work'[n] = work[n]
    BY <1>1, <1>3, <1>4, <1>9 DEF NodeFields
  <2>2. NodeOK(node'[n], log, Decided) /\ Moved(node[n], node'[n])
    BY <1>1, <1>8, <1>9, <2>1
  <2>3. /\ WorkOK(work[n], node'[n], log, Decided)
        /\ PullOK(pull[n], node'[n], node'[pull[n].from], log, Decided)
    BY <1>6, <2>2, GoesOn
  <2>4. IInv'
    BY <1>3, <1>6, <2>1, <2>2, <2>3, ServerOnly
  <2> QED BY <1>3, <2>4
<1>10. CASE cmds # << >>
  <2>1. /\ node'[n].applied = x.applied
        /\ work'[n] = [step |-> "schema", upto |-> u, cmds |-> cmds]
    BY <1>1, <1>3, <1>4, <1>10 DEF NodeFields
  <2>2. node'[n].applied \in 0..x.applied
    BY <1>4, <2>1
  <2>3. NodeOK(node'[n], log, Decided) /\ Moved(node[n], node'[n])
    BY <1>1, <1>4, <1>7, <2>2, BackIs
  <2>4. WorkOK(work'[n], node'[n], log, Decided)
    BY <1>8, <1>10, <2>1
  <2>5. PullOK(pull[n], node'[n], node'[pull[n].from], log, Decided)
    BY <1>6, <2>3, GoesOn
  <2>6. IInv'
    BY <1>3, <1>6, <2>3, <2>4, <2>5, ServerOnly
  <2> QED BY <1>3, <2>6
<1> QED BY <1>9, <1>10

\* apply() writes one table.
LEMMA WriteChangeStep ==
  ASSUME IInv, UNCHANGED scenario, NEW n \in Node, WriteChange(n)
  PROVE  IInv' /\ UNCHANGED <<log, op>>
<1>1. PICK x, w, C : x = node[n] /\ w = work[n] /\ C = ToSet(w.cmds)
  OBVIOUS
<1>2. /\ w.step \in {"schema", "topology"}
      /\ node' = [node EXCEPT
           ![n].schema = IF w.step = "schema" THEN NewestCell(@, Schemas(C)) ELSE @,
           ![n].topology = IF w.step = "topology" THEN NewestCell(@, Topologies(C)) ELSE @]
      /\ work' = [work EXCEPT ![n].step = NextStep(@)]
      /\ UNCHANGED <<scenario, log, flight, pull, op>>
  BY <1>1 DEF WriteChange, Schemas, Topologies
<1>3. /\ Chain(Decided) /\ DOMAIN node = Node /\ DOMAIN work = Node /\ DOMAIN pull = Node
      /\ DOMAIN x = NodeFields /\ NodeOK(x, log, Decided) /\ WorkOK(w, x, log, Decided)
  BY <1>1, Facts
<1>4. Only(n, node, node') /\ Only(n, work, work') /\ Only(n, pull, pull') /\ pull'[n] = pull[n]
  BY <1>2, <1>3 DEF Only
<1>5. PICK y : y = node'[n]
  OBVIOUS
<1>6. /\ DOMAIN y = NodeFields /\ y.history = x.history /\ y.applied = x.applied
      /\ y.schema = IF w.step = "schema" THEN NewestCell(x.schema, Schemas(C)) ELSE x.schema
      /\ y.topology = IF w.step = "topology" THEN NewestCell(x.topology, Topologies(C)) ELSE x.topology
  BY <1>1, <1>2, <1>3, <1>5 DEF NodeFields
<1>7. work'[n] = [w EXCEPT !.step = NextStep(@)]
  BY <1>1, <1>2, <1>3
<1>8. NodeOK(y, log, Decided) /\ Moved(x, y) /\ WorkOK(work'[n], y, log, Decided)
  BY <1>1, <1>2, <1>3, <1>6, <1>7, WriteIs
<1>9. PullOK(pull[n], node'[n], node'[pull[n].from], log, Decided)
  BY <1>1, <1>4, <1>5, <1>8, GoesOn
<1>10. IInv'
  BY <1>1, <1>2, <1>4, <1>5, <1>8, <1>9, ServerOnly
<1> QED BY <1>2, <1>10

\* apply() writes the state ids.
LEMMA WriteHistoryStep ==
  ASSUME IInv, UNCHANGED scenario, NEW n \in Node, WriteHistory(n)
  PROVE  IInv' /\ UNCHANGED <<log, op>>
<1>1. PICK x, w, C : x = node[n] /\ w = work[n] /\ C = ToSet(w.cmds)
  OBVIOUS
<1>2. /\ w.step = "history"
      /\ node' = [node EXCEPT ![n].history = @ \cup StateIds(C),
                              ![n].applied = IF w.upto > @ THEN w.upto ELSE @,
                              ![n].mutex = "free"]
      /\ work' = [work EXCEPT ![n] = NoWork]
      /\ UNCHANGED <<scenario, log, flight, pull, op>>
  BY <1>1 DEF WriteHistory, StateIds
<1>3. /\ Chain(Decided) /\ Follows(log, Decided) /\ DOMAIN node = Node /\ DOMAIN work = Node /\ DOMAIN pull = Node
      /\ DOMAIN x = NodeFields /\ NodeOK(x, log, Decided) /\ WorkOK(w, x, log, Decided)
  BY <1>1, Facts
<1>4. Only(n, node, node') /\ Only(n, work, work') /\ Only(n, pull, pull') /\ pull'[n] = pull[n]
  BY <1>2, <1>3 DEF Only
<1>5. PICK y : y = node'[n]
  OBVIOUS
<1>6. /\ DOMAIN y = NodeFields /\ y.schema = x.schema /\ y.topology = x.topology
      /\ y.history = x.history \cup StateIds(C)
      /\ y.applied = IF w.upto > x.applied THEN w.upto ELSE x.applied
  BY <1>1, <1>2, <1>3, <1>5 DEF NodeFields
<1>7. w # NoWork
  BY <1>2 DEF NoWork
<1>8. PICK k, b \in 0..Len(Decided) :
        /\ k < b /\ w.cmds = SubSeq(Decided, k + 1, b) /\ IdsUpTo(Decided, k) \subseteq x.history
        /\ Count(log, w.upto) <= b /\ b <= Len(x.schema.v) /\ b <= Len(x.topology.v)
  BY <1>2, <1>3, <1>7 DEF WorkOK
<1>9. w.upto \in 0..Len(log)
  BY <1>3, <1>7 DEF WorkOK
<1>10. StateIds(C) = IdsOf(Decided, k, b)
  BY <1>1, <1>3, <1>8, ChangesAre
<1>11. NodeOK(y, log, Decided) /\ Moved(x, y)
  <2>1. y.history = x.history \cup IdsOf(Decided, k, b)
    BY <1>6, <1>10
  <2> QED BY <1>3, <1>6, <1>8, <1>9, <2>1, HistoryIs
<1>12. PullOK(pull[n], node'[n], node'[pull[n].from], log, Decided)
  BY <1>1, <1>4, <1>5, <1>11, GoesOn
<1>13. WorkOK(work'[n], node'[n], log, Decided)
  BY <1>2, <1>3 DEF WorkOK
<1>14. IInv'
  BY <1>1, <1>2, <1>4, <1>5, <1>11, <1>12, <1>13, ServerOnly
<1> QED BY <1>2, <1>14

\* transfer_snapshot pulls the schema and the history.
LEMMA PullSchemaStep ==
  ASSUME IInv, UNCHANGED scenario, NEW n \in Node, NEW m \in Node, NEW idx \in Nat, PullSchema(n, m, idx)
  PROVE  IInv' /\ UNCHANGED <<log, op>>
<1>1. PICK z : z = node[m]
  OBVIOUS
<1>2. PICK p : p = [step |-> "pull", from |-> m, idx |-> idx, schema |-> z.schema, history |-> z.history]
  OBVIOUS
<1>3. /\ idx <= z.applied /\ pull' = [pull EXCEPT ![n] = p]
      /\ UNCHANGED <<scenario, log, flight, node, work, op>>
  BY <1>1, <1>2 DEF PullSchema
<1>4. /\ Chain(Decided) /\ Follows(log, Decided) /\ DOMAIN node = Node /\ DOMAIN work = Node /\ DOMAIN pull = Node
      /\ NodeOK(node[n], log, Decided) /\ WorkOK(work[n], node[n], log, Decided)
      /\ NodeOK(z, log, Decided) /\ z.applied \in 0..Len(log) /\ Len(log) \in Nat
  BY <1>1, Facts
<1>5. idx \in 0..z.applied
  BY <1>3, <1>4
<1>6. PullOK(p, node[n], z, log, Decided)
  BY <1>2, <1>4, <1>5, PullSchemaIs
<1>7. pull'[n] = p /\ p.from = m
  BY <1>2, <1>3, <1>4
<1>8. Only(n, node, node') /\ Only(n, work, work') /\ Only(n, pull, pull')
  BY <1>3, <1>4 DEF Only
<1>9. PullOK(pull'[n], node'[n], node'[pull'[n].from], log, Decided)
  BY <1>1, <1>3, <1>6, <1>7
<1>10. IInv'
  BY <1>3, <1>4, <1>8, <1>9, ServerOnly
<1> QED BY <1>3, <1>10

\* transfer_snapshot pulls the topology.
LEMMA PullTopologyStep ==
  ASSUME IInv, UNCHANGED scenario, NEW n \in Node, PullTopology(n)
  PROVE  IInv' /\ UNCHANGED <<log, op>>
<1>1. PICK p, z : p = pull[n] /\ z = node[p.from]
  OBVIOUS
<1>2. PICK r : r = [topology |-> z.topology, step |-> "schema", from |-> p.from, idx |-> p.idx,
                    schema |-> p.schema, history |-> p.history]
  OBVIOUS
<1>3. /\ p.step = "pull" /\ UNCHANGED <<scenario, log, flight, node, work, op>>
      /\ pull' = [pull EXCEPT ![n] = [topology |-> z.topology, step |-> "schema", from |-> p.from, idx |-> @.idx,
                                      schema |-> @.schema, history |-> @.history]]
  BY <1>1 DEF PullTopology
<1>4. /\ Chain(Decided) /\ DOMAIN node = Node /\ DOMAIN work = Node /\ DOMAIN pull = Node
      /\ NodeOK(node[n], log, Decided) /\ WorkOK(work[n], node[n], log, Decided)
      /\ PullOK(p, node[n], z, log, Decided)
  BY <1>1, Facts
<1>5. pull'[n] = r
  BY <1>1, <1>2, <1>3, <1>4
<1>6. p.from \in Node /\ NodeOK(z, log, Decided)
  <2>1. p # NoPull
    BY <1>3 DEF NoPull
  <2>2. p.from \in Node
    BY <1>4, <2>1 DEF PullOK
  <2> QED BY <1>1, <2>2, Facts
<1>7. \A y : PullOK(r, node[n], y, log, Decided)
  BY <1>2, <1>3, <1>4, <1>6, PullTopologyIs
<1>8. Only(n, node, node') /\ Only(n, work, work') /\ Only(n, pull, pull')
  BY <1>3, <1>4 DEF Only
<1>9. PullOK(pull'[n], node'[n], node'[pull'[n].from], log, Decided)
  BY <1>3, <1>5, <1>7
<1>10. IInv'
  BY <1>3, <1>4, <1>8, <1>9, ServerOnly
<1> QED BY <1>3, <1>10

\* transfer_snapshot installs one table.
LEMMA InstallTablesStep ==
  ASSUME IInv, UNCHANGED scenario, NEW n \in Node, InstallTables(n)
  PROVE  IInv' /\ UNCHANGED <<log, op>>
<1>1. PICK x, p, y : x = node[n] /\ p = pull[n] /\ y = node'[n]
  OBVIOUS
<1>2. /\ pull' = [pull EXCEPT ![n].step = NextStep(@)]
      /\ UNCHANGED <<scenario, log, flight, work, op>>
      /\ \/ /\ p.step = "schema"
            /\ node' = [node EXCEPT ![n].schema = MergeCell(@, p.schema), ![n].mutex = "snapshot"]
         \/ /\ p.step = "topology"
            /\ node' = [node EXCEPT ![n].topology = MergeCell(@, p.topology)]
  BY <1>1 DEF InstallTables
<1>3. /\ Chain(Decided) /\ DOMAIN node = Node /\ DOMAIN work = Node /\ DOMAIN pull = Node
      /\ DOMAIN x = NodeFields /\ NodeOK(x, log, Decided) /\ PullOK(p, x, node[p.from], log, Decided)
  BY <1>1, Facts
<1>4. Only(n, node, node') /\ Only(n, work, work') /\ Only(n, pull, pull') /\ work'[n] = work[n]
  BY <1>2, <1>3 DEF Only
<1>5. /\ DOMAIN y = NodeFields /\ y.history = x.history /\ y.applied = x.applied
      /\ \/ /\ p.step = "schema" /\ y.topology = x.topology /\ y.schema = MergeCell(x.schema, p.schema)
         \/ /\ p.step = "topology" /\ y.schema = x.schema /\ y.topology = MergeCell(x.topology, p.topology)
  BY <1>1, <1>2, <1>3 DEF NodeFields
<1>6. PICK r : r = [p EXCEPT !.step = NextStep(@)]
  OBVIOUS
<1>7. pull'[n] = r
  BY <1>1, <1>2, <1>3, <1>6
<1>8. NodeOK(y, log, Decided) /\ Moved(x, y) /\ \A u : PullOK(r, y, u, log, Decided)
  BY <1>3, <1>5, <1>6, InstallIs
<1>9. WorkOK(work[n], node'[n], log, Decided)
  BY <1>1, <1>4, <1>8, GoesOn
<1>10. PullOK(pull'[n], node'[n], node'[pull'[n].from], log, Decided)
  BY <1>1, <1>7, <1>8
<1>11. IInv'
  BY <1>1, <1>2, <1>4, <1>8, <1>9, <1>10, ServerOnly
<1> QED BY <1>2, <1>11

\* transfer_snapshot installs the history.
LEMMA InstallHistoryStep ==
  ASSUME IInv, UNCHANGED scenario, NEW n \in Node, InstallHistory(n)
  PROVE  IInv' /\ UNCHANGED <<log, op>>
<1>1. PICK x, p, y : x = node[n] /\ p = pull[n] /\ y = node'[n]
  OBVIOUS
<1>2. /\ p.step = "history"
      /\ node' = [node EXCEPT ![n].history = @ \cup p.history,
                              ![n].applied = IF p.idx > @ THEN p.idx ELSE @,
                              ![n].mutex = "free"]
      /\ pull' = [pull EXCEPT ![n] = NoPull]
      /\ UNCHANGED <<scenario, log, flight, work, op>>
  BY <1>1 DEF InstallHistory
<1>3. /\ Chain(Decided) /\ Follows(log, Decided) /\ DOMAIN node = Node /\ DOMAIN work = Node /\ DOMAIN pull = Node
      /\ DOMAIN x = NodeFields /\ NodeOK(x, log, Decided) /\ PullOK(p, x, node[p.from], log, Decided)
      /\ Len(Decided) \in Nat
  BY <1>1, Facts
<1>4. Only(n, node, node') /\ Only(n, work, work') /\ Only(n, pull, pull') /\ work'[n] = work[n]
  BY <1>2, <1>3 DEF Only
<1>5. /\ DOMAIN y = NodeFields /\ y.schema = x.schema /\ y.topology = x.topology
      /\ y.history = x.history \cup p.history
      /\ y.applied = IF p.idx > x.applied THEN p.idx ELSE x.applied
  BY <1>1, <1>2, <1>3 DEF NodeFields
<1>6. p # NoPull
  BY <1>2 DEF NoPull
<1>7. PICK g \in 0..Len(Decided) :
        /\ p.history = IdsUpTo(Decided, g) /\ Count(log, p.idx) <= g
        /\ g <= Len(x.schema.v) /\ g <= Len(x.topology.v)
  BY <1>2, <1>3, <1>6 DEF PullOK
<1>8. p.idx \in 0..Len(log)
  BY <1>3, <1>6 DEF PullOK
<1>9. NodeOK(y, log, Decided) /\ Moved(x, y)
  <2>1. 0 \in 0..Len(Decided) /\ IdsUpTo(Decided, 0) \subseteq x.history
    BY <1>3, HistoriesAre
  <2>2. y.history = x.history \cup IdsOf(Decided, 0, g)
    BY <1>5, <1>7, HistoriesAre
  <2> QED BY <1>3, <1>5, <1>7, <1>8, <2>1, <2>2, HistoryIs
<1>10. WorkOK(work[n], node'[n], log, Decided)
  BY <1>1, <1>4, <1>9, GoesOn
<1>11. PullOK(pull'[n], node'[n], node'[pull'[n].from], log, Decided)
  BY <1>2, <1>3 DEF PullOK
<1>12. IInv'
  BY <1>1, <1>2, <1>4, <1>9, <1>10, <1>11, ServerOnly
<1> QED BY <1>2, <1>12

\* The operations of a server that crashes are lost.
LostAt(n) ==
  [o \in Operation |-> IF op[o].phase \in Running /\ Home[o] = n THEN [op[o] EXCEPT !.phase = "lost"] ELSE op[o]]

\* A server restarts.
LEMMA CrashStep ==
  ASSUME IInv, UNCHANGED scenario, NEW n \in Node, Crash(n)
  PROVE  IInv' /\ UNCHANGED log /\ op' = LostAt(n)
<1>1. /\ op' = LostAt(n) /\ UNCHANGED <<scenario, log, flight>>
      /\ work' = [work EXCEPT ![n] = NoWork] /\ pull' = [pull EXCEPT ![n] = NoPull]
  BY DEF Crash, LostAt
<1>2. PICK i \in 0..node[n].applied : node' = [node EXCEPT ![n].applied = i, ![n].mutex = "free"]
  BY DEF Crash
<1>3. /\ Chain(Decided) /\ Follows(log, Decided) /\ DOMAIN node = Node /\ DOMAIN work = Node /\ DOMAIN pull = Node
      /\ DOMAIN node[n] = NodeFields /\ NodeOK(node[n], log, Decided)
      /\ Len(Decided) \in Nat /\ DOMAIN op = Operation
  BY Facts
<1>4. ASSUME NEW o \in Operation PROVE OpStep(op[o], op'[o], o, Decided, Home)
  <2>1. OpOK(op[o], o, Decided) /\ (op[o].phase # "idle" => o \in DOMAIN Home)
    BY Facts
  <2>2. CASE op'[o] = op[o]
    BY <2>2 DEF OpStep
  <2>3. CASE op'[o] # op[o]
    <3>1. op[o].phase \in Running /\ op'[o] = [op[o] EXCEPT !.phase = "lost"]
      BY <1>1, <2>3 DEF LostAt
    <3>2. /\ DOMAIN op'[o] = DOMAIN op[o] /\ op'[o].phase = "lost" /\ op'[o].attempt = op[o].attempt
          /\ op'[o].cmd = op[o].cmd
      BY <2>1, <3>1 DEF OpOK
    <3>3. OpOK(op'[o], o, Decided)
      BY <2>1, <3>2 DEF OpOK
    <3> QED BY <2>1, <3>1, <3>2, <3>3 DEF OpStep, Running, SentPhases
  <2> QED BY <2>2, <2>3
<1>5. ChangesOK(log, Decided, op', flight) /\ OperationsOK(op', Decided, Home)
  <2>1. DOMAIN op' = Operation
    BY <1>1 DEF LostAt
  <2> QED BY <1>4, <2>1, OperationsStep DEF IInv
<1>6. Only(n, node, node') /\ SameTables(node[n], node'[n]) /\ node'[n].applied = i
  BY <1>2, <1>3 DEF Only, SameTables, NodeFields
<1>7. NodeOK(node'[n], log, Decided) /\ Moved(node[n], node'[n])
  BY <1>3, <1>6, BackIs
<1>8. Only(n, work, work') /\ Only(n, pull, pull') /\ work'[n] = NoWork /\ pull'[n] = NoPull
  BY <1>1, <1>3 DEF Only
<1>9. ServersOK(node, work, pull, log, Decided)
  BY DEF IInv
<1>10. /\ WorkOK(work'[n], node'[n], log, Decided)
       /\ PullOK(pull'[n], node'[n], node'[pull'[n].from], log, Decided)
  BY <1>8 DEF WorkOK, PullOK
<1>11. ServersOK(node', work', pull', log, Decided)
  BY <1>3, <1>6, <1>7, <1>8, <1>9, <1>10, ServerStep
<1>12. log' = log /\ flight' = flight /\ Decided' = Decided /\ Home' = Home
  BY <1>1, SameLog
<1>13. IInv'
  BY <1>1, <1>5, <1>11, <1>12 DEF IInv
<1> QED BY <1>1, <1>13

\* The initial state.
LEMMA InitStep ==
  ASSUME ChangesInit
  PROVE  IInv /\ Decided = << >>
<1>1. /\ scenario \in DOMAIN Scenarios /\ log = << >> /\ flight = {}
      /\ node = [n \in Node |-> [schema |-> TableCell(0, << >>), topology |-> TableCell(0, << >>),
                                 history |-> {}, applied |-> 0, mutex |-> "free"]]
      /\ work = [n \in Node |-> NoWork] /\ pull = [n \in Node |-> NoPull]
      /\ op = [o \in Operation |-> [phase |-> "idle", barrier |-> 0, cmd |-> None, attempt |-> 0]]
  BY DEF ChangesInit
<1>2. Run(NoId, << >>) = Begun(NoId)
  BY RunNothing
<1>3. Decided = << >>
  BY <1>1, <1>2 DEF Decided, Effective, Begun
<1>4. PICK d : d = Decided
  OBVIOUS
<1>5. d \in Seq(Cmds) /\ Len(d) = 0 /\ Id(d, 0) = NoId /\ IdsUpTo(d, 0) = {}
  BY <1>3, <1>4 DEF Id, IdsUpTo
<1>6. Count(log, 0) = 0
  <2>1. SubSeq(<< >>, 1, 0) = << >>
    BY SubSeqEmpty
  <2>2. SubSeq(log, 1, 0) = << >>
    BY Zenon, <1>1, <2>1
  <2>3. Effective(NoId, << >>) = << >>
    BY <1>2 DEF Effective, Begun
  <2>4. Len(<< >>) = 0
    OBVIOUS
  <2> QED BY Zenon, <2>2, <2>3, <2>4 DEF Count
<1>7. Chain(d)
  BY <1>5 DEF Chain
<1>8. Follows(log, d)
  <2>1. log \in Seq(Entries) /\ Len(log) = 0
    BY <1>1
  <2>2. Run(NoId, log) = [last |-> Id(d, Len(d)), cmds |-> d]
    BY <1>1, <1>2, <1>3, <1>4, <1>5 DEF Begun
  <2>3. \A j \in 0..Len(log) : j = 0
    BY <2>1
  <2> QED BY <1>5, <1>6, <2>1, <2>2, <2>3 DEF Follows
<1>9. ChangesOK(log, d, op, flight)
  <2>1. 1..Len(d) = {} /\ 1..Len(log) = {}
    BY <1>1, <1>5
  <2> QED BY <1>1, <1>7, <1>8, <2>1 DEF ChangesOK
<1>10. OperationsOK(op, d, Home)
  <2>1. ASSUME NEW o \in Operation PROVE OpOK(op[o], o, d) /\ op[o].phase = "idle"
    <3>1. op[o] = [phase |-> "idle", barrier |-> 0, cmd |-> None, attempt |-> 0]
      BY <1>1
    <3> QED BY <3>1 DEF OpOK
  <2>2. DOMAIN op = Operation
    BY <1>1
  <2> QED BY <2>1, <2>2 DEF OperationsOK
<1>11. TableCell(0, << >>) = Table(d, 0) /\ IsTable(TableCell(0, << >>), d)
  <2>1. Ops(d) \in Seq(Operation)
    BY <1>5, OpsIs
  <2>2. SubSeq(Ops(d), 1, 0) = << >>
    BY <2>1, SubSeqEmpty
  <2>3. Table(d, 0) = TableCell(0, << >>)
    <3>1. NoId.ts = 0
      BY DEF NoId
    <3> QED BY Zenon, <1>5, <2>2, <3>1 DEF Table
  <2>4. TableCell(0, << >>).v = << >>
    BY DEF TableCell
  <2> QED BY <1>5, <2>3, <2>4 DEF IsTable
<1>12. ServersOK(node, work, pull, log, d)
  <2> SUFFICES ASSUME NEW n \in Node PROVE NodeOK(node[n], log, d)
    BY <1>1 DEF ServersOK, WorkOK, PullOK
  <2>1. PICK x : x = node[n]
    OBVIOUS
  <2>2. /\ DOMAIN x = NodeFields /\ x.schema = TableCell(0, << >>) /\ x.topology = TableCell(0, << >>)
        /\ x.history = {} /\ x.applied = 0
    BY <1>1, <2>1 DEF NodeFields
  <2>3. Len(x.schema.v) = 0 /\ Len(x.topology.v) = 0
    BY <2>2 DEF TableCell
  <2>4. Len(log) = 0
    BY <1>1
  <2>5. NodeAt(x, log, d, 0)
    BY <1>5, <1>6, <1>11, <2>2, <2>3, <2>4 DEF NodeAt
  <2> QED BY <1>5, <2>1, <2>5 DEF NodeOK
<1>13. IInv
  BY <1>1, <1>4, <1>9, <1>10, <1>12 DEF IInv
<1> QED BY <1>3, <1>13
----------------------------------------------------------------------------
(* The theorems.                                                           *)

\* Every step of the specification keeps the invariant.
LEMMA NextKeepsInvariant ==
  ASSUME IInv, [ChangesNext]_changeVars
  PROVE  IInv'
<1>1. CASE UNCHANGED changeVars
  <2>1. UNCHANGED <<scenario, log, flight, node, work, pull, op>>
    BY <1>1 DEF changeVars
  <2>2. log' = log /\ Decided' = Decided /\ Home' = Home
    BY <2>1, SameLog
  <2> QED BY <2>1, <2>2 DEF IInv
<1>2. CASE ChangesNext
  <2>1. UNCHANGED scenario
    BY <1>2 DEF ChangesNext
  <2>2. CASE \E o \in Operation : \/ StartOperation(o) \/ TakeGuard(o) \/ AddEntry(o) \/ RetryEntry(o)
                                  \/ FinishOperation(o)
    BY <2>1, <2>2, StartOperationStep, TakeGuardStep, AddEntryStep, RetryEntryStep, FinishOperationStep
  <2>3. CASE \E e \in flight : Commit(e)
    BY <2>1, <2>3, CommitStep
  <2>4. CASE \E n \in Node, k \in 1..Scenarios[scenario].batch : StartApply(n, k)
    BY <2>1, <2>4, StartApplyStep
  <2>5. CASE \E n \in Node : \/ WriteChange(n) \/ WriteHistory(n) \/ PullTopology(n) \/ InstallTables(n)
                             \/ InstallHistory(n) \/ Crash(n)
    BY <2>1, <2>5, WriteChangeStep, WriteHistoryStep, PullTopologyStep, InstallTablesStep, InstallHistoryStep,
       CrashStep
  <2>6. CASE \E n, m \in Node, idx \in 1..Len(log) : PullSchema(n, m, idx)
    BY <2>1, <2>6, PullSchemaStep
  <2> QED BY <1>2, <2>2, <2>3, <2>4, <2>5, <2>6 DEF ChangesNext
<1> QED BY <1>1, <1>2

\* IInv is an invariant: the log, the operations and the servers of group 0 agree on
\* one chain of changes, whatever is retried, committed late, replayed or transferred.
THEOREM ChangesInvariant == ChangesSpec => []IInv
<1>1. ChangesInit => IInv
  BY InitStep
<1>2. IInv /\ [ChangesNext]_changeVars => IInv'
  BY NextKeepsInvariant
<1> QED BY <1>1, <1>2, PTL DEF ChangesSpec

\* group0_state_machine::merge_and_apply and transfer_snapshot: the tables of every
\* server hold a prefix of the changes of the log, and every change in its history.
THEOREM TablesFollowTheLogTheorem == ChangesSpec => []TablesFollowTheLog
<1>1. IInv => TablesFollowTheLog
  <2> SUFFICES ASSUME IInv, NEW n \in Node
               PROVE  /\ IsPrefix(node[n].schema.v, Ops(Decided))
                      /\ IsPrefix(node[n].topology.v, Ops(Decided))
                      /\ \A id \in node[n].history :
                           id.op \in ToSet(node[n].schema.v) /\ id.op \in ToSet(node[n].topology.v)
    BY DEF TablesFollowTheLog
  <2>1. PICK d, x : d = Decided /\ x = node[n]
    OBVIOUS
  <2>2. Chain(d) /\ NodeOK(x, log, d)
    BY <2>1, Facts
  <2>3. PICK h \in 0..Len(d) : NodeAt(x, log, d, h)
    BY <2>2 DEF NodeOK
  <2>4. /\ IsTable(x.schema, d) /\ IsTable(x.topology, d) /\ x.history = IdsUpTo(d, h)
        /\ h <= Len(x.schema.v) /\ h <= Len(x.topology.v)
    BY <2>3 DEF NodeAt
  <2>5. ASSUME NEW c, IsTable(c, d), h <= Len(c.v)
        PROVE  IsPrefix(c.v, Ops(d)) /\ \A id \in x.history : id.op \in ToSet(c.v)
    <3>1. PICK k, v : k = Len(c.v) /\ v = c.v
      OBVIOUS
    <3>2. /\ Ops(d) \in Seq(Operation) /\ Len(Ops(d)) = Len(d) /\ Len(d) \in Nat
          /\ \A i \in 1..Len(d) : Ops(d)[i] = d[i].new.op
      BY <2>2, OpsIs DEF Chain
    <3>3. k \in 0..Len(Ops(d)) /\ v = SubSeq(Ops(d), 1, k) /\ k \in Nat /\ k <= Len(Ops(d)) /\ k = Len(v)
      <4>1. k \in 0..Len(d) /\ c = Table(d, k)
        BY <2>5, <3>1 DEF IsTable
      <4>2. v = SubSeq(Ops(d), 1, k)
        BY <3>1, <4>1 DEF Table, TableCell
      <4> QED BY <3>1, <3>2, <4>1, <4>2
    <3>4. v \in Seq(Operation) /\ \A i \in 1..k : v[i] = Ops(d)[i]
      BY <3>2, <3>3, FirstOf
    <3>5. SubSeq(v, 1, k) = SubSeq(Ops(d), 1, k)
      BY <3>2, <3>3, <3>4, FirstSame
    <3>6. IsPrefix(v, Ops(d))
      BY <3>3, <3>5 DEF IsPrefix
    <3>7. ASSUME NEW id \in x.history PROVE id.op \in ToSet(v)
      <4>1. PICK j \in 1..h : id = d[j].new
        BY <2>4 DEF IdsUpTo
      <4>2. j \in 1..k /\ j \in 1..Len(d) /\ DOMAIN v = 1..k
        BY <2>5, <3>1, <3>2, <3>3, <3>4, LenProperties
      <4>3. v[j] = id.op
        BY <3>2, <3>4, <4>1, <4>2
      <4> QED BY <4>2, <4>3 DEF ToSet
    <3> QED BY <3>1, <3>6, <3>7
  <2> QED BY <2>1, <2>4, <2>5
<1> QED BY <1>1, ChangesInvariant, PTL

\* raft_group0_client::start_operation and add_entry: a change that takes effect was
\* computed, in both tables, from exactly the changes before it.
THEOREM ChangeIsOfOneStateTheorem == ChangesSpec => []ChangeIsOfOneState
<1>1. IInv => ChangeIsOfOneState
  <2> SUFFICES ASSUME IInv, NEW i \in DOMAIN Decided
               PROVE  /\ Decided[i].schema.v = SubSeq(Ops(Decided), 1, i)
                      /\ Decided[i].topology.v = SubSeq(Ops(Decided), 1, i)
    BY DEF ChangeIsOfOneState
  <2>1. Chain(Decided) /\ i \in 1..Len(Decided)
    BY Facts, LenProperties
  <2>2. Decided[i].schema = Table(Decided, i) /\ Decided[i].topology = Table(Decided, i)
    BY <2>1 DEF Chain
  <2>3. Table(Decided, i).v = SubSeq(Ops(Decided), 1, i)
    BY DEF Table, TableCell
  <2> QED BY Zenon, <2>2, <2>3
<1> QED BY <1>1, ChangesInvariant, PTL

----------------------------------------------------------------------------
(* Group 0 implements the register.                                        *)

OutcomeOf(r) == IF r.phase \in Running THEN "pending" ELSE r.phase
SeenOf(r) == IF r.phase = "done" THEN Front(r.cmd.schema.v) ELSE << >>
Outcome(ops) == [o \in Operation |-> OutcomeOf(ops[o])]
Seen(ops) == [o \in Operation |-> SeenOf(ops[o])]
registerVars == <<Ops(Decided), Outcome(op), Seen(op)>>

\* An operation changes: what the register sees of it.
OutcomeChanges(ops, ops2, o) ==
  /\ Outcome(ops2) = [Outcome(ops) EXCEPT ![o] = OutcomeOf(ops2[o])]
  /\ Seen(ops2) = [Seen(ops) EXCEPT ![o] = SeenOf(ops2[o])]
  /\ OutcomeOf(ops2[o]) = OutcomeOf(ops[o]) => Outcome(ops2) = Outcome(ops)
  /\ SeenOf(ops2[o]) = SeenOf(ops[o]) => Seen(ops2) = Seen(ops)

\* The other operations keep their outcomes.
LEMMA OutcomesAre ==
  ASSUME NEW ops, NEW ops2, NEW o \in Operation, \A p \in Operation : p # o => ops2[p] = ops[p]
  PROVE  OutcomeChanges(ops, ops2, o)
BY DEF OutcomeChanges, Outcome, Seen

\* One more change.
LEMMA OpsOneMore ==
  ASSUME NEW d \in Seq(Cmds), NEW c \in Cmds
  PROVE  Ops(Append(d, c)) = Append(Ops(d), c.new.op)
<1>1. PICK f : f = Append(d, c)
  OBVIOUS
<1>2. f \in Seq(Cmds) /\ Len(f) = Len(d) + 1 /\ f[Len(d) + 1] = c /\ \A i \in 1..Len(d) : f[i] = d[i]
  BY <1>1, AppendProperties
<1>3. /\ Ops(d) \in Seq(Operation) /\ Len(Ops(d)) = Len(d) /\ Len(d) \in Nat
      /\ \A i \in 1..Len(d) : Ops(d)[i] = d[i].new.op
  BY OpsIs
<1>4. /\ Ops(f) \in Seq(Operation) /\ Len(Ops(f)) = Len(f)
      /\ \A i \in 1..Len(f) : Ops(f)[i] = f[i].new.op
  BY <1>2, OpsIs
<1>5. PICK g : g = Append(Ops(d), c.new.op)
  OBVIOUS
<1>6. c.new.op \in Operation
  BY DEF Cmds, Ids
<1>7. /\ g \in Seq(Operation) /\ Len(g) = Len(d) + 1 /\ g[Len(d) + 1] = c.new.op
      /\ \A i \in 1..Len(d) : g[i] = Ops(d)[i]
  BY <1>3, <1>5, <1>6, AppendProperties
<1>8. \A i \in 1..Len(g) : Ops(f)[i] = g[i]
  <2> SUFFICES ASSUME NEW i \in 1..Len(g) PROVE Ops(f)[i] = g[i]
    OBVIOUS
  <2>1. i \in 1..Len(f) /\ (i \in 1..Len(d) \/ i = Len(d) + 1)
    BY <1>2, <1>3, <1>7
  <2> QED BY <1>2, <1>3, <1>4, <1>7, <2>1
<1>9. Ops(f) = g
  BY <1>2, <1>4, <1>7, <1>8, SeqEqual
<1> QED BY <1>1, <1>5, <1>9
\* start_operation starts an operation of the register.
LEMMA StartOperationRefines ==
  ASSUME IInv, UNCHANGED scenario, NEW o \in Operation, StartOperation(o)
  PROVE  Abstract!Start(o)
<1>1. /\ op[o].phase = "idle" /\ UNCHANGED <<scenario, log>>
      /\ op' = [op EXCEPT ![o].phase = "barrier", ![o].barrier = Len(log)]
  BY DEF StartOperation
<1>2. DOMAIN op = Operation /\ DOMAIN op[o] = {"phase", "barrier", "cmd", "attempt"}
  BY Facts DEF OpOK
<1>3. op'[o].phase = "barrier" /\ \A p \in Operation : p # o => op'[p] = op[p]
  BY <1>1, <1>2
<1>4. OutcomeOf(op[o]) = "idle" /\ OutcomeOf(op'[o]) = "pending" /\ SeenOf(op[o]) = SeenOf(op'[o])
  BY <1>1, <1>3 DEF OutcomeOf, SeenOf, Running
<1>5. Outcome(op') = [Outcome(op) EXCEPT ![o] = "pending"] /\ Seen(op') = Seen(op) /\ Outcome(op)[o] = "idle"
  <2>1. OutcomeChanges(op, op', o)
    BY <1>3, OutcomesAre
  <2>2. Outcome(op') = [Outcome(op) EXCEPT ![o] = OutcomeOf(op'[o])] /\ Seen(op') = Seen(op)
    BY Zenon, <1>4, <2>1 DEF OutcomeChanges
  <2>3. Outcome(op)[o] = "idle"
    BY <1>4 DEF Outcome
  <2>4. OutcomeOf(op'[o]) = "pending"
    BY <1>4
  <2> QED BY Zenon, <2>2, <2>3, <2>4
<1>6. Decided' = Decided
  BY <1>1, SameLog
<1> QED BY <1>5, <1>6 DEF Abstract!Start, Outcome, OutcomeOf, Seen, SeenOf

\* What a done operation has seen.
LEMMA SeenIs ==
  ASSUME NEW d, Chain(d), NEW i \in 1..Len(d)
  PROVE  Front(d[i].schema.v) = SubSeq(Ops(d), 1, i - 1)
<1>1. PICK v, k : v = d[i].schema.v /\ k = i - 1
  OBVIOUS
<1>2. /\ Ops(d) \in Seq(Operation) /\ Len(Ops(d)) = Len(d) /\ Len(d) \in Nat
  BY OpsIs DEF Chain
<1>3. d[i].schema = Table(d, i)
  BY DEF Chain
<1>4. Table(d, i).v = SubSeq(Ops(d), 1, i)
  BY DEF Table, TableCell
<1>5. v = SubSeq(Ops(d), 1, i)
  BY Zenon, <1>1, <1>3, <1>4
<1>6. i \in 0..Len(Ops(d))
  BY <1>2
<1>7. v \in Seq(Operation) /\ Len(v) = i /\ \A j \in 1..i : v[j] = Ops(d)[j]
  BY <1>2, <1>5, <1>6, FirstOf
<1>8. k \in Nat /\ k <= Len(v) /\ k <= Len(Ops(d)) /\ \A j \in 1..k : v[j] = Ops(d)[j]
  BY <1>1, <1>2, <1>7
<1>9. SubSeq(v, 1, k) = SubSeq(Ops(d), 1, k)
  BY <1>2, <1>7, <1>8, FirstSame
<1>10. Front(v) = SubSeq(v, 1, k)
  BY <1>1, <1>7 DEF Front
<1> QED BY <1>1, <1>9, <1>10

\* add_entry reports that the change took effect, or a concurrent modification.
LEMMA FinishOperationRefines ==
  ASSUME IInv, UNCHANGED scenario, NEW o \in Operation, FinishOperation(o)
  PROVE  Abstract!Done(o) \/ Abstract!Conflict(o)
<1>1. IInv' /\ op[o].phase = "sent" /\ UNCHANGED log
  BY FinishOperationStep
<1>2. PICK ph \in {"done", "conflict"} : op' = [op EXCEPT ![o].phase = ph]
  BY FinishOperationStep
<1>3. DOMAIN op = Operation /\ DOMAIN op[o] = {"phase", "barrier", "cmd", "attempt"}
  BY Facts DEF OpOK
<1>4. op'[o].phase = ph /\ op'[o].cmd = op[o].cmd /\ \A p \in Operation : p # o => op'[p] = op[p]
  BY <1>2, <1>3
<1>5. Decided' = Decided
  BY <1>1, SameLog
<1>6. PICK d, c : d = Decided /\ c = op[o].cmd
  OBVIOUS
<1>7. Chain(d) /\ \A i \in 1..Len(d) : Sent(d[i], op)
  BY <1>6 DEF IInv, ChangesOK
<1>8. /\ d \in Seq(Cmds) /\ Len(d) \in Nat /\ DOMAIN Ops(d) = 1..Len(d)
      /\ \A i \in 1..Len(d) : Ops(d)[i] = d[i].new.op
  BY <1>7, OpsIs, LenProperties DEF Chain
<1>9. /\ CommandOf(c, o, d)
      /\ ph = "done" => \E i \in 1..Len(d) : d[i] = c
      /\ ph = "conflict" => \A i \in 1..Len(d) : d[i] # c
  <2>1. OpOK(op'[o], o, Decided')
    BY <1>1 DEF IInv, OperationsOK
  <2>2. OpOK(op'[o], o, d)
    BY <1>5, <1>6, <2>1
  <2> QED BY <1>4, <1>6, <2>2 DEF OpOK
<1>10. c.new.op = o
  BY <1>9 DEF CommandOf
<1>11. \A i \in 1..Len(d) : Ops(d)[i] = o <=> d[i] = c
  BY <1>6, <1>7, <1>8, <1>10 DEF Sent
<1>12. /\ OutcomeOf(op[o]) = "pending" /\ OutcomeOf(op'[o]) = ph
       /\ SeenOf(op[o]) = << >>
       /\ SeenOf(op'[o]) = IF ph = "done" THEN Front(c.schema.v) ELSE << >>
  BY <1>1, <1>4, <1>6 DEF OutcomeOf, SeenOf, Running
<1>13. /\ Outcome(op') = [Outcome(op) EXCEPT ![o] = ph] /\ Outcome(op)[o] = "pending"
       /\ Seen(op') = [Seen(op) EXCEPT ![o] = SeenOf(op'[o])]
       /\ ph = "conflict" => Seen(op') = Seen(op)
  <2>1. OutcomeChanges(op, op', o)
    BY <1>4, OutcomesAre
  <2>2. Outcome(op)[o] = "pending"
    BY <1>12 DEF Outcome
  <2>3. ph = "conflict" => SeenOf(op'[o]) = SeenOf(op[o])
    BY <1>12
  <2>4. /\ Outcome(op') = [Outcome(op) EXCEPT ![o] = OutcomeOf(op'[o])]
        /\ Seen(op') = [Seen(op) EXCEPT ![o] = SeenOf(op'[o])]
        /\ ph = "conflict" => Seen(op') = Seen(op)
    BY Zenon, <2>1, <2>3 DEF OutcomeChanges
  <2>5. OutcomeOf(op'[o]) = ph
    BY <1>12
  <2> QED BY Zenon, <2>2, <2>4, <2>5
<1>14. CASE ph = "done"
  <2>1. PICK i \in 1..Len(d) : d[i] = c
    BY <1>9, <1>14
  <2>2. SeenOf(op'[o]) = SubSeq(Ops(d), 1, i - 1)
    BY <1>7, <1>12, <1>14, <2>1, SeenIs
  <2>3. i \in DOMAIN Ops(Decided) /\ Ops(Decided)[i] = o
    BY <1>6, <1>8, <1>11, <2>1
  <2>4. Seen(op') = [Seen(op) EXCEPT ![o] = SubSeq(Ops(Decided), 1, i - 1)]
    BY <1>6, <1>13, <2>2
  <2>5. Outcome(op') = [Outcome(op) EXCEPT ![o] = "done"] /\ Outcome(op)[o] = "pending"
    BY <1>13, <1>14
  <2>6. Abstract!Done(o)
    BY <1>5, <2>3, <2>4, <2>5 DEF Abstract!Done, Outcome, OutcomeOf, Seen, SeenOf
  <2> QED BY <2>6
<1>15. CASE ph = "conflict"
  <2>1. \A i \in DOMAIN Ops(Decided) : Ops(Decided)[i] # o
    BY <1>6, <1>8, <1>9, <1>11, <1>15
  <2>2. /\ Outcome(op') = [Outcome(op) EXCEPT ![o] = "conflict"] /\ Outcome(op)[o] = "pending"
        /\ Seen(op') = Seen(op)
    BY <1>13, <1>15
  <2>3. Abstract!Conflict(o)
    BY <1>5, <2>1, <2>2 DEF Abstract!Conflict, Outcome, OutcomeOf, Seen, SeenOf
  <2> QED BY <2>3
<1> QED BY <1>14, <1>15

\* Raft commits an entry: its change takes effect, or nothing happens.
LEMMA CommitRefines ==
  ASSUME IInv, UNCHANGED scenario, NEW e \in flight, Commit(e)
  PROVE  UNCHANGED registerVars \/ \E o \in Operation : Abstract!Change(o)
<1>1. /\ IInv' /\ UNCHANGED op /\ EntryOK(e, op, Decided)
      /\ \/ Decided' = Decided
         \/ Decided' = Append(Decided, e.cmd) /\ e.cmd.prev = Id(Decided, Len(Decided))
  BY CommitStep
<1>2. CASE Decided' = Decided
  BY <1>1, <1>2 DEF registerVars
<1>3. CASE Decided' = Append(Decided, e.cmd) /\ e.cmd.prev = Id(Decided, Len(Decided))
  <2>1. PICK d, c, o : d = Decided /\ c = e.cmd /\ o = c.new.op
    OBVIOUS
  <2>2. /\ c \in Cmds /\ o \in Operation /\ op[o].cmd = c /\ op[o].phase \in SentPhases
        /\ c.prev = Id(d, Len(d))
    BY <1>1, <1>3, <2>1 DEF EntryOK, Sent, Entries
  <2>3. Chain(d) /\ OpOK(op[o], o, d) /\ \A i \in 1..Len(d) : Sent(d[i], op)
    <3>1. ChangesOK(log, d, op, flight) /\ OperationsOK(op, d, Home)
      BY <2>1 DEF IInv
    <3> QED BY <2>2, <3>1 DEF ChangesOK, OperationsOK
  <2>4. /\ d \in Seq(Cmds) /\ Len(d) \in Nat /\ DOMAIN Ops(d) = 1..Len(d)
        /\ \A i \in 1..Len(d) : Ops(d)[i] = d[i].new.op
    BY <2>3, OpsIs, LenProperties DEF Chain
  <2>5. ASSUME NEW k \in 0..Len(d), c.prev = Id(d, k) PROVE k = Len(d)
    <3>1. Len(d) \in 0..Len(d)
      BY <2>4
    <3> QED BY <2>2, <2>3, <2>5, <3>1, IdsDiffer
  <2>6. op[o].phase \in {"sent", "lost"}
    <3> SUFFICES ASSUME op[o].phase \in {"done", "conflict"} PROVE FALSE
      BY <2>2 DEF SentPhases
    <3>1. PICK k \in 0..Len(d) : k < Len(d) /\ c.prev = Id(d, k)
      BY <2>2, <2>3 DEF OpOK
    <3> QED BY <2>4, <2>5, <3>1
  <2>7. \A i \in 1..Len(d) : Ops(d)[i] # o
    <3> SUFFICES ASSUME NEW i \in 1..Len(d), Ops(d)[i] = o PROVE FALSE
      OBVIOUS
    <3>1. d[i] = c
      BY <2>2, <2>3, <2>4 DEF Sent
    <3>2. c.prev = Id(d, i - 1)
      BY <2>3, <3>1 DEF Chain
    <3>3. i - 1 \in 0..Len(d) /\ i - 1 # Len(d)
      BY <2>4
    <3> QED BY <2>5, <3>2, <3>3
  <2>8. Outcome(op)[o] \in {"pending", "lost"}
    BY <2>2, <2>6 DEF Outcome, OutcomeOf, Running
  <2>9. Ops(Decided') = Append(Ops(d), o)
    BY <1>3, <2>1, <2>2, <2>4, OpsOneMore
  <2>10. Ops(Decided)' = Append(Ops(Decided), o) /\ \A i \in DOMAIN Ops(Decided) : Ops(Decided)[i] # o
    BY <2>1, <2>4, <2>7, <2>9 DEF Ops
  <2>11. Abstract!Change(o)
    BY <1>1, <2>8, <2>10 DEF Abstract!Change, Outcome, OutcomeOf
  <2> QED BY <2>2, <2>11
<1> QED BY <1>1, <1>2, <1>3

\* The operations of a server that crashes are lost.
LEMMA CrashRefines ==
  ASSUME IInv, UNCHANGED scenario, NEW n \in Node, Crash(n)
  PROVE  \E S \in SUBSET Operation : Abstract!Lose(S)
<1>1. UNCHANGED log /\ op' = LostAt(n)
  BY CrashStep
<1>2. PICK S : S = {o \in Operation : op[o].phase \in Running /\ Home[o] = n}
  OBVIOUS
<1>3. ASSUME NEW o \in Operation
      PROVE  /\ o \in S => OutcomeOf(op[o]) = "pending"
             /\ OutcomeOf(op'[o]) = IF o \in S THEN "lost" ELSE OutcomeOf(op[o])
             /\ SeenOf(op'[o]) = SeenOf(op[o])
  <2>1. DOMAIN op[o] = {"phase", "barrier", "cmd", "attempt"}
    BY Facts DEF OpOK
  <2>2. CASE o \in S
    <3>1. op[o].phase \in Running /\ op'[o] = [op[o] EXCEPT !.phase = "lost"]
      BY <1>1, <1>2, <2>2 DEF LostAt
    <3>2. op'[o].phase = "lost"
      BY <2>1, <3>1
    <3> QED BY <2>2, <3>1, <3>2 DEF OutcomeOf, SeenOf, Running
  <2>3. CASE o \notin S
    <3>1. op'[o] = op[o]
      BY <1>1, <1>2, <2>3 DEF LostAt
    <3> QED BY <2>3, <3>1
  <2> QED BY <2>2, <2>3
<1>4. /\ Seen(op') = Seen(op)
      /\ Outcome(op') = [o \in Operation |-> IF o \in S THEN "lost" ELSE Outcome(op)[o]]
      /\ \A o \in S : Outcome(op)[o] = "pending"
  BY <1>2, <1>3 DEF Outcome, Seen
<1>5. Decided' = Decided
  BY SameLog, <1>1
<1>6. Abstract!Lose(S)
  BY <1>4, <1>5 DEF Abstract!Lose, Outcome, OutcomeOf, Seen, SeenOf
<1> QED BY <1>2, <1>6
\* A step of a server, or of a client that waits, changes nothing of the register.
LEMMA OthersRefine ==
  ASSUME IInv, UNCHANGED scenario,
         \/ \E o \in Operation : TakeGuard(o) \/ AddEntry(o) \/ RetryEntry(o)
         \/ \E n \in Node, k \in 1..Scenarios[scenario].batch : StartApply(n, k)
         \/ \E n \in Node : WriteChange(n) \/ WriteHistory(n) \/ PullTopology(n) \/ InstallTables(n)
                            \/ InstallHistory(n)
         \/ \E n, m \in Node, idx \in 1..Len(log) : PullSchema(n, m, idx)
  PROVE  UNCHANGED registerVars
<1>1. SUFFICES UNCHANGED log /\ Outcome(op') = Outcome(op) /\ Seen(op') = Seen(op)
  BY <1>1, SameLog DEF registerVars
<1>2. ASSUME NEW o \in Operation, UNCHANGED log, op[o].phase \in Running, op'[o].phase \in Running,
             \A p \in Operation : p # o => op'[p] = op[p]
      PROVE  UNCHANGED log /\ Outcome(op') = Outcome(op) /\ Seen(op') = Seen(op)
  <2>1. OutcomeOf(op'[o]) = OutcomeOf(op[o]) /\ SeenOf(op'[o]) = SeenOf(op[o])
    BY <1>2 DEF OutcomeOf, SeenOf, Running
  <2>2. OutcomeChanges(op, op', o)
    BY <1>2, OutcomesAre
  <2> QED BY Zenon, <1>2, <2>1, <2>2 DEF OutcomeChanges
<1>3. ASSUME NEW o \in Operation, TakeGuard(o) \/ AddEntry(o) \/ RetryEntry(o)
      PROVE  UNCHANGED log /\ Outcome(op') = Outcome(op) /\ Seen(op') = Seen(op)
  <2>1. DOMAIN op = Operation /\ DOMAIN op[o] = {"phase", "barrier", "cmd", "attempt"}
    BY Facts DEF OpOK
  <2>2. CASE TakeGuard(o)
    <3>1. op[o].phase = "barrier" /\ UNCHANGED log /\ \E c : op' = [op EXCEPT ![o].phase = "guard", ![o].cmd = c]
      BY <2>2, TakeGuardStep
    <3>2. op'[o].phase = "guard" /\ \A p \in Operation : p # o => op'[p] = op[p]
      BY <2>1, <3>1
    <3> QED BY <1>2, <3>1, <3>2 DEF Running
  <2>3. CASE AddEntry(o)
    <3>1. /\ op[o].phase = "guard" /\ UNCHANGED log
          /\ op' = [op EXCEPT ![o].phase = "sent", ![o].attempt = 1]
      BY <2>3 DEF AddEntry
    <3>2. op'[o].phase = "sent" /\ \A p \in Operation : p # o => op'[p] = op[p]
      BY <2>1, <3>1
    <3> QED BY <1>2, <3>1, <3>2 DEF Running
  <2>4. CASE RetryEntry(o)
    <3>1. op[o].phase = "sent" /\ UNCHANGED log /\ op' = [op EXCEPT ![o].attempt = op[o].attempt + 1]
      BY <2>4 DEF RetryEntry
    <3>2. op'[o].phase = "sent" /\ \A p \in Operation : p # o => op'[p] = op[p]
      BY <2>1, <3>1
    <3> QED BY <1>2, <3>1, <3>2 DEF Running
  <2> QED BY <1>3, <2>2, <2>3, <2>4
<1>4. ASSUME NEW n \in Node, NEW k \in 1..Scenarios[scenario].batch, StartApply(n, k)
      PROVE  UNCHANGED <<log, op>>
  BY <1>4, StartApplyStep
<1>5. ASSUME NEW n \in Node, \/ WriteChange(n) \/ WriteHistory(n) \/ PullTopology(n) \/ InstallTables(n)
                             \/ InstallHistory(n)
      PROVE  UNCHANGED <<log, op>>
  BY <1>5 DEF WriteChange, WriteHistory, PullTopology, InstallTables, InstallHistory
<1>6. ASSUME NEW n \in Node, NEW m \in Node, NEW idx \in 1..Len(log), PullSchema(n, m, idx)
      PROVE  UNCHANGED <<log, op>>
  BY <1>6 DEF PullSchema
<1> QED BY <1>3, <1>4, <1>5, <1>6

\* raft_group0_client and group0_state_machine together make group 0 a register whose
\* changes are linearizable: every step of theirs is a step of Group0Register or none.
THEOREM ImplementsRegisterTheorem == ChangesSpec => ImplementsRegister
<1>1. ChangesInit => Abstract!Init
  <2> SUFFICES ASSUME ChangesInit PROVE Abstract!Init
    OBVIOUS
  <2>1. Decided = << >>
    BY InitStep
  <2>2. Ops(Decided) = << >>
    BY <2>1 DEF Ops
  <2>3. op = [o \in Operation |-> [phase |-> "idle", barrier |-> 0, cmd |-> None, attempt |-> 0]]
    BY DEF ChangesInit
  <2>4. \A o \in Operation : op[o].phase = "idle"
    BY <2>3
  <2> QED BY <2>2, <2>4 DEF Abstract!Init, Running
<1>2. IInv /\ [ChangesNext]_changeVars => UNCHANGED registerVars \/ Abstract!Next
  <2> SUFFICES ASSUME IInv, [ChangesNext]_changeVars PROVE UNCHANGED registerVars \/ Abstract!Next
    OBVIOUS
  <2>1. CASE UNCHANGED changeVars
    <3>1. UNCHANGED <<scenario, log, op>>
      BY <2>1 DEF changeVars
    <3>2. Decided' = Decided
      BY <3>1, SameLog
    <3> QED BY <3>1, <3>2 DEF registerVars
  <2>2. CASE ChangesNext
    <3>1. UNCHANGED scenario
      BY <2>2 DEF ChangesNext
    <3>2. \/ \E o \in Operation : StartOperation(o) \/ FinishOperation(o)
          \/ \E e \in flight : Commit(e)
          \/ \E n \in Node : Crash(n)
          \/ \E o \in Operation : TakeGuard(o) \/ AddEntry(o) \/ RetryEntry(o)
          \/ \E n \in Node, k \in 1..Scenarios[scenario].batch : StartApply(n, k)
          \/ \E n \in Node : WriteChange(n) \/ WriteHistory(n) \/ PullTopology(n) \/ InstallTables(n)
                             \/ InstallHistory(n)
          \/ \E n, m \in Node, idx \in 1..Len(log) : PullSchema(n, m, idx)
      BY <2>2 DEF ChangesNext
    <3>3. CASE \E o \in Operation : StartOperation(o) \/ FinishOperation(o)
      BY <3>1, <3>3, StartOperationRefines, FinishOperationRefines DEF Abstract!Next
    <3>4. CASE \E e \in flight : Commit(e)
      BY <3>1, <3>4, CommitRefines DEF Abstract!Next
    <3>5. CASE \E n \in Node : Crash(n)
      BY <3>1, <3>5, CrashRefines DEF Abstract!Next
    <3> QED BY <3>1, <3>2, <3>3, <3>4, <3>5, OthersRefine
  <2> QED BY <2>1, <2>2
<1>3. IInv /\ [ChangesNext]_changeVars =>
        [Abstract!Next]_<<Ops(Decided),
                          [o \in Operation |-> IF op[o].phase \in Running THEN "pending" ELSE op[o].phase],
                          [o \in Operation |-> IF op[o].phase = "done" THEN Front(op[o].cmd.schema.v) ELSE << >>]>>
  BY <1>2 DEF registerVars, Outcome, OutcomeOf, Seen, SeenOf
<1> QED BY <1>1, <1>3, ChangesInvariant, PTL DEF ChangesSpec, ImplementsRegister, Abstract!Spec
=============================================================================
