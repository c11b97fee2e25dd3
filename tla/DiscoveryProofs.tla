-------------------------- MODULE DiscoveryProofs --------------------------
(***************************************************************************)
(* Proofs about Discovery: for any number of servers, any seeds that meet  *)
(* what discovery.hh asks of them, and any crashes, lost calls and failed  *)
(* handshakes, one group 0 comes out of discovery.                         *)
(*                                                                         *)
(* Of two servers that both have the answer of a third, the later one has  *)
(* heard of the other from it.  The peers of a leader have all answered    *)
(* and contain their own seeds, so that the peers of any two leaders have  *)
(* a server in common: one of the two knows the other, who knows it as     *)
(* well, and both would be the smallest.                                   *)
(***************************************************************************)
EXTENDS Discovery, FiniteSetTheorems, TLAPS

\* The types of the variables.
Lists == [ips : SUBSET Node, ids : SUBSET Node]
Tables == [Node -> [peers : Lists, group : Nat]]
Phases == {"off", "discovering", "found", "handshake", "storing", "member"}
Memory == [phase : Phases, peers : Lists, responded : SUBSET Node,
           requests : SUBSET [to : Node, list : Lists], leader : BOOLEAN, group : Nat,
           via : Nat, started : Nat, announced : BOOLEAN]
Replies == [kind : {"peers"}, list : Lists] \cup [kind : {"group"}, group : Nat] \cup {Nothing}
Calls == [from : Node, to : Node, list : Lists, reply : Replies, awaited : BOOLEAN]

----------------------------------------------------------------------------
(* What servers know of each other: sv, T and cl are the servers, their    *)
(* tables and the calls, S the seeds.                                      *)

\* Stored peers contain the seeds.
TableOk(T, S) ==
  /\ T \in Tables
  /\ \A n \in DOMAIN S : T[n].peers.ips # {} => S[n] \subseteq T[n].peers.ips \cup {n}

\* The memory of server n, s.
NodeOk(n, s, T, S) ==
  /\ s \in Memory /\ n \notin s.peers.ips /\ s.responded \subseteq s.peers.ips
  /\ s.phase # "off" => n \in DOMAIN S
  /\ s.phase = "discovering" \/ s.leader =>
       S[n] \subseteq s.peers.ips \cup {n} /\ T[n].peers.ips \subseteq s.peers.ips \cup {n}
  /\ s.leader => s.phase # "off" /\ s.responded = s.peers.ips /\ \A p \in s.peers.ips : n < p
  /\ \A r \in s.requests : r.to \in s.peers.ips /\ (n \in r.list.ips \/ n \in T[r.to].peers.ips)

\* Who is asked knows who asks, or is told.
CallOk(c, sv, T) ==
  /\ c \in Calls /\ c.from # c.to
  /\ c.from \in c.list.ips \/ c.from \in T[c.to].peers.ips
  /\ c.awaited => sv[c.from].phase = "discovering" /\ c.to \in sv[c.from].peers.ips
  /\ c.reply # Nothing => c.awaited

\* Server p has answered n with the addresses L: n has the answer, or it is under way.
Answer(sv, cl, n, p, L) ==
  \/ p \in sv[n].responded /\ L = sv[n].peers.ips
  \/ \E c \in cl : c.from = n /\ c.to = p /\ c.reply.kind = "peers" /\ L = c.reply.list.ips

\* Who has answered knows who asked, and has told its seeds and itself.
AnswerOk(n, p, L, T, S) ==
  p # n /\ p \in DOMAIN S /\ n \in T[p].peers.ips /\ p \in L /\ S[p] \subseteq L \cup {n}

\* Of two servers that one has answered, one has heard of the other.
Met(sv, cl) ==
  \A n, m, p \in Node : \A L, M \in SUBSET Node :
    n # m /\ Answer(sv, cl, n, p, L) /\ Answer(sv, cl, m, p, M) => m \in L \/ n \in M

Know(sv, T, cl, S) ==
  /\ TableOk(T, S) /\ sv \in [Node -> Memory] /\ cl \in SUBSET Calls
  /\ \A n \in Node : NodeOk(n, sv[n], T, S)
  /\ \A c \in cl : CallOk(c, sv, T)
  /\ \A n, p \in Node : \A L \in SUBSET Node : Answer(sv, cl, n, p, L) => AnswerOk(n, p, L, T, S)
  /\ Met(sv, cl)

----------------------------------------------------------------------------
(* The group.                                                              *)

\* Server n was a leader with the servers K, and nothing has changed since.
Seated(n, K, sv, T, cl, S) ==
  /\ n \in K /\ K \subseteq DOMAIN S /\ Closed(K, S) /\ T[n].peers.ips \subseteq K
  /\ \A p \in K \ {n} : n < p /\ n \in T[p].peers.ips
  /\ \A m \in Node \ {n}, p \in K \ {n} : \A L \in SUBSET Node :
       Answer(sv, cl, m, p, L) => m \in K \/ n \in L

Single(C) == \E n \in Node : C = {n}

\* Groups may have been created, but nobody else has heard of one.
Nobody(sv, T, cl, cf) ==
  /\ \A n \in Node :
       /\ T[n].group = NoGroup /\ sv[n].started = NoGroup /\ ~sv[n].announced
       /\ sv[n].phase \in {"off", "discovering", "found"}
       /\ sv[n].phase = "found" =>
            /\ sv[n].leader /\ sv[n].via = n
            /\ sv[n].group \in 1..Len(cf) /\ n \in cf[sv[n].group]
  /\ \A c \in cl : c.reply.kind # "group"
  /\ \A h \in 1..Len(cf) : Single(cf[h])

\* Group g is the one, and its creator, c, is not going to forget it.
Owned(c, g, sv, T, cl, cf, S) ==
  /\ g \in 1..Len(cf)
  /\ \E K \in SUBSET Node : Seated(c, K, sv, T, cl, S)
  /\ \/ sv[c].phase = "storing" /\ sv[c].via = c
     \/ sv[c].phase \in {"off", "member"} /\ T[c].group = g
  /\ \A n \in Node :
       /\ T[n].group \in {NoGroup, g} /\ sv[n].started \in {NoGroup, g}
       /\ sv[n].announced \/ sv[n].phase \notin {"off", "discovering"} => sv[n].group = g
  /\ \A d \in cl : d.reply.kind = "group" => d.reply.group = g
  /\ \A h \in 1..Len(cf) : h # g => Single(cf[h])

Groups(sv, T, cl, cf, S) ==
  Nobody(sv, T, cl, cf) \/ \E c \in Node, g \in 1..Len(cf) : Owned(c, g, sv, T, cl, cf, S)

\* The inductive invariant.
IInv ==
  /\ plan \in DOMAIN Plans /\ config \in Seq(SUBSET Node)
  /\ Know(server, table, exchanges, Seeds)
  /\ forgotten \/ Groups(server, table, exchanges, config, Seeds)

----------------------------------------------------------------------------
(* class discovery                                                         *)

\* step() on a server that is no leader: it knows more, asks those it did not know, and may
\* have become the leader.
LEMMA LearnIs ==
  ASSUME NEW n \in Node, NEW s \in Memory, NEW list \in Lists, NEW t, t = Learn(n, s, list)
  PROVE  /\ s.leader => t = s
         /\ ~s.leader =>
              /\ t \in Memory /\ t.peers.ips = s.peers.ips \cup (list.ips \ {n})
              /\ t.responded = s.responded
              /\ t.phase = s.phase /\ t.group = s.group /\ t.via = s.via
              /\ t.started = s.started /\ t.announced = s.announced
              /\ t.leader => t.responded = t.peers.ips /\ \A p \in t.peers.ips : n < p
              /\ \A r \in t.requests : r \in s.requests \/ (r.to \in t.peers.ips /\ n \in r.list.ips)
<1>1. CASE s.leader
  BY <1>1 DEF Learn
<1>2. CASE ~s.leader
  <2>1. PICK u : u = [s EXCEPT !.peers = Join(@, List(list.ips \ {n}, list.ids \ {n}))]
    OBVIOUS
  <2>2. PICK l : l = Join(s.peers, List(list.ips \ {n}, list.ids \ {n}))
    OBVIOUS
  <2>3. l \in Lists /\ l.ips = s.peers.ips \cup (list.ips \ {n})
    BY <2>2 DEF Join, List, Lists, Memory
  <2>4. /\ u \in Memory /\ u.peers = l /\ u.responded = s.responded /\ u.requests = s.requests
        /\ u.phase = s.phase /\ u.group = s.group /\ u.via = s.via
        /\ u.started = s.started /\ u.announced = s.announced /\ u.leader = s.leader
    BY <2>1, <2>2, <2>3 DEF Memory
  <2>5. PICK fresh : fresh = list.ips \ (s.peers.ips \cup {n})
    OBVIOUS
  <2>6. t = IF MaybeBecomeLeader(n, u) THEN [u EXCEPT !.leader = TRUE]
            ELSE [u EXCEPT !.requests = @ \cup {[to |-> p, list |-> PeerList(n, u)] : p \in fresh}]
    BY <1>2, <2>1, <2>5 DEF Learn
  <2>7. CASE MaybeBecomeLeader(n, u)
    <3>1. t = [u EXCEPT !.leader = TRUE]
      BY <2>6, <2>7
    <3>2. /\ t \in Memory /\ t.peers = l /\ t.responded = s.responded /\ t.requests = s.requests
          /\ t.phase = s.phase /\ t.group = s.group /\ t.via = s.via
          /\ t.started = s.started /\ t.announced = s.announced
      BY <2>4, <3>1 DEF Memory
    <3>3. t.responded = t.peers.ips /\ \A p \in t.peers.ips : n < p
      BY <2>4, <2>7, <3>2 DEF MaybeBecomeLeader
    <3> QED BY <1>2, <2>3, <3>2, <3>3
  <2>8. CASE ~MaybeBecomeLeader(n, u)
    <3>1. PICK new : new = {[to |-> p, list |-> PeerList(n, u)] : p \in fresh}
      OBVIOUS
    <3>2. PeerList(n, u) \in Lists /\ n \in PeerList(n, u).ips
      BY <2>3, <2>4 DEF PeerList, Join, List, Lists
    <3>3. fresh \subseteq l.ips /\ fresh \subseteq Node
      BY <2>3, <2>5 DEF Lists
    <3>4. \A r \in new : r \in [to : Node, list : Lists] /\ r.to \in l.ips /\ n \in r.list.ips
      BY <3>1, <3>2, <3>3
    <3>5. t = [u EXCEPT !.requests = u.requests \cup new]
      BY <2>6, <2>8, <3>1
    <3>6. /\ t \in Memory /\ t.peers = l /\ t.responded = s.responded /\ t.requests = s.requests \cup new
          /\ t.phase = s.phase /\ t.group = s.group /\ t.via = s.via
          /\ t.started = s.started /\ t.announced = s.announced /\ t.leader = s.leader
      BY <2>4, <3>4, <3>5 DEF Memory
    <3> QED BY <1>2, <2>3, <3>4, <3>6
  <2> QED BY <2>7, <2>8
<1> QED BY <1>1, <1>2

\* The list a server shares.
LEMMA PeerListIs ==
  ASSUME NEW n \in Node, NEW s \in Memory
  PROVE  PeerList(n, s) \in Lists /\ PeerList(n, s).ips = s.peers.ips \cup {n}
BY DEF PeerList, Join, List, Lists, Memory

----------------------------------------------------------------------------
(* Answers.                                                                *)

\* Tables only grow.
Grows(T, T2) == \A p \in Node : T[p].peers.ips \subseteq T2[p].peers.ips

\* An answer was there before, or the server that gives it tells all it has stored.
AnswersFollow(sv, cl, sv2, cl2, T2, S) ==
  \A n, p \in Node : \A L \in SUBSET Node : Answer(sv2, cl2, n, p, L) =>
    \/ \E M \in SUBSET Node : Answer(sv, cl, n, p, M) /\ M \subseteq L \cup {n}
    \/ AnswerOk(n, p, L, T2, S) /\ T2[p].peers.ips \subseteq L

\* The answers stay right.
LEMMA AnswersStay ==
  ASSUME NEW sv, NEW T, NEW cl, NEW S, Know(sv, T, cl, S), NEW sv2, NEW T2, NEW cl2,
         Grows(T, T2), AnswersFollow(sv, cl, sv2, cl2, T2, S)
  PROVE  /\ \A n, p \in Node : \A L \in SUBSET Node : Answer(sv2, cl2, n, p, L) => AnswerOk(n, p, L, T2, S)
         /\ Met(sv2, cl2)
<1>1. ASSUME NEW n \in Node, NEW p \in Node, NEW L \in SUBSET Node, Answer(sv2, cl2, n, p, L)
      PROVE  AnswerOk(n, p, L, T2, S)
  <2>1. CASE AnswerOk(n, p, L, T2, S)
    BY <2>1
  <2>2. CASE \E M \in SUBSET Node : Answer(sv, cl, n, p, M) /\ M \subseteq L \cup {n}
    <3>1. PICK M \in SUBSET Node : Answer(sv, cl, n, p, M) /\ M \subseteq L \cup {n}
      BY <2>2
    <3>2. AnswerOk(n, p, M, T, S)
      BY <3>1 DEF Know
    <3> QED BY <3>1, <3>2 DEF AnswerOk, Grows
  <2> QED BY <1>1, <2>1, <2>2 DEF AnswersFollow
<1>2. ASSUME NEW n \in Node, NEW m \in Node, NEW p \in Node, NEW L \in SUBSET Node, NEW M \in SUBSET Node,
             n # m, Answer(sv2, cl2, n, p, L), Answer(sv2, cl2, m, p, M)
      PROVE  m \in L \/ n \in M
  <2>1. n \in T2[p].peers.ips /\ m \in T2[p].peers.ips
    BY <1>1, <1>2 DEF AnswerOk
  <2>2. CASE T2[p].peers.ips \subseteq L \/ T2[p].peers.ips \subseteq M
    BY <2>1, <2>2
  <2>3. CASE /\ \E A \in SUBSET Node : Answer(sv, cl, n, p, A) /\ A \subseteq L \cup {n}
             /\ \E B \in SUBSET Node : Answer(sv, cl, m, p, B) /\ B \subseteq M \cup {m}
    <3>1. PICK A \in SUBSET Node, B \in SUBSET Node :
            /\ Answer(sv, cl, n, p, A) /\ A \subseteq L \cup {n}
            /\ Answer(sv, cl, m, p, B) /\ B \subseteq M \cup {m}
      BY <2>3
    <3>2. m \in A \/ n \in B
      BY <1>2, <3>1 DEF Know, Met
    <3> QED BY <1>2, <3>1, <3>2
  <2> QED BY <1>2, <2>2, <2>3 DEF AnswersFollow
<1> QED BY <1>1, <1>2 DEF Met

\* So does the seat of a leader.
LEMMA SeatedStays ==
  ASSUME NEW sv, NEW T, NEW cl, NEW S, NEW sv2, NEW T2, NEW cl2,
         Grows(T, T2), AnswersFollow(sv, cl, sv2, cl2, T2, S), DOMAIN S \subseteq Node,
         NEW n, NEW K, Seated(n, K, sv, T, cl, S), T2[n].peers.ips \subseteq K
  PROVE  Seated(n, K, sv2, T2, cl2, S)
<1>1. \A p \in K \ {n} : n < p /\ n \in T2[p].peers.ips
  BY DEF Seated, Grows
<1>2. ASSUME NEW m \in Node \ {n}, NEW p \in K \ {n}, NEW L \in SUBSET Node, Answer(sv2, cl2, m, p, L)
      PROVE  m \in K \/ n \in L
  <2>0. p \in Node
    BY DEF Seated
  <2>1. CASE T2[p].peers.ips \subseteq L
    BY <1>1, <2>1
  <2>2. CASE \E M \in SUBSET Node : Answer(sv, cl, m, p, M) /\ M \subseteq L \cup {m}
    <3>1. PICK M \in SUBSET Node : Answer(sv, cl, m, p, M) /\ M \subseteq L \cup {m}
      BY <2>2
    <3>2. m \in K \/ n \in M
      BY <3>1 DEF Seated
    <3> QED BY <3>1, <3>2
  <2> QED BY <1>2, <2>0, <2>1, <2>2 DEF AnswersFollow
<1> QED BY <1>1, <1>2 DEF Seated

----------------------------------------------------------------------------
(* Leaders.                                                                *)

\* What discovery.hh asks of the seeds.
SeedsOk(S) ==
  /\ Node \subseteq Nat \ {0} /\ DOMAIN S \subseteq Node /\ SeedsMeet(S)
  /\ \A n \in DOMAIN S : S[n] \subseteq Node

\* The peers of a leader have answered and hold their own seeds: it takes its seat.
LEMMA LeaderIsSeated ==
  ASSUME NEW sv, NEW T, NEW cl, NEW S, Know(sv, T, cl, S), SeedsOk(S), NEW n \in Node, sv[n].leader
  PROVE  Seated(n, sv[n].peers.ips \cup {n}, sv, T, cl, S)
<1>1. PICK A : A = sv[n].peers.ips
  OBVIOUS
<1>2. NodeOk(n, sv[n], T, S)
  BY DEF Know
<1>3. /\ A \in SUBSET Node /\ n \notin A /\ sv[n].responded = A /\ \A p \in A : n < p
      /\ S[n] \subseteq A \cup {n} /\ T[n].peers.ips \subseteq A \cup {n} /\ n \in DOMAIN S
  BY <1>1, <1>2 DEF NodeOk, Memory, Lists
<1>4. ASSUME NEW p \in A PROVE Answer(sv, cl, n, p, A) /\ AnswerOk(n, p, A, T, S)
  <2>1. Answer(sv, cl, n, p, A)
    BY <1>1, <1>3 DEF Answer
  <2> QED BY <1>3, <2>1 DEF Know
<1>5. /\ \A p \in A : p \in DOMAIN S /\ n \in T[p].peers.ips /\ S[p] \subseteq A \cup {n}
  BY <1>4 DEF AnswerOk
<1>6. Closed(A \cup {n}, S) /\ A \cup {n} \subseteq DOMAIN S
  BY <1>3, <1>5 DEF Closed
<1>7. ASSUME NEW m \in Node \ {n}, NEW p \in A, NEW L \in SUBSET Node, Answer(sv, cl, m, p, L)
      PROVE  m \in A \cup {n} \/ n \in L
  BY <1>3, <1>4, <1>7 DEF Know, Met
<1> QED BY <1>1, <1>3, <1>5, <1>6, <1>7 DEF Seated

\* There is no other leader besides one that has taken its seat.
LEMMA NoRival ==
  ASSUME NEW sv, NEW T, NEW cl, NEW S, Know(sv, T, cl, S), SeedsOk(S),
         NEW n \in Node, NEW K \in SUBSET Node, Seated(n, K, sv, T, cl, S), NEW m \in Node, sv[m].leader
  PROVE  m = n
<1> SUFFICES ASSUME m # n PROVE FALSE
  OBVIOUS
<1>1. PICK A : A = sv[m].peers.ips
  OBVIOUS
<1>2. Seated(m, A \cup {m}, sv, T, cl, S)
  BY <1>1, LeaderIsSeated
<1>3. NodeOk(m, sv[m], T, S)
  BY DEF Know
<1>4. /\ A \in SUBSET Node /\ m \notin A /\ sv[m].responded = A /\ \A p \in A : m < p
  BY <1>1, <1>3 DEF NodeOk, Memory, Lists
<1>5. PICK v \in DOMAIN S : \A B \in SUBSET DOMAIN S : B # {} /\ Closed(B, S) => v \in B
  BY DEF SeedsOk, SeedsMeet
<1>6. v \in K /\ v \in A \cup {m} /\ v \in Node /\ n \in K
  BY <1>2, <1>5 DEF Seated, SeedsOk
<1>7. m \in K \/ n \in A
  <2>1. CASE v = n \/ v = m
    BY <1>6, <2>1
  <2>2. CASE v # n /\ v # m
    <3>1. v \in A /\ Answer(sv, cl, m, v, A)
      BY <1>1, <1>4, <1>6, <2>2 DEF Answer
    <3> QED BY <1>4, <1>6, <2>2, <3>1 DEF Seated
  <2> QED BY <2>1, <2>2
<1>8. n \in Nat /\ m \in Nat
  BY DEF SeedsOk
<1>9. m \in T[n].peers.ips => m \in K
  BY DEF Seated
<1>10. n \in T[m].peers.ips => n \in A
  BY <1>2 DEF Seated
<1>11. n \in A => m \in T[n].peers.ips /\ m < n
  BY <1>2 DEF Seated
<1>12. m \in K => n \in T[m].peers.ips /\ n < m
  BY DEF Seated
<1> QED BY <1>7, <1>8, <1>9, <1>10, <1>11, <1>12

----------------------------------------------------------------------------
(* Steps of one server.                                                    *)

\* Server n becomes t.
Becomes(sv, n, t, sv2) == sv2 = [sv EXCEPT ![n] = t]

\* Server n becomes t, and table and calls change: what every step must see to.
NodeStep(sv, T, cl, S, n, t, sv2, T2, cl2) ==
  /\ Becomes(sv, n, t, sv2)
  /\ TableOk(T2, S) /\ Grows(T, T2) /\ \A m \in Node : m # n => T2[m] = T[m]
  /\ NodeOk(n, t, T2, S)
  /\ \A c \in cl2 : CallOk(c, sv2, T2)
  /\ AnswersFollow(sv, cl, sv2, cl2, T2, S)

\* A step that sees to them leaves what the servers know right.
LEMMA KnowStep ==
  ASSUME NEW sv, NEW T, NEW cl, NEW S, Know(sv, T, cl, S), NEW n \in Node, NEW t, NEW sv2, NEW T2, NEW cl2,
         NodeStep(sv, T, cl, S, n, t, sv2, T2, cl2)
  PROVE  Know(sv2, T2, cl2, S)
<1>1. sv \in [Node -> Memory] /\ t \in Memory
  BY DEF Know, NodeStep, NodeOk
<1>2. sv2 \in [Node -> Memory] /\ sv2[n] = t /\ \A m \in Node : m # n => sv2[m] = sv[m]
  BY <1>1 DEF NodeStep, Becomes
<1>3. ASSUME NEW m \in Node PROVE NodeOk(m, sv2[m], T2, S)
  <2>1. CASE m = n
    BY <1>2, <2>1 DEF NodeStep
  <2>2. CASE m # n
    <3>1. NodeOk(m, sv[m], T, S) /\ sv2[m] = sv[m] /\ T2[m] = T[m]
      BY <1>2, <2>2 DEF Know, NodeStep
    <3>2. \A r \in sv[m].requests : r.to \in Node
      BY <1>1 DEF Memory
    <3> QED BY <3>1, <3>2 DEF NodeOk, NodeStep, Grows
  <2> QED BY <2>1, <2>2
<1>4. cl2 \in SUBSET Calls
  BY DEF NodeStep, CallOk
<1>5. /\ \A m, p \in Node : \A L \in SUBSET Node : Answer(sv2, cl2, m, p, L) => AnswerOk(m, p, L, T2, S)
      /\ Met(sv2, cl2)
  BY AnswersStay DEF NodeStep
<1> QED BY <1>2, <1>3, <1>4, <1>5 DEF Know, NodeStep

\* The answers that n has, and those under way.
Kept(sv, cl, n, t) ==
  \A p \in t.responded :
    \/ p \in sv[n].responded /\ sv[n].peers.ips \subseteq t.peers.ips
    \/ \E c \in cl : /\ c.from = n /\ c.to = p /\ c.reply.kind = "peers"
                     /\ c.reply.list.ips \subseteq t.peers.ips \cup {n}
Sent(cl, cl2, T2, S) ==
  \A c \in cl2 : c.reply.kind = "peers" =>
    \/ c \in cl
    \/ AnswerOk(c.from, c.to, c.reply.list.ips, T2, S) /\ T2[c.to].peers.ips \subseteq c.reply.list.ips

\* The answers follow when n keeps its own and what is sent is all the sender has stored.
LEMMA FollowIs ==
  ASSUME NEW sv, NEW T, NEW cl, NEW S, Know(sv, T, cl, S), NEW n \in Node, NEW t, NEW sv2, NEW T2, NEW cl2,
         Becomes(sv, n, t, sv2), Kept(sv, cl, n, t), Sent(cl, cl2, T2, S)
  PROVE  AnswersFollow(sv, cl, sv2, cl2, T2, S)
<1> SUFFICES ASSUME NEW m \in Node, NEW p \in Node, NEW L \in SUBSET Node, Answer(sv2, cl2, m, p, L)
             PROVE  \/ \E M \in SUBSET Node : Answer(sv, cl, m, p, M) /\ M \subseteq L \cup {m}
                    \/ AnswerOk(m, p, L, T2, S) /\ T2[p].peers.ips \subseteq L
  BY DEF AnswersFollow
<1>1. sv \in [Node -> Memory] /\ cl \in SUBSET Calls
  BY DEF Know
<1>2. sv2[n] = t /\ \A k \in Node : k # n => sv2[k] = sv[k]
  BY <1>1 DEF Becomes
<1>3. \A k \in Node : sv[k].peers.ips \in SUBSET Node
  BY <1>1 DEF Memory, Lists
<1>4. CASE \E c \in cl2 : c.from = m /\ c.to = p /\ c.reply.kind = "peers" /\ L = c.reply.list.ips
  <2>1. PICK c \in cl2 : c.from = m /\ c.to = p /\ c.reply.kind = "peers" /\ L = c.reply.list.ips
    BY <1>4
  <2>2. CASE c \in cl
    <3>1. Answer(sv, cl, m, p, L)
      BY <2>1, <2>2 DEF Answer
    <3> QED BY <3>1
  <2>3. CASE c \notin cl
    BY <2>1, <2>3 DEF Sent
  <2> QED BY <2>2, <2>3
<1>5. CASE p \in sv2[m].responded /\ L = sv2[m].peers.ips
  <2>1. CASE m # n
    <3>1. Answer(sv, cl, m, p, L)
      BY <1>2, <1>5, <2>1 DEF Answer
    <3> QED BY <3>1
  <2>2. CASE m = n /\ p \in sv[n].responded /\ sv[n].peers.ips \subseteq t.peers.ips
    <3>1. Answer(sv, cl, n, p, sv[n].peers.ips) /\ sv[n].peers.ips \subseteq L
      BY <1>2, <1>5, <2>2 DEF Answer
    <3> QED BY <1>3, <2>2, <3>1
  <2>3. CASE m = n /\ \E c \in cl : /\ c.from = n /\ c.to = p /\ c.reply.kind = "peers"
                                    /\ c.reply.list.ips \subseteq t.peers.ips \cup {n}
    <3>1. PICK c \in cl : /\ c.from = n /\ c.to = p /\ c.reply.kind = "peers"
                          /\ c.reply.list.ips \subseteq t.peers.ips \cup {n}
      BY <2>3
    <3>2. c.reply.list.ips \in SUBSET Node
      <4>1. c.reply \in Replies
        BY <1>1 DEF Calls
      <4> QED BY <3>1, <4>1 DEF Replies, Lists, Nothing
    <3>3. Answer(sv, cl, n, p, c.reply.list.ips)
      BY <3>1 DEF Answer
    <3> QED BY <1>2, <1>5, <2>3, <3>1, <3>2, <3>3
  <2> QED BY <1>2, <1>5, <2>1, <2>2, <2>3 DEF Kept
<1> QED BY <1>4, <1>5 DEF Answer

\* Fields of a server that its knowledge does not depend on.
LEMMA SameKnowledge ==
  ASSUME NEW sv, NEW T, NEW cl, NEW S, Know(sv, T, cl, S), NEW n \in Node, NEW t \in Memory,
         t.peers = sv[n].peers, t.responded = sv[n].responded, t.requests = sv[n].requests,
         t.leader = sv[n].leader, sv[n].phase # "off", t.phase # "off", t.phase # "discovering"
  PROVE  NodeOk(n, t, T, S) /\ Kept(sv, cl, n, t)
<1>1. NodeOk(n, sv[n], T, S)
  BY DEF Know
<1> QED BY <1>1 DEF NodeOk, Kept

\* The calls stay right: those of n are waited for only while it goes on with discovery.
LEMMA CallsStay ==
  ASSUME NEW sv, NEW T, NEW cl, NEW S, Know(sv, T, cl, S), NEW n \in Node, NEW t \in Memory, NEW sv2, NEW T2,
         Becomes(sv, n, t, sv2), Grows(T, T2), NEW c \in cl,
         c.from = n /\ c.awaited => t.phase = "discovering" /\ sv[n].peers.ips \subseteq t.peers.ips
  PROVE  CallOk(c, sv2, T2)
<1>1. sv \in [Node -> Memory] /\ CallOk(c, sv, T)
  BY DEF Know
<1>2. sv2[n] = t /\ \A k \in Node : k # n => sv2[k] = sv[k]
  BY <1>1 DEF Becomes
<1>3. c.from \in Node /\ c.to \in Node
  BY <1>1 DEF CallOk, Calls
<1> QED BY <1>1, <1>2, <1>3 DEF CallOk, Grows

\* Nothing is lost from a table that does not change.
LEMMA SameTable ==
  ASSUME NEW sv, NEW T, NEW cl, NEW S, Know(sv, T, cl, S)
  PROVE  TableOk(T, S) /\ Grows(T, T)
BY DEF Know, Grows

\* A table in which n has stored one more list.
Stored(T, n, list) == [T EXCEPT ![n].peers = Join(@, list)]

\* Store(), of a list that holds the seeds.
LEMMA TableGrows ==
  ASSUME NEW T, NEW S, TableOk(T, S), NEW n \in Node, NEW list \in Lists, NEW T2,
         n \in DOMAIN S => S[n] \subseteq list.ips \cup {n},
         T2 = Stored(T, n, list)
  PROVE  /\ TableOk(T2, S) /\ Grows(T, T2) /\ \A m \in Node : m # n => T2[m] = T[m]
         /\ T2[n].peers.ips = T[n].peers.ips \cup list.ips /\ T2[n].group = T[n].group
<1>1. T \in Tables
  BY DEF TableOk
<1>2. PICK l : l = Join(T[n].peers, list)
  OBVIOUS
<1>3. l \in Lists /\ l.ips = T[n].peers.ips \cup list.ips
  BY <1>1, <1>2 DEF Join, List, Lists, Tables
<1>4. T2 = [T EXCEPT ![n].peers = l]
  BY <1>2 DEF Stored
<1>5. /\ T2 \in Tables /\ T2[n].peers = l /\ T2[n].group = T[n].group
      /\ \A m \in Node : m # n => T2[m] = T[m]
  BY <1>1, <1>3, <1>4 DEF Tables
<1>6. Grows(T, T2)
  BY <1>3, <1>5 DEF Grows
<1>7. ASSUME NEW m \in DOMAIN S, T2[m].peers.ips # {}
      PROVE  S[m] \subseteq T2[m].peers.ips \cup {m}
  <2>1. CASE m = n
    BY <1>3, <1>5, <2>1
  <2>2. CASE m # n
    BY <1>1, <1>4, <1>7, <2>2 DEF TableOk, Tables
  <2> QED BY <2>1, <2>2
<1> QED BY <1>3, <1>5, <1>6, <1>7 DEF TableOk

\* persistent_discovery::make() starts from all that is known.
LEMMA DiscoveringOk ==
  ASSUME NEW S, TableOk(table, S), S = Seeds, SeedsOk(S), NEW n \in Node, n \in DOMAIN S,
         NEW st \in Nat, NEW t, t = Discovering(n, st)
  PROVE  /\ NodeOk(n, t, table, S) /\ t.responded = {} /\ t.phase = "discovering"
         /\ t.started = st /\ ~t.announced
<1>1. n \in Node /\ table \in Tables /\ S[n] \in SUBSET Node
  BY DEF SeedsOk, TableOk
<1>2. PICK list : list = IF table[n].peers.ips = {} THEN List(S[n], {}) ELSE table[n].peers
  OBVIOUS
<1>3. list \in Lists
  BY <1>1, <1>2 DEF List, Lists, Tables
<1>4. S[n] \subseteq list.ips \cup {n} /\ table[n].peers.ips \subseteq list.ips
  <2>1. CASE table[n].peers.ips = {}
    BY <1>2, <2>1 DEF List
  <2>2. CASE table[n].peers.ips # {}
    BY <1>2, <2>2 DEF TableOk
  <2> QED BY <2>1, <2>2
<1>5. PICK u : u = [Off EXCEPT !.phase = "discovering", !.started = st]
  OBVIOUS
<1>6. /\ u \in Memory /\ u.leader = FALSE /\ u.phase = "discovering" /\ u.started = st /\ u.announced = FALSE
      /\ u.responded = {} /\ u.requests = {} /\ u.peers.ips = {}
  BY <1>5 DEF Off, Memory, Phases, NoPeers, List, Lists, NoGroup
<1>7. t = Learn(n, u, list)
  BY <1>2, <1>5 DEF Discovering
<1>8. /\ t \in Memory /\ t.peers.ips = list.ips \ {n} /\ t.responded = {}
      /\ t.phase = "discovering" /\ t.started = st /\ t.announced = FALSE
      /\ t.leader => t.responded = t.peers.ips /\ \A p \in t.peers.ips : n < p
      /\ \A r \in t.requests : r.to \in t.peers.ips /\ n \in r.list.ips
  BY <1>1, <1>3, <1>6, <1>7, LearnIs
<1> QED BY <1>4, <1>8 DEF NodeOk

----------------------------------------------------------------------------
(* What each step makes of what the servers know.                          *)

\* This step, as one of server n.
Step(n) == NodeStep(server, table, exchanges, Seeds, n, server'[n], server', table', exchanges')

\* A step that leaves the table alone.
LEMMA PlainStep ==
  ASSUME NEW S, S = Seeds, Know(server, table, exchanges, S), NEW n \in Node, NEW t,
         Becomes(server, n, t, server'), UNCHANGED table,
         NodeOk(n, t, table, S), Kept(server, exchanges, n, t), Sent(exchanges, exchanges', table, S),
         \A c \in exchanges' : CallOk(c, server', table)
  PROVE  Step(n)
<1>1. server \in [Node -> Memory] /\ server'[n] = t
  BY DEF Know, Becomes
<1>2. TableOk(table, S) /\ Grows(table, table)
  BY SameTable
<1>3. AnswersFollow(server, exchanges, server', exchanges', table, S)
  BY FollowIs
<1> QED BY <1>1, <1>2, <1>3 DEF Step, NodeStep

\* Start()
LEMMA StartStep ==
  ASSUME NEW S, S = Seeds, Know(server, table, exchanges, S), SeedsOk(S), NEW n \in Node, Start(n)
  PROVE  /\ Step(n)
         /\ server'[n].started = table[n].group
         /\ \/ table[n].group = NoGroup /\ server'[n].phase = "discovering" /\ ~server'[n].announced
            \/ /\ table[n].group # NoGroup
               /\ server'[n].phase = "member" /\ server'[n].group = table[n].group
<1>1. PICK t : t = server'[n]
  OBVIOUS
<1>2. server \in [Node -> Memory] /\ table \in Tables /\ TableOk(table, S)
  BY DEF Know, TableOk
<1>3. Becomes(server, n, t, server') /\ UNCHANGED <<table, exchanges>> /\ n \in DOMAIN S
      /\ server[n].phase = "off"
  BY <1>1, <1>2 DEF Becomes, Start, Members
<1>4. /\ NodeOk(n, t, table, S) /\ t.responded = {} /\ t.started = table[n].group
      /\ \/ table[n].group = NoGroup /\ t.phase = "discovering" /\ ~t.announced
         \/ table[n].group # NoGroup /\ t.phase = "member" /\ t.group = table[n].group
  <2>1. CASE table[n].group # NoGroup
    <3>1. t = [Off EXCEPT !.phase = "member", !.group = table[n].group, !.started = table[n].group,
                    !.announced = TRUE]
      BY <1>1, <1>2, <2>1 DEF Start
    <3>2. table[n].group \in Nat
      BY <1>2 DEF Tables
    <3>3. /\ t \in Memory /\ t.phase = "member" /\ t.group = table[n].group /\ t.started = table[n].group
          /\ t.responded = {} /\ t.requests = {} /\ t.peers.ips = {} /\ t.leader = FALSE
      BY <3>1, <3>2 DEF Off, Memory, Phases, NoPeers, List, Lists
    <3> QED BY <1>3, <2>1, <3>3 DEF NodeOk
  <2>2. CASE table[n].group = NoGroup
    <3>1. t = Discovering(n, NoGroup) /\ NoGroup \in Nat
      BY <1>1, <1>2, <2>2 DEF Start, NoGroup
    <3>2. NodeOk(n, t, table, S) /\ t.responded = {} /\ t.phase = "discovering"
          /\ t.started = NoGroup /\ ~t.announced
      BY <1>2, <1>3, <3>1, DiscoveringOk
    <3> QED BY <2>2, <3>2
  <2> QED BY <2>1, <2>2
<1>5. Kept(server, exchanges, n, t) /\ Sent(exchanges, exchanges', table, S)
  BY <1>3, <1>4 DEF Kept, Sent
<1>6. ASSUME NEW c \in exchanges PROVE CallOk(c, server', table)
  <2>1. CallOk(c, server, table) /\ Grows(table, table)
    BY SameTable DEF Know
  <2>2. c.from = n => ~c.awaited
    BY <1>3, <2>1 DEF CallOk
  <2>3. t \in Memory
    BY <1>4 DEF NodeOk
  <2> QED BY <1>3, <2>1, <2>2, <2>3, CallsStay
<1>7. Step(n)
  BY <1>3, <1>4, <1>5, <1>6, PlainStep
<1> QED BY <1>1, <1>4, <1>7

\* A step of a server in discovery that stores the peers it then knows.
LEMMA StoringStep ==
  ASSUME NEW S, S = Seeds, Know(server, table, exchanges, S), NEW n \in Node, server[n].phase = "discovering",
         NEW t \in Memory, NEW list \in Lists,
         Becomes(server, n, t, server'), table' = Stored(table, n, list),
         list.ips = t.peers.ips \cup {n}, server[n].peers.ips \subseteq t.peers.ips,
         n \notin t.peers.ips, t.responded = server[n].responded, t.phase # "off",
         t.leader => t.responded = t.peers.ips /\ \A p \in t.peers.ips : n < p,
         \A r \in t.requests : r.to \in t.peers.ips /\ (n \in r.list.ips \/ n \in table[r.to].peers.ips)
  PROVE  /\ TableOk(table', S) /\ Grows(table, table') /\ \A m \in Node : m # n => table'[m] = table[m]
         /\ table'[n].peers.ips = list.ips /\ table'[n].group = table[n].group
         /\ NodeOk(n, t, table', S) /\ Kept(server, exchanges, n, t)
         /\ n \in DOMAIN S /\ S[n] \subseteq list.ips
<1>1. NodeOk(n, server[n], table, S) /\ TableOk(table, S)
  BY DEF Know
<1>2. n \in DOMAIN S /\ S[n] \subseteq list.ips /\ table[n].peers.ips \subseteq list.ips
  BY <1>1 DEF NodeOk
<1>3. /\ TableOk(table', S) /\ Grows(table, table') /\ \A m \in Node : m # n => table'[m] = table[m]
      /\ table'[n].peers.ips = table[n].peers.ips \cup list.ips /\ table'[n].group = table[n].group
  <2>1. n \in DOMAIN S => S[n] \subseteq list.ips \cup {n}
    BY <1>2
  <2> QED BY <1>1, <2>1, TableGrows
<1>4. table'[n].peers.ips = list.ips
  BY <1>2, <1>3
<1>5. \A r \in t.requests : r.to \in t.peers.ips /\ (n \in r.list.ips \/ n \in table'[r.to].peers.ips)
  BY <1>3 DEF Memory, Grows
<1>6. NodeOk(n, t, table', S)
  BY <1>1, <1>2, <1>4, <1>5 DEF NodeOk
<1>7. Kept(server, exchanges, n, t)
  BY DEF Kept
<1> QED BY <1>2, <1>3, <1>4, <1>6, <1>7

\* Again() asks those that know this server, or tells them.
LEMMA AgainIs ==
  ASSUME NEW S, Know(server, table, exchanges, S), NEW n \in Node
  PROVE  \A r \in Again(n, server[n]) :
           /\ r \in [to : Node, list : Lists] /\ r.to \in server[n].peers.ips
           /\ n \in r.list.ips \/ n \in table[r.to].peers.ips
<1>1. PICK s : s = server[n]
  OBVIOUS
<1>2. s \in Memory /\ s.peers.ips \in SUBSET Node
  BY <1>1 DEF Know, Memory, Lists
<1>3. CASE s.responded = s.peers.ips
  <2>1. ASSUME NEW p \in s.peers.ips PROVE n \in table[p].peers.ips
    <3>1. Answer(server, exchanges, n, p, s.peers.ips)
      BY <1>1, <1>3 DEF Answer
    <3> QED BY <1>2, <3>1 DEF Know, AnswerOk
  <2>2. NoPeers \in Lists
    BY DEF NoPeers, List, Lists
  <2> QED BY <1>1, <1>2, <1>3, <2>1, <2>2 DEF Again
<1>4. CASE s.responded # s.peers.ips
  <2>1. PeerList(n, s) \in Lists /\ n \in PeerList(n, s).ips
    BY <1>2, PeerListIs
  <2> QED BY <1>1, <1>2, <1>4, <2>1 DEF Again
<1> QED BY <1>3, <1>4

\* Tick()
LEMMA TickStep ==
  ASSUME NEW S, S = Seeds, Know(server, table, exchanges, S), SeedsOk(S), NEW n \in Node, Tick(n),
         config \in Seq(SUBSET Node)
  PROVE  /\ Step(n) /\ server[n].phase = "discovering" /\ table'[n].group = table[n].group
         /\ server'[n].started = server[n].started /\ server'[n].announced = server[n].announced
         /\ \A c \in exchanges' : c.reply.kind = "group" => c \in exchanges
         /\ \/ server'[n].phase = "discovering" /\ server'[n].group = server[n].group /\ UNCHANGED config
            \/ /\ server[n].leader /\ server'[n].leader /\ server'[n].phase = "found"
               /\ server'[n].via = n /\ config' = Append(config, {n}) /\ server'[n].group = Len(config) + 1
<1>1. PICK s : s = server[n]
  OBVIOUS
<1>2. PICK t : t = server'[n]
  OBVIOUS
<1>3. server \in [Node -> Memory] /\ s \in Memory /\ NodeOk(n, s, table, S)
  BY <1>1 DEF Know
<1>4. PICK list : list = PeerList(n, s)
  OBVIOUS
<1>5. list \in Lists /\ list.ips = s.peers.ips \cup {n}
  BY <1>3, <1>4, PeerListIs
<1>6. /\ s.phase = "discovering" /\ \A c \in exchanges : c.from = n => ~c.awaited
      /\ table' = Stored(table, n, list)
  BY <1>1, <1>4 DEF Tick, Store, Stored
<1>11. \A c \in exchanges : c.from = n => ~c.awaited
  BY <1>6
<1>7. /\ n \notin s.peers.ips
      /\ s.leader => s.responded = s.peers.ips /\ \A p \in s.peers.ips : n < p
      /\ \A r \in s.requests : r.to \in s.peers.ips /\ (n \in r.list.ips \/ n \in table[r.to].peers.ips)
  BY <1>3 DEF NodeOk
<1>8. CASE s.leader
  <2>0. config' = Append(config, {n}) /\ Len(config') = Len(config) + 1 /\ Len(config') \in Nat
    BY <1>1, <1>8 DEF Tick
  <2>1. /\ server' = [server EXCEPT ![n].phase = "found", ![n].group = Len(config'), ![n].via = n]
        /\ UNCHANGED exchanges
    BY <1>1, <1>8 DEF Tick
  <2>2. t = [s EXCEPT !.phase = "found", !.group = Len(config'), !.via = n]
    BY <1>1, <1>2, <1>3, <2>1
  <2>10. Becomes(server, n, t, server')
    BY <1>1, <1>2, <1>3, <2>1 DEF Becomes
  <2>11. UNCHANGED exchanges
    BY <2>1
  <2>3. n \in Nat
    BY DEF SeedsOk
  <2>4. /\ t \in Memory /\ t.peers = s.peers /\ t.responded = s.responded /\ t.requests = s.requests
        /\ t.leader = s.leader /\ t.phase = "found" /\ t.via = n /\ t.group = Len(config')
        /\ t.started = s.started /\ t.announced = s.announced
    BY <1>3, <2>0, <2>2, <2>3 DEF Memory, Phases
  <2>5. /\ TableOk(table', S) /\ Grows(table, table') /\ \A m \in Node : m # n => table'[m] = table[m]
        /\ table'[n].peers.ips = list.ips /\ table'[n].group = table[n].group
        /\ NodeOk(n, t, table', S) /\ Kept(server, exchanges, n, t)
    BY <1>1, <1>5, <1>6, <1>7, <2>10, <2>4, StoringStep
  <2>6. ASSUME NEW c \in exchanges PROVE CallOk(c, server', table')
    BY <1>11, <2>10, <2>4, <2>5, CallsStay
  <2>7. Sent(exchanges, exchanges', table', S)
    BY <2>1 DEF Sent
  <2>8. AnswersFollow(server, exchanges, server', exchanges', table', S)
    BY <2>10, <2>5, <2>7, FollowIs
  <2>9. Step(n)
    BY <1>2, <2>11, <2>10, <2>5, <2>6, <2>8 DEF Step, NodeStep
  <2> QED BY <1>1, <1>2, <1>6, <1>8, <2>0, <2>1, <2>4, <2>5, <2>9
<1>9. CASE ~s.leader
  <2>1. PICK new : new = IF s.requests # {} THEN {} ELSE Again(n, s)
    OBVIOUS
  <2>2. PICK asked : asked = IF s.requests # {}
                             THEN {[from |-> n, to |-> r.to, list |-> r.list, reply |-> Nothing,
                                    awaited |-> TRUE] : r \in s.requests}
                             ELSE {}
    OBVIOUS
  <2>3. UNCHANGED config /\ exchanges' = exchanges \cup asked /\ server' = [server EXCEPT ![n].requests = new]
    <3>1. CASE s.requests # {}
      BY <1>1, <1>9, <2>1, <2>2, <3>1 DEF Tick
    <3>2. CASE s.requests = {}
      BY <1>1, <1>9, <2>1, <2>2, <3>2 DEF Tick
    <3> QED BY <3>1, <3>2
  <2>4. Becomes(server, n, t, server')
    BY <1>1, <1>2, <1>3, <2>3 DEF Becomes
  <2>14. t = [s EXCEPT !.requests = new]
    BY <1>1, <1>2, <1>3, <2>3
  <2>15. exchanges' = exchanges \cup asked
    BY <2>3
  <2>5. \A r \in new : /\ r \in [to : Node, list : Lists] /\ r.to \in s.peers.ips
                       /\ n \in r.list.ips \/ n \in table[r.to].peers.ips
    BY <1>1, <2>1, AgainIs
  <2>6. /\ t \in Memory /\ t.peers = s.peers /\ t.responded = s.responded /\ t.requests = new
        /\ t.leader = s.leader /\ t.phase = "discovering" /\ t.group = s.group
        /\ t.started = s.started /\ t.announced = s.announced
    BY <1>3, <1>6, <2>14, <2>5 DEF Memory
  <2>7. /\ TableOk(table', S) /\ Grows(table, table') /\ \A m \in Node : m # n => table'[m] = table[m]
        /\ table'[n].peers.ips = list.ips /\ table'[n].group = table[n].group
        /\ NodeOk(n, t, table', S) /\ Kept(server, exchanges, n, t)
    BY <1>1, <1>5, <1>6, <1>7, <1>9, <2>4, <2>5, <2>6, StoringStep
  <2>8. ASSUME NEW c \in asked PROVE CallOk(c, server', table') /\ c.reply = Nothing
    <3>1. PICK r \in s.requests : c = [from |-> n, to |-> r.to, list |-> r.list, reply |-> Nothing,
                                       awaited |-> TRUE]
      BY <2>2, <2>8
    <3>2. r.to \in Node /\ r.list \in Lists /\ r.to \in s.peers.ips /\ r.to # n
      BY <1>3, <1>7 DEF Memory
    <3>3. n \in r.list.ips \/ n \in table'[r.to].peers.ips
      BY <1>7, <2>7, <3>2 DEF Grows
    <3>4. server'[n].phase = "discovering" /\ server'[n].peers = s.peers
      BY <1>2, <2>6
    <3>5. c \in Calls
      BY <3>1, <3>2 DEF Calls, Replies
    <3> QED BY <3>1, <3>2, <3>3, <3>4, <3>5 DEF CallOk
  <2>9. ASSUME NEW c \in exchanges PROVE CallOk(c, server', table')
    BY <1>11, <2>4, <2>6, <2>7, CallsStay
  <2>10. \A c \in exchanges' : c \in exchanges \/ c.reply.kind = "nothing"
    BY <2>3, <2>8 DEF Nothing
  <2>11. Sent(exchanges, exchanges', table', S)
    BY <2>10 DEF Sent
  <2>12. AnswersFollow(server, exchanges, server', exchanges', table', S)
    BY <2>4, <2>7, <2>11, FollowIs
  <2>13. Step(n)
    BY <1>2, <2>15, <2>4, <2>7, <2>8, <2>9, <2>12 DEF Step, NodeStep
  <2> QED BY <1>1, <1>2, <1>6, <2>3, <2>6, <2>7, <2>10, <2>13
<1> QED BY <1>8, <1>9

\* What a call becomes: it ends, or is answered.
Answered(c, r) == IF c.awaited /\ r # Nothing THEN {[c EXCEPT !.reply = r]} ELSE {}

\* An answered call is the same one.
LEMMA AnsweredIs ==
  ASSUME NEW c \in Calls, NEW r \in Replies, NEW d \in Answered(c, r)
  PROVE  /\ d \in Calls /\ d.from = c.from /\ d.to = c.to /\ d.list = c.list
         /\ d.awaited = c.awaited /\ c.awaited /\ d.reply = r
<1>1. c.awaited /\ d = [c EXCEPT !.reply = r]
  BY DEF Answered
<1> QED BY <1>1 DEF Calls

\* PeerExchange() during discovery.
LEMMA ExchangeStep ==
  ASSUME NEW S, S = Seeds, Know(server, table, exchanges, S), NEW c \in exchanges, PeerExchange(c),
         server[c.to].phase = "discovering"
  PROVE  /\ Step(c.to) /\ table'[c.to].group = table[c.to].group
         /\ server'[c.to].phase = "discovering" /\ server'[c.to].started = server[c.to].started
         /\ server'[c.to].announced = server[c.to].announced /\ server'[c.to].group = server[c.to].group
         /\ \A d \in exchanges' : d.reply.kind = "group" => d \in exchanges
<1>1. PICK n : n = c.to
  OBVIOUS
<1>2. PICK s : s = server[n]
  OBVIOUS
<1>3. PICK t : t = Learn(n, s, c.list)
  OBVIOUS
<1>4. PICK list : list = PeerList(n, t)
  OBVIOUS
<1>5. PICK r : r = IF t.leader THEN Nothing ELSE [kind |-> "peers", list |-> list]
  OBVIOUS
<1>6. server \in [Node -> Memory] /\ CallOk(c, server, table) /\ c \in Calls
  BY DEF Know
<1>7. n \in Node /\ c.list \in Lists
  BY <1>1, <1>6 DEF Calls
<1>8. s \in Memory /\ s.phase = "discovering" /\ NodeOk(n, s, table, S)
  BY <1>1, <1>2, <1>6, <1>7 DEF Know
<1>9. server' = [server EXCEPT ![n] = t] /\ table' = [table EXCEPT ![n].peers = Join(@, list)]
  BY <1>1, <1>2, <1>3, <1>4 DEF PeerExchange, Store
<1>10. exchanges' = (exchanges \ {c}) \cup Answered(c, r)
  BY <1>1, <1>2, <1>3, <1>4, <1>5 DEF PeerExchange, Answered
<1>11. Becomes(server, n, t, server') /\ table' = Stored(table, n, list)
  BY <1>9 DEF Becomes, Stored
<1>12. server'[n] = t
  BY <1>6, <1>7, <1>9
<1>13. /\ s.leader => t = s
       /\ ~s.leader =>
            /\ t \in Memory /\ t.peers.ips = s.peers.ips \cup (c.list.ips \ {n})
            /\ t.responded = s.responded
            /\ t.phase = s.phase /\ t.group = s.group
            /\ t.started = s.started /\ t.announced = s.announced
            /\ t.leader => t.responded = t.peers.ips /\ \A p \in t.peers.ips : n < p
            /\ \A q \in t.requests : q \in s.requests \/ (q.to \in t.peers.ips /\ n \in q.list.ips)
  BY <1>3, <1>7, <1>8, LearnIs
<1>14. /\ t \in Memory /\ t.responded = s.responded /\ t.phase = "discovering" /\ t.group = s.group
       /\ t.started = s.started /\ t.announced = s.announced
       /\ s.peers.ips \subseteq t.peers.ips /\ n \notin t.peers.ips
       /\ t.leader => t.responded = t.peers.ips /\ \A p \in t.peers.ips : n < p
       /\ \A q \in t.requests : q.to \in t.peers.ips /\ (n \in q.list.ips \/ n \in table[q.to].peers.ips)
       /\ t.leader \/ c.list.ips \ {n} \subseteq t.peers.ips
  <2>1. CASE s.leader
    BY <1>8, <1>13, <2>1 DEF NodeOk
  <2>2. CASE ~s.leader
    BY <1>8, <1>13, <2>2 DEF NodeOk
  <2> QED BY <2>1, <2>2
<1>15. list \in Lists /\ list.ips = t.peers.ips \cup {n}
  BY <1>4, <1>7, <1>14, PeerListIs
<1>16. /\ TableOk(table', S) /\ Grows(table, table') /\ \A m \in Node : m # n => table'[m] = table[m]
       /\ table'[n].peers.ips = list.ips /\ table'[n].group = table[n].group
       /\ NodeOk(n, t, table', S) /\ Kept(server, exchanges, n, t)
       /\ n \in DOMAIN S /\ S[n] \subseteq list.ips
  BY <1>2, <1>7, <1>8, <1>11, <1>14, <1>15, StoringStep
<1>17. ASSUME NEW d \in exchanges PROVE CallOk(d, server', table')
  BY <1>2, <1>7, <1>11, <1>14, <1>16, CallsStay
<1>18. r \in Replies /\ r.kind # "group"
  <2>1. CASE t.leader
    BY <1>5, <2>1 DEF Replies, Nothing
  <2>2. CASE ~t.leader
    BY <1>5, <1>15, <2>2 DEF Replies
  <2> QED BY <2>1, <2>2
<1>19. ASSUME NEW d \in Answered(c, r)
       PROVE  /\ CallOk(d, server', table') /\ d.reply = r
              /\ AnswerOk(d.from, d.to, list.ips, table', S) \/ r.kind # "peers"
  <2>1. /\ d \in Calls /\ d.from = c.from /\ d.to = c.to /\ d.list = c.list
        /\ d.awaited = c.awaited /\ c.awaited /\ d.reply = r
    BY <1>6, <1>18, AnsweredIs
  <2>2. CallOk(c, server', table')
    BY <1>17
  <2>3. CallOk(d, server', table')
    BY <2>1, <2>2 DEF CallOk
  <2>4. CASE ~t.leader
    <3>1. c.from # n /\ (c.from \in c.list.ips \/ c.from \in table'[n].peers.ips)
      BY <1>1, <2>2 DEF CallOk
    <3>2. c.from \in table'[n].peers.ips
      BY <1>14, <1>15, <1>16, <2>4, <3>1
    <3>3. AnswerOk(d.from, d.to, list.ips, table', S)
      BY <1>1, <1>15, <1>16, <2>1, <3>1, <3>2 DEF AnswerOk
    <3> QED BY <2>1, <2>3, <3>3
  <2>5. CASE t.leader
    BY <1>5, <2>1, <2>3, <2>5 DEF Nothing
  <2> QED BY <2>4, <2>5
<1>20. ASSUME NEW d \in exchanges', d.reply.kind = "peers"
       PROVE  \/ d \in exchanges
              \/ /\ AnswerOk(d.from, d.to, d.reply.list.ips, table', S)
                 /\ table'[d.to].peers.ips \subseteq d.reply.list.ips
  <2>1. CASE d \in Answered(c, r)
    <3>1. d.reply = r /\ AnswerOk(d.from, d.to, list.ips, table', S) /\ d.to = n
      BY <1>1, <1>6, <1>18, <1>19, <1>20, <2>1, AnsweredIs
    <3>2. r.list = list
      <4>1. CASE t.leader
        BY <1>5, <1>20, <3>1, <4>1 DEF Nothing
      <4>2. CASE ~t.leader
        BY <1>5, <4>2
      <4> QED BY <4>1, <4>2
    <3> QED BY <1>16, <3>1, <3>2
  <2> QED BY <1>10, <2>1
<1>21. Sent(exchanges, exchanges', table', S)
  BY <1>20 DEF Sent
<1>22. AnswersFollow(server, exchanges, server', exchanges', table', S)
  BY <1>7, <1>11, <1>16, <1>21, FollowIs
<1>23. \A d \in exchanges' : CallOk(d, server', table')
  BY <1>10, <1>17, <1>19
<1>24. Step(n)
  BY <1>11, <1>12, <1>16, <1>22, <1>23 DEF Step, NodeStep
<1>25. \A d \in exchanges' : d.reply.kind = "group" => d \in exchanges
  BY <1>10, <1>18, <1>19
<1> QED BY <1>1, <1>2, <1>12, <1>14, <1>16, <1>24, <1>25

\* PeerExchange() before and after discovery.
LEMMA TellStep ==
  ASSUME NEW S, S = Seeds, Know(server, table, exchanges, S), NEW c \in exchanges, PeerExchange(c),
         server[c.to].phase # "discovering"
  PROVE  /\ Step(c.to) /\ UNCHANGED <<server, table>>
         /\ \A d \in exchanges' : d.reply.kind = "group" =>
              d \in exchanges \/ (server[c.to].announced /\ d.reply.group = server[c.to].group)
<1>1. PICK n : n = c.to
  OBVIOUS
<1>2. PICK s : s = server[n]
  OBVIOUS
<1>3. PICK r : r = IF s.announced THEN [kind |-> "group", group |-> s.group] ELSE Nothing
  OBVIOUS
<1>4. server \in [Node -> Memory] /\ CallOk(c, server, table) /\ c \in Calls
  BY DEF Know
<1>5. n \in Node
  BY <1>1, <1>4 DEF Calls
<1>6. s \in Memory /\ NodeOk(n, s, table, S)
  BY <1>2, <1>4, <1>5 DEF Know
<1>7. UNCHANGED <<server, table>>
  BY DEF PeerExchange
<1>8. exchanges' = (exchanges \ {c}) \cup Answered(c, r)
  BY <1>1, <1>2, <1>3 DEF PeerExchange, Answered
<1>9. r \in Replies /\ r.kind # "peers" /\ (r.kind = "group" => s.announced /\ r.group = s.group)
  <2>1. CASE s.announced
    BY <1>3, <1>6, <2>1 DEF Replies, Memory
  <2>2. CASE ~s.announced
    BY <1>3, <2>2 DEF Replies, Nothing
  <2> QED BY <2>1, <2>2
<1>10. ASSUME NEW d \in Answered(c, r) PROVE CallOk(d, server', table) /\ d.reply = r
  <2>1. /\ d \in Calls /\ d.from = c.from /\ d.to = c.to /\ d.list = c.list
        /\ d.awaited = c.awaited /\ c.awaited /\ d.reply = r
    BY <1>4, <1>9, AnsweredIs
  <2> QED BY <1>4, <1>7, <2>1 DEF CallOk
<1>11. \A d \in exchanges' : CallOk(d, server', table)
  BY <1>7, <1>8, <1>10 DEF Know
<1>12. Sent(exchanges, exchanges', table, S)
  BY <1>8, <1>9, <1>10 DEF Sent
<1>13. Kept(server, exchanges, n, s)
  BY <1>2 DEF Kept
<1>14. Becomes(server, n, s, server')
  BY <1>2, <1>4, <1>5, <1>7 DEF Becomes
<1>15. Step(n)
  BY <1>5, <1>6, <1>7, <1>11, <1>12, <1>13, <1>14, PlainStep
<1> QED BY <1>1, <1>2, <1>7, <1>8, <1>9, <1>10, <1>15

\* GiveUp(): the calls of others, and what this server has sent.
LEMMA GiveUpIs ==
  ASSUME NEW S, Know(server, table, exchanges, S), NEW n \in Node, NEW d \in GiveUp(n)
  PROVE  \/ d \in exchanges /\ d.from # n
         \/ /\ d \in Calls /\ d.from = n /\ d.from # d.to /\ ~d.awaited /\ d.reply = Nothing
            /\ d.from \in d.list.ips \/ d.from \in table[d.to].peers.ips
<1>1. CASE d \in exchanges /\ d.from # n
  BY <1>1
<1>2. CASE \E e \in exchanges : e.from = n /\ e.reply = Nothing /\ d = [e EXCEPT !.awaited = FALSE]
  <2>1. PICK e \in exchanges : e.from = n /\ e.reply = Nothing /\ d = [e EXCEPT !.awaited = FALSE]
    BY <1>2
  <2>2. CallOk(e, server, table) /\ e \in Calls
    BY DEF Know
  <2>3. /\ d \in Calls /\ d.from = e.from /\ d.to = e.to /\ d.list = e.list /\ d.reply = e.reply
        /\ ~d.awaited
    BY <2>1, <2>2 DEF Calls
  <2> QED BY <2>1, <2>2, <2>3 DEF CallOk
<1> QED BY <1>1, <1>2 DEF GiveUp

\* The calls after it.
LEMMA GiveUpStays ==
  ASSUME NEW S, Know(server, table, exchanges, S), NEW n \in Node, NEW t \in Memory,
         Becomes(server, n, t, server'), NEW d \in GiveUp(n)
  PROVE  /\ CallOk(d, server', table)
         /\ d \in exchanges \/ d.reply = Nothing
<1>1. CASE d \in exchanges /\ d.from # n
  <2>1. Grows(table, table)
    BY SameTable
  <2> QED BY <1>1, <2>1, CallsStay
<1>2. CASE /\ d \in Calls /\ d.from = n /\ d.from # d.to /\ ~d.awaited /\ d.reply = Nothing
           /\ d.from \in d.list.ips \/ d.from \in table[d.to].peers.ips
  BY <1>2 DEF CallOk
<1> QED BY <1>1, <1>2, GiveUpIs

\* A step of a server that learns or tells nothing: its phase changes, and its calls end if
\* it was in discovery.
LEMMA PhaseStep ==
  ASSUME NEW S, S = Seeds, Know(server, table, exchanges, S), NEW n \in Node, NEW t \in Memory,
         Becomes(server, n, t, server'), UNCHANGED table,
         t.peers = server[n].peers, t.responded = server[n].responded, t.requests = server[n].requests,
         t.leader = server[n].leader, server[n].phase # "off", t.phase # "off", t.phase # "discovering",
         \/ exchanges' \subseteq GiveUp(n)
         \/ UNCHANGED exchanges /\ server[n].phase # "discovering"
  PROVE  Step(n)
<1>1. NodeOk(n, t, table, S) /\ Kept(server, exchanges, n, t)
  BY SameKnowledge
<1>2. ASSUME NEW d \in exchanges' PROVE CallOk(d, server', table) /\ (d \in exchanges \/ d.reply = Nothing)
  <2>1. CASE exchanges' \subseteq GiveUp(n)
    BY <2>1, GiveUpStays
  <2>2. CASE UNCHANGED exchanges /\ server[n].phase # "discovering"
    <3>1. Grows(table, table) /\ d \in exchanges
      BY <2>2, SameTable
    <3>2. CallOk(d, server, table)
      BY <3>1 DEF Know
    <3>3. d.from = n => ~d.awaited
      BY <2>2, <3>2 DEF CallOk
    <3>4. CallOk(d, server', table)
      BY <3>1, <3>3, CallsStay
    <3> QED BY <3>1, <3>4
  <2> QED BY <2>1, <2>2
<1>3. Sent(exchanges, exchanges', table, S)
  BY <1>2 DEF Sent, Nothing
<1> QED BY <1>1, <1>2, <1>3, PlainStep

\* OnReply(), of peers.
LEMMA ResponseStep ==
  ASSUME NEW S, S = Seeds, Know(server, table, exchanges, S), NEW c \in exchanges, OnReply(c),
         c.reply.kind # "group"
  PROVE  /\ Step(c.from) /\ UNCHANGED table /\ exchanges' \subseteq exchanges
         /\ server'[c.from].phase = "discovering" /\ server[c.from].phase = "discovering"
         /\ server'[c.from].started = server[c.from].started
         /\ server'[c.from].announced = server[c.from].announced
         /\ server'[c.from].group = server[c.from].group
<1>1. PICK n : n = c.from
  OBVIOUS
<1>2. PICK p : p = c.to
  OBVIOUS
<1>3. PICK s : s = server[n]
  OBVIOUS
<1>4. PICK list : list = c.reply.list
  OBVIOUS
<1>5. PICK u : u = [s EXCEPT !.responded = @ \cup {p}]
  OBVIOUS
<1>6. PICK t : t = Learn(n, u, list)
  OBVIOUS
<1>7. server \in [Node -> Memory] /\ CallOk(c, server, table) /\ c \in Calls /\ c.reply # Nothing
  BY DEF Know, OnReply
<1>8. n \in Node /\ p \in Node /\ c.awaited /\ c.reply \in Replies
  BY <1>1, <1>2, <1>7 DEF Calls, CallOk
<1>9. c.reply.kind = "peers" /\ list \in Lists
  BY <1>4, <1>7, <1>8 DEF Replies
<1>10. s \in Memory /\ s.phase = "discovering" /\ NodeOk(n, s, table, S) /\ p \in s.peers.ips
  BY <1>1, <1>2, <1>3, <1>7, <1>8 DEF CallOk, Know
<1>11. server' = [server EXCEPT ![n] = t] /\ UNCHANGED table
  BY <1>1, <1>2, <1>3, <1>4, <1>5, <1>6, <1>7, <1>8 DEF OnReply, Response
<1>12. exchanges' = exchanges \ {c}
  BY DEF OnReply
<1>13. Becomes(server, n, t, server')
  BY <1>11 DEF Becomes
<1>14. server'[n] = t
  BY <1>7, <1>8, <1>11
<1>15. /\ u \in Memory /\ u.peers = s.peers /\ u.responded = s.responded \cup {p}
       /\ u.requests = s.requests /\ u.leader = s.leader /\ u.phase = s.phase
       /\ u.started = s.started /\ u.announced = s.announced /\ u.group = s.group
  BY <1>5, <1>8, <1>10 DEF Memory
<1>16. /\ u.leader => t = u
       /\ ~u.leader =>
            /\ t \in Memory /\ t.peers.ips = u.peers.ips \cup (list.ips \ {n})
            /\ t.responded = u.responded
            /\ t.phase = u.phase /\ t.group = u.group
            /\ t.started = u.started /\ t.announced = u.announced
            /\ t.leader => t.responded = t.peers.ips /\ \A q \in t.peers.ips : n < q
            /\ \A r \in t.requests : r \in u.requests \/ (r.to \in t.peers.ips /\ n \in r.list.ips)
  BY <1>6, <1>8, <1>9, <1>15, LearnIs
<1>17. s.leader => s.responded = s.peers.ips
  BY <1>10 DEF NodeOk
<1>18. /\ t \in Memory /\ t.phase = "discovering" /\ t.responded = s.responded \cup {p}
       /\ t.started = s.started /\ t.announced = s.announced /\ t.group = s.group
       /\ s.peers.ips \subseteq t.peers.ips /\ n \notin t.peers.ips
       /\ t.responded \subseteq t.peers.ips
       /\ s.leader \/ list.ips \subseteq t.peers.ips \cup {n}
       /\ t.leader => t.responded = t.peers.ips /\ \A q \in t.peers.ips : n < q
       /\ \A r \in t.requests : r.to \in t.peers.ips /\ (n \in r.list.ips \/ n \in table[r.to].peers.ips)
  <2>1. CASE s.leader
    <3>1. /\ n \notin s.peers.ips /\ s.responded = s.peers.ips /\ \A q \in s.peers.ips : n < q
          /\ \A r \in s.requests : r.to \in s.peers.ips /\ (n \in r.list.ips \/ n \in table[r.to].peers.ips)
      BY <1>10, <2>1 DEF NodeOk
    <3>2. t = u /\ s.responded \cup {p} = s.responded
      BY <1>10, <1>15, <1>16, <2>1, <3>1
    <3> QED BY <1>10, <1>15, <2>1, <3>1, <3>2
  <2>2. CASE ~s.leader
    <3>1. /\ n \notin s.peers.ips /\ s.responded \subseteq s.peers.ips
          /\ \A r \in s.requests : r.to \in s.peers.ips /\ (n \in r.list.ips \/ n \in table[r.to].peers.ips)
      BY <1>10 DEF NodeOk
    <3>2. t \in Memory /\ t.peers.ips = s.peers.ips \cup (list.ips \ {n}) /\ t.responded = s.responded \cup {p}
      BY <1>15, <1>16, <2>2
    <3>3. \A r \in t.requests : r \in s.requests \/ (r.to \in t.peers.ips /\ n \in r.list.ips)
      BY <1>15, <1>16, <2>2
    <3>4. \A r \in t.requests : r.to \in t.peers.ips /\ (n \in r.list.ips \/ n \in table[r.to].peers.ips)
      BY <3>1, <3>2, <3>3
    <3> QED BY <1>10, <1>15, <1>16, <2>2, <3>1, <3>2, <3>4
  <2> QED BY <2>1, <2>2
<1>19. NodeOk(n, t, table, S)
  BY <1>10, <1>18 DEF NodeOk
<1>20. ASSUME NEW q \in t.responded
       PROVE  \/ q \in server[n].responded /\ server[n].peers.ips \subseteq t.peers.ips
              \/ \E d \in exchanges : /\ d.from = n /\ d.to = q /\ d.reply.kind = "peers"
                                  /\ d.reply.list.ips \subseteq t.peers.ips \cup {n}
  <2>1. CASE q \in s.responded
    BY <1>3, <1>18, <2>1
  <2>2. CASE q \notin s.responded
    <3>1. q = p /\ ~s.leader
      BY <1>10, <1>17, <1>18, <2>2
    <3>2. list.ips \subseteq t.peers.ips \cup {n}
      BY <1>18, <3>1
    <3> QED BY <1>1, <1>2, <1>4, <1>9, <3>1, <3>2
  <2> QED BY <2>1, <2>2
<1>21. Kept(server, exchanges, n, t)
  BY <1>20 DEF Kept
<1>22. Sent(exchanges, exchanges', table, S)
  BY <1>12 DEF Sent
<1>23. ASSUME NEW d \in exchanges' PROVE CallOk(d, server', table)
  <2>1. Grows(table, table) /\ d \in exchanges
    BY <1>12, SameTable
  <2> QED BY <1>3, <1>8, <1>13, <1>18, <2>1, CallsStay
<1>24. UNCHANGED table
  BY <1>11
<1>25. Step(n)
  BY <1>8, <1>13, <1>19, <1>21, <1>22, <1>23, <1>24, PlainStep
<1> QED BY <1>1, <1>3, <1>10, <1>12, <1>14, <1>18, <1>24, <1>25

\* OnReply(), of a group.
LEMMA FoundStep ==
  ASSUME NEW S, S = Seeds, Know(server, table, exchanges, S), SeedsOk(S), NEW c \in exchanges, OnReply(c),
         c.reply.kind = "group"
  PROVE  /\ Step(c.from) /\ UNCHANGED table /\ server[c.from].phase = "discovering"
         /\ \A d \in exchanges' : d.reply.kind = "group" => d \in exchanges
         /\ server'[c.from].phase = "found" /\ server'[c.from].group = c.reply.group
         /\ server'[c.from].started = server[c.from].started
<1>1. PICK n : n = c.from
  OBVIOUS
<1>2. PICK s : s = server[n]
  OBVIOUS
<1>3. PICK t : t = server'[n]
  OBVIOUS
<1>4. server \in [Node -> Memory] /\ CallOk(c, server, table) /\ c \in Calls /\ c.reply # Nothing
  BY DEF Know, OnReply
<1>5. n \in Node /\ c.to \in Node /\ c.awaited /\ c.reply \in Replies
  BY <1>1, <1>4 DEF Calls, CallOk
<1>6. s \in Memory /\ s.phase = "discovering" /\ c.reply.group \in Nat
  BY <1>1, <1>2, <1>4, <1>5 DEF CallOk, Replies
<1>7. /\ server' = [server EXCEPT ![n].phase = "found", ![n].group = c.reply.group, ![n].via = c.to]
      /\ exchanges' = GiveUp(n) /\ UNCHANGED table
  BY <1>1 DEF OnReply
<1>8. t = [s EXCEPT !.phase = "found", !.group = c.reply.group, !.via = c.to]
  BY <1>2, <1>3, <1>4, <1>5, <1>7
<1>9. Becomes(server, n, t, server')
  BY <1>2, <1>3, <1>4, <1>5, <1>7 DEF Becomes
<1>10. /\ t.peers = s.peers /\ t.responded = s.responded /\ t.requests = s.requests
       /\ t.leader = s.leader /\ t.phase = "found" /\ t.group = c.reply.group /\ t.started = s.started
  BY <1>6, <1>8 DEF Memory
<1>11. t \in Memory
  BY <1>5, <1>6, <1>8 DEF Memory, Phases, SeedsOk
<1>12. exchanges' = GiveUp(n)
  BY <1>7
<1>13. Step(n) /\ UNCHANGED table
  BY <1>2, <1>5, <1>6, <1>7, <1>9, <1>10, <1>11, PhaseStep
<1>14. ASSUME NEW d \in exchanges', d.reply.kind = "group" PROVE d \in exchanges
  <2>1. d \in exchanges \/ d.reply = Nothing
    BY <1>5, <1>9, <1>11, <1>12, GiveUpStays
  <2> QED BY <1>14, <2>1 DEF Nothing
<1> QED BY <1>1, <1>2, <1>3, <1>6, <1>10, <1>13, <1>14

\* StartServer()
LEMMA ServerStep ==
  ASSUME NEW S, S = Seeds, Know(server, table, exchanges, S), NEW n \in Node, StartServer(n)
  PROVE  /\ Step(n) /\ UNCHANGED <<table, exchanges, config>> /\ server[n].phase = "found"
         /\ server'[n].group = server[n].group /\ server'[n].via = server[n].via
         /\ server'[n].started \in {server[n].started, server[n].group}
         /\ server'[n].phase = IF n \in config[server[n].group] THEN "storing" ELSE "handshake"
<1>1. PICK s : s = server[n]
  OBVIOUS
<1>2. PICK t : t = server'[n]
  OBVIOUS
<1>3. server \in [Node -> Memory] /\ s \in Memory
  BY <1>1 DEF Know
<1>4. PICK st : st = IF s.started = NoGroup THEN s.group ELSE s.started
  OBVIOUS
<1>5. PICK ann : ann = (s.started = NoGroup)
  OBVIOUS
<1>6. PICK ph : ph = IF n \in config[s.group] THEN "storing" ELSE "handshake"
  OBVIOUS
<1>7. /\ s.phase = "found" /\ UNCHANGED <<table, exchanges, config>>
      /\ server' = [server EXCEPT ![n].started = st, ![n].announced = ann, ![n].phase = ph]
  BY <1>1, <1>3, <1>4, <1>5, <1>6 DEF StartServer
<1>8. t = [s EXCEPT !.started = st, !.announced = ann, !.phase = ph]
  BY <1>1, <1>2, <1>3, <1>7
<1>9. Becomes(server, n, t, server')
  BY <1>1, <1>2, <1>3, <1>7 DEF Becomes
<1>10. st \in Nat /\ ann \in BOOLEAN /\ ph \in {"storing", "handshake"} /\ st \in {s.started, s.group}
  BY <1>3, <1>4, <1>5, <1>6 DEF Memory
<1>11. /\ t.peers = s.peers /\ t.responded = s.responded /\ t.requests = s.requests
       /\ t.leader = s.leader /\ t.phase = ph /\ t.group = s.group /\ t.via = s.via /\ t.started = st
  BY <1>3, <1>8 DEF Memory
<1>12. t \in Memory
  BY <1>3, <1>8, <1>10 DEF Memory, Phases
<1>13. t.phase # "off" /\ t.phase # "discovering"
  BY <1>10, <1>11
<1>14. UNCHANGED table /\ UNCHANGED exchanges /\ s.phase = "found"
  BY <1>7
<1>15. Step(n)
  BY <1>1, <1>9, <1>11, <1>12, <1>13, <1>14, PhaseStep
<1> QED BY <1>1, <1>2, <1>6, <1>7, <1>10, <1>11, <1>15

\* Handshake()
LEMMA HandshakeStep ==
  ASSUME NEW S, S = Seeds, Know(server, table, exchanges, S), NEW n \in Node, Handshake(n)
  PROVE  /\ Step(n) /\ UNCHANGED <<table, exchanges>> /\ server[n].phase = "handshake"
         /\ server'[n].phase = "storing" /\ server'[n].group = server[n].group
         /\ server'[n].started = server[n].started
         /\ config' = [config EXCEPT ![server[n].group] = @ \cup {n}]
<1>1. PICK s : s = server[n]
  OBVIOUS
<1>2. PICK t : t = server'[n]
  OBVIOUS
<1>3. server \in [Node -> Memory] /\ s \in Memory
  BY <1>1 DEF Know
<1>4. /\ s.phase = "handshake" /\ UNCHANGED <<table, exchanges>>
      /\ server' = [server EXCEPT ![n].phase = "storing"]
  BY <1>1 DEF Handshake, CanAdd
<1>5. t = [s EXCEPT !.phase = "storing"]
  BY <1>1, <1>2, <1>3, <1>4
<1>6. Becomes(server, n, t, server')
  BY <1>1, <1>2, <1>3, <1>4 DEF Becomes
<1>7. /\ t.peers = s.peers /\ t.responded = s.responded /\ t.requests = s.requests
      /\ t.leader = s.leader /\ t.phase = "storing" /\ t.group = s.group /\ t.started = s.started
      /\ t \in Memory
  BY <1>3, <1>5 DEF Memory, Phases
<1>8. UNCHANGED table /\ UNCHANGED exchanges /\ s.phase = "handshake"
  BY <1>4
<1>9. Step(n)
  BY <1>1, <1>6, <1>7, <1>8, PhaseStep
<1> QED BY <1>1, <1>2, <1>4, <1>7, <1>9 DEF Handshake

\* StoreGroup()
LEMMA StoreGroupStep ==
  ASSUME NEW S, S = Seeds, Know(server, table, exchanges, S), NEW n \in Node, StoreGroup(n)
  PROVE  /\ Step(n) /\ UNCHANGED <<exchanges, config>> /\ server[n].phase = "storing"
         /\ server'[n].phase = "member" /\ server'[n].group = server[n].group
         /\ server'[n].started = server[n].started
         /\ table'[n].group = server[n].group /\ table'[n].peers = table[n].peers
<1>1. PICK s : s = server[n]
  OBVIOUS
<1>2. PICK t : t = server'[n]
  OBVIOUS
<1>3. server \in [Node -> Memory] /\ s \in Memory /\ TableOk(table, S) /\ table \in Tables
  BY <1>1 DEF Know, TableOk
<1>4. /\ s.phase = "storing" /\ UNCHANGED <<exchanges, config>>
      /\ server' = [server EXCEPT ![n].phase = "member", ![n].announced = TRUE]
      /\ table' = [table EXCEPT ![n].group = s.group]
  BY <1>1 DEF StoreGroup
<1>5. t = [s EXCEPT !.phase = "member", !.announced = TRUE]
  BY <1>1, <1>2, <1>3, <1>4
<1>6. Becomes(server, n, t, server')
  BY <1>1, <1>2, <1>3, <1>4 DEF Becomes
<1>7. /\ t.peers = s.peers /\ t.responded = s.responded /\ t.requests = s.requests
      /\ t.leader = s.leader /\ t.phase = "member" /\ t.group = s.group /\ t.started = s.started
      /\ t \in Memory
  BY <1>3, <1>5 DEF Memory, Phases
<1>8. s.group \in Nat
  BY <1>3 DEF Memory
<1>9. /\ table' \in Tables /\ table'[n].group = s.group
      /\ \A m \in Node : table'[m].peers = table[m].peers /\ (m # n => table'[m] = table[m])
  BY <1>3, <1>4, <1>8 DEF Tables
<1>10. TableOk(table', S)
  <2>1. ASSUME NEW m \in DOMAIN S, table'[m].peers.ips # {} PROVE S[m] \subseteq table'[m].peers.ips \cup {m}
    <3>1. CASE m \in Node
      BY <1>3, <1>9, <2>1, <3>1 DEF TableOk
    <3>2. CASE m \notin Node
      <4>1. table'[m] = table[m]
        BY <1>3, <1>4, <3>2 DEF Tables
      <4> QED BY <1>3, <2>1, <4>1 DEF TableOk
    <3> QED BY <3>1, <3>2
  <2> QED BY <1>9, <2>1 DEF TableOk
<1>11. Grows(table, table')
  BY <1>9 DEF Grows
<1>12. NodeOk(n, t, table, S) /\ Kept(server, exchanges, n, t)
  BY <1>1, <1>4, <1>7, SameKnowledge
<1>13. \A r \in t.requests : r.to \in Node
  BY <1>7 DEF Memory
<1>14. NodeOk(n, t, table', S)
  BY <1>9, <1>12, <1>13 DEF NodeOk
<1>15. ASSUME NEW c \in exchanges PROVE CallOk(c, server', table')
  <2>1. CallOk(c, server, table)
    BY DEF Know
  <2>2. c.from = n => ~c.awaited
    BY <1>1, <1>4, <2>1 DEF CallOk
  <2> QED BY <1>6, <1>7, <1>11, <2>2, CallsStay
<1>16. Sent(exchanges, exchanges', table', S)
  BY <1>4 DEF Sent
<1>17. AnswersFollow(server, exchanges, server', exchanges', table', S)
  BY <1>6, <1>12, <1>16, FollowIs
<1>18. Step(n)
  BY <1>2, <1>4, <1>6, <1>9, <1>10, <1>11, <1>14, <1>15, <1>17 DEF Step, NodeStep
<1> QED BY <1>1, <1>2, <1>4, <1>7, <1>9, <1>18

\* LoseCall()
LEMMA LoseStep ==
  ASSUME NEW S, S = Seeds, Know(server, table, exchanges, S), NEW c \in exchanges, LoseCall(c)
  PROVE  Step(c.from) /\ UNCHANGED <<server, table, config>> /\ exchanges' \subseteq exchanges
<1>1. PICK n : n = c.from
  OBVIOUS
<1>2. PICK t : t = server[n]
  OBVIOUS
<1>3. server \in [Node -> Memory] /\ n \in Node
  BY <1>1 DEF Know, Calls
<1>4. UNCHANGED <<server, table, config>> /\ exchanges' \subseteq exchanges
  BY DEF LoseCall
<1>5. NodeOk(n, t, table, S) /\ Kept(server, exchanges, n, t)
  BY <1>2, <1>3 DEF Know, Kept
<1>6. Becomes(server, n, t, server')
  BY <1>2, <1>3, <1>4 DEF Becomes
<1>7. Sent(exchanges, exchanges', table, S) /\ \A d \in exchanges' : CallOk(d, server', table)
  BY <1>4 DEF Sent, Know
<1>8. Step(n)
  BY <1>3, <1>4, <1>5, <1>6, <1>7, PlainStep
<1> QED BY <1>1, <1>4, <1>8

\* FailHandshake()
LEMMA FailStep ==
  ASSUME NEW S, S = Seeds, Know(server, table, exchanges, S), SeedsOk(S), NEW n \in Node, FailHandshake(n)
  PROVE  /\ Step(n) /\ UNCHANGED <<table, exchanges>> /\ server[n].phase = "handshake"
         /\ server'[n].phase = "discovering" /\ ~server'[n].announced
         /\ server'[n].started = server[n].started
         /\ UNCHANGED config \/ config' = [config EXCEPT ![server[n].group] = @ \cup {n}]
<1>1. PICK t : t = server'[n]
  OBVIOUS
<1>2. server \in [Node -> Memory] /\ TableOk(table, S) /\ NodeOk(n, server[n], table, S)
  BY DEF Know
<1>3. /\ server[n].phase = "handshake" /\ UNCHANGED <<table, exchanges>>
      /\ server' = [server EXCEPT ![n] = Discovering(n, server[n].started)]
  BY DEF FailHandshake
<1>4. t = Discovering(n, server[n].started)
  BY <1>1, <1>2, <1>3
<1>5. Becomes(server, n, t, server')
  BY <1>3, <1>4 DEF Becomes
<1>6. n \in DOMAIN S /\ server[n].started \in Nat
  BY <1>2, <1>3 DEF NodeOk, Memory
<1>7. /\ NodeOk(n, t, table, S) /\ t.responded = {} /\ t.phase = "discovering"
      /\ t.started = server[n].started /\ ~t.announced
  BY <1>2, <1>4, <1>6, DiscoveringOk
<1>8. Kept(server, exchanges, n, t) /\ Sent(exchanges, exchanges', table, S)
  BY <1>3, <1>7 DEF Kept, Sent
<1>9. ASSUME NEW c \in exchanges PROVE CallOk(c, server', table)
  <2>1. CallOk(c, server, table) /\ Grows(table, table)
    BY SameTable DEF Know
  <2>2. c.from = n => ~c.awaited
    BY <1>3, <2>1 DEF CallOk
  <2>3. t \in Memory
    BY <1>7 DEF NodeOk
  <2> QED BY <1>5, <2>1, <2>2, <2>3, CallsStay
<1>10. UNCHANGED table /\ UNCHANGED exchanges
  BY <1>3
<1>11. Step(n)
  BY <1>5, <1>7, <1>8, <1>9, <1>10, PlainStep
<1> QED BY <1>1, <1>3, <1>7, <1>11 DEF FailHandshake

\* Crash()
LEMMA CrashStep ==
  ASSUME NEW S, S = Seeds, Know(server, table, exchanges, S), NEW n \in Node, CrashServer(n)
  PROVE  /\ Step(n) /\ UNCHANGED <<table, config>> /\ server'[n] = Off
         /\ \A d \in exchanges' : d.reply.kind = "group" => d \in exchanges
         /\ forgotten' \/ ~(server[n].via = n /\ server[n].phase = "storing")
<1>1. PICK t : t = Off
  OBVIOUS
<1>2. server \in [Node -> Memory] /\ NodeOk(n, server[n], table, S)
  BY DEF Know
<1>3. server' = [server EXCEPT ![n] = t] /\ UNCHANGED table /\ exchanges' \subseteq GiveUp(n)
  BY <1>1 DEF CrashServer
<1>4. Becomes(server, n, t, server') /\ server'[n] = t
  BY <1>2, <1>3 DEF Becomes
<1>5. /\ t \in Memory /\ t.phase = "off" /\ t.leader = FALSE /\ t.requests = {} /\ t.responded = {}
      /\ t.peers.ips = {}
  BY <1>1 DEF Off, Memory, Phases, NoPeers, List, Lists, NoGroup
<1>6. NodeOk(n, t, table, S) /\ Kept(server, exchanges, n, t)
  BY <1>5 DEF NodeOk, Kept
<1>7. ASSUME NEW d \in exchanges' PROVE CallOk(d, server', table) /\ (d \in exchanges \/ d.reply = Nothing)
  BY <1>3, <1>4, <1>5, GiveUpStays
<1>8. Sent(exchanges, exchanges', table, S) /\ \A d \in exchanges' : d.reply.kind = "group" => d \in exchanges
  BY <1>7 DEF Sent, Nothing
<1>9. Step(n)
  BY <1>3, <1>4, <1>6, <1>7, <1>8, PlainStep
<1> QED BY <1>1, <1>3, <1>4, <1>8, <1>9 DEF CrashServer

----------------------------------------------------------------------------
(* What each step makes of the groups.                                     *)

\* Nobody hears of a group unless a server of it starts.
LEMMA NobodyStep ==
  ASSUME NEW S, S = Seeds, Know(server, table, exchanges, S), NEW n \in Node, Step(n),
         Nobody(server, table, exchanges, config), config \in Seq(SUBSET Node), config' \in Seq(SUBSET Node),
         table'[n].group = NoGroup, server'[n].started = NoGroup, ~server'[n].announced,
         server'[n].phase \in {"off", "discovering", "found"},
         server'[n].phase = "found" =>
            /\ server'[n].leader /\ server'[n].via = n
            /\ server'[n].group \in 1..Len(config') /\ n \in config'[server'[n].group],
         Len(config) <= Len(config'), \A h \in 1..Len(config) : config'[h] = config[h],
         \A h \in 1..Len(config') : Single(config'[h]),
         \A d \in exchanges' : d.reply.kind = "group" => d \in exchanges
  PROVE  Nobody(server', table', exchanges', config')
<1>1. \A m \in Node : m # n => server'[m] = server[m] /\ table'[m] = table[m]
  BY DEF Step, NodeStep, Becomes, Know
<1>2. \A h \in 1..Len(config) : h \in 1..Len(config')
  OBVIOUS
<1>3. ASSUME NEW m \in Node
      PROVE /\ table'[m].group = NoGroup /\ server'[m].started = NoGroup /\ ~server'[m].announced
            /\ server'[m].phase \in {"off", "discovering", "found"}
            /\ server'[m].phase = "found" =>
                 /\ server'[m].leader /\ server'[m].via = m
                 /\ server'[m].group \in 1..Len(config') /\ m \in config'[server'[m].group]
  <2>1. CASE m = n
    BY <2>1
  <2>2. CASE m # n
    BY <1>1, <1>2, <2>2 DEF Nobody
  <2> QED BY <2>1, <2>2
<1>4. \A d \in exchanges' : d.reply.kind # "group"
  BY DEF Nobody
<1> QED BY <1>3, <1>4 DEF Nobody

\* The group stays the only one others know.
LEMMA OwnedStep ==
  ASSUME NEW S, S = Seeds, SeedsOk(S), Know(server, table, exchanges, S), NEW n \in Node, Step(n),
         NEW c \in Node, NEW g, Owned(c, g, server, table, exchanges, config, S),
         n = c => /\ table'[n].peers = table[n].peers
                  /\ \/ server'[n].phase = "storing" /\ server'[n].via = n
                     \/ server'[n].phase \in {"off", "member"} /\ table'[n].group = g,
         table'[n].group \in {NoGroup, g}, server'[n].started \in {NoGroup, g},
         server'[n].announced \/ server'[n].phase \notin {"off", "discovering"} => server'[n].group = g,
         Len(config') = Len(config), \A h \in 1..Len(config) : h # g => config'[h] = config[h],
         \A d \in exchanges' : d.reply.kind = "group" => d \in exchanges \/ d.reply.group = g
  PROVE  Owned(c, g, server', table', exchanges', config', S)
<1>1. \A m \in Node : m # n => server'[m] = server[m] /\ table'[m] = table[m]
  BY DEF Step, NodeStep, Becomes, Know
<1>2. PICK K \in SUBSET Node : Seated(c, K, server, table, exchanges, S)
  BY DEF Owned
<1>3. table'[c].peers.ips \subseteq K
  <2>1. table[c].peers.ips \subseteq K
    BY <1>2 DEF Seated
  <2> QED BY <1>1, <2>1
<1>4. Grows(table, table') /\ AnswersFollow(server, exchanges, server', exchanges', table', S) /\ DOMAIN S \subseteq Node
  BY DEF Step, NodeStep, SeedsOk
<1>5. Seated(c, K, server', table', exchanges', S)
  BY <1>2, <1>3, <1>4, SeatedStays
<1>6. \/ server'[c].phase = "storing" /\ server'[c].via = c
      \/ server'[c].phase \in {"off", "member"} /\ table'[c].group = g
  BY <1>1 DEF Owned
<1>7. ASSUME NEW m \in Node
      PROVE  /\ table'[m].group \in {NoGroup, g} /\ server'[m].started \in {NoGroup, g}
             /\ server'[m].announced \/ server'[m].phase \notin {"off", "discovering"} => server'[m].group = g
  <2>1. CASE m = n
    BY <2>1
  <2>2. CASE m # n
    BY <1>1, <2>2 DEF Owned
  <2> QED BY <2>1, <2>2
<1>8. \A d \in exchanges' : d.reply.kind = "group" => d.reply.group = g
  BY DEF Owned
<1>9. g \in 1..Len(config') /\ \A h \in 1..Len(config') : h # g => Single(config'[h])
  BY DEF Owned
<1> QED BY <1>5, <1>6, <1>7, <1>8, <1>9 DEF Owned

\* The first server of a group is that of its creator, and there is no other leader.
LEMMA FirstServer ==
  ASSUME NEW S, S = Seeds, SeedsOk(S), Know(server, table, exchanges, S), NEW n \in Node, StartServer(n), Step(n),
         Nobody(server, table, exchanges, config)
  PROVE  \E g \in 1..Len(config') : Owned(n, g, server', table', exchanges', config', S)
<1>1. PICK g : g = server[n].group
  OBVIOUS
<1>2. PICK K : K = server[n].peers.ips \cup {n}
  OBVIOUS
<1>3. /\ UNCHANGED <<table, exchanges, config>> /\ server[n].phase = "found"
      /\ server'[n].group = g /\ server'[n].via = server[n].via
      /\ server'[n].started \in {server[n].started, g}
      /\ server'[n].phase = IF n \in config[g] THEN "storing" ELSE "handshake"
  BY <1>1, ServerStep
<1>4. /\ server[n].leader /\ server[n].via = n /\ g \in 1..Len(config) /\ n \in config[g]
      /\ server[n].started = NoGroup
  BY <1>1, <1>3 DEF Nobody
<1>5. Seated(n, K, server, table, exchanges, S)
  BY <1>2, <1>4, LeaderIsSeated
<1>6. K \in SUBSET Node
  BY <1>2 DEF Know, Memory, Lists
<1>7. ASSUME NEW m \in Node, m # n
      PROVE  server'[m] = server[m] /\ server[m].phase \in {"off", "discovering"} /\ ~server[m].announced
  <2>1. ~server[m].leader
    BY <1>5, <1>6, <1>7, NoRival
  <2>2. server'[m] = server[m]
    BY <1>7 DEF Step, NodeStep, Becomes, Know
  <2> QED BY <2>1, <2>2 DEF Nobody
<1>8. Seated(n, K, server', table', exchanges', S)
  <2>1. Grows(table, table') /\ AnswersFollow(server, exchanges, server', exchanges', table', S) /\ DOMAIN S \subseteq Node
    BY DEF Step, NodeStep, SeedsOk
  <2>2. table'[n].peers.ips \subseteq K
    BY <1>3, <1>5 DEF Seated
  <2> QED BY <1>5, <2>1, <2>2, SeatedStays
<1>9. server'[n].phase = "storing" /\ server'[n].via = n
  BY <1>3, <1>4
<1>10. ASSUME NEW m \in Node
       PROVE  /\ table'[m].group \in {NoGroup, g} /\ server'[m].started \in {NoGroup, g}
              /\ server'[m].announced \/ server'[m].phase \notin {"off", "discovering"} => server'[m].group = g
  <2>1. CASE m = n
    BY <1>3, <1>4, <2>1 DEF Nobody
  <2>2. CASE m # n
    BY <1>3, <1>7, <2>2 DEF Nobody
  <2> QED BY <2>1, <2>2
<1>11. Owned(n, g, server', table', exchanges', config', S)
  BY <1>3, <1>4, <1>6, <1>8, <1>9, <1>10 DEF Owned, Nobody
<1> QED BY <1>3, <1>4, <1>11

\* The invariant before a step, and after it: S are the seeds.
Before(S) ==
  /\ S = Seeds /\ SeedsOk(S) /\ config \in Seq(SUBSET Node)
  /\ Know(server, table, exchanges, S) /\ Groups(server, table, exchanges, config, S)
After(S) ==
  /\ config' \in Seq(SUBSET Node)
  /\ Know(server', table', exchanges', S)
  /\ forgotten' \/ Groups(server', table', exchanges', config', S)

\* What is known stays right in every step of one server.
LEMMA AfterStep ==
  ASSUME NEW S, Before(S), NEW n \in Node, Step(n), config' \in Seq(SUBSET Node),
         forgotten' \/ Groups(server', table', exchanges', config', S)
  PROVE  After(S)
<1>1. NodeStep(server, table, exchanges, S, n, server'[n], server', table', exchanges')
  BY DEF Step, Before
<1>2. Know(server', table', exchanges', S)
  BY <1>1, KnowStep DEF Before
<1> QED BY <1>2 DEF After

\* The two cases of a step, before and after a group is known.
LEMMA AfterEither ==
  ASSUME NEW S, Before(S), NEW n \in Node, Step(n), config' \in Seq(SUBSET Node),
         Nobody(server, table, exchanges, config) =>
           forgotten' \/ Groups(server', table', exchanges', config', S),
         \A c \in Node : \A g \in 1..Len(config) : Owned(c, g, server, table, exchanges, config, S) =>
           forgotten' \/ (g \in 1..Len(config') /\ Owned(c, g, server', table', exchanges', config', S))
  PROVE  After(S)
<1>1. forgotten' \/ Groups(server', table', exchanges', config', S)
  BY DEF Before, Groups
<1> QED BY <1>1, AfterStep

\* What is in force of the group, of its creator and of any server.
LEMMA OwnedFacts ==
  ASSUME NEW S, NEW c \in Node, NEW g \in 1..Len(config), Owned(c, g, server, table, exchanges, config, S),
         NEW n \in Node
  PROVE  /\ g \in Nat /\ g # NoGroup
         /\ table[n].group \in {NoGroup, g} /\ server[n].started \in {NoGroup, g}
         /\ server[n].announced \/ server[n].phase \notin {"off", "discovering"} => server[n].group = g
         /\ n = c => \/ server[n].phase = "storing" /\ server[n].via = n
                     \/ server[n].phase \in {"off", "member"} /\ table[n].group = g
BY DEF Owned, NoGroup

\* Start(): who has stored the group comes back to it, its creator with it.
LEMMA StartKeeps ==
  ASSUME NEW S, Before(S), NEW n \in Node, Start(n)
  PROVE  After(S)
<1>0. /\ S = Seeds /\ SeedsOk(S) /\ config \in Seq(SUBSET Node)
      /\ Know(server, table, exchanges, S) /\ UNCHANGED <<table, exchanges, config>> /\ server[n].phase = "off"
  BY DEF Before, Start
<1>1. /\ Step(n)
      /\ server'[n].started = table[n].group
      /\ \/ table[n].group = NoGroup /\ server'[n].phase = "discovering" /\ ~server'[n].announced
         \/ /\ table[n].group # NoGroup
            /\ server'[n].phase = "member" /\ server'[n].group = table[n].group
  BY <1>0, StartStep
<1>2. ASSUME Nobody(server, table, exchanges, config)
      PROVE  Groups(server', table', exchanges', config', S)
  <2>1. table[n].group = NoGroup /\ \A h \in 1..Len(config') : Single(config'[h])
    BY <1>0, <1>2 DEF Nobody
  <2>2. Nobody(server', table', exchanges', config')
    BY <1>0, <1>1, <1>2, <2>1, NobodyStep
  <2> QED BY <2>2 DEF Groups
<1>3. ASSUME NEW c \in Node, NEW g \in 1..Len(config), Owned(c, g, server, table, exchanges, config, S)
      PROVE  Owned(c, g, server', table', exchanges', config', S)
  <2>1. /\ g # NoGroup /\ table[n].group \in {NoGroup, g}
        /\ n = c => table[n].group = g
    BY <1>0, <1>3, OwnedFacts
  <2> QED BY <1>0, <1>1, <1>3, <2>1, OwnedStep
<1> QED BY <1>0, <1>1, <1>2, <1>3, AfterEither

\* Tick(): once a group is known, no leader is left to create another one.
LEMMA TickKeeps ==
  ASSUME NEW S, Before(S), NEW n \in Node, Tick(n)
  PROVE  After(S)
<1>0. /\ S = Seeds /\ SeedsOk(S) /\ config \in Seq(SUBSET Node)
      /\ Know(server, table, exchanges, S)
  BY DEF Before
<1>1. /\ Step(n) /\ server[n].phase = "discovering" /\ table'[n].group = table[n].group
      /\ server'[n].started = server[n].started /\ server'[n].announced = server[n].announced
      /\ \A c \in exchanges' : c.reply.kind = "group" => c \in exchanges
      /\ \/ server'[n].phase = "discovering" /\ server'[n].group = server[n].group /\ UNCHANGED config
         \/ /\ server[n].leader /\ server'[n].leader /\ server'[n].phase = "found"
            /\ server'[n].via = n /\ config' = Append(config, {n}) /\ server'[n].group = Len(config) + 1
  BY <1>0, TickStep
<1>2. config' \in Seq(SUBSET Node)
  BY <1>0, <1>1
<1>3. ASSUME Nobody(server, table, exchanges, config)
      PROVE  Groups(server', table', exchanges', config', S)
  <2>1. /\ table[n].group = NoGroup /\ server[n].started = NoGroup /\ ~server[n].announced
        /\ \A h \in 1..Len(config) : Single(config[h])
    BY <1>3 DEF Nobody
  <2>2. CASE UNCHANGED config /\ server'[n].phase = "discovering"
    <3>1. Nobody(server', table', exchanges', config')
      BY <1>0, <1>1, <1>2, <1>3, <2>1, <2>2, NobodyStep
    <3> QED BY <3>1 DEF Groups
  <2>3. CASE /\ server[n].leader /\ server'[n].leader /\ server'[n].phase = "found"
             /\ server'[n].via = n /\ config' = Append(config, {n}) /\ server'[n].group = Len(config) + 1
    <3>1. /\ Len(config') = Len(config) + 1 /\ \A h \in 1..Len(config) : config'[h] = config[h]
          /\ config'[Len(config) + 1] = {n}
      BY <1>0, <2>3
    <3>2. Len(config) \in Nat /\ Single({n})
      BY <1>0 DEF Single
    <3>3. Len(config) <= Len(config') /\ \A h \in 1..Len(config') : Single(config'[h])
      <4>1. \A h \in 1..Len(config') : h \in 1..Len(config) \/ h = Len(config) + 1
        BY <3>1, <3>2
      <4>2. ASSUME NEW h \in 1..Len(config') PROVE Single(config'[h])
        <5>1. CASE h \in 1..Len(config)
          BY <2>1, <3>1, <5>1
        <5>2. CASE h = Len(config) + 1
          <6>1. config'[h] = {n}
            BY <3>1, <5>2
          <6> QED BY <3>2, <6>1, Zenon
        <5> QED BY <4>1, <5>1, <5>2
      <4>3. Len(config) <= Len(config')
        BY <3>1, <3>2
      <4> QED BY <4>2, <4>3
    <3>4. server'[n].group \in 1..Len(config') /\ n \in config'[server'[n].group]
      BY <2>3, <3>1, <3>2
    <3>5. server'[n].leader /\ server'[n].phase = "found" /\ server'[n].via = n
      BY <2>3
    <3>6. \A h \in 1..Len(config) : config'[h] = config[h]
      BY <3>1
    <3>7. table'[n].group = NoGroup /\ server'[n].started = NoGroup /\ ~server'[n].announced
      BY <1>1, <2>1
    <3>8. Step(n) /\ \A c \in exchanges' : c.reply.kind = "group" => c \in exchanges
      BY <1>1
    <3>9. Nobody(server', table', exchanges', config')
      BY <1>0, <1>2, <1>3, <3>3, <3>4, <3>5, <3>6, <3>7, <3>8, NobodyStep
    <3> QED BY <3>9 DEF Groups
  <2> QED BY <1>1, <2>2, <2>3
<1>4. ASSUME NEW c \in Node, NEW g \in 1..Len(config), Owned(c, g, server, table, exchanges, config, S)
      PROVE  g \in 1..Len(config') /\ Owned(c, g, server', table', exchanges', config', S)
  <2>1. /\ table[n].group \in {NoGroup, g} /\ server[n].started \in {NoGroup, g} /\ n # c
        /\ server[n].announced => server[n].group = g
    BY <1>1, <1>4, OwnedFacts
  <2>2. PICK K \in SUBSET Node : Seated(c, K, server, table, exchanges, S)
    BY <1>4 DEF Owned
  <2>3. ~server[n].leader
    BY <1>0, <2>1, <2>2, NoRival
  <2>4. server'[n].phase = "discovering" /\ server'[n].group = server[n].group /\ UNCHANGED config
    BY <1>1, <2>3
  <2> QED BY <1>0, <1>1, <1>4, <2>1, <2>4, OwnedStep
<1> QED BY <1>1, <1>2, <1>3, <1>4, AfterEither

\* PeerExchange(): a server tells what it knows, or the group.
LEMMA ExchangeKeeps ==
  ASSUME NEW S, Before(S), NEW c \in exchanges, PeerExchange(c)
  PROVE  After(S)
<1>0. /\ S = Seeds /\ SeedsOk(S) /\ config \in Seq(SUBSET Node)
      /\ Know(server, table, exchanges, S) /\ UNCHANGED config
  BY DEF Before, PeerExchange
<1>1. PICK n : n = c.to
  OBVIOUS
<1>2. n \in Node
  BY <1>0, <1>1 DEF Know, Calls
<1>3. CASE server[n].phase = "discovering"
  <2>1. /\ Step(n) /\ table'[n].group = table[n].group
        /\ server'[n].phase = "discovering" /\ server'[n].started = server[n].started
        /\ server'[n].announced = server[n].announced /\ server'[n].group = server[n].group
        /\ \A d \in exchanges' : d.reply.kind = "group" => d \in exchanges
    BY <1>0, <1>1, <1>3, ExchangeStep
  <2>2. ASSUME Nobody(server, table, exchanges, config)
        PROVE  Groups(server', table', exchanges', config', S)
    <3>1. /\ table[n].group = NoGroup /\ server[n].started = NoGroup /\ ~server[n].announced
          /\ \A h \in 1..Len(config') : Single(config'[h])
      BY <1>0, <1>2, <2>2 DEF Nobody
    <3>2. Nobody(server', table', exchanges', config')
      BY <1>0, <1>2, <2>1, <2>2, <3>1, NobodyStep
    <3> QED BY <3>2 DEF Groups
  <2>3. ASSUME NEW k \in Node, NEW g \in 1..Len(config), Owned(k, g, server, table, exchanges, config, S)
        PROVE  Owned(k, g, server', table', exchanges', config', S)
    <3>1. /\ table[n].group \in {NoGroup, g} /\ server[n].started \in {NoGroup, g} /\ n # k
          /\ server[n].announced => server[n].group = g
      BY <1>2, <1>3, <2>3, OwnedFacts
    <3> QED BY <1>0, <1>2, <2>1, <2>3, <3>1, OwnedStep
  <2> QED BY <1>0, <1>2, <2>1, <2>2, <2>3, AfterEither
<1>4. CASE server[n].phase # "discovering"
  <2>1. /\ Step(n) /\ UNCHANGED <<server, table>>
        /\ \A d \in exchanges' : d.reply.kind = "group" =>
             d \in exchanges \/ (server[n].announced /\ d.reply.group = server[n].group)
    BY <1>0, <1>1, <1>4, TellStep
  <2>2. ASSUME Nobody(server, table, exchanges, config)
        PROVE  Groups(server', table', exchanges', config', S)
    <3>1. ~server[n].announced
      BY <1>2, <2>2 DEF Nobody
    <3>2. Nobody(server', table', exchanges', config')
      BY <1>0, <2>1, <2>2, <3>1 DEF Nobody
    <3> QED BY <3>2 DEF Groups
  <2>3. ASSUME NEW k \in Node, NEW g \in 1..Len(config), Owned(k, g, server, table, exchanges, config, S)
        PROVE  Owned(k, g, server', table', exchanges', config', S)
    <3>1. /\ table[n].group \in {NoGroup, g} /\ server[n].started \in {NoGroup, g}
          /\ server[n].announced \/ server[n].phase \notin {"off", "discovering"} => server[n].group = g
          /\ n = k => \/ server[n].phase = "storing" /\ server[n].via = n
                      \/ server[n].phase \in {"off", "member"} /\ table[n].group = g
      BY <1>2, <2>3, OwnedFacts
    <3>2. \A d \in exchanges' : d.reply.kind = "group" => d \in exchanges \/ d.reply.group = g
      BY <2>1, <3>1
    <3>3. Step(n) /\ UNCHANGED <<server, table>>
      BY <2>1
    <3> QED BY <1>0, <1>2, <2>3, <3>1, <3>2, <3>3, OwnedStep
  <2> QED BY <1>0, <1>2, <2>1, <2>2, <2>3, AfterEither
<1> QED BY <1>3, <1>4

\* OnReply(): a server learns of peers, or of the group.
LEMMA ReplyKeeps ==
  ASSUME NEW S, Before(S), NEW c \in exchanges, OnReply(c)
  PROVE  After(S)
<1>0. /\ S = Seeds /\ SeedsOk(S) /\ config \in Seq(SUBSET Node)
      /\ Know(server, table, exchanges, S) /\ UNCHANGED config
  BY DEF Before, OnReply
<1>1. PICK n : n = c.from
  OBVIOUS
<1>2. n \in Node
  BY <1>0, <1>1 DEF Know, Calls
<1>3. CASE c.reply.kind # "group"
  <2>1. /\ Step(n) /\ UNCHANGED table /\ exchanges' \subseteq exchanges
        /\ server'[n].phase = "discovering" /\ server[n].phase = "discovering"
        /\ server'[n].started = server[n].started
        /\ server'[n].announced = server[n].announced
        /\ server'[n].group = server[n].group
    BY <1>0, <1>1, <1>3, ResponseStep
  <2>2. ASSUME Nobody(server, table, exchanges, config)
        PROVE  Groups(server', table', exchanges', config', S)
    <3>1. /\ table[n].group = NoGroup /\ server[n].started = NoGroup /\ ~server[n].announced
          /\ \A h \in 1..Len(config') : Single(config'[h])
      BY <1>0, <1>2, <2>2 DEF Nobody
    <3>2. Nobody(server', table', exchanges', config')
      BY <1>0, <1>2, <2>1, <2>2, <3>1, NobodyStep
    <3> QED BY <3>2 DEF Groups
  <2>3. ASSUME NEW k \in Node, NEW g \in 1..Len(config), Owned(k, g, server, table, exchanges, config, S)
        PROVE  Owned(k, g, server', table', exchanges', config', S)
    <3>1. /\ table[n].group \in {NoGroup, g} /\ server[n].started \in {NoGroup, g} /\ n # k
          /\ server[n].announced => server[n].group = g
      BY <1>2, <2>1, <2>3, OwnedFacts
    <3> QED BY <1>0, <1>2, <2>1, <2>3, <3>1, OwnedStep
  <2> QED BY <1>0, <1>2, <2>1, <2>2, <2>3, AfterEither
<1>4. CASE c.reply.kind = "group"
  <2>1. /\ Step(n) /\ UNCHANGED table /\ server[n].phase = "discovering"
        /\ \A d \in exchanges' : d.reply.kind = "group" => d \in exchanges
        /\ server'[n].phase = "found" /\ server'[n].group = c.reply.group
        /\ server'[n].started = server[n].started
    BY <1>0, <1>1, <1>4, FoundStep
  <2>2. ~Nobody(server, table, exchanges, config)
    BY <1>4 DEF Nobody
  <2>3. ASSUME NEW k \in Node, NEW g \in 1..Len(config), Owned(k, g, server, table, exchanges, config, S)
        PROVE  Owned(k, g, server', table', exchanges', config', S)
    <3>1. table[n].group \in {NoGroup, g} /\ server[n].started \in {NoGroup, g} /\ n # k
      BY <1>2, <2>1, <2>3, OwnedFacts
    <3>2. c.reply.group = g
      BY <1>4, <2>3 DEF Owned
    <3> QED BY <1>0, <1>2, <2>1, <2>3, <3>1, <3>2, OwnedStep
  <2> QED BY <1>0, <1>2, <2>1, <2>2, <2>3, AfterEither
<1> QED BY <1>3, <1>4

\* StartServer(): a group becomes known, or one more server belongs to it.
LEMMA ServerKeeps ==
  ASSUME NEW S, Before(S), NEW n \in Node, StartServer(n)
  PROVE  After(S)
<1>0. /\ S = Seeds /\ SeedsOk(S) /\ config \in Seq(SUBSET Node)
      /\ Know(server, table, exchanges, S)
  BY DEF Before
<1>1. /\ Step(n) /\ UNCHANGED <<table, exchanges, config>> /\ server[n].phase = "found"
      /\ server'[n].group = server[n].group
      /\ server'[n].started \in {server[n].started, server[n].group}
  BY <1>0, ServerStep
<1>2. ASSUME Nobody(server, table, exchanges, config)
      PROVE  Groups(server', table', exchanges', config', S)
  BY <1>0, <1>1, <1>2, FirstServer DEF Groups
<1>3. ASSUME NEW k \in Node, NEW g \in 1..Len(config), Owned(k, g, server, table, exchanges, config, S)
      PROVE  Owned(k, g, server', table', exchanges', config', S)
  <2>1. /\ table[n].group \in {NoGroup, g} /\ server[n].started \in {NoGroup, g} /\ n # k
        /\ server[n].group = g
    BY <1>1, <1>3, OwnedFacts
  <2> QED BY <1>0, <1>1, <1>3, <2>1, OwnedStep
<1> QED BY <1>0, <1>1, <1>2, <1>3, AfterEither

\* A server is added to the group others know.
LEMMA Added ==
  ASSUME NEW n \in Node, NEW g \in 1..Len(config), config \in Seq(SUBSET Node),
         UNCHANGED config \/ config' = [config EXCEPT ![g] = @ \cup {n}]
  PROVE  /\ config' \in Seq(SUBSET Node) /\ Len(config') = Len(config)
         /\ \A h \in 1..Len(config) : h # g => config'[h] = config[h]
<1>1. CASE UNCHANGED config
  BY <1>1
<1>2. CASE config' = [config EXCEPT ![g] = @ \cup {n}]
  <2>1. PICK C : C = config[g] \cup {n}
    OBVIOUS
  <2>2. C \in SUBSET Node /\ config' = [config EXCEPT ![g] = C]
    BY <1>2, <2>1
  <2> QED BY <2>2
<1> QED BY <1>1, <1>2

\* Handshake() and FailHandshake(): only the group gets members.
LEMMA HandshakeKeeps ==
  ASSUME NEW S, Before(S), NEW n \in Node, Handshake(n) \/ FailHandshake(n)
  PROVE  After(S)
<1>0. /\ S = Seeds /\ SeedsOk(S) /\ config \in Seq(SUBSET Node)
      /\ Know(server, table, exchanges, S)
  BY DEF Before
<1>1. /\ Step(n) /\ UNCHANGED <<table, exchanges>> /\ server[n].phase = "handshake"
      /\ \/ server'[n].phase = "discovering" /\ ~server'[n].announced
         \/ server'[n].phase = "storing" /\ server'[n].group = server[n].group
      /\ server'[n].started = server[n].started
      /\ UNCHANGED config \/ config' = [config EXCEPT ![server[n].group] = @ \cup {n}]
  <2>1. CASE Handshake(n)
    BY <1>0, <2>1, HandshakeStep
  <2>2. CASE FailHandshake(n)
    BY <1>0, <2>2, FailStep
  <2> QED BY <2>1, <2>2
<1>2. ~Nobody(server, table, exchanges, config)
  BY <1>1 DEF Nobody
<1>3. ASSUME NEW k \in Node, NEW g \in 1..Len(config), Owned(k, g, server, table, exchanges, config, S)
      PROVE  /\ config' \in Seq(SUBSET Node) /\ g \in 1..Len(config')
             /\ Owned(k, g, server', table', exchanges', config', S)
  <2>1. /\ table[n].group \in {NoGroup, g} /\ server[n].started \in {NoGroup, g} /\ n # k
        /\ server[n].group = g
    BY <1>1, <1>3, OwnedFacts
  <2>2. UNCHANGED config \/ config' = [config EXCEPT ![g] = @ \cup {n}]
    BY <1>1, <2>1
  <2>3. /\ config' \in Seq(SUBSET Node) /\ Len(config') = Len(config)
        /\ \A h \in 1..Len(config) : h # g => config'[h] = config[h]
    BY <1>0, <2>2, Added
  <2>4. /\ Step(n) /\ UNCHANGED <<table, exchanges>>
        /\ \/ server'[n].phase = "discovering" /\ ~server'[n].announced
           \/ server'[n].phase = "storing" /\ server'[n].group = server[n].group
        /\ server'[n].started = server[n].started
    BY <1>1
  <2> QED BY <1>0, <1>3, <2>1, <2>3, <2>4, OwnedStep
<1>4. config' \in Seq(SUBSET Node)
  BY <1>2, <1>3 DEF Before, Groups
<1>5. Step(n)
  BY <1>1
<1> QED BY <1>2, <1>3, <1>4, <1>5, AfterEither

\* StoreGroup(): the group is stored, after which its creator does not forget it.
LEMMA StoreGroupKeeps ==
  ASSUME NEW S, Before(S), NEW n \in Node, StoreGroup(n)
  PROVE  After(S)
<1>0. /\ S = Seeds /\ SeedsOk(S) /\ config \in Seq(SUBSET Node)
      /\ Know(server, table, exchanges, S)
  BY DEF Before
<1>1. /\ Step(n) /\ UNCHANGED <<exchanges, config>> /\ server[n].phase = "storing"
      /\ server'[n].phase = "member" /\ server'[n].group = server[n].group
      /\ server'[n].started = server[n].started
      /\ table'[n].group = server[n].group /\ table'[n].peers = table[n].peers
  BY <1>0, StoreGroupStep
<1>2. ~Nobody(server, table, exchanges, config)
  BY <1>1 DEF Nobody
<1>3. ASSUME NEW k \in Node, NEW g \in 1..Len(config), Owned(k, g, server, table, exchanges, config, S)
      PROVE  Owned(k, g, server', table', exchanges', config', S)
  <2>1. server[n].started \in {NoGroup, g} /\ server[n].group = g
    BY <1>1, <1>3, OwnedFacts
  <2> QED BY <1>0, <1>1, <1>3, <2>1, OwnedStep
<1> QED BY <1>0, <1>1, <1>2, <1>3, AfterEither

\* LoseCall(): a call less.
LEMMA LoseKeeps ==
  ASSUME NEW S, Before(S), NEW c \in exchanges, LoseCall(c)
  PROVE  After(S)
<1>0. /\ S = Seeds /\ SeedsOk(S) /\ config \in Seq(SUBSET Node)
      /\ Know(server, table, exchanges, S)
  BY DEF Before
<1>1. PICK n : n = c.from
  OBVIOUS
<1>2. n \in Node
  BY <1>0, <1>1 DEF Know, Calls
<1>3. Step(n) /\ UNCHANGED <<server, table, config>> /\ exchanges' \subseteq exchanges
  BY <1>0, <1>1, LoseStep
<1>4. ASSUME Nobody(server, table, exchanges, config)
      PROVE  Groups(server', table', exchanges', config', S)
  BY <1>3, <1>4 DEF Groups, Nobody
<1>5. ASSUME NEW k \in Node, NEW g \in 1..Len(config), Owned(k, g, server, table, exchanges, config, S)
      PROVE  Owned(k, g, server', table', exchanges', config', S)
  <2>1. /\ table[n].group \in {NoGroup, g} /\ server[n].started \in {NoGroup, g}
        /\ server[n].announced \/ server[n].phase \notin {"off", "discovering"} => server[n].group = g
        /\ n = k => \/ server[n].phase = "storing" /\ server[n].via = n
                    \/ server[n].phase \in {"off", "member"} /\ table[n].group = g
    BY <1>2, <1>5, OwnedFacts
  <2> QED BY <1>0, <1>2, <1>3, <1>5, <2>1, OwnedStep
<1> QED BY <1>0, <1>2, <1>3, <1>4, <1>5, AfterEither

\* Crash(): the memory goes, the tables stay.
LEMMA CrashKeeps ==
  ASSUME NEW S, Before(S), NEW n \in Node, CrashServer(n)
  PROVE  After(S)
<1>0. /\ S = Seeds /\ SeedsOk(S) /\ config \in Seq(SUBSET Node)
      /\ Know(server, table, exchanges, S)
  BY DEF Before
<1>1. /\ Step(n) /\ UNCHANGED <<table, config>> /\ server'[n] = Off
      /\ \A d \in exchanges' : d.reply.kind = "group" => d \in exchanges
      /\ forgotten' \/ ~(server[n].via = n /\ server[n].phase = "storing")
  BY <1>0, CrashStep
<1>2. server'[n].phase = "off" /\ server'[n].started = NoGroup /\ ~server'[n].announced
  BY <1>1 DEF Off
<1>3. ASSUME Nobody(server, table, exchanges, config)
      PROVE  Groups(server', table', exchanges', config', S)
  <2>1. table[n].group = NoGroup /\ \A h \in 1..Len(config') : Single(config'[h])
    BY <1>1, <1>3 DEF Nobody
  <2>2. Nobody(server', table', exchanges', config')
    BY <1>0, <1>1, <1>2, <1>3, <2>1, NobodyStep
  <2> QED BY <2>2 DEF Groups
<1>4. ASSUME NEW k \in Node, NEW g \in 1..Len(config), Owned(k, g, server, table, exchanges, config, S), ~forgotten'
      PROVE  Owned(k, g, server', table', exchanges', config', S)
  <2>1. /\ table[n].group \in {NoGroup, g}
        /\ n = k => table[n].group = g
    BY <1>1, <1>4, OwnedFacts
  <2> QED BY <1>0, <1>1, <1>2, <1>4, <2>1, OwnedStep
<1> QED BY <1>0, <1>1, <1>3, <1>4, AfterEither

----------------------------------------------------------------------------
(* The theorem.                                                            *)

\* Every plan asks of the seeds what discovery.hh asks.
LEMMA PlanIsSound ==
  ASSUME SoundPlans, plan \in DOMAIN Plans
  PROVE  SeedsOk(Seeds) /\ Plans[plan].up \subseteq DOMAIN Seeds
BY DEF SoundPlans, SeedsOk, Seeds

\* Nobody knows anybody at first but the seeds.
LEMMA InitIsSound ==
  ASSUME SoundPlans, DiscoveryInit
  PROVE  IInv
<1>1. PICK S : S = Seeds
  OBVIOUS
<1>2. plan \in DOMAIN Plans /\ SeedsOk(S) /\ Plans[plan].up \subseteq DOMAIN S
  BY <1>1, PlanIsSound DEF DiscoveryInit
<1>3. /\ table = [n \in Node |-> [peers |-> NoPeers, group |-> NoGroup]]
      /\ server = [n \in Node |-> IF n \in Plans[plan].up THEN Discovering(n, NoGroup) ELSE Off]
      /\ exchanges = {} /\ config = << >>
  BY DEF DiscoveryInit
<1>4. table \in Tables /\ \A n \in Node : table[n].peers.ips = {} /\ table[n].group = NoGroup
  BY <1>3 DEF Tables, NoPeers, List, Lists, NoGroup
<1>5. TableOk(table, S)
  BY <1>2, <1>4 DEF TableOk, SeedsOk
<1>6. ASSUME NEW n \in Node
      PROVE  /\ NodeOk(n, server[n], table, S) /\ server[n].responded = {}
             /\ server[n].phase \in {"off", "discovering"} /\ server[n].started = NoGroup
             /\ ~server[n].announced
  <2>1. CASE n \in Plans[plan].up
    <3>1. server[n] = Discovering(n, NoGroup) /\ n \in DOMAIN S /\ NoGroup \in Nat
      BY <1>2, <1>3, <2>1 DEF NoGroup
    <3> QED BY <1>1, <1>2, <1>5, <3>1, DiscoveringOk
  <2>2. CASE n \notin Plans[plan].up
    <3>1. PICK t : t = Off
      OBVIOUS
    <3>2. server[n] = t
      BY <1>3, <2>2, <3>1
    <3>3. /\ t \in Memory /\ t.phase = "off" /\ ~t.leader /\ t.requests = {} /\ t.responded = {}
          /\ t.peers.ips = {} /\ t.started = NoGroup /\ ~t.announced
      BY <3>1 DEF Off, Memory, Phases, NoPeers, List, Lists, NoGroup
    <3> QED BY <3>2, <3>3 DEF NodeOk
  <2> QED BY <2>1, <2>2
<1>7. server \in [Node -> Memory]
  <2>1. \A n \in Node : server[n] \in Memory
    BY <1>6 DEF NodeOk
  <2>2. server = [n \in Node |-> server[n]]
    BY <1>3
  <2> QED BY <2>1, <2>2
<1>8. ASSUME NEW n \in Node, NEW p \in Node, NEW L \in SUBSET Node PROVE ~Answer(server, exchanges, n, p, L)
  BY <1>3, <1>6 DEF Answer
<1>9. Know(server, table, exchanges, S)
  BY <1>3, <1>5, <1>6, <1>7, <1>8 DEF Know, Met
<1>10. Nobody(server, table, exchanges, config)
  BY <1>3, <1>4, <1>6 DEF Nobody
<1>11. config \in Seq(SUBSET Node)
  BY <1>3
<1> QED BY <1>1, <1>2, <1>9, <1>10, <1>11 DEF IInv, Groups

\* Every step keeps the invariant.
LEMMA NextIsSound ==
  ASSUME SoundPlans, IInv, [DiscoveryNext]_discoveryVars
  PROVE  IInv'
<1>1. CASE UNCHANGED discoveryVars
  <2>1. UNCHANGED <<plan, server, table, exchanges, config, forgotten>>
    BY <1>1 DEF discoveryVars
  <2> QED BY <2>1 DEF IInv, Seeds
<1>2. CASE DiscoveryNext
  <2>1. PICK S : S = Seeds
    OBVIOUS
  <2>2. Before(S)
    <3>1. SeedsOk(S)
      BY <2>1, PlanIsSound DEF IInv
    <3>2. ~forgotten
      BY <1>2 DEF DiscoveryNext
    <3> QED BY <2>1, <3>1, <3>2 DEF IInv, Before
  <2>3. ASSUME NEW n \in Node, Run(n) \/ FailHandshake(n) \/ CrashServer(n)
        PROVE  After(S) /\ UNCHANGED plan
    <3>1. CASE Start(n)
      BY <2>2, <3>1, StartKeeps DEF Start
    <3>2. CASE Tick(n)
      BY <2>2, <3>2, TickKeeps DEF Tick
    <3>3. CASE StartServer(n)
      BY <2>2, <3>3, ServerKeeps DEF StartServer
    <3>4. CASE Handshake(n)
      BY <2>2, <3>4, HandshakeKeeps DEF Handshake
    <3>5. CASE StoreGroup(n)
      BY <2>2, <3>5, StoreGroupKeeps DEF StoreGroup
    <3>6. CASE FailHandshake(n)
      BY <2>2, <3>6, HandshakeKeeps DEF FailHandshake
    <3>7. CASE CrashServer(n)
      BY <2>2, <3>7, CrashKeeps DEF CrashServer
    <3> QED BY <2>3, <3>1, <3>2, <3>3, <3>4, <3>5, <3>6, <3>7 DEF Run
  <2>4. ASSUME NEW c \in exchanges, Serve(c) \/ LoseCall(c)
        PROVE  After(S) /\ UNCHANGED plan
    <3>1. CASE PeerExchange(c)
      BY <2>2, <3>1, ExchangeKeeps DEF PeerExchange
    <3>2. CASE OnReply(c)
      BY <2>2, <3>2, ReplyKeeps DEF OnReply
    <3>3. CASE LoseCall(c)
      BY <2>2, <3>3, LoseKeeps DEF LoseCall
    <3> QED BY <2>4, <3>1, <3>2, <3>3 DEF Serve
  <2>5. After(S) /\ UNCHANGED plan
    BY <1>2, <2>3, <2>4 DEF DiscoveryNext
  <2>6. Seeds' = S
    BY <2>1, <2>5 DEF Seeds
  <2> QED BY <2>5, <2>6 DEF After, IInv
<1> QED BY <1>1, <1>2

\* What the servers store and find is the one group.
LEMMA SoundIsOneGroup ==
  ASSUME IInv
  PROVE  OneGroup
<1>1. PICK S : S = Seeds
  OBVIOUS
<1>2. Cardinality({}) = 0 /\ \A x : Cardinality({x}) = 1
  BY FS_EmptySet, FS_Singleton
<1>3. \A C : Single(C) => Cardinality(C) = 1
  BY <1>2 DEF Single
<1>4. CASE forgotten
  BY <1>4 DEF OneGroup
<1>5. CASE Nobody(server, table, exchanges, config)
  <2>1. \A n, m \in Node : {table[n].group, table[m].group} \ {NoGroup} = {}
    BY <1>5 DEF Nobody
  <2>2. \A n, m \in Node : Cardinality({table[n].group, table[m].group} \ {NoGroup}) <= 1
    BY <1>2, <2>1
  <2>3. \A g \in 1..Len(config) : ~(Cardinality(config[g]) > 1)
    BY <1>3, <1>5 DEF Nobody
  <2>4. \A n \in Node : server[n].phase = "found" => server[n].started \in {NoGroup, server[n].group}
    BY <1>5 DEF Nobody
  <2> QED BY <2>2, <2>3, <2>4 DEF OneGroup
<1>6. CASE \E c \in Node, g \in 1..Len(config) : Owned(c, g, server, table, exchanges, config, S)
  <2>1. PICK c \in Node, g \in 1..Len(config) : Owned(c, g, server, table, exchanges, config, S)
    BY <1>6
  <2>2. ASSUME NEW n \in Node, NEW m \in Node
        PROVE  Cardinality({table[n].group, table[m].group} \ {NoGroup}) <= 1
    <3>1. PICK G : G = {table[n].group, table[m].group} \ {NoGroup}
      OBVIOUS
    <3>2. table[n].group \in {NoGroup, g} /\ table[m].group \in {NoGroup, g}
      BY <2>1, OwnedFacts
    <3>3. G = {} \/ G = {g}
      BY <3>1, <3>2
    <3>4. Cardinality(G) = 0 \/ Cardinality(G) = 1
      BY <1>2, <3>3
    <3> QED BY <3>1, <3>4
  <2>3. ASSUME NEW n \in Node, NEW h \in 1..Len(config), Cardinality(config[h]) > 1
        PROVE  table[n].group \in {NoGroup, h}
    <3>1. ~Single(config[h])
      BY <1>3, <2>3
    <3>2. h = g
      BY <2>1, <3>1 DEF Owned
    <3> QED BY <2>1, <3>2, OwnedFacts
  <2>4. ASSUME NEW n \in Node, server[n].phase = "found"
        PROVE  server[n].started \in {NoGroup, server[n].group}
    <3>1. server[n].started \in {NoGroup, g} /\ server[n].group = g
      BY <2>1, <2>4, OwnedFacts
    <3> QED BY <3>1
  <2> QED BY <2>2, <2>3, <2>4 DEF OneGroup
<1> QED BY <1>1, <1>4, <1>5, <1>6 DEF IInv, Groups

\* One group 0 comes out of discovery, whatever the number of servers, the order in which they
\* start, crash and hear of each other, and the calls and handshakes that fail, provided that the
\* seeds are as discovery.hh asks (and no creator crashes between announcing and storing it).
THEOREM OneGroupTheorem == SoundPlans => (DiscoverySpec => []OneGroup)
<1> SUFFICES ASSUME SoundPlans PROVE DiscoverySpec => []OneGroup
  OBVIOUS
<1>1. DiscoveryInit => IInv
  BY InitIsSound
<1>2. IInv /\ [DiscoveryNext]_discoveryVars => IInv'
  BY NextIsSound
<1>3. IInv => OneGroup
  BY SoundIsOneGroup
<1> QED BY <1>1, <1>2, <1>3, PTL DEF DiscoverySpec
=============================================================================
