------------------------------- MODULE Paxos -------------------------------
(* Lightweight transactions (service/paxos, paxos_response_handler and cas()  *)
(* of service/storage_proxy.cc) on one row.  A coordinator runs one operation *)
(* at a time: it prepares a ballot, finishes a round it finds in progress,     *)
(* repairs the replicas that miss the most recent commit, reads the row, has   *)
(* its update accepted and learned, and prunes what is learned.  Requests are  *)
(* delivered in any order, late, or never.                                     *)
(*                                                                            *)
(* The row holds the sequence of the writes applied to it: a write reads the   *)
(* row and appends itself, so the contents of the row tell which writes an     *)
(* operation saw.  A reply is handled by the coordinator in the step in which  *)
(* the replica sends it: a reply that is late or lost is a request delivered   *)
(* after the coordinator has given up or moved on.  The expiry of              *)
(* system.paxos rows, truncation and pending endpoints are not modelled.       *)
EXTENDS Naturals, FiniteSets, Sequences

CONSTANTS
  Replica,     \* the replicas of the row, all of them believed alive
  Plans,       \* the scenarios to explore
  Nil

LOCAL INSTANCE SequencesExt

VARIABLES
  plan,        \* the scenario
  row,         \* row[r]: the cells of system.paxos and of the base table at r
  cas,         \* cas[o]: operation o, a paxos_response_handler and its caller
  net,         \* requests under way
  before       \* before[o]: the operations that were over when o began (history)
vars == <<plan, row, cas, net, before>>

\* A scenario gives the operations, each with its coordinator (at), whether it
\* writes, the acks its learn waits for (cl), whether the replica closest to it is
\* among the first to answer (near), the operations its client waits for first
\* (after) and the waits that may time out (timeouts).  Bounds: ballots have
\* timestamps 1..max_ts, and of the requests that an operation does not wait for
\* at most "late" are delivered.
Requests == Plans[plan].requests
Op == DOMAIN Requests
Required == Cardinality(Replica) \div 2 + 1

----------------------------------------------------------------------------
(* Cells: the newest timestamp wins, and at equal timestamps a deletion does.  *)

Dead == Nil
Cell(ts, v) == [ts |-> ts, v |-> v]
NoCell == Cell(0, Dead)
Merge(c, d) == IF d.ts > c.ts \/ (d.ts = c.ts /\ d.v = Dead) THEN d ELSE c

\* Ballots are unique (the random part of the UUID) and compared by timestamp.
NoBallot == [ts |-> 0, op |-> Nil]

\* An update is the cell to write, or the empty mutation.
Empty == Nil
Apply(data, update) == IF update = Empty THEN data ELSE Merge(data, update)
Newest(S) == CHOOSE c \in S : \A d \in S : c.ts >= d.ts

NewRow == [promise |-> NoBallot, proposal |-> NoCell, commit_at |-> NoBallot,
           commit |-> NoCell, data |-> Cell(0, << >>)]

\* What load_paxos_state makes of a row; a pruned commit comes back empty.
Accepted(x) == IF x.proposal.v = Dead THEN {} ELSE {x.proposal.v}
MostRecentCommit(x) ==
  IF x.commit_at = NoBallot THEN {}
  ELSE {[ballot |-> x.commit_at, update |-> IF x.commit.v = Dead THEN Empty ELSE x.commit.v]}

SavePromise(x, b) == [x EXCEPT !.promise = b]
SaveProposal(x, p) ==
  [x EXCEPT !.promise = p.ballot, !.proposal = Merge(@, Cell(p.ballot.ts, p))]
SaveDecision(x, p) ==
  [x EXCEPT !.proposal = Merge(@, Cell(p.ballot.ts, Dead)),
            !.commit_at = IF p.ballot.ts > @.ts THEN p.ballot ELSE @,
            !.commit = Merge(@, Cell(p.ballot.ts, p.update))]
DeleteDecision(x, b) == [x EXCEPT !.commit = Merge(@, Cell(b.ts, Dead))]

----------------------------------------------------------------------------
(* The coordinator                                                         *)

Request(type, o, round, prop, to) ==
  {[type |-> type, op |-> o, round |-> round, prop |-> prop, to |-> r] : r \in to}

Idle == [phase |-> "idle", ballot |-> NoBallot, promises |-> {}, prop |-> Nil,
         acks |-> {}, rejects |-> {}, learned |-> 0, value |-> << >>]

\* The phases in which a coordinator waits; "again" is the head of the loop of
\* begin_and_repair_paxos, "condition" its return.
Waiting == {"again", "prepare", "finish", "finish_learn", "repair", "condition", "read", "accept", "learn"}

Enter(h, phase) == [h EXCEPT !.phase = phase, !.promises = {}, !.acks = {}, !.rejects = {}, !.prop = Nil]
Entering(h, phase, prop) == [Enter(h, phase) EXCEPT !.prop = prop]

\* The proposal a promise carries that is to be finished, if any: the newest one,
\* unless the newest commit is at least as new.
NewestProposal(S) == CHOOSE p \in S : \A q \in S : p.ballot.ts >= q.ballot.ts
\* Faulty variant: rounds in progress are left to their coordinators.
InProgress_None(promises) == {}
InProgress(promises) ==
  LET seen == UNION {p.accepted : p \in promises}
      commits == UNION {p.commit : p \in promises}
  IN  IF seen = {} THEN {}
      ELSE {p \in {NewestProposal(seen)} : \A c \in commits : p.ballot.ts > c.ballot.ts}
MissingCommit(promises) ==
  LET commits == UNION {p.commit : p \in promises}
  IN  IF commits = {} THEN {}
      ELSE {p.from : p \in {q \in promises : \A c \in q.commit : c.ballot # NewestProposal(commits).ballot}}

\* Enough promises: finish the round in progress, or repair the replicas that miss
\* the newest commit, or go on to the condition.
Prepared(o, h) ==
  LET commits == UNION {p.commit : p \in h.promises}
      missing == MissingCommit(h.promises)
  IN  CASE InProgress(h.promises) # {} ->
             LET p == [ballot |-> h.ballot, update |-> (CHOOSE q \in InProgress(h.promises) : TRUE).update]
             IN  [h |-> Entering(h, "finish", p), sent |-> Request("accept", o, h.ballot, p, Replica)]
        [] InProgress(h.promises) = {} /\ missing # {} ->
             [h |-> [h EXCEPT !.phase = "repair"],
              sent |-> Request("repair", o, h.ballot, NewestProposal(commits), missing)]
        [] OTHER -> [h |-> [h EXCEPT !.phase = "condition"], sent |-> {}]

OnPromise(o, h, reply) ==
  LET got == [h EXCEPT !.promises = @ \cup {reply}]
  IN  IF Cardinality(got.promises) = Required THEN Prepared(o, got) ELSE [h |-> got, sent |-> {}]

\* One more answer to accept_proposal.
\* Faulty variant: a new proposal is given up as soon as enough replicas rejected it.
Outcome_FailFast(h) ==
  CASE Cardinality(h.acks) = Required -> "accepted"
    [] Cardinality(h.acks) < Required /\ Required + Cardinality(h.rejects) > Cardinality(Replica) -> "rejected"
    [] OTHER -> "wait"
Outcome(h) ==
  CASE Cardinality(h.acks) = Required -> "accepted"
    [] Cardinality(h.acks) < Required /\ h.phase = "finish"
       /\ Required + Cardinality(h.rejects) > Cardinality(Replica) -> "rejected"
    [] Cardinality(h.acks) < Required /\ h.acks \cup h.rejects = Replica /\ h.phase = "accept" ->
         IF h.acks = {} THEN "rejected" ELSE "uncertain"
    [] OTHER -> "wait"
OnAnswer(o, h, r, yes) ==
  LET got == IF yes THEN [h EXCEPT !.acks = @ \cup {r}] ELSE [h EXCEPT !.rejects = @ \cup {r}]
      next == IF h.phase = "finish" THEN "finish_learn" ELSE "learn"
  IN  CASE Outcome(got) = "accepted" ->
             [h |-> Entering(h, next, h.prop), sent |-> Request("learn", o, h.ballot, h.prop, Replica)]
        [] Outcome(got) = "rejected" -> [h |-> Enter(h, "again"), sent |-> {}]
        [] Outcome(got) = "uncertain" -> [h |-> Enter(h, "failed"), sent |-> {}]
        [] OTHER -> [h |-> got, sent |-> {}]

\* A read proposes the empty mutation and needs one ack of its learn only.
LearnAcks(o, h) ==
  IF h.phase = "learn" /\ ~Requests[o].write THEN 1 ELSE Requests[o].cl

\* An ack of a learn: learned() counts it and may start the pruning of the ballot
\* of that learn, and the learn that is being waited for may have enough of them.
Learned(h) == [h EXCEPT !.learned = IF @ < Required THEN @ + 1 ELSE @]
Prunes(h) == h.learned < Required /\ Learned(h).learned = Required
OnLearned(o, h, m) ==
  LET counted == Learned(h)
      current == h.phase \in {"learn", "finish_learn"} /\ h.ballot = m.round
      got == IF current THEN [counted EXCEPT !.acks = @ \cup {m.to}] ELSE counted
      enough == current /\ Cardinality(got.acks) >= LearnAcks(o, h)
  IN  [h |-> CASE enough /\ h.phase = "learn" -> Enter(got, "done")
               [] enough /\ h.phase = "finish_learn" -> Enter(got, "again")
               [] OTHER -> got,
       sent |-> IF Prunes(h) THEN Request("prune", o, m.round, Nil, Replica) ELSE {}]

----------------------------------------------------------------------------
(* Actions                                                                 *)

Init ==
  /\ plan \in DOMAIN Plans
  /\ row = [r \in Replica |-> NewRow]
  /\ cas = [o \in Op |-> Idle]
  /\ net = {}
  /\ before = [o \in Op |-> {}]

\* cas() takes the lock of the key on its shard.
Begin(o) ==
  /\ cas[o].phase = "idle"
  /\ \A p \in Requests[o].after : cas[p].phase \in {"done", "failed"}
  /\ \A p \in Op : Requests[p].at = Requests[o].at => cas[p].phase \notin Waiting
  /\ cas' = [cas EXCEPT ![o].phase = "again"]
  /\ before' = [before EXCEPT ![o] = {p \in Op : cas[p].phase = "done"}]
  /\ UNCHANGED <<row, net>>

\* A new round: get_timestamp_for_paxos follows the clock of the coordinator, which
\* may be any, and never returns the same timestamp twice for a client.
SendPrepare(o, ts) ==
  /\ cas[o].phase = "again"
  /\ ts > cas[o].ballot.ts
  /\ \E p \in Op : ts <= cas[p].ballot.ts + 1
  /\ LET b == [ts |-> ts, op |-> o]
     IN  /\ cas' = [cas EXCEPT ![o].phase = "prepare", ![o].ballot = b]
         /\ net' = net \cup Request("prepare", o, b, Nil, Replica)
  /\ UNCHANGED <<row, before>>

\* Operation o becomes h and sends requests.  Of the requests that o does not wait
\* for, those under way in msgs included, at most "late" will ever be delivered.
Step(o, h, msgs, sent) ==
  LET mine == {m \in msgs \cup sent : m.op = o}
      awaited == IF h.phase = cas[o].phase /\ h.phase \in Waiting THEN mine
                 ELSE {m \in sent : m.type # "prune"}
  IN  /\ cas' = [cas EXCEPT ![o] = h]
      /\ \E late \in SUBSET (mine \ awaited) :
           /\ Cardinality(late) <= Requests[o].late
           /\ net' = {m \in msgs : m.op # o} \cup late \cup awaited

\* What the coordinator of m makes of a reply, res, if it still waits for it.
Reply(m, phases, res) ==
  IF cas[m.op].phase \in phases /\ cas[m.op].ballot = m.round
  THEN Step(m.op, res.h, net \ {m}, res.sent)
  ELSE cas' = cas /\ net' = net \ {m}

Prepare(m) ==
  LET x == row[m.to]
      h == cas[m.op]
      yes == m.round.ts > x.promise.ts
      promise == [from |-> m.to, accepted |-> Accepted(x), commit |-> MostRecentCommit(x), data |-> x.data]
  IN  /\ m.type = "prepare"
      /\ row' = IF yes THEN [row EXCEPT ![m.to] = SavePromise(x, m.round)] ELSE row
      /\ Reply(m, {"prepare"},
               IF yes THEN OnPromise(m.op, h, promise) ELSE [h |-> Enter(h, "again"), sent |-> {}])
      /\ UNCHANGED before

MayAccept(x, b) == b = x.promise \/ b.ts > x.promise.ts
Accept(m) ==
  LET x == row[m.to]
      yes == MayAccept(x, m.round)
  IN  /\ m.type = "accept"
      /\ row' = IF yes THEN [row EXCEPT ![m.to] = SaveProposal(x, m.prop)] ELSE row
      /\ Reply(m, {"finish", "accept"}, OnAnswer(m.op, cas[m.op], m.to, yes))
      /\ UNCHANGED before

\* learn() applies the update, and in a second step records the decision; a replica
\* that crashes in between has the one without the other.  When the operation has failed,
\* the response handler of an earlier learn may still be there to count the ack, or not.
Learn(m) ==
  /\ m.type \in {"learn", "repair"}
  /\ row' = [row EXCEPT ![m.to].data = Apply(@, m.prop.update)]
  /\ net' = (net \ {m}) \cup {[m EXCEPT !.type = IF @ = "learn" THEN "decision" ELSE "repaired"]}
  /\ UNCHANGED <<cas, before>>
Decide(m) ==
  /\ m.type = "decision"
  /\ row' = [row EXCEPT ![m.to] = SaveDecision(@, m.prop)]
  /\ \/ LET res == OnLearned(m.op, cas[m.op], m) IN Step(m.op, res.h, net \ {m}, res.sent)
     \/ cas[m.op].phase = "failed" /\ cas' = cas /\ net' = net \ {m}
  /\ UNCHANGED before
\* One ack is enough to go on: the repair is written with consistency level ANY.
Repaired(m) ==
  /\ m.type = "repaired"
  /\ row' = [row EXCEPT ![m.to] = SaveDecision(@, m.prop)]
  /\ Reply(m, {"repair"}, [h |-> [cas[m.op] EXCEPT !.phase = "condition"], sent |-> {}])
  /\ UNCHANGED before

Prune(m) ==
  /\ m.type = "prune"
  /\ row' = [row EXCEPT ![m.to] = DeleteDecision(@, m.round)]
  /\ net' = net \ {m}
  /\ UNCHANGED <<cas, before>>

\* The update of o, given what it read, is proposed to every replica.
Propose(o, h, value) ==
  LET update == IF Requests[o].write THEN Cell(h.ballot.ts, Append(value, o)) ELSE Empty
      p == [ballot |-> h.ballot, update |-> update]
  IN  /\ cas' = [cas EXCEPT ![o] = [Entering(h, "accept", p) EXCEPT !.value = value]]
      /\ net' = net \cup Request("accept", o, h.ballot, p, Replica)

\* The promises carried the same data, and one of them the data itself ...
UsePrefetched(o) ==
  /\ cas[o].phase = "condition" /\ Requests[o].near
  /\ \E d \in {p.data : p \in cas[o].promises} :
       /\ \A p \in cas[o].promises : p.data = d
       /\ Propose(o, cas[o], d.v)
  /\ UNCHANGED <<row, before>>
\* ... or not (the closest replica sends the data, the others a digest): a quorum
\* read, each replica at a moment of its own, which repairs the replicas it reads.
StartRead(o) ==
  /\ cas[o].phase = "condition"
  /\ Requests[o].near => \E p, q \in cas[o].promises : p.data # q.data
  /\ cas' = [cas EXCEPT ![o] = Enter(@, "read")]
  /\ UNCHANGED <<row, net, before>>
Read(o, r) ==
  LET h == [cas[o] EXCEPT !.promises = @ \cup {[from |-> r, data |-> row[r].data]}]
      newest == Newest({p.data : p \in h.promises})
  IN  /\ cas[o].phase = "read"
      /\ \A p \in cas[o].promises : p.from # r
      /\ IF Cardinality(h.promises) < Required
         THEN cas' = [cas EXCEPT ![o] = h] /\ UNCHANGED <<row, net>>
         ELSE /\ Propose(o, h, newest.v)
              /\ row' = [s \in Replica |-> IF \E p \in h.promises : p.from = s
                                           THEN [row[s] EXCEPT !.data = Merge(@, newest)] ELSE row[s]]
      /\ UNCHANGED before

\* A request of o times out, or its coordinator crashes.  A repair that fails is no
\* error: the loop of begin_and_repair_paxos starts over.
Timeout(o) ==
  /\ cas[o].phase \in Requests[o].timeouts
  /\ Step(o, Enter(cas[o], IF cas[o].phase = "repair" THEN "again" ELSE "failed"), net, {})
  /\ UNCHANGED <<row, before>>

Next ==
  /\ UNCHANGED plan
  /\ \/ \E o \in Op : Begin(o) \/ UsePrefetched(o) \/ StartRead(o) \/ Timeout(o)
     \/ \E o \in Op, ts \in 1..Plans[plan].max_ts : SendPrepare(o, ts)
     \/ \E o \in Op, r \in Replica : Read(o, r)
     \/ \E m \in net : Prepare(m) \/ Accept(m) \/ Learn(m) \/ Decide(m) \/ Repaired(m) \/ Prune(m)

Spec == Init /\ [][Next]_vars

----------------------------------------------------------------------------
(* Properties                                                              *)

Result(o) == IF Requests[o].write THEN Append(cas[o].value, o) ELSE cas[o].value
Over == {o \in Op : cas[o].phase = "done"}
InOrder(s, t) == IsPrefix(s, t) \/ IsPrefix(t, s)

\* Lightweight transactions are linearizable (docs/features/lwt.rst): the operations
\* that completed saw the writes of one common order, and each saw the writes and
\* the results of those that had completed when it began, whatever other rounds were
\* in progress, abandoned, finished by others, or repeated with a new ballot.
CasIsLinearizable ==
  \A o, p \in Over :
    /\ InOrder(Result(o), Result(p))
    /\ p \in before[o] => IsPrefix(Result(p), cas[o].value)

\* An update is applied to the row at most once: cas() proposes its update again only
\* when it is certain that nobody can finish the round that was rejected.
AppliedOnce == \A r \in Replica : IsInjective(row[r].data.v)
=============================================================================
