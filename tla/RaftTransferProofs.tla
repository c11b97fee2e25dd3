------------------------- MODULE RaftTransferProofs -------------------------
(***************************************************************************)
(* Proofs about RaftTransfer for any set of peers and any number of        *)
(* changes of role, transfers and reads, while there are other voters.     *)
(***************************************************************************)
EXTENDS RaftTransfer, FiniteSetTheorems, TLAPS

Wanted(S) == {m \in S : m.type = "install_snapshot"}

\* A batch is worked off before the next one is taken, and what is in it is not newer
\* than the moment it was taken at.
BatchesInOrder ==
  /\ reached <= role.gen
  /\ batch.stage = "idle" => batch = Idle
  /\ batch.stage # "idle" => reached <= batch.gen /\ batch.gen <= role.gen /\ batch.conf = polled
  /\ batch.stage = "committing" => reached = batch.gen
  /\ batch.stage # "storing" => batch.messages = {} /\ rpc = polled
  /\ conf = polled \/ rpc = polled

\* No two requests or replies to one server are queued or in the batch in hand.
NoDuplicates ==
  /\ \A m, n \in messages : m.type = n.type /\ m.peer = n.peer => m = n
  /\ \A m, n \in batch.messages : m.type = n.type /\ m.peer = n.peer => m = n
  /\ \A m \in messages, n \in batch.messages : m.type = n.type => m.peer # n.peer

\* A server has promised a reply exactly if one is on its way.
Promised ==
  \A p \in Peer : p \in promised <=>
    \E m \in messages \cup batch.messages : m.type = "snapshot_reply" /\ m.peer = p

\* Calls are told apart by their numbers; one that is not aborted is the transfer that
\* is remembered, and transfers are remembered only to servers the RPC module knows.
CallsTracked ==
  /\ \A p \in Peer : transfers[p] <= started[p] /\ (transfers[p] # 0 => p \in rpc)
  /\ \A p \in Peer : <<p, transfers[p]>> \notin aborted
  /\ \A x \in aborted : 0 < x[2] /\ x[2] <= started[x[1]]
  /\ \A c \in calls : 0 < c.number /\ c.number <= started[c.peer]
  /\ \A c \in calls : <<c.peer, c.number>> \in aborted \/ transfers[c.peer] = c.number
  /\ \A c, d \in calls : c.peer = d.peer /\ c.number = d.number => c = d

\* While a transfer is requested none is remembered, and the RPC module will know the
\* server when it starts.
RequestsClear ==
  /\ \A m \in Wanted(messages) : transfers[m.peer] = 0 /\ m.peer \in conf \cup polled
  /\ \A m \in Wanted(batch.messages) : transfers[m.peer] = 0 /\ m.peer \in polled \cup rpc

\* The leader's progress: a follower that may be sent a snapshot has none requested or
\* under way, and one in state SNAPSHOT has.
ProgressExact ==
  Leads => \A p \in Peer :
    /\ progress[p] = "none" <=> p \notin conf
    /\ progress[p] = "probe" =>
         transfers[p] = 0 /\ \A m \in Wanted(messages \cup batch.messages) : m.peer # p
    /\ progress[p] = "snapshot" =>
         \/ Msg("install_snapshot", p, role.gen) \in messages \cup batch.messages
         \/ \E c \in calls : c.peer = p /\ c.gen = role.gen /\ <<p, c.number>> \notin aborted

\* All that a leader has to do with is of its own leadership; and reads and the quorum
\* that answers them are always of the same one.
OneLeadership ==
  /\ Leads =>
       /\ \A m \in Wanted(messages \cup batch.messages) : m.gen = role.gen
       /\ \A c \in calls : <<c.peer, c.number>> \in aborted \/ c.gen = role.gen
       /\ \A k \in 1..Len(reads) : reads[k].gen = role.gen
       /\ quorum.id > 0 => quorum.gen = role.gen
       /\ batch.quorum.id > 0 => batch.quorum.gen = role.gen
  /\ \A k \in 1..Len(reads) : reads[k].id > 0
  /\ \A k \in 1..Len(reads) : /\ quorum.id > 0 => reads[k].gen = quorum.gen
                              /\ batch.quorum.id > 0 => reads[k].gen = batch.quorum.gen

\* Nothing of an earlier leadership is left in the fsm, or in the whole server.
FsmDrained == Wanted(messages) = {} /\ quorum.id = 0
Drained ==
  /\ FsmDrained /\ Wanted(batch.messages) = {} /\ batch.quorum.id = 0
  /\ reads = << >> /\ \A p \in Peer : transfers[p] = 0

\* A server that does not lead has got rid of its last leadership in two steps: a batch
\* taken in its present role empties the fsm, and the end of a batch the rest.  A
\* candidate has seen a batch of the role before leave, so that batch ends before one
\* of its own does.
DrainedInTime ==
  /\ ~Leads /\ batch.stage # "idle" /\ batch.gen = role.gen => FsmDrained
  /\ ~Leads /\ reached = role.gen => FsmDrained /\ (batch.stage = "committing" \/ Drained)
  /\ role.kind = "candidate" =>
       /\ reached + 1 >= role.gen /\ FsmDrained
       /\ (batch.stage = "committing" /\ batch.gen + 1 = role.gen) \/ Drained

IInv ==
  /\ TransferTypeOK /\ BatchesInOrder /\ NoDuplicates /\ Promised /\ CallsTracked /\ RequestsClear
  /\ ProgressExact /\ OneLeadership /\ DrainedInTime

----------------------------------------------------------------------------
\* A server that starts as a leader with nothing under way satisfies the invariant.
LEMMA InitIInv == TransferInit => IInv
<1> SUFFICES ASSUME TransferInit PROVE IInv
  OBVIOUS
<1>1. TransferTypeOK
  BY DEF TransferInit, TransferTypeOK, Idle, NoQuorum, Messages, ReadIds
<1>2. BatchesInOrder
  BY DEF TransferInit, BatchesInOrder, Idle
<1>3. NoDuplicates /\ Promised /\ RequestsClear
  BY DEF TransferInit, NoDuplicates, Promised, RequestsClear, Idle, Wanted
<1>4. CallsTracked
  BY DEF TransferInit, CallsTracked
<1>5. ProgressExact
  BY DEF TransferInit, ProgressExact, Idle, Wanted
<1>6. OneLeadership
  BY DEF TransferInit, OneLeadership, Idle, Wanted, NoQuorum
<1>7. DrainedInTime
  BY DEF TransferInit, DrainedInTime, Leads
<1> QED BY <1>1, <1>2, <1>3, <1>4, <1>5, <1>6, <1>7 DEF IInv

\* Changes of role (fsm::become_follower(), become_candidate(), become_leader()) keep it: a
\* candidate that wins has seen a batch of its candidacy leave, and so everything of its
\* last leadership go.
LEMMA BecomeStep ==
  ASSUME IInv, ~SoleVoter, BecomeFollower \/ ElectionTimeout \/ BecomeCandidate \/ BecomeLeader
  PROVE  IInv'
<1> USE DEF IInv
<1>1. PICK kind \in {"leader", "follower", "precandidate", "candidate"} :
        /\ Become(kind)
        /\ kind = "leader" => role.kind = "candidate" /\ reached = role.gen
        /\ kind = "candidate" => role.kind # "leader" /\ reached = role.gen
  <2>1. role.kind # "leader" => ~Leads
    BY DEF Leads
  <2> QED BY DEF BecomeFollower, ElectionTimeout, BecomeCandidate, BecomeLeader, HasAsked
<1>2. /\ role' = [kind |-> kind, gen |-> role.gen + 1]
      /\ role'.kind = kind /\ role'.gen = role.gen + 1
      /\ role.gen \in Nat
      /\ UNCHANGED <<conf, messages, quorum, polled, batch, rpc, reached,
                     transfers, started, calls, aborted, reads, promised>>
  BY <1>1 DEF Become, ioVars, serverVars, TransferTypeOK
<1>3. kind = "leader" =>
        Drained /\ progress' = [p \in Peer |-> IF p \in conf THEN "probe" ELSE "none"]
  <2>1. SUFFICES ASSUME kind = "leader" PROVE Drained
    BY <1>1 DEF Become
  <2>2. ~Leads /\ reached = role.gen /\ role.kind = "candidate"
    BY <1>1, <2>1 DEF Leads
  <2>3. batch.stage = "committing" => batch.gen = role.gen
    BY <2>2 DEF BatchesInOrder
  <2> QED BY <1>2, <2>2, <2>3 DEF DrainedInTime
<1>4. TransferTypeOK'
  <2>1. progress' \in [Peer -> {"probe", "snapshot", "none"}] /\ lastRead' \in Nat
    BY <1>1 DEF Become, TransferTypeOK
  <2> QED BY SMTT(60), <1>2, <2>1 DEF TransferTypeOK
<1>5. BatchesInOrder'
  BY <1>2 DEF BatchesInOrder, TransferTypeOK
<1>6. NoDuplicates' /\ Promised' /\ CallsTracked' /\ RequestsClear'
  BY <1>2 DEF NoDuplicates, Promised, CallsTracked, RequestsClear, Wanted
<1>7. ProgressExact'
  BY <1>2, <1>3 DEF ProgressExact, Leads, Drained, FsmDrained, Wanted
<1>8. OneLeadership'
  <2>1. CASE kind = "leader"
    <3>1. \A c \in calls : <<c.peer, c.number>> \in aborted
      <4> TAKE c \in calls
      <4>1. c.peer \in Peer /\ 0 < c.number
        BY DEF CallsTracked, TransferTypeOK
      <4> QED BY <1>3, <2>1, <4>1 DEF Drained, CallsTracked
    <3>2. Wanted(messages \cup batch.messages) = {}
      BY <1>3, <2>1 DEF Drained, FsmDrained, Wanted
    <3>3. Len(reads) = 0 /\ quorum.id = 0 /\ batch.quorum.id = 0
      BY <1>3, <2>1 DEF Drained, FsmDrained
    <3>4. 1..Len(reads') = {}
      BY <1>2, <3>3
    <3>5. Wanted(messages' \cup batch'.messages) = {}
      BY <1>2, <3>2
    <3>6. ~(quorum'.id > 0) /\ ~(batch'.quorum.id > 0)
      BY <1>2, <3>3
    <3>7. \A c \in calls' : <<c.peer, c.number>> \in aborted'
      BY <1>2, <3>1
    <3> QED BY <3>4, <3>5, <3>6, <3>7 DEF OneLeadership
  <2>2. CASE kind # "leader"
    BY <1>2, <2>2 DEF OneLeadership, Leads
  <2> QED BY <2>1, <2>2
<1>9. DrainedInTime'
  <2>1. ~(batch.stage # "idle" /\ batch.gen = role'.gen) /\ reached # role'.gen
    BY <1>2 DEF BatchesInOrder, TransferTypeOK
  <2>2. kind = "candidate" =>
          /\ reached + 1 >= role'.gen /\ FsmDrained
          /\ (batch.stage = "committing" /\ batch.gen + 1 = role'.gen) \/ Drained
    BY <1>1, <1>2 DEF DrainedInTime, BatchesInOrder, TransferTypeOK, Leads
  <2> QED BY <1>2, <2>1, <2>2 DEF DrainedInTime, Leads, Drained, FsmDrained, Wanted
<1> QED BY <1>4, <1>5, <1>6, <1>7, <1>8, <1>9

\* replicate_to() keeps it: only a follower with no transfer is sent a snapshot.
LEMMA ReplicateToStep ==
  ASSUME IInv, ~SoleVoter, NEW p \in Peer, ReplicateTo(p)
  PROVE  IInv'
<1> USE DEF IInv
<1> DEFINE new == Msg("install_snapshot", p, role.gen)
<1>1. /\ Leads /\ progress[p] = "probe"
      /\ progress' = [progress EXCEPT ![p] = "snapshot"]
      /\ messages' = messages \cup {new}
      /\ UNCHANGED <<role, conf, quorum, lastRead, polled, batch, rpc, reached, transfers, started,
                     calls, aborted, reads, promised>>
  BY DEF ReplicateTo, ioVars, serverVars
<1>2. new \in Messages /\ new.type = "install_snapshot" /\ new.peer = p /\ new.gen = role.gen
  BY DEF Msg, Messages, TransferTypeOK
<1>3. /\ transfers[p] = 0 /\ p \in conf
      /\ \A m \in Wanted(messages \cup batch.messages) : m.peer # p
  BY <1>1 DEF ProgressExact
<1> HIDE DEF new
<1>4. TransferTypeOK'
  BY <1>1, <1>2 DEF TransferTypeOK
<1>5. BatchesInOrder'
  BY <1>1 DEF BatchesInOrder
<1>6. NoDuplicates'
  BY <1>1, <1>2, <1>3 DEF NoDuplicates, Wanted
<1>7. Promised' /\ CallsTracked'
  BY <1>1, <1>2 DEF Promised, CallsTracked
<1>8. RequestsClear'
  BY <1>1, <1>2, <1>3 DEF RequestsClear, Wanted
<1>9. ProgressExact'
  <2> SUFFICES ASSUME NEW q \in Peer
               PROVE  /\ progress'[q] = "none" <=> q \notin conf
                      /\ progress'[q] = "probe" =>
                           transfers[q] = 0 /\ \A m \in Wanted(messages' \cup batch.messages) : m.peer # q
                      /\ progress'[q] = "snapshot" =>
                           \/ Msg("install_snapshot", q, role.gen) \in messages' \cup batch.messages
                           \/ \E c \in calls : c.peer = q /\ c.gen = role.gen /\ <<q, c.number>> \notin aborted
    BY <1>1 DEF ProgressExact, Leads
  <2>1. CASE q = p
    BY <1>1, <1>3, <2>1 DEF TransferTypeOK, new
  <2>2. CASE q # p
    BY <1>1, <1>2, <2>2 DEF ProgressExact, TransferTypeOK, Wanted
  <2> QED BY <2>1, <2>2
<1>10. OneLeadership'
  BY <1>1, <1>2 DEF OneLeadership, Leads, Wanted
<1>11. DrainedInTime'
  BY <1>1 DEF DrainedInTime, Leads
<1> QED BY <1>4, <1>5, <1>6, <1>7, <1>8, <1>9, <1>10, <1>11

\* A change of the configuration keeps it: a server that comes back has lost its transfer.
LEMMA ChangeConfigurationStep ==
  ASSUME IInv, ~SoleVoter, NEW p \in Peer, ChangeConfiguration(p)
  PROVE  IInv'
<1> USE DEF IInv
<1>1. /\ Leads /\ conf = rpc
      /\ conf' = IF p \in conf THEN conf \ {p} ELSE conf \cup {p}
      /\ progress' = [progress EXCEPT ![p] = IF p \in conf THEN "none" ELSE "probe"]
      /\ UNCHANGED <<role, messages, quorum, lastRead, polled, batch, rpc, reached, transfers, started,
                     calls, aborted, reads, promised>>
  BY DEF ChangeConfiguration, ioVars, serverVars
<1>2. conf = polled
  BY <1>1 DEF BatchesInOrder
<1>3. p \notin conf =>
        transfers[p] = 0 /\ \A m \in Wanted(messages \cup batch.messages) : m.peer # p
  BY <1>1, <1>2 DEF CallsTracked, RequestsClear, Wanted
<1>4. TransferTypeOK'
  BY <1>1 DEF TransferTypeOK
<1>5. BatchesInOrder'
  BY <1>1, <1>2 DEF BatchesInOrder
<1>6. NoDuplicates' /\ Promised' /\ CallsTracked'
  BY <1>1 DEF NoDuplicates, Promised, CallsTracked
<1>7. RequestsClear'
  BY <1>1, <1>2 DEF RequestsClear
<1>8. ProgressExact'
  <2> SUFFICES ASSUME NEW q \in Peer
               PROVE  /\ progress'[q] = "none" <=> q \notin conf'
                      /\ progress'[q] = "probe" =>
                           transfers[q] = 0 /\ \A m \in Wanted(messages \cup batch.messages) : m.peer # q
                      /\ progress'[q] = "snapshot" =>
                           \/ Msg("install_snapshot", q, role.gen) \in messages \cup batch.messages
                           \/ \E c \in calls : c.peer = q /\ c.gen = role.gen /\ <<q, c.number>> \notin aborted
    BY <1>1 DEF ProgressExact, Leads
  <2>1. CASE q = p
    BY <1>1, <1>3, <2>1 DEF TransferTypeOK
  <2>2. CASE q # p
    BY ZenonT(60), <1>1, <2>2 DEF ProgressExact, TransferTypeOK
  <2> QED BY <2>1, <2>2
<1>9. OneLeadership'
  BY <1>1 DEF OneLeadership, Leads
<1>10. DrainedInTime'
  BY <1>1 DEF DrainedInTime, Leads
<1> QED BY <1>4, <1>5, <1>6, <1>7, <1>8, <1>9, <1>10

\* execute_read_barrier() keeps it: the read is of the present leadership.
LEMMA StartReadStep ==
  ASSUME IInv, StartRead
  PROVE  IInv'
<1> USE DEF IInv
<1> DEFINE new == [id |-> lastRead + 1, gen |-> role.gen]
<1>1. /\ Leads /\ lastRead' = lastRead + 1 /\ reads' = Append(reads, new)
      /\ UNCHANGED <<role, conf, progress, messages, quorum, polled, batch, rpc, reached, transfers,
                     started, calls, aborted, promised>>
  BY DEF StartRead, ioVars
<1>2. new \in ReadIds /\ new.id > 0 /\ new.gen = role.gen
  BY DEF TransferTypeOK, ReadIds
<1> HIDE DEF new
<1>3. /\ reads' \in Seq(ReadIds) /\ Len(reads') = Len(reads) + 1
      /\ \A k \in 1..Len(reads') :
           reads'[k] = new \/ (k \in 1..Len(reads) /\ reads'[k] = reads[k])
  BY <1>1, <1>2 DEF TransferTypeOK
<1>4. TransferTypeOK'
  BY <1>1, <1>3 DEF TransferTypeOK
<1>5. BatchesInOrder' /\ NoDuplicates' /\ Promised' /\ CallsTracked' /\ RequestsClear'
  BY <1>1 DEF BatchesInOrder, NoDuplicates, Promised, CallsTracked, RequestsClear
<1>6. ProgressExact'
  BY <1>1 DEF ProgressExact, Leads
<1>7. OneLeadership'
  BY <1>1, <1>2, <1>3 DEF OneLeadership, Leads
<1>8. DrainedInTime'
  BY <1>1 DEF DrainedInTime, Leads
<1> QED BY <1>4, <1>5, <1>6, <1>7, <1>8

\* handle_read_quorum_reply() keeps it: the quorum is of the present leadership.
LEMMA ReadQuorumStep ==
  ASSUME IInv, ReadQuorum
  PROVE  IInv'
<1> USE DEF IInv
<1>1. /\ Leads /\ quorum' = [id |-> lastRead, gen |-> role.gen]
      /\ UNCHANGED <<role, conf, progress, messages, lastRead, polled, batch, rpc, reached, transfers,
                     started, calls, aborted, reads, promised>>
  BY DEF ReadQuorum, ioVars, serverVars
<1>2. TransferTypeOK'
  BY <1>1 DEF TransferTypeOK, ReadIds
<1>3. BatchesInOrder' /\ NoDuplicates' /\ Promised' /\ CallsTracked' /\ RequestsClear'
  BY <1>1 DEF BatchesInOrder, NoDuplicates, Promised, CallsTracked, RequestsClear
<1>4. ProgressExact'
  BY <1>1 DEF ProgressExact, Leads
<1>5. OneLeadership'
  BY <1>1 DEF OneLeadership, Leads
<1>6. DrainedInTime'
  BY <1>1 DEF DrainedInTime, Leads
<1> QED BY <1>2, <1>3, <1>4, <1>5, <1>6

\* apply_snapshot() keeps it: one application per sender, so one reply.
LEMMA ApplySnapshotStep ==
  ASSUME IInv, NEW p \in Peer, ApplySnapshotFrom(p)
  PROVE  IInv'
<1> USE DEF IInv
<1> DEFINE new == Msg("snapshot_reply", p, role.gen)
<1>1. /\ p \notin promised /\ promised' = promised \cup {p}
      /\ messages' = messages \cup {new}
      /\ UNCHANGED <<role, conf, progress, quorum, lastRead, polled, batch, rpc, reached, transfers,
                     started, calls, aborted, reads>>
  BY DEF ApplySnapshotFrom, ioVars
<1>2. new \in Messages /\ new.type = "snapshot_reply" /\ new.peer = p
  BY DEF Msg, Messages, TransferTypeOK
<1> HIDE DEF new
<1>3. Wanted(messages') = Wanted(messages) /\ Wanted(messages' \cup batch.messages) = Wanted(messages \cup batch.messages)
  BY <1>1, <1>2 DEF Wanted
<1>4. TransferTypeOK'
  BY <1>1, <1>2 DEF TransferTypeOK
<1>5. BatchesInOrder'
  BY <1>1 DEF BatchesInOrder
<1>6. NoDuplicates'
  BY <1>1, <1>2 DEF NoDuplicates, Promised
<1>7. Promised'
  BY <1>1, <1>2 DEF Promised
<1>8. CallsTracked' /\ RequestsClear'
  BY <1>1, <1>3 DEF CallsTracked, RequestsClear
<1>9. ProgressExact'
  BY <1>1, <1>3 DEF ProgressExact, Leads
<1>10. OneLeadership'
  BY <1>1, <1>3 DEF OneLeadership, Leads
<1>11. DrainedInTime'
  BY <1>1, <1>3 DEF DrainedInTime, Leads, Drained, FsmDrained
<1> QED BY <1>4, <1>5, <1>6, <1>7, <1>8, <1>9, <1>10, <1>11

\* Taking a batch (fsm::get_output()) keeps it, and empties the fsm.
LEMMA PollStep ==
  ASSUME IInv, PollOutput
  PROVE  IInv'
<1> USE DEF IInv
<1>1. /\ batch = Idle
      /\ batch' = [stage |-> "storing", messages |-> messages, gen |-> role.gen, conf |-> conf,
                   quorum |-> quorum]
      /\ messages' = {} /\ quorum' = NoQuorum /\ polled' = conf
      /\ UNCHANGED <<role, conf, progress, lastRead, rpc, reached, transfers, started, calls, aborted,
                     reads, promised>>
  BY DEF PollOutput, serverVars
<1>2. /\ batch.messages = {} /\ batch.stage = "idle" /\ rpc = polled
      /\ batch'.messages = messages /\ batch'.stage = "storing" /\ batch'.gen = role.gen
      /\ batch'.conf = conf /\ batch'.quorum = quorum /\ quorum'.id = 0
  BY <1>1 DEF Idle, BatchesInOrder, NoQuorum
<1>3. /\ messages' \cup batch'.messages = messages \cup batch.messages
      /\ Wanted(messages') = {}
  BY <1>1, <1>2 DEF Wanted
<1>4. TransferTypeOK'
  BY <1>1 DEF TransferTypeOK, NoQuorum, ReadIds
<1>5. BatchesInOrder'
  BY <1>1, <1>2 DEF BatchesInOrder, TransferTypeOK
<1>6. NoDuplicates' /\ Promised' /\ CallsTracked'
  BY <1>1, <1>2, <1>3 DEF NoDuplicates, Promised, CallsTracked
<1>7. RequestsClear'
  BY <1>1, <1>2, <1>3 DEF RequestsClear
<1>8. ProgressExact'
  BY <1>1, <1>3 DEF ProgressExact, Leads
<1>9. OneLeadership'
  BY <1>1, <1>2, <1>3 DEF OneLeadership, Leads
<1>10. DrainedInTime'
  <2>1. FsmDrained'
    BY <1>2, <1>3 DEF FsmDrained
  <2>2. Drained => Drained'
    BY <1>1, <1>2, <2>1 DEF Drained, FsmDrained
  <2> QED BY <1>1, <1>2, <2>1, <2>2 DEF DrainedInTime, Leads
<1> QED BY <1>4, <1>5, <1>6, <1>7, <1>8, <1>9, <1>10

\* The part of process_fsm_output() that sends the messages and aborts the transfers to
\* servers that leave keeps it: a number is given once, and a transfer starts only where
\* none is remembered.
LEMMA SendMessagesStep ==
  ASSUME IInv, SendMessages
  PROVE  IInv'
<1> USE DEF IInv
<1> DEFINE begun == Targets("install_snapshot")
           leaving == rpc \ batch.conf
           number == [p \in Peer |-> IF p \in begun THEN started[p] + 1 ELSE transfers[p]]
           newCalls == {[peer |-> m.peer, number |-> number[m.peer], gen |-> m.gen] :
                          m \in Wanted(batch.messages)}
           given == {<<p, number[p]>> : p \in {q \in leaving : number[q] # 0}}
<1>1. /\ batch.stage = "storing"
      /\ started' = [p \in Peer |-> IF p \in begun THEN started[p] + 1 ELSE started[p]]
      /\ calls' = calls \cup newCalls
      /\ transfers' = [p \in Peer |-> IF p \in leaving THEN 0 ELSE number[p]]
      /\ aborted' = aborted \cup given
      /\ promised' = promised \ Targets("snapshot_reply")
      /\ rpc' = batch.conf
      /\ reached' = batch.gen
      /\ batch' = [batch EXCEPT !.stage = "committing", !.messages = {}]
      /\ UNCHANGED <<role, conf, progress, messages, quorum, lastRead, polled, reads>>
  BY DEF SendMessages, fsmVars, Wanted
<1>2. /\ batch'.stage = "committing" /\ batch'.messages = {} /\ batch'.gen = batch.gen
      /\ batch'.conf = batch.conf /\ batch'.quorum = batch.quorum /\ batch.conf = polled
      /\ reached <= batch.gen /\ batch.gen <= role.gen
  BY <1>1 DEF BatchesInOrder, TransferTypeOK
<1>3. /\ \A m \in Wanted(batch.messages) : m.peer \in begun /\ m.peer \in Peer
      /\ \A p \in begun : p \in Peer /\ \E m \in Wanted(batch.messages) : m.peer = p
  BY DEF Targets, Wanted, TransferTypeOK, Messages
<1>4. \A p \in begun : transfers[p] = 0 /\ p \in polled \cup rpc
  BY <1>3 DEF RequestsClear
<1>5. \A p \in leaving : p \notin conf /\ p \in Peer /\ p \notin polled /\ p \in rpc
  BY <1>2 DEF BatchesInOrder, TransferTypeOK
<1>6. \A p \in Peer : /\ number[p] = IF p \in begun THEN started[p] + 1 ELSE transfers[p]
                      /\ number[p] \in Nat /\ started[p] \in Nat /\ transfers[p] \in Nat
                      /\ started'[p] = IF p \in begun THEN started[p] + 1 ELSE started[p]
                      /\ transfers'[p] = IF p \in leaving THEN 0 ELSE number[p]
                      /\ transfers[p] <= started[p]
                      /\ number[p] <= started'[p]
  BY <1>1 DEF TransferTypeOK, CallsTracked
<1>7. \A x : x \in given <=>
        \E p \in Peer : p \in leaving /\ number[p] # 0 /\ x = <<p, number[p]>>
  BY <1>5
<1>8. \A c : c \in newCalls <=>
        \E m \in Wanted(batch.messages) :
          c = [peer |-> m.peer, number |-> number[m.peer], gen |-> m.gen]
  OBVIOUS
<1>9. \A c \in newCalls : /\ c.peer \in begun /\ c.peer \in Peer /\ c.number = started[c.peer] + 1
                          /\ c.number = number[c.peer]
                          /\ \E m \in Wanted(batch.messages) : c.peer = m.peer /\ c.gen = m.gen
  BY <1>3, <1>6, <1>8
<1> HIDE DEF begun, number, newCalls, given
<1>10. TransferTypeOK'
  <2>1. calls' \subseteq [peer : Peer, number : Nat, gen : Nat]
    BY <1>1, <1>3, <1>6, <1>8 DEF TransferTypeOK, Wanted, Messages
  <2>2. aborted' \subseteq Peer \X Nat
    <3>1. given \subseteq Peer \X Nat
      BY <1>6, <1>7
    <3> QED BY <1>1, <3>1 DEF TransferTypeOK
  <2>3. transfers' \in [Peer -> Nat] /\ started' \in [Peer -> Nat]
    BY <1>1, <1>6 DEF TransferTypeOK
  <2> HIDE DEF leaving
  <2> QED BY <1>1, <2>1, <2>2, <2>3 DEF TransferTypeOK
<1>11. BatchesInOrder'
  <2>1. /\ reached' = batch'.gen /\ role' = role /\ rpc' = polled /\ polled' = polled
        /\ batch'.conf = polled /\ batch'.stage = "committing" /\ batch'.messages = {}
        /\ batch'.gen <= role.gen
    BY <1>1, <1>2
  <2>2. reached' <= batch'.gen
    BY <1>2, <2>1 DEF TransferTypeOK
  <2> QED BY <2>1, <2>2 DEF BatchesInOrder
<1>12. NoDuplicates' /\ Promised'
  BY <1>1, <1>2 DEF NoDuplicates, Promised, Targets
<1>13. CallsTracked'
  <2>1. \A p \in Peer : transfers'[p] <= started'[p] /\ (transfers'[p] # 0 => p \in rpc')
    BY <1>1, <1>2, <1>4, <1>6 DEF CallsTracked
  <2>2. \A x \in aborted' : 0 < x[2] /\ x[2] <= started'[x[1]]
    <3> TAKE x \in aborted'
    <3>1. CASE x \in aborted
      <4>1. x[1] \in Peer /\ x[2] \in Nat
        BY <3>1 DEF TransferTypeOK
      <4> QED BY <1>6, <3>1, <4>1 DEF CallsTracked
    <3>2. CASE x \in given
      BY <1>6, <1>7, <3>2
    <3> QED BY <1>1, <3>1, <3>2
  <2>3. \A p \in Peer : <<p, transfers'[p]>> \notin aborted'
    <3> SUFFICES ASSUME NEW p \in Peer, <<p, transfers'[p]>> \in aborted' PROVE FALSE
      OBVIOUS
    <3>1. 0 < transfers'[p]
      BY <2>2
    <3>2. p \notin leaving /\ transfers'[p] = number[p]
      BY <3>1, <1>6
    <3>3. <<p, number[p]>> \in aborted
      BY <1>1, <1>7, <3>2
    <3>4. number[p] <= started[p]
      BY <3>3 DEF CallsTracked
    <3>5. number[p] = transfers[p]
      BY <1>6, <3>4
    <3> QED BY <3>3, <3>5 DEF CallsTracked
  <2>4. \A c \in calls' : 0 < c.number /\ c.number <= started'[c.peer]
    <3> TAKE c \in calls'
    <3>1. CASE c \in calls
      <4>1. c.peer \in Peer /\ c.number \in Nat
        BY <3>1 DEF TransferTypeOK
      <4> QED BY <1>6, <3>1, <4>1 DEF CallsTracked
    <3>2. CASE c \in newCalls
      BY <1>6, <1>9, <3>2
    <3> QED BY <1>1, <3>1, <3>2
  <2>5. \A c \in calls' : <<c.peer, c.number>> \in aborted' \/ transfers'[c.peer] = c.number
    <3> TAKE c \in calls'
    <3>1. c.peer \in Peer /\ c.number # 0 /\ (<<c.peer, c.number>> \in aborted \/ number[c.peer] = c.number)
      <4>1. CASE c \in calls
        <5>1. c.peer \in Peer /\ c.number \in Nat
          BY <4>1 DEF TransferTypeOK
        <5> QED BY <1>4, <1>6, <4>1, <5>1 DEF CallsTracked
      <4>2. CASE c \in newCalls
        BY <1>6, <1>9, <4>2
      <4> QED BY <1>1, <4>1, <4>2
    <3> QED BY <1>1, <1>6, <1>7, <3>1
  <2>6. \A c, d \in calls' : c.peer = d.peer /\ c.number = d.number => c = d
    <3> SUFFICES ASSUME NEW c \in calls', NEW d \in calls', c.peer = d.peer, c.number = d.number
                 PROVE  c = d
      OBVIOUS
    <3>1. \A a \in calls, b \in newCalls : a.peer = b.peer => a.number # b.number
      <4> TAKE a \in calls, b \in newCalls
      <4>1. a.peer \in Peer /\ a.number \in Nat /\ a.number <= started[a.peer]
        BY DEF TransferTypeOK, CallsTracked
      <4> QED BY <1>6, <1>9, <4>1
    <3>2. CASE c \in newCalls /\ d \in newCalls
      <4>1. PICK m \in Wanted(batch.messages) :
              c = [peer |-> m.peer, number |-> number[m.peer], gen |-> m.gen]
        BY <1>8, <3>2
      <4>2. PICK n \in Wanted(batch.messages) :
              d = [peer |-> n.peer, number |-> number[n.peer], gen |-> n.gen]
        BY <1>8, <3>2
      <4>3. m = n
        BY <4>1, <4>2 DEF NoDuplicates, Wanted
      <4> QED BY <4>1, <4>2, <4>3
    <3>3. CASE c \in calls /\ d \in calls
      BY <3>3 DEF CallsTracked
    <3> QED BY <1>1, <3>1, <3>2, <3>3
  <2> QED BY <2>1, <2>2, <2>3, <2>4, <2>5, <2>6 DEF CallsTracked
<1>14. RequestsClear'
  <2>1. \A m \in Wanted(messages) : m.peer \in Peer /\ m.peer \notin begun
    <3> TAKE m \in Wanted(messages)
    <3>1. m \in messages /\ m.type = "install_snapshot" /\ m.peer \in Peer
      BY DEF Wanted, TransferTypeOK, Messages
    <3>2. \A n \in Wanted(batch.messages) : n.peer # m.peer
      BY <3>1 DEF NoDuplicates, Wanted
    <3> QED BY <1>3, <3>1, <3>2
  <2>2. Wanted(batch'.messages) = {}
    BY <1>2 DEF Wanted
  <2> QED BY <1>1, <1>6, <2>1, <2>2 DEF RequestsClear
<1>15. ProgressExact'
  <2> SUFFICES ASSUME Leads, NEW q \in Peer
               PROVE  /\ progress[q] = "none" <=> q \notin conf
                      /\ progress[q] = "probe" =>
                           transfers'[q] = 0 /\ \A m \in Wanted(messages \cup batch'.messages) : m.peer # q
                      /\ progress[q] = "snapshot" =>
                           \/ Msg("install_snapshot", q, role.gen) \in messages \cup batch'.messages
                           \/ \E c \in calls' : c.peer = q /\ c.gen = role.gen /\ <<q, c.number>> \notin aborted'
    BY <1>1 DEF ProgressExact, Leads
  <2>1. progress[q] = "none" <=> q \notin conf
    BY DEF ProgressExact
  <2>2. ASSUME progress[q] = "probe"
        PROVE  transfers'[q] = 0 /\ \A m \in Wanted(messages \cup batch'.messages) : m.peer # q
    <3>1. transfers[q] = 0 /\ \A m \in Wanted(messages \cup batch.messages) : m.peer # q
      BY <2>2 DEF ProgressExact
    <3>2. q \notin begun
      BY <1>3, <3>1 DEF Wanted
    <3> QED BY <1>2, <1>6, <3>1, <3>2 DEF Wanted
  <2>3. ASSUME progress[q] = "snapshot", Msg("install_snapshot", q, role.gen) \notin messages
        PROVE  \E c \in calls' : c.peer = q /\ c.gen = role.gen /\ <<q, c.number>> \notin aborted'
    <3>1. q \notin leaving
      BY <1>5, <2>1, <2>3
    <3>2. \A n : <<q, n>> \notin given
      BY <1>7, <3>1
    <3>3. CASE Msg("install_snapshot", q, role.gen) \in batch.messages
      <4> DEFINE m == Msg("install_snapshot", q, role.gen)
                 c == [peer |-> q, number |-> number[q], gen |-> role.gen]
      <4>1. m \in Wanted(batch.messages) /\ m.peer = q /\ m.gen = role.gen
        BY <3>3 DEF Wanted, Msg
      <4>2. c \in newCalls
        BY <1>8, <4>1
      <4>3. <<q, number[q]>> \notin aborted
        <5>1. number[q] = started[q] + 1
          BY <1>3, <1>6, <4>1
        <5> QED BY <1>6, <5>1 DEF CallsTracked
      <4>4. c \in calls' /\ c.peer = q /\ c.gen = role.gen /\ c.number = number[q]
        BY <1>1, <4>2
      <4>5. <<q, c.number>> \notin aborted'
        BY <1>1, <3>2, <4>3, <4>4
      <4> QED BY <4>4, <4>5
    <3>4. CASE \E c \in calls : c.peer = q /\ c.gen = role.gen /\ <<q, c.number>> \notin aborted
      BY <1>1, <3>2, <3>4
    <3> QED BY <2>3, <3>3, <3>4 DEF ProgressExact
  <2> QED BY <2>1, <2>2, <2>3
<1>16. OneLeadership'
  <2>1. Leads => \A c \in calls' : <<c.peer, c.number>> \in aborted' \/ c.gen = role.gen
    BY <1>1, <1>9 DEF OneLeadership, Wanted
  <2>2. Wanted(messages \cup batch'.messages) \subseteq Wanted(messages \cup batch.messages)
    BY <1>2 DEF Wanted
  <2>3. Leads' <=> Leads
    BY <1>1 DEF Leads
  <2> HIDE DEF leaving
  <2> QED BY <1>1, <1>2, <2>1, <2>2, <2>3 DEF OneLeadership
<1>17. DrainedInTime'
  <2>1. FsmDrained => FsmDrained'
    BY <1>1 DEF FsmDrained
  <2>2. Drained => Drained'
    <3> SUFFICES ASSUME Drained PROVE Drained'
      OBVIOUS
    <3>1. begun = {}
      BY <1>3 DEF Drained
    <3>2. \A p \in Peer : transfers'[p] = 0
      BY <1>6, <3>1 DEF Drained
    <3>3. Wanted(batch'.messages) = {}
      BY <1>2 DEF Wanted
    <3> QED BY <1>1, <1>2, <2>1, <3>2, <3>3 DEF Drained
  <2> HIDE DEF leaving
  <2> QED BY <1>1, <1>2, <2>1, <2>2 DEF DrainedInTime, Leads, TransferTypeOK
<1> QED BY <1>10, <1>11, <1>12, <1>13, <1>14, <1>15, <1>16, <1>17

\* The end of process_fsm_output() keeps it: a server that does not lead has nothing of
\* its last leadership left afterwards but what the fsm still holds.
LEMMA FinishBatchStep ==
  ASSUME IInv, FinishBatch
  PROVE  IInv'
<1> USE DEF IInv
<1> DEFINE given == {<<p, transfers[p]>> : p \in {q \in Peer : transfers[q] # 0}}
<1>1. /\ batch.stage = "committing"
      /\ IF Leads THEN AnswerReads ELSE reads' = << >>
      /\ transfers' = IF Leads THEN transfers ELSE [p \in Peer |-> 0]
      /\ aborted' = IF Leads THEN aborted ELSE aborted \cup given
      /\ batch' = Idle
      /\ UNCHANGED <<role, conf, progress, messages, quorum, lastRead, polled, rpc, reached, started,
                     calls, promised>>
  BY DEF FinishBatch, fsmVars
<1>2. /\ batch.messages = {} /\ rpc = polled /\ batch'.stage = "idle" /\ batch'.messages = {}
      /\ batch'.quorum.id = 0
  BY <1>1 DEF BatchesInOrder, Idle, NoQuorum
<1>3. /\ reads' \in Seq(ReadIds)
      /\ \A k \in 1..Len(reads') : \E j \in 1..Len(reads) : reads'[k] = reads[j]
      /\ ~Leads => reads' = << >>
  <2>1. CASE Leads
    <3>1. PICK n \in 0..Len(reads) : reads' = SubSeq(reads, n + 1, Len(reads))
      BY <1>1, <2>1 DEF AnswerReads
    <3>2. reads \in Seq(ReadIds) /\ Len(reads) \in Nat
      BY DEF TransferTypeOK
    <3>3. /\ reads' \in Seq(ReadIds) /\ Len(reads') = Len(reads) - n
          /\ \A k \in 1..(Len(reads) - n) : reads'[k] = reads[n + k]
      BY <3>1, <3>2
    <3>4. \A k \in 1..Len(reads') : n + k \in 1..Len(reads)
      BY <3>1, <3>2, <3>3
    <3> QED BY <2>1, <3>3, <3>4
  <2>2. CASE ~Leads
    BY <1>1, <2>2
  <2> QED BY <2>1, <2>2
<1>4. Leads' <=> Leads
  BY <1>1 DEF Leads
<1>5. \A x : x \in given <=> \E p \in Peer : transfers[p] # 0 /\ x = <<p, transfers[p]>>
  OBVIOUS
<1> HIDE DEF given
<1>6. \A p \in Peer : transfers[p] \in Nat /\ transfers'[p] = IF Leads THEN transfers[p] ELSE 0
  BY <1>1 DEF TransferTypeOK
<1>7. TransferTypeOK'
  <2>1. aborted' \subseteq Peer \X Nat
    <3>1. given \subseteq Peer \X Nat
      BY <1>5, <1>6
    <3> QED BY <1>1, <3>1 DEF TransferTypeOK
  <2>2. transfers' \in [Peer -> Nat]
    BY <1>1 DEF TransferTypeOK
  <2>3. batch' \in [stage : {"idle", "storing", "committing"}, messages : SUBSET Messages, gen : Nat,
                    conf : SUBSET Peer, quorum : ReadIds]
    BY <1>1 DEF Idle, NoQuorum, ReadIds
  <2> QED BY <1>1, <1>3, <2>1, <2>2, <2>3 DEF TransferTypeOK
<1>8. BatchesInOrder'
  BY <1>1, <1>2 DEF BatchesInOrder
<1>9. NoDuplicates' /\ Promised'
  BY <1>1, <1>2 DEF NoDuplicates, Promised
<1>10. CallsTracked'
  <2>1. CASE Leads
    BY <1>1, <2>1 DEF CallsTracked
  <2>2. CASE ~Leads
    <3>1. \A p \in Peer : transfers'[p] = 0 /\ started[p] \in Nat
      BY <1>6, <2>2 DEF TransferTypeOK
    <3>2. \A x \in aborted' : 0 < x[2] /\ x[2] <= started[x[1]]
      <4> TAKE x \in aborted'
      <4>1. CASE x \in given
        BY <1>5, <1>6, <4>1 DEF CallsTracked
      <4> QED BY <1>1, <2>2, <4>1 DEF CallsTracked
    <3>3. \A c \in calls : <<c.peer, c.number>> \in aborted'
      <4> TAKE c \in calls
      <4>1. c.peer \in Peer /\ 0 < c.number
        BY DEF TransferTypeOK, CallsTracked
      <4> QED BY <1>1, <1>5, <2>2, <4>1 DEF CallsTracked
    <3>4. \A p \in Peer : <<p, transfers'[p]>> \notin aborted'
      BY <3>1, <3>2
    <3> QED BY <1>1, <3>1, <3>2, <3>3, <3>4 DEF CallsTracked
  <2> QED BY <2>1, <2>2
<1>11. RequestsClear'
  <2>1. \A m \in Wanted(messages) : m.peer \in Peer
    BY DEF Wanted, TransferTypeOK, Messages
  <2>2. Wanted(batch'.messages) = {}
    BY <1>2 DEF Wanted
  <2> QED BY <1>1, <1>6, <2>1, <2>2 DEF RequestsClear
<1>12. ProgressExact'
  BY <1>1, <1>2, <1>4 DEF ProgressExact
<1>13. OneLeadership'
  <2>1. Leads =>
          /\ \A m \in Wanted(messages \cup batch'.messages) : m.gen = role.gen
          /\ \A c \in calls : <<c.peer, c.number>> \in aborted' \/ c.gen = role.gen
          /\ quorum.id > 0 => quorum.gen = role.gen
    BY <1>1, <1>2 DEF OneLeadership
  <2>2. /\ Leads => \A k \in 1..Len(reads') : reads'[k].gen = role.gen
        /\ \A k \in 1..Len(reads') : reads'[k].id > 0
        /\ \A k \in 1..Len(reads') : quorum.id > 0 => reads'[k].gen = quorum.gen
    BY <1>3 DEF OneLeadership
  <2>3. ~(batch'.quorum.id > 0)
    BY <1>2
  <2> QED BY <1>1, <1>4, <2>1, <2>2, <2>3 DEF OneLeadership
<1>14. DrainedInTime'
  <2>1. FsmDrained' <=> FsmDrained
    BY <1>1 DEF FsmDrained
  <2>2. ~Leads /\ FsmDrained => Drained'
    BY <1>2, <1>3, <1>6, <2>1 DEF Drained, Wanted
  <2>3. role.kind = "candidate" => ~Leads
    BY DEF Leads
  <2> QED BY <1>1, <1>2, <1>4, <2>1, <2>2, <2>3 DEF DrainedInTime
<1> QED BY <1>7, <1>8, <1>9, <1>10, <1>11, <1>12, <1>13, <1>14

\* The continuation of rpc::send_snapshot() keeps it: it finds its own number among the
\* aborted ones, or its transfer is the one remembered.
LEMMA TransferEndsStep ==
  ASSUME IInv, NEW c \in calls, TransferEnds(c)
  PROVE  IInv'
<1> USE DEF IInv
<1> DEFINE gone == <<c.peer, c.number>> \in aborted
<1>1. /\ calls' = calls \ {c}
      /\ gone => /\ aborted' = aborted \ {<<c.peer, c.number>>}
                 /\ transfers' = transfers /\ progress' = progress
      /\ ~gone => /\ transfers' = [transfers EXCEPT ![c.peer] = 0]
                  /\ progress' = [progress EXCEPT ![c.peer] =
                                    IF Leads /\ @ = "snapshot" THEN "probe" ELSE @]
                  /\ aborted' = aborted
      /\ UNCHANGED <<role, conf, messages, quorum, lastRead, polled, batch, rpc, reached, started,
                     reads, promised>>
  BY DEF TransferEnds, ioVars
<1>2. /\ c.peer \in Peer /\ c.number \in Nat /\ 0 < c.number
      /\ ~gone => transfers[c.peer] = c.number
  BY DEF TransferTypeOK, CallsTracked
<1>3. Leads' <=> Leads
  BY <1>1 DEF Leads
<1>4. \A d \in calls : d # c => d.peer # c.peer \/ d.number # c.number
  BY DEF CallsTracked
<1>5. \A p \in Peer : /\ transfers[p] \in Nat /\ started[p] \in Nat
                      /\ transfers'[p] = IF ~gone /\ p = c.peer THEN 0 ELSE transfers[p]
                      /\ progress'[p] = IF ~gone /\ p = c.peer /\ Leads /\ progress[p] = "snapshot"
                                        THEN "probe" ELSE progress[p]
  BY <1>1, <1>2 DEF TransferTypeOK
<1>6. aborted' \subseteq aborted /\ calls' \subseteq calls
  BY <1>1
<1>7. \A d \in calls' : <<d.peer, d.number>> \in aborted => <<d.peer, d.number>> \in aborted'
  BY <1>1, <1>4
<1> HIDE DEF gone
<1>8. TransferTypeOK'
  <2>1. transfers' \in [Peer -> Nat]
    <3>1. transfers \in [Peer -> Nat]
      BY DEF TransferTypeOK
    <3>2. CASE gone
      BY <1>1, <3>1, <3>2
    <3>3. CASE ~gone
      BY <1>1, <1>2, <3>1, <3>3
    <3> QED BY <3>2, <3>3
  <2>2. progress' \in [Peer -> {"probe", "snapshot", "none"}]
    BY <1>1, <1>2 DEF TransferTypeOK
  <2> QED BY <1>1, <1>6, <2>1, <2>2 DEF TransferTypeOK
<1>9. BatchesInOrder' /\ NoDuplicates' /\ Promised'
  BY <1>1 DEF BatchesInOrder, NoDuplicates, Promised
<1>10. CallsTracked'
  <2>1. \A p \in Peer : transfers'[p] <= started[p] /\ (transfers'[p] # 0 => p \in rpc)
    BY <1>5 DEF CallsTracked
  <2>2. \A p \in Peer : <<p, transfers'[p]>> \notin aborted'
    BY <1>5, <1>6 DEF CallsTracked
  <2>3. \A d \in calls' : <<d.peer, d.number>> \in aborted' \/ transfers'[d.peer] = d.number
    <3> TAKE d \in calls'
    <3>1. d \in calls /\ d # c /\ d.peer \in Peer
      BY <1>1 DEF TransferTypeOK
    <3>2. CASE <<d.peer, d.number>> \in aborted
      BY <1>7, <3>2
    <3>3. CASE transfers[d.peer] = d.number
      BY <1>2, <1>4, <1>5, <3>1, <3>3
    <3> QED BY <3>1, <3>2, <3>3 DEF CallsTracked
  <2> QED BY <1>1, <1>6, <2>1, <2>2, <2>3 DEF CallsTracked
<1>11. RequestsClear'
  <2>1. \A m \in messages \cup batch.messages : m.peer \in Peer
    BY DEF TransferTypeOK, Messages
  <2> QED BY <1>1, <1>5, <2>1 DEF RequestsClear, Wanted
<1>12. ProgressExact'
  <2> SUFFICES ASSUME Leads, NEW q \in Peer
               PROVE  /\ progress'[q] = "none" <=> q \notin conf
                      /\ progress'[q] = "probe" =>
                           transfers'[q] = 0 /\ \A m \in Wanted(messages \cup batch.messages) : m.peer # q
                      /\ progress'[q] = "snapshot" =>
                           \/ Msg("install_snapshot", q, role.gen) \in messages \cup batch.messages
                           \/ \E d \in calls' : d.peer = q /\ d.gen = role.gen /\ <<q, d.number>> \notin aborted'
    BY <1>1, <1>3 DEF ProgressExact
  <2>1. CASE ~gone /\ q = c.peer
    <3>1. transfers[q] # 0 /\ transfers'[q] = 0
      BY <1>2, <1>5, <2>1
    <3>2. \A m \in Wanted(messages \cup batch.messages) : m.peer # q
      BY <3>1 DEF RequestsClear, Wanted
    <3>3. progress[q] # "probe" /\ (progress[q] = "none" <=> q \notin conf)
      BY <3>1 DEF ProgressExact
    <3>4. progress'[q] # "snapshot" /\ (progress'[q] = "none" <=> progress[q] = "none")
      BY <1>5, <2>1
    <3> QED BY <3>1, <3>2, <3>3, <3>4
  <2>2. CASE gone \/ q # c.peer
    <3>1. progress'[q] = progress[q] /\ transfers'[q] = transfers[q]
      BY <1>5, <2>2
    <3>2. ASSUME NEW d \in calls, d.peer = q, <<q, d.number>> \notin aborted
          PROVE  d \in calls'
      BY <1>1, <2>2, <3>2 DEF gone
    <3> QED BY <1>6, <3>1, <3>2 DEF ProgressExact
  <2> QED BY <2>1, <2>2
<1>13. OneLeadership'
  <2>1. Leads => \A d \in calls' : <<d.peer, d.number>> \in aborted' \/ d.gen = role.gen
    BY <1>6, <1>7 DEF OneLeadership
  <2> QED BY <1>1, <1>3, <2>1 DEF OneLeadership
<1>14. DrainedInTime'
  <2>1. FsmDrained' <=> FsmDrained
    BY <1>1 DEF FsmDrained
  <2>2. Drained => Drained'
    BY <1>1, <1>5, <2>1 DEF Drained
  <2> QED BY <1>1, <1>3, <2>1, <2>2 DEF DrainedInTime
<1> QED BY <1>8, <1>9, <1>10, <1>11, <1>12, <1>13, <1>14

\* Every step of RaftTransfer keeps the invariant.
LEMMA Inductive ==
  ASSUME IInv, ~SoleVoter, [TransferNext]_transferVars
  PROVE  IInv'
<1>1. CASE UNCHANGED transferVars
  <2>1. UNCHANGED <<role, conf, progress, messages, quorum, lastRead, polled, batch, rpc, reached,
                    transfers, started, calls, aborted, reads, promised>>
    BY <1>1 DEF transferVars, fsmVars, ioVars, serverVars
  <2>2. TransferTypeOK' /\ BatchesInOrder' /\ NoDuplicates' /\ Promised'
    BY <2>1 DEF IInv, TransferTypeOK, BatchesInOrder, NoDuplicates, Promised
  <2>3. CallsTracked' /\ RequestsClear' /\ ProgressExact' /\ OneLeadership'
    BY <2>1 DEF IInv, CallsTracked, RequestsClear, ProgressExact, OneLeadership, Leads
  <2>4. DrainedInTime'
    BY <2>1 DEF IInv, DrainedInTime, Drained, FsmDrained, Leads
  <2> QED BY <2>2, <2>3, <2>4 DEF IInv
<1>2. CASE TransferNext
  BY <1>2, BecomeStep, ReplicateToStep, ChangeConfigurationStep, ApplySnapshotStep, StartReadStep,
     ReadQuorumStep, PollStep, SendMessagesStep, FinishBatchStep, TransferEndsStep DEF TransferNext
<1> QED BY <1>1, <1>2

\* The invariant holds in every state a server with other voters can reach.
LEMMA InvariantHolds == ASSUME ~SoleVoter PROVE TransferSpec => []IInv
  BY InitIInv, Inductive, PTL DEF TransferSpec

\* Every variable of RaftTransfer keeps its type, for any peers and without bounds.
THEOREM TransferTypes == ASSUME ~SoleVoter PROVE TransferSpec => []TransferTypeOK
<1>1. IInv => TransferTypeOK
  BY DEF IInv
<1> QED BY <1>1, InvariantHolds, PTL

\* The assertion of server_impl::send_snapshot() never fails, and no follower is left in
\* state SNAPSHOT without a transfer, for any number of peers and changes of leadership.
THEOREM TransfersAreTracked == ASSUME ~SoleVoter PROVE TransferSpec => []TransfersMatchProgress
<1>1. IInv => TransfersMatchProgress
  <2> SUFFICES ASSUME IInv PROVE TransfersMatchProgress
    OBVIOUS
  <2>1. \A p \in Targets("install_snapshot") : transfers[p] = 0
    BY DEF IInv, RequestsClear, Targets, Wanted
  <2> QED BY <2>1 DEF IInv, ProgressExact, TransfersMatchProgress
<1> QED BY <1>1, InvariantHolds, PTL

\* Every promise of apply_snapshot() has exactly one reply on its way, and every reply
\* that is sent finds its promise in _snapshot_application_done.
THEOREM PromisesKept == ASSUME ~SoleVoter PROVE TransferSpec => []PromisesAreKept
<1>1. IInv => PromisesAreKept
  <2> SUFFICES ASSUME IInv, NEW p \in Peer
               PROVE  Cardinality({m \in messages \cup batch.messages :
                                     m.type = "snapshot_reply" /\ m.peer = p})
                        = IF p \in promised THEN 1 ELSE 0
    BY DEF PromisesAreKept
  <2> DEFINE replies == {m \in messages \cup batch.messages : m.type = "snapshot_reply" /\ m.peer = p}
  <2>1. CASE p \notin promised
    <3>1. replies = {}
      BY <2>1 DEF IInv, Promised
    <3> QED BY <2>1, <3>1, FS_EmptySet
  <2>2. CASE p \in promised
    <3>1. PICK m \in messages \cup batch.messages : m.type = "snapshot_reply" /\ m.peer = p
      BY <2>2 DEF IInv, Promised
    <3>2. replies = {m}
      BY <3>1 DEF IInv, NoDuplicates
    <3> QED BY <2>2, <3>2, FS_Singleton
  <2> QED BY <2>1, <2>2
<1> QED BY <1>1, InvariantHolds, PTL

\* No transfer or read of one leadership is taken for the next one's, although
\* process_fsm_output() looks only at the role at the end of a batch.
THEOREM LeadershipsApart == ASSUME ~SoleVoter PROVE TransferSpec => []LeadershipsStayApart
<1>1. IInv => LeadershipsStayApart
  <2> SUFFICES ASSUME IInv PROVE LeadershipsStayApart
    OBVIOUS
  <2>1. Leads => \A c \in calls : <<c.peer, c.number>> \in aborted \/ c.gen = role.gen
    BY DEF IInv, OneLeadership
  <2>2. ASSUME NEW k \in 1..Len(reads), reads[k].id <= batch.quorum.id
        PROVE  reads[k].gen = batch.quorum.gen
    <3>1. reads[k].id \in Nat /\ batch.quorum.id \in Nat
      <4>1. reads \in Seq(ReadIds) /\ batch.quorum \in ReadIds
        BY DEF IInv, TransferTypeOK
      <4>2. reads[k] \in ReadIds
        BY <4>1
      <4> QED BY <4>1, <4>2 DEF ReadIds
    <3> QED BY <2>2, <3>1 DEF IInv, OneLeadership
  <2> QED BY <2>1, <2>2 DEF LeadershipsStayApart
<1> QED BY <1>1, InvariantHolds, PTL
=============================================================================
