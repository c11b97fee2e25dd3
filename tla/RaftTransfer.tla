---------------------------- MODULE RaftTransfer ----------------------------
(***************************************************************************)
(* What one server keeps across changes of leadership: the snapshot        *)
(* transfers it has started, the read barriers that wait for a quorum, and *)
(* the replies it owes to servers that send it snapshots (raft/server.cc,  *)
(* send_snapshot(), apply_snapshot(), process_fsm_output()).               *)
(*                                                                         *)
(* Transfers and reads of a lost leadership are given up only at the end   *)
(* of a batch, and only if the server does not lead at that moment.  What  *)
(* makes that enough is that an election needs messages, messages leave    *)
(* with a batch, and batches are worked off one after the other.           *)
(***************************************************************************)
EXTENDS Integers, Sequences, FiniteSets

CONSTANTS
  Peer,          \* the other servers
  SoleVoter,     \* is this server the only voter?
  MaxGen,        \* bound: changes of role
  MaxTransfers,  \* bound: transfers to one server
  MaxReads       \* bound: reads in one leadership

VARIABLES
  role,       \* role and its generation: every change of role begins a new one
  conf,       \* the servers in the configuration
  progress,   \* state of the leader's follower_progress
  messages,   \* _messages of the fsm
  quorum,     \* max_read_id_with_quorum of the next output, and the generation it is of
  lastRead,   \* last_read_id of the leader
  polled,     \* the configuration at the last poll
  batch,      \* the batch the I/O fiber works on
  rpc,        \* _current_rpc_config
  reached,    \* generation of the last batch whose messages have left
  transfers,  \* _snapshot_transfers: number of the transfer to each server, 0 for none
  started,    \* transfers to each server so far (_next_snapshot_transfer_id)
  calls,      \* rpc::send_snapshot() calls under way
  aborted,    \* _aborted_snapshot_transfers
  reads,      \* _reads
  promised    \* _snapshot_application_done: the servers that wait for a reply

fsmVars    == <<role, conf, progress, messages, quorum, lastRead>>
ioVars     == <<polled, batch, rpc, reached>>
serverVars == <<transfers, started, calls, aborted, reads, promised>>
transferVars == <<fsmVars, ioVars, serverVars>>

NoQuorum == [id |-> 0, gen |-> 0]
Idle == [stage |-> "idle", messages |-> {}, gen |-> 0, conf |-> {}, quorum |-> NoQuorum]
Msg(type, p, g) == [type |-> type, peer |-> p, gen |-> g]

Leads == role.kind = "leader"

TransferInit ==
  /\ role = [kind |-> "leader", gen |-> 0]
  /\ conf = Peer /\ progress = [p \in Peer |-> "probe"]
  /\ messages = {} /\ quorum = NoQuorum /\ lastRead = 0
  /\ polled = Peer /\ batch = Idle /\ rpc = Peer /\ reached = 0
  /\ transfers = [p \in Peer |-> 0] /\ started = [p \in Peer |-> 0]
  /\ calls = {} /\ aborted = {} /\ reads = << >> /\ promised = {}

(***************************************************************************)
(* The fsm: roles.                                                         *)
(***************************************************************************)
Become(kind) ==
  /\ role.gen < MaxGen
  /\ role' = [kind |-> kind, gen |-> role.gen + 1]
  /\ IF kind = "leader"
     THEN progress' = [p \in Peer |-> IF p \in conf THEN "probe" ELSE "none"] /\ lastRead' = 0
     ELSE UNCHANGED <<progress, lastRead>>
  /\ UNCHANGED <<conf, messages, quorum, ioVars, serverVars>>

\* Everything queued since the current role began has left the server.
HasAsked == reached = role.gen

\* A message with a higher term, or no answer from a quorum.
BecomeFollower == role.kind # "follower" /\ Become("follower")

\* The election timeout: a pre-vote first.  A sole voter needs nobody's vote.
ElectionTimeout ==
  /\ role.kind = "follower"
  /\ Become(IF SoleVoter THEN "leader" ELSE "precandidate")

\* The pre-vote is won, or the leader, which has this server's reply, asks it to
\* take over (timeout_now).
BecomeCandidate ==
  /\ ~SoleVoter /\ role.kind \in {"precandidate", "follower"} /\ HasAsked
  /\ Become("candidate")

\* The votes of the others arrive.
BecomeLeader ==
  /\ role.kind = "candidate" /\ HasAsked
  /\ Become("leader")

(***************************************************************************)
(* The fsm: what the leader does.                                          *)
(***************************************************************************)
\* replicate_to(): the follower needs a snapshot.
ReplicateTo(p) ==
  /\ Leads /\ progress[p] = "probe"
  /\ started[p] + Cardinality({m \in batch.messages : m.type = "install_snapshot" /\ m.peer = p})
       < MaxTransfers
  /\ progress' = [progress EXCEPT ![p] = "snapshot"]
  /\ messages' = messages \cup {Msg("install_snapshot", p, role.gen)}
  /\ UNCHANGED <<role, conf, quorum, lastRead, ioVars, serverVars>>

\* A configuration without p, or with p again.  It is accepted once the one before is
\* committed: by the answers of others, so its batch has left, or for a sole voter by
\* get_output(), which calls the entries stable.
ChangeConfiguration(p) ==
  /\ Leads /\ conf = IF SoleVoter THEN polled ELSE rpc
  /\ conf' = IF p \in conf THEN conf \ {p} ELSE conf \cup {p}
  /\ progress' = [progress EXCEPT ![p] = IF p \in conf THEN "none" ELSE "probe"]
  /\ UNCHANGED <<role, messages, quorum, lastRead, ioVars, serverVars>>

\* execute_read_barrier()
StartRead ==
  /\ Leads /\ lastRead < MaxReads
  /\ lastRead' = lastRead + 1
  /\ reads' = Append(reads, [id |-> lastRead + 1, gen |-> role.gen])
  /\ UNCHANGED <<role, conf, progress, messages, quorum, ioVars, transfers, started, calls, aborted,
                 promised>>

\* handle_read_quorum_reply(): a quorum has confirmed the leader.
ReadQuorum ==
  /\ Leads /\ lastRead > 0
  /\ quorum' = [id |-> lastRead, gen |-> role.gen]
  /\ UNCHANGED <<role, conf, progress, messages, lastRead, ioVars, serverVars>>

(***************************************************************************)
(* Incoming snapshots.                                                     *)
(***************************************************************************)
\* Faulty variant: a repeated snapshot is applied again.
ApplySnapshotFrom_Again(p) ==
  /\ promised' = promised \cup {p}
  /\ messages' = messages \cup {Msg("snapshot_reply", p, role.gen)}
  /\ UNCHANGED <<role, conf, progress, quorum, lastRead, ioVars, transfers, started, calls, aborted,
                 reads>>

\* apply_snapshot(): the fsm queues its reply; one application per sender at a time.
ApplySnapshotFrom(p) ==
  /\ p \notin promised
  /\ promised' = promised \cup {p}
  /\ messages' = messages \cup {Msg("snapshot_reply", p, role.gen)}
  /\ UNCHANGED <<role, conf, progress, quorum, lastRead, ioVars, transfers, started, calls, aborted,
                 reads>>

(***************************************************************************)
(* The I/O fiber.                                                          *)
(***************************************************************************)
PollOutput ==
  /\ batch = Idle
  /\ batch' = [stage |-> "storing", messages |-> messages, gen |-> role.gen, conf |-> conf,
               quorum |-> quorum]
  /\ messages' = {} /\ quorum' = NoQuorum /\ polled' = conf
  /\ UNCHANGED <<role, conf, progress, lastRead, rpc, reached, serverVars>>

Targets(type) == {m.peer : m \in {x \in batch.messages : x.type = type}}

\* Faulty variant: transfers to servers that leave go on.
SendMessages_KeepsLeaving ==
  LET begun   == Targets("install_snapshot")
      leaving == {}
      number  == [p \in Peer |-> IF p \in begun THEN started[p] + 1 ELSE transfers[p]]
  IN  /\ batch.stage = "storing"
      /\ started' = [p \in Peer |-> IF p \in begun THEN started[p] + 1 ELSE started[p]]
      /\ calls' = calls \cup {[peer |-> m.peer, number |-> number[m.peer], gen |-> m.gen] :
                               m \in {x \in batch.messages : x.type = "install_snapshot"}}
      /\ transfers' = [p \in Peer |-> IF p \in leaving THEN 0 ELSE number[p]]
      /\ aborted' = aborted \cup {<<p, number[p]>> : p \in {q \in leaving : number[q] # 0}}
      /\ promised' = promised \ Targets("snapshot_reply")
      /\ rpc' = batch.conf
      /\ reached' = batch.gen
      /\ batch' = [batch EXCEPT !.stage = "committing", !.messages = {}]
      /\ UNCHANGED <<fsmVars, polled, reads>>

\* The entries are stored: the messages leave.  A transfer starts as a call of its own;
\* a reply fulfils the promise.  Then transfers to servers that leave are aborted.
SendMessages ==
  LET begun   == Targets("install_snapshot")
      leaving == rpc \ batch.conf
      number  == [p \in Peer |-> IF p \in begun THEN started[p] + 1 ELSE transfers[p]]
  IN  /\ batch.stage = "storing"
      /\ started' = [p \in Peer |-> IF p \in begun THEN started[p] + 1 ELSE started[p]]
      /\ calls' = calls \cup {[peer |-> m.peer, number |-> number[m.peer], gen |-> m.gen] :
                               m \in {x \in batch.messages : x.type = "install_snapshot"}}
      /\ transfers' = [p \in Peer |-> IF p \in leaving THEN 0 ELSE number[p]]
      /\ aborted' = aborted \cup {<<p, number[p]>> : p \in {q \in leaving : number[q] # 0}}
      /\ promised' = promised \ Targets("snapshot_reply")
      /\ rpc' = batch.conf
      /\ reached' = batch.gen
      /\ batch' = [batch EXCEPT !.stage = "committing", !.messages = {}]
      /\ UNCHANGED <<fsmVars, polled, reads>>

\* The reads at the front of the queue that have a quorum are answered.
AnswerReads ==
  \E n \in 0..Len(reads) :
    /\ \A k \in 1..n : reads[k].id <= batch.quorum.id
    /\ n < Len(reads) => reads[n + 1].id > batch.quorum.id
    /\ reads' = SubSeq(reads, n + 1, Len(reads))

\* Faulty variant: the reads stay.
FinishBatch_KeepsReads ==
  /\ batch.stage = "committing"
  /\ AnswerReads
  /\ transfers' = IF Leads THEN transfers ELSE [p \in Peer |-> 0]
  /\ aborted' = IF Leads THEN aborted
                ELSE aborted \cup {<<p, transfers[p]>> : p \in {q \in Peer : transfers[q] # 0}}
  /\ batch' = Idle
  /\ UNCHANGED <<fsmVars, polled, rpc, reached, started, calls, promised>>

\* The end of process_fsm_output(), after the commit index is stored: reads with a quorum
\* are answered; a server that does not lead gives up its transfers and fails its reads.
FinishBatch ==
  /\ batch.stage = "committing"
  /\ IF Leads THEN AnswerReads ELSE reads' = << >>
  /\ transfers' = IF Leads THEN transfers ELSE [p \in Peer |-> 0]
  /\ aborted' = IF Leads THEN aborted
                ELSE aborted \cup {<<p, transfers[p]>> : p \in {q \in Peer : transfers[q] # 0}}
  /\ batch' = Idle
  /\ UNCHANGED <<fsmVars, polled, rpc, reached, started, calls, promised>>

\* rpc::send_snapshot() ends, well or not: an aborted transfer ends silently, for any
\* other the fsm is told, as of its current term.
TransferEnds(c) ==
  /\ calls' = calls \ {c}
  /\ IF <<c.peer, c.number>> \in aborted
     THEN aborted' = aborted \ {<<c.peer, c.number>>} /\ UNCHANGED <<transfers, progress>>
     ELSE /\ transfers' = [transfers EXCEPT ![c.peer] = 0]
          /\ progress' = [progress EXCEPT ![c.peer] = IF Leads /\ @ = "snapshot" THEN "probe" ELSE @]
          /\ UNCHANGED aborted
  /\ UNCHANGED <<role, conf, messages, quorum, lastRead, ioVars, started, reads, promised>>

TransferNext ==
  \/ BecomeFollower \/ ElectionTimeout \/ BecomeCandidate \/ BecomeLeader
  \/ \E p \in Peer : ReplicateTo(p) \/ ChangeConfiguration(p) \/ ApplySnapshotFrom(p)
  \/ StartRead \/ ReadQuorum
  \/ PollOutput \/ SendMessages \/ FinishBatch
  \/ \E c \in calls : TransferEnds(c)

TransferSpec == TransferInit /\ [][TransferNext]_transferVars

----------------------------------------------------------------------------
\* Every variable has its type.
Messages == [type : {"install_snapshot", "snapshot_reply"}, peer : Peer, gen : Nat]
ReadIds == [id : Nat, gen : Nat]
TransferTypeOK ==
  /\ role \in [kind : {"leader", "follower", "precandidate", "candidate"}, gen : Nat]
  /\ conf \subseteq Peer /\ polled \subseteq Peer /\ rpc \subseteq Peer /\ promised \subseteq Peer
  /\ progress \in [Peer -> {"probe", "snapshot", "none"}]
  /\ messages \subseteq Messages /\ quorum \in ReadIds
  /\ batch \in [stage : {"idle", "storing", "committing"}, messages : SUBSET Messages, gen : Nat,
                conf : SUBSET Peer, quorum : ReadIds]
  /\ reached \in Nat /\ lastRead \in Nat /\ reads \in Seq(ReadIds)
  /\ transfers \in [Peer -> Nat] /\ started \in [Peer -> Nat]
  /\ calls \subseteq [peer : Peer, number : Nat, gen : Nat] /\ aborted \subseteq Peer \X Nat

\* The assertion of send_snapshot(): when a transfer is about to start, none to the same
\* server is under way, whatever became of the leadership and the configuration since.
\* A follower in state SNAPSHOT, to which nothing else is sent, is not forgotten: the
\* request is queued, or a transfer is under way whose end will be reported.
TransfersMatchProgress ==
  /\ batch.stage = "storing" => \A p \in Targets("install_snapshot") : transfers[p] = 0
  /\ Leads => \A p \in Peer : progress[p] = "snapshot" =>
       \/ Msg("install_snapshot", p, role.gen) \in messages \cup batch.messages
       \/ \E c \in calls : c.peer = p /\ c.gen = role.gen /\ <<p, c.number>> \notin aborted

\* The assertion of send_message(): a reply to a snapshot finds its promise; and a promise
\* has exactly one reply on its way, so the sender is not left waiting.
PromisesAreKept ==
  \A p \in Peer :
    LET replies == {m \in messages \cup batch.messages : m.type = "snapshot_reply" /\ m.peer = p}
    IN  Cardinality(replies) = IF p \in promised THEN 1 ELSE 0

\* Nothing of one leadership is taken for the next one's: the end of a transfer that is
\* not aborted is reported to the leadership that started it, and a read is answered by a
\* quorum of the leadership it was started in, although read ids begin anew in each.
LeadershipsStayApart ==
  /\ Leads => \A c \in calls : <<c.peer, c.number>> \in aborted \/ c.gen = role.gen
  /\ \A k \in 1..Len(reads) :
       batch.stage # "idle" /\ reads[k].id <= batch.quorum.id => reads[k].gen = batch.quorum.gen
=============================================================================
