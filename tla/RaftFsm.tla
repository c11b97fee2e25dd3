------------------------------ MODULE RaftFsm ------------------------------
(***************************************************************************)
(* The Raft protocol state machine of one server, class raft::fsm          *)
(* (raft/fsm.cc, raft/fsm.hh).  The class does no I/O: every entry point   *)
(* takes the state to the next one and queues messages, so it is modelled  *)
(* by operators from an fsm record (and an input) to an fsm record.        *)
(*                                                                         *)
(* The alternatives follower, candidate and leader of _state share the     *)
(* record; the fields of an alternative that is not current hold their     *)
(* defaults.  Time is left out: a timeout is an input.                     *)
(***************************************************************************)
EXTENDS RaftTracker, FiniteSetsExt, TLC

CONSTANTS
  Nil,             \* the zero server_id
  MaxInFlight,     \* follower_progress::max_in_flight
  AppendChunk      \* entries that fit append_request_threshold

Dummy == "dummy"
Entry(i, t, k, d) == [idx |-> i, term |-> t, kind |-> k, data |-> d]
NoSnp == [idx |-> -1]

Conf(f) == GetConfiguration(f.log)
IsLeader(f) == f.state = "leader"
CurrentLeader(f) ==
  CASE f.state = "leader"    -> f.id
    [] f.state = "candidate" -> Nil
    [] f.state = "follower"  -> f.current_leader

\* The state of a new alternative of _state: what the old one held is dropped.
Enter(f, state, leader) ==
  [f EXCEPT !.state = state, !.state_changed = @ \/ f.state # state, !.current_leader = leader,
            !.is_prevote = FALSE, !.votes = NoVotes,
            !.tracker = [s \in {} |-> 0], !.stepdown = FALSE, !.timeout_now_sent = Nil,
            !.last_read_id = 0, !.last_read_id_changed = FALSE, !.max_read_id_with_quorum = 0]

\* send_to(): messages leave with the next output of the fsm.  The queue is kept
\* per receiver: a function from the receivers to the messages for them, in order.
NoMessages == [s \in {} |-> << >>]
For(q, to) == IF to \in DOMAIN q THEN q[to] ELSE << >>
Send(f, q) ==
  [f EXCEPT !.messages = [s \in DOMAIN @ \cup DOMAIN q |-> For(f.messages, s) \o For(q, s)]]
SendTo(f, to, m) == Send(f, to :> <<m>>)
Msg(f, to, type) == [type |-> type, from |-> f.id, to |-> to, term |-> f.current_term]

AppendReply(f, to, accepted, idx, last) ==
  Msg(f, to, "append_reply") @@
    [commit_idx |-> f.commit_idx, accepted |-> accepted, idx |-> idx, last_idx |-> last]
VoteReply(f, to, term, granted, prevote) ==
  [type |-> "vote_reply", from |-> f.id, to |-> to, term |-> term,
   granted |-> granted, is_prevote |-> prevote]
SnapshotReply(f, to, ok) == Msg(f, to, "snapshot_reply") @@ [success |-> ok]

----------------------------------------------------------------------------
(* Replication                                                             *)

\* One append_request with the entries lo..hi (none when hi < lo).
AppendRequest(f, to, lo, hi) ==
  Msg(f, to, "append_request") @@
    [prev_log_idx |-> lo - 1, prev_log_term |-> TermFor(f.log, lo - 1),
     leader_commit_idx |-> f.commit_idx,
     entries |-> IF hi < lo THEN << >> ELSE Slice(f.log, lo, hi)]

\* replicate_to(): as many requests as the window allows; a follower that needs
\* entries the log no longer has gets the snapshot instead.
ReplicateTo(f, s, allowEmpty) ==
  LET p       == f.tracker[s]
      last    == LastIdx(f.log)
      window  == Window(p, MaxInFlight)
      pending == last - p.next_idx + 1
      chunk   == IF p.state = "PROBE" THEN 1 ELSE AppendChunk
      n       == MinOf(window, (pending + chunk - 1) \div chunk)
      Lo(j)   == p.next_idx + (j - 1) * chunk
      sent    == IF pending <= 0 THEN <<AppendRequest(f, s, p.next_idx, p.next_idx - 1)>>
                 ELSE [j \in 1..n |-> AppendRequest(f, s, Lo(j), MinOf(last, Lo(j) + chunk - 1))]
      after   == IF p.state = "PROBE" THEN [p EXCEPT !.probe_sent = TRUE]
                 ELSE IF pending <= 0 THEN p
                 ELSE [p EXCEPT !.in_flight = @ + n, !.next_idx = MinOf(last + 1, Lo(n + 1))]
  IN  IF window = 0 \/ (pending <= 0 /\ ~allowEmpty) THEN f
      ELSE IF TermFor(f.log, p.next_idx - 1) = NoTerm
      THEN SendTo([f EXCEPT !.tracker[s] = BecomeSnapshot(p, f.log.snapshot.idx)], s,
                  Msg(f, s, "install_snapshot") @@ [snp |-> f.log.snapshot])
      ELSE Send([f EXCEPT !.tracker[s] = after], s :> sent)

Peers(f) == DOMAIN f.tracker \ {f.id}
Replicate(f) == LET Op(s, g) == ReplicateTo(g, s, FALSE) IN FoldSet(Op, f, Peers(f))

----------------------------------------------------------------------------
(* Roles                                                                   *)

BecomeFollower(f, leader) ==
  [Enter(f, "follower", leader) EXCEPT !.ping_leader = IF leader = Nil THEN @ ELSE FALSE]

\* add_entry() past its checks, for every kind of payload.
AppendOwn(f, kind, data) ==
  [f EXCEPT !.log = EmplaceBack(@, Entry(NextIdx(@), f.current_term, kind, data))]
Track(f) == [f EXCEPT !.tracker = SetConfiguration(@, Conf(f), LastIdx(f.log))]

BecomeLeader(f) ==
  Track(AppendOwn([Enter(f, "leader", Nil) EXCEPT !.ping_leader = FALSE], "dummy", Dummy))

\* May a server run for leader?  Not once it is out of a committed configuration.
MayCampaign(f) ==
  \/ f.id \in AllVoters(Conf(f))
  \/ LastConfIdx(f.log) > f.commit_idx /\ CanVote(GetPrevConfiguration(f.log), f.id)

\* One round of become_candidate(): a vote for itself and requests to the others.
Campaign(f, prevote, transfer) ==
  LET voters == AllVoters(Conf(f))
      self   == f.id \in voters
      term   == f.current_term + 1
      c      == [Enter(f, "candidate", Nil) EXCEPT
                   !.is_prevote = prevote,
                   !.votes = IF self THEN RegisterVote(@, Conf(f), f.id, TRUE) ELSE @,
                   !.current_term = IF prevote THEN @ ELSE term,
                   !.voted_for = IF prevote THEN @ ELSE IF self THEN f.id ELSE Nil]
      req(s) == [type |-> "vote_request", from |-> f.id, to |-> s, term |-> term,
                 last_log_idx |-> LastIdx(f.log), last_log_term |-> LastTerm(f.log),
                 is_prevote |-> prevote, force |-> transfer]
  IN  IF MayCampaign(f) THEN Send(c, [s \in voters \ {f.id} |-> <<req(s)>>])
      ELSE BecomeFollower(Enter(f, "candidate", Nil), Nil)

Won(f) == f.state = "candidate" /\ TallyVotes(f.votes, Conf(f)) = "WON"

\* become_candidate() for a real vote, and with the pre-vote round before it; a
\* server that is the only voter wins each round at once.
BecomeRealCandidate(f, transfer) ==
  LET c == Campaign(f, FALSE, transfer) IN IF Won(c) THEN BecomeLeader(c) ELSE c
BecomeCandidate(f, prevote, transfer) ==
  LET c == Campaign(f, TRUE, transfer)
  IN  IF ~prevote THEN BecomeRealCandidate(f, transfer)
      ELSE IF Won(c) THEN BecomeRealCandidate(c, FALSE) ELSE c

----------------------------------------------------------------------------
(* Leadership transfer and read barriers                                   *)

IsVoter(f, s) == s \in DOMAIN f.tracker /\ ProgressCanVote(Conf(f), s)

SendTimeoutNow(f, s) ==
  LET g == SendTo([f EXCEPT !.timeout_now_sent = s], s, Msg(f, s, "timeout_now"))
  IN  IF IsVoter(f, f.id) THEN g ELSE BecomeFollower(g, Nil)

\* Faulty variant: any voter will do.
UpToDateVoters_AnyVoter(f) == {s \in Peers(f) : IsVoter(f, s)}

UpToDateVoters(f) ==
  {s \in Peers(f) : IsVoter(f, s) /\ f.tracker[s].match_idx = LastIdx(f.log)}

\* transfer_leadership() past its checks; the order of an unordered_map decides
\* which of the up-to-date voters is asked.
TransferLeadership(f) ==
  LET g == [f EXCEPT !.stepdown = TRUE]
  IN  IF UpToDateVoters(f) = {} THEN g
      ELSE SendTimeoutNow(g, CHOOSE s \in UpToDateVoters(f) : TRUE)

\* handle_read_quorum_reply(), also used for the leader's own acknowledgement.
HandleReadQuorumReply(f, from, commit, id) ==
  LET g    == [f EXCEPT !.tracker[from].commit_idx = MaxOf(@, commit),
                        !.tracker[from].max_acked_read = MaxOf(@, id)]
      new  == Committed(Conf(g), [s \in DOMAIN g.tracker |-> g.tracker[s].max_acked_read],
                        g.max_read_id_with_quorum)
  IN  IF from \notin DOMAIN f.tracker THEN f
      ELSE IF id <= f.max_read_id_with_quorum \/ new <= f.max_read_id_with_quorum THEN g
      ELSE [g EXCEPT !.max_read_id_with_quorum = new, !.out_read_id = new]

\* Faulty variant: the commit index is told to followers that may not match it.
BroadcastReadQuorum_FullCommit(f) ==
  LET g == IF IsVoter(f, f.id) THEN HandleReadQuorumReply(f, f.id, f.commit_idx, f.last_read_id) ELSE f
  IN  Send(g, [s \in {p \in Peers(f) : IsVoter(f, p)} |->
                 <<Msg(f, s, "read_quorum") @@
                     [leader_commit_idx |-> f.commit_idx, id |-> f.last_read_id]>>])

BroadcastReadQuorum(f) ==
  LET id == f.last_read_id
      g  == IF IsVoter(f, f.id) THEN HandleReadQuorumReply(f, f.id, f.commit_idx, id) ELSE f
  IN  Send(g, [s \in {p \in Peers(f) : IsVoter(f, p)} |->
                 <<Msg(f, s, "read_quorum") @@
                     [leader_commit_idx |-> MinOf(f.tracker[s].match_idx, f.commit_idx), id |-> id]>>])

----------------------------------------------------------------------------
(* Commit                                                                  *)

AdvanceCommitIdx(f, idx) ==
  [f EXCEPT !.commit_idx = MaxOf(@, MinOf(idx, LastIdx(f.log)))]

\* Faulty variant: entries of earlier terms are committed by counting.
NewCommitIdx_AnyTerm(f) ==
  Committed(Conf(f), [s \in DOMAIN f.tracker |-> f.tracker[s].match_idx], f.commit_idx)

\* The index maybe_commit() moves to: only an entry of the current term counts.
NewCommitIdx(f) ==
  LET idx == Committed(Conf(f), [s \in DOMAIN f.tracker |-> f.tracker[s].match_idx], f.commit_idx)
  IN  IF idx > f.commit_idx /\ GetEntry(f.log, idx).term = f.current_term THEN idx ELSE f.commit_idx

CommitPlain(f) == [f EXCEPT !.commit_idx = NewCommitIdx(f)]

\* maybe_commit().  Committing a joint configuration appends the final one and
\* counts again under it (nobody can have acknowledged that new entry yet);
\* committing a configuration without the leader makes the leader step down.
MaybeCommit(f) ==
  LET g      == CommitPlain(f)
      isConf == f.commit_idx < LastConfIdx(f.log) /\ g.commit_idx >= LastConfIdx(f.log)
      h      == IF IsJoint(Conf(g))
                THEN CommitPlain(Track(AppendOwn(g, "configuration", LeaveJoint(Conf(g)))))
                ELSE IF IsVoter(g, g.id) THEN g ELSE TransferLeadership(g)
  IN  IF ~isConf THEN g
      ELSE IF IsLeader(h) /\ h.last_read_id # h.max_read_id_with_quorum
      THEN BroadcastReadQuorum(h) ELSE h

----------------------------------------------------------------------------
(* Message handlers                                                        *)

AppendEntries(f, m) ==
  LET g       == [f EXCEPT !.log = IF m.entries = << >> THEN @ ELSE MaybeAppend(@, m.entries)]
      lastNew == m.prev_log_idx + Len(m.entries)
      h       == AdvanceCommitIdx(g, MinOf(m.leader_commit_idx, lastNew))
  IN  IF MatchTerm(f.log, m.prev_log_idx, m.prev_log_term)
      THEN SendTo(h, m.from, AppendReply(h, m.from, TRUE, lastNew, 0))
      ELSE SendTo(f, m.from, AppendReply(f, m.from, FALSE, m.prev_log_idx, LastIdx(f.log)))

AppendAccepted(f, s, idx) ==
  LET g == [f EXCEPT !.tracker[s] = BecomePipeline(Accepted(@, idx))]
      h == IF g.stepdown /\ g.timeout_now_sent = Nil /\ s \in UpToDateVoters(g)
           THEN SendTimeoutNow(g, s) ELSE g
      c == IF IsLeader(h) THEN MaybeCommit(h) ELSE h
  IN  IF IsLeader(c) /\ s \in DOMAIN c.tracker THEN ReplicateTo(c, s, FALSE) ELSE c

AppendRejected(f, s, nonMatching, last) ==
  LET p == f.tracker[s]
      g == [f EXCEPT !.tracker[s] = BecomeProbe([p EXCEPT !.next_idx = MinOf(nonMatching, last + 1)])]
  IN  IF nonMatching = 0 /\ last = 0 THEN ReplicateTo(f, s, TRUE)   \* looking for a leader
      ELSE IF IsStrayReject(p, nonMatching, last) THEN f
      ELSE ReplicateTo(g, s, FALSE)

AppendEntriesReply(f, m) ==
  LET s == m.from
      g == [f EXCEPT !.tracker[s].in_flight = IF f.tracker[s].state = "PIPELINE" /\ @ > 0 THEN @ - 1 ELSE @,
                     !.tracker[s].commit_idx = MaxOf(@, m.commit_idx)]
  IN  IF s \notin DOMAIN f.tracker \/ f.tracker[s].state = "SNAPSHOT" THEN f
      ELSE IF m.accepted THEN AppendAccepted(g, s, m.idx)
      ELSE AppendRejected(g, s, m.idx, m.last_idx)

RequestVote(f, m) ==
  LET canVote == \/ f.voted_for = m.from
                 \/ f.voted_for = Nil /\ CurrentLeader(f) = Nil
                 \/ m.is_prevote /\ m.term > f.current_term
      g       == IF m.is_prevote THEN f ELSE [f EXCEPT !.voted_for = m.from]
  IN  IF canVote /\ IsUpToDate(f.log, m.last_log_idx, m.last_log_term)
      THEN SendTo(g, m.from, VoteReply(f, m.from, m.term, TRUE, m.is_prevote))
      ELSE SendTo(f, m.from, VoteReply(f, m.from, f.current_term, FALSE, m.is_prevote))

RequestVoteReply(f, m) ==
  LET g      == [f EXCEPT !.votes = RegisterVote(@, Conf(f), m.from, m.granted)]
      result == TallyVotes(g.votes, Conf(g))
  IN  IF f.is_prevote # m.is_prevote THEN f
      ELSE CASE result = "UNKNOWN" -> g
             [] result = "LOST"    -> BecomeFollower(g, Nil)
             [] result = "WON"     -> IF g.is_prevote THEN BecomeRealCandidate(g, FALSE)
                                      ELSE BecomeLeader(g)

InstallSnapshotReply(f, m) ==
  LET g == [f EXCEPT !.tracker[m.from] = BecomeProbe(@)]
  IN  IF m.from \notin DOMAIN f.tracker \/ f.tracker[m.from].state # "SNAPSHOT" THEN f
      ELSE IF m.success THEN ReplicateTo(g, m.from, FALSE) ELSE g

\* fsm::apply_snapshot(): a snapshot no newer than the present one, or a remote
\* one that is not beyond the commit index, is ignored.
Outdated(f, snp, local) ==
  snp.idx <= f.log.snapshot.idx \/ (~local /\ snp.idx <= f.commit_idx)

FsmApplySnapshot(f, snp, trailing, bytes, local) ==
  LET l == ApplySnapshot(f.log, snp, trailing, bytes)
  IN  IF Outdated(f, snp, local) THEN f
      ELSE [f EXCEPT !.commit_idx = MaxOf(@, snp.idx), !.log = l,
                     !.out_snp = snp @@ [preserved |-> snp.idx + 1 - l.first_idx]]

\* step() for the alternative of _state that is current.
StepState(f, m) ==
  CASE m.type = "vote_request" -> RequestVote(f, m)
    [] m.type = "append_request" /\ f.state = "follower" -> AppendEntries(f, m)
    [] m.type = "append_reply" /\ f.state = "leader" -> AppendEntriesReply(f, m)
    [] m.type = "vote_reply" /\ f.state = "candidate" -> RequestVoteReply(f, m)
    [] m.type = "install_snapshot" ->
         LET ok == f.state = "follower" /\ ~Outdated(f, m.snp, FALSE)
             g  == IF ok THEN FsmApplySnapshot(f, m.snp, 0, 0, FALSE) ELSE f
         IN  SendTo(g, m.from, SnapshotReply(f, m.from, ok))
    [] m.type = "snapshot_reply" /\ f.state = "leader" -> InstallSnapshotReply(f, m)
    [] m.type = "timeout_now" /\ f.state = "follower" -> BecomeCandidate(f, FALSE, TRUE)
    [] m.type = "read_quorum" /\ f.state = "follower" ->
         LET g == AdvanceCommitIdx(f, m.leader_commit_idx)
         IN  SendTo(g, m.from, Msg(g, m.from, "read_quorum_reply") @@
                                 [commit_idx |-> g.commit_idx, id |-> m.id])
    [] m.type = "read_quorum_reply" /\ f.state = "leader" ->
         HandleReadQuorumReply(f, m.from, m.commit_idx, m.id)
    [] OTHER -> f

FromLeader(m) == m.type \in {"append_request", "install_snapshot", "read_quorum"}

\* step(): terms are compared before the message is looked at.
HigherTerm(f, m) ==
  LET ignoreTerm == \/ m.type = "vote_request" /\ m.is_prevote
                    \/ m.type = "vote_reply" /\ m.is_prevote /\ m.granted
      g == [BecomeFollower(f, IF FromLeader(m) THEN m.from ELSE Nil)
              EXCEPT !.current_term = m.term, !.voted_for = Nil]
  IN  IF m.type = "read_quorum_reply" THEN f
      ELSE StepState(IF ignoreTerm THEN f ELSE g, m)

LowerTerm(f, m) ==
  CASE m.type \in {"append_request", "read_quorum"} ->
         SendTo(f, m.from, AppendReply(f, m.from, FALSE, 0, LastIdx(f.log)))
    [] m.type = "install_snapshot" -> SendTo(f, m.from, SnapshotReply(f, m.from, FALSE))
    [] m.type = "vote_request" /\ m.is_prevote ->
         SendTo(f, m.from, VoteReply(f, m.from, f.current_term, FALSE, TRUE))
    [] OTHER -> f

SameTerm(f, m) ==
  IF ~FromLeader(m) THEN StepState(f, m)
  ELSE StepState(CASE f.state = "candidate" -> BecomeFollower(f, m.from)
                   [] f.state = "follower" /\ f.current_leader = Nil ->
                        [f EXCEPT !.current_leader = m.from, !.ping_leader = FALSE]
                   [] OTHER -> f, m)

Step(f, m) ==
  CASE m.term > f.current_term -> HigherTerm(f, m)
    [] m.term < f.current_term -> LowerTerm(f, m)
    [] m.term = f.current_term -> SameTerm(f, m)

----------------------------------------------------------------------------
(* Ticks and requests of the server                                        *)

\* Faulty variant: a probe that was lost is never sent again.
TickFollowerProgress_ProbeOnce(f, s) ==
  LET p == f.tracker[s]
      q == [p EXCEPT !.in_flight = IF p.state = "PIPELINE" /\ @ = MaxInFlight THEN @ - 1 ELSE @]
      g == [f EXCEPT !.tracker[s] = q]
  IN  IF q.state # "SNAPSHOT" /\ (q.match_idx < LastIdx(f.log) \/ q.commit_idx < f.commit_idx)
      THEN ReplicateTo(g, s, TRUE) ELSE g

\* The part of tick_leader() that concerns one follower.
TickFollowerProgress(f, s) ==
  LET p == f.tracker[s]
      q == CASE p.state = "PROBE" -> [p EXCEPT !.probe_sent = FALSE]
             [] p.state = "PIPELINE" ->
                  [p EXCEPT !.in_flight = IF @ = MaxInFlight THEN @ - 1 ELSE @]
             [] p.state = "SNAPSHOT" -> p
      g == [f EXCEPT !.tracker[s] = q]
  IN  IF q.state # "SNAPSHOT" /\ (q.match_idx < LastIdx(f.log) \/ q.commit_idx < f.commit_idx)
      THEN ReplicateTo(g, s, TRUE) ELSE g

\* tick_leader(); `expired' says whether the stepdown deadline has passed.
TickLeader(f, expired) ==
  LET Op(s, g) == TickFollowerProgress(g, s)
      g == FoldSet(Op, f, Peers(f))
      h == IF g.last_read_id # g.max_read_id_with_quorum THEN BroadcastReadQuorum(g) ELSE g
  IN  IF ~h.stepdown \/ ~IsVoter(h, h.id) THEN h
      ELSE IF expired THEN [h EXCEPT !.stepdown = FALSE, !.timeout_now_sent = Nil]
      ELSE IF h.timeout_now_sent # Nil
      THEN SendTo(h, h.timeout_now_sent, Msg(h, h.timeout_now_sent, "timeout_now")) ELSE h

\* The end of tick(): a follower without a leader solicits one by a reject that
\* no log mismatch can produce.
Ping(f, alive) ==
  IF /\ f.state = "follower" /\ f.current_leader = Nil /\ f.ping_leader
     /\ ~IsJoint(Conf(f)) /\ f.id \in DOMAIN Conf(f).current
  THEN Send(f, [s \in (Voters(Conf(f).current) \cap alive) \ {f.id} |->
                  <<AppendReply(f, s, FALSE, 0, 0)>>])
  ELSE f

\* tick() of a server that is not the leader.
TickOther(f, timedOut, alive) ==
  Ping(IF timedOut THEN BecomeCandidate(f, f.enable_prevoting, FALSE) ELSE f, alive)

\* Faulty variant: a leader need not have committed in its term.
CanStartRead_Early(f, requester) == IsLeader(f) /\ requester = f.id

\* start_read_barrier() on a leader that has committed in its term.
CanStartRead(f, requester) ==
  /\ IsLeader(f)
  /\ requester = f.id \/ requester \in DOMAIN f.tracker
  /\ TermFor(f.log, f.commit_idx) = f.current_term
StartReadBarrier(f) ==
  [f EXCEPT !.last_read_id = @ + 1, !.last_read_id_changed = TRUE]

CanAddEntry(f) == IsLeader(f) /\ ~f.stepdown
\* Faulty variant: a configuration change in progress does not matter.
CanAddConfiguration_Overlap(f, ms) == CanAddEntry(f) /\ Voters(ms) # {} /\ ~IsJoint(Conf(f))

CanAddConfiguration(f, ms) ==
  /\ CanAddEntry(f)
  /\ Voters(ms) # {}
  /\ LastConfIdx(f.log) <= f.commit_idx /\ ~IsJoint(Conf(f))
AddConfiguration(f, ms) == Track(AppendOwn(f, "configuration", EnterJoint(Conf(f), ms)))

CanTransfer(f) ==
  IsLeader(f) /\ ~(Cardinality(Voters(Conf(f).current)) = 1 /\ IsVoter(f, f.id))

----------------------------------------------------------------------------
(* Output and construction                                                 *)

Unstable(f) == LastIdx(f.log) - f.log.stable_idx

\* Nothing to store or to send is left; and nothing at all.
Drained(f) ==
  /\ Unstable(f) = 0 /\ f.messages = NoMessages /\ f.out_read_id = 0 /\ f.out_snp = NoSnp
  /\ f.observed[1] = f.current_term /\ f.observed[2] = f.voted_for
  /\ ~f.last_read_id_changed /\ ~f.state_changed
HasOutput(f) == ~(Drained(f) /\ f.observed[3] = f.commit_idx)

\* What get_output() does before it collects: delayed read requests, replication.
Flush(f) ==
  LET g == IF IsLeader(f) /\ f.last_read_id_changed
           THEN [BroadcastReadQuorum(f) EXCEPT !.last_read_id_changed = FALSE] ELSE f
  IN  IF IsLeader(g) /\ Unstable(g) > 0 THEN Replicate(g) ELSE g

\* Faulty variant: a new vote in an old term is not written.
Output_TermOnly(g) ==
  LET observedCommit == MaxOf(g.observed[3], g.log.snapshot.idx)
  IN  [term |-> g.current_term, voted_for |-> g.voted_for,
       term_and_vote |-> g.observed[1] # g.current_term,
       snp |-> g.out_snp,
       log_entries |-> IF Unstable(g) = 0 THEN << >>
                       ELSE Slice(g.log, g.log.stable_idx + 1, LastIdx(g.log)),
       messages |-> g.messages,
       committed |-> IF observedCommit < g.commit_idx
                     THEN Slice(g.log, observedCommit + 1, g.commit_idx) ELSE << >>,
       read_id |-> g.out_read_id]

\* The batch get_output() returns.
Output(g) ==
  LET observedCommit == MaxOf(g.observed[3], g.log.snapshot.idx)
  IN  [term |-> g.current_term, voted_for |-> g.voted_for,
       term_and_vote |-> <<g.observed[1], g.observed[2]>> # <<g.current_term, g.voted_for>>,
       snp |-> g.out_snp,
       log_entries |-> IF Unstable(g) = 0 THEN << >>
                       ELSE Slice(g.log, g.log.stable_idx + 1, LastIdx(g.log)),
       messages |-> g.messages,
       committed |-> IF observedCommit < g.commit_idx
                     THEN Slice(g.log, observedCommit + 1, g.commit_idx) ELSE << >>,
       read_id |-> g.out_read_id]

\* Faulty variant: off by one.
AdvanceStableIdx_PastEnd(f, idx) == [f EXCEPT !.log = StableTo(@, idx + 1)]

\* advance_stable_idx(): the leader counts its own copy, before it is on disk.
AdvanceStableIdx(f, idx) ==
  LET g == [f EXCEPT !.log = StableTo(@, idx)]
  IN  IF IsLeader(g) /\ g.id \in DOMAIN g.tracker
      THEN MaybeCommit([g EXCEPT !.tracker[g.id] = Accepted(@, idx)]) ELSE g

\* The fsm after get_output(): observed state first, then the stable index.
Observed(g) ==
  LET h == [g EXCEPT !.messages = NoMessages, !.out_snp = NoSnp, !.out_read_id = 0,
                     !.state_changed = FALSE,
                     !.observed = <<g.current_term, g.voted_for, g.commit_idx>>]
  IN  IF Unstable(g) = 0 THEN h ELSE AdvanceStableIdx(h, LastIdx(g.log))

\* The constructor: the server starts from what it loaded from disk.
NewFsm(id, term, vote, log, commit, prevote) ==
  LET f == [id |-> id, enable_prevoting |-> prevote, state |-> "follower", state_changed |-> FALSE, current_leader |-> Nil,
            current_term |-> term, voted_for |-> vote, log |-> log,
            commit_idx |-> MaxOf(log.snapshot.idx, commit),
            is_prevote |-> FALSE, votes |-> NoVotes,
            tracker |-> [s \in {} |-> 0], stepdown |-> FALSE, timeout_now_sent |-> Nil,
            last_read_id |-> 0, last_read_id_changed |-> FALSE, max_read_id_with_quorum |-> 0,
            ping_leader |-> FALSE, messages |-> NoMessages, out_snp |-> NoSnp, out_read_id |-> 0,
            observed |-> <<term, vote, log.snapshot.idx>>]
  IN  IF Cardinality(DOMAIN Conf(f).current) = 1 /\ CanVote(Conf(f), id)
      THEN BecomeCandidate(f, prevote, FALSE) ELSE f
=============================================================================
