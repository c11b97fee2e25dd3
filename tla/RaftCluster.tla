---------------------------- MODULE RaftCluster ----------------------------
(***************************************************************************)
(* A Raft group: the fsm of every server, its persistent storage, the I/O  *)
(* fiber that stores an fsm output before its messages leave               *)
(* (server_impl::process_fsm_output, raft/server.cc), and a network that   *)
(* may lose, reorder and repeat messages.  Servers crash at any point of   *)
(* the I/O fiber and restart from what reached the disk.                   *)
(***************************************************************************)
EXTENDS RaftFsm, SequencesExt

CONSTANTS
  Server,
  MaxOvertake,  \* bound: position from which a message may arrive
  Plans         \* scenarios by name.  A scenario is a record of
                \*   members      the bootstrap configuration
                \*   disk         term, vote and log each server has on disk at the start
                \*   targets      member sets that set_configuration() may be asked for
                \*   commands, trailing   payloads; values of snapshot_trailing
                \*   prevote      fsm_config::enable_prevoting
                \*   idle_ticks   are ticks free while nothing is in transit?
                \* and of bounds:
                \*   max_idx      length of the log
                \*   campaigners  servers whose election timer may expire
                \*   crashing     servers that may crash
                \*   busy         servers with output that is not yet processed
                \*   budget       how often an election, a crash, ... may happen

VARIABLES
  fsm,     \* fsm[s]: the protocol state of s (volatile)
  io,      \* io[s]: the batch its I/O fiber is working on, or NoBatch
  stable,  \* stable[s]: the I/O fiber's last_stable (volatile)
  disk,    \* disk[s]: what is persisted
  net,     \* net[s][t]: messages on the wire from s to t, in the order sent
  promised, \* history: the votes and the claims to leadership sent so far
  decided, \* history: the entries committed so far, with the term of the commit
  reads,   \* history: read barriers started
  left,    \* what is left of the budget
  plan     \* name of the scenario
vars == <<fsm, io, stable, disk, net, promised, decided, reads, left, plan>>

Scenarios == Plans   \* TLC evaluates this definition once
Plan == Scenarios[plan]
NoBatch == [term |-> -1]
Spend(what) == left[what] > 0 /\ left' = [left EXCEPT ![what] = @ - 1]

Bootstrap(s) ==
  [idx |-> 0, term |-> 0,
   config |-> [current |-> IF s \in DOMAIN Plan.members THEN Plan.members ELSE NoMembers,
               previous |-> NoMembers]]

InitDisk(s) == Plan.disk[s] @@ [snapshot |-> Bootstrap(s), commit_idx |-> 0]

\* server_impl::start(): the log and the fsm from what persistence loads.
Load(s, d) == NewFsm(s, d.term, d.vote, NewLog(d.snapshot, d.log), d.commit_idx, Plan.prevote)

Init ==
  /\ plan \in DOMAIN Plans
  /\ disk = [s \in Server |-> InitDisk(s)]
  /\ fsm = [s \in Server |-> Load(s, disk[s])]
  /\ io = [s \in Server |-> NoBatch]
  /\ stable = [s \in Server |-> LastIdx(fsm[s].log)]
  /\ net = [s \in Server |-> [t \in Server |-> << >>]] 
  /\ promised = {} /\ decided = << >> /\ reads = {}
  /\ left = Plan.budget

\* Servers that owe the disk or the network something.  An input is handled while at
\* most Plan.busy servers do: with 0 the output of an input is processed before the
\* next input, with 1 a server may also handle inputs with a batch in hand.
Busy == {s \in Server : ~(io[s] = NoBatch /\ Drained(fsm[s]))}
Turn == Cardinality(Busy) <= Plan.busy

----------------------------------------------------------------------------
(* The I/O fiber                                                           *)

\* store_snapshot_descriptor(): the descriptor, and the log without the entries
\* the snapshot replaces, save the last `preserved' of them.
StoreSnapshot(d, snp) ==
  [d EXCEPT !.snapshot = [idx |-> snp.idx, term |-> snp.term, config |-> snp.config],
            !.log = SelectSeq(@, LAMBDA e : e.idx > snp.idx - snp.preserved)]
TruncateLog(d, idx) == [d EXCEPT !.log = SelectSeq(@, LAMBDA e : e.idx < idx)]

\* The disk after the first k of the writes process_fsm_output() awaits in turn:
\* term and vote, snapshot, truncation, entries; the commit index comes fifth,
\* after the messages have been sent.
Stored(d, b, last, k) ==
  LET d1 == IF k >= 1 /\ b.term_and_vote THEN [d EXCEPT !.term = b.term, !.vote = b.voted_for] ELSE d
      d2 == IF k >= 2 /\ b.snp # NoSnp THEN StoreSnapshot(d1, b.snp) ELSE d1
      d3 == IF k >= 3 /\ b.log_entries # << >> /\ last >= b.log_entries[1].idx
            THEN TruncateLog(d2, b.log_entries[1].idx) ELSE d2
  IN  IF k >= 4 THEN [d3 EXCEPT !.log = @ \o b.log_entries] ELSE d3
StoredCommit(d, b) ==
  IF b.committed = << >> THEN d
  ELSE [d EXCEPT !.commit_idx = b.committed[Len(b.committed)].idx]

AllWrites == 4
\* Faulty variant: messages leave before the entries are stored.
SentAfter_TermAndVote == 1
SentAfter == 4

\* The committed prefix once batch b has been seen, with the term of b.
Decided(b) ==
  decided \o [k \in 1..Len(SelectSeq(b.committed, LAMBDA e : e.idx > Len(decided))) |->
                [entry |-> SelectSeq(b.committed, LAMBDA e : e.idx > Len(decided))[k], at |-> b.term]]

\* The fiber polls the fsm.
PollOutput(s) ==
  /\ io[s] = NoBatch /\ HasOutput(fsm[s]) /\ Cardinality(Busy \ {s}) <= Plan.busy
  /\ LET g == Flush(fsm[s])
     IN  /\ io' = [io EXCEPT ![s] = Output(g) @@ [sent |-> FALSE]]
         /\ decided' = Decided(Output(g))
         /\ fsm' = [fsm EXCEPT ![s] = Observed(g)]
  /\ UNCHANGED <<stable, disk, net, promised, reads, left, plan>>

Sent(s, b) == [net EXCEPT ![s] = [t \in Server |-> net[s][t] \o For(b.messages, t)]]

\* What the messages of a queue commit their sender to: a granted vote is a promise
\* to its receiver, a message that only leaders send is a claim to lead.
Statement(m) ==
  [by |-> m.from, term |-> m.term, for |-> IF FromLeader(m) THEN m.from ELSE m.to,
   kind |-> IF FromLeader(m) THEN "claim" ELSE "vote"]
Binds(m) == FromLeader(m) \/ (m.type = "vote_reply" /\ m.granted /\ ~m.is_prevote)
Statements(q) ==
  UNION {{Statement(q[t][k]) : k \in {j \in 1..Len(q[t]) : Binds(q[t][j])}} : t \in DOMAIN q}

\* The end of process_fsm_output(): the read barriers that have their quorum are
\* completed; if the server does not lead by then, the others fail.
ReadsAfter(s, b) ==
  {CASE r.server # s \/ r.status # "waiting" -> r
     [] r.id <= b.read_id -> [r EXCEPT !.status = "done", !.done_in = b.term]
     [] ~IsLeader(fsm[s]) -> [r EXCEPT !.status = "failed"]
     [] OTHER -> r : r \in reads}

\* It stores the batch and sends its messages.  Without committed entries it then
\* comes to the end with no further wait.
ProcessOutput(s) ==
  /\ io[s] # NoBatch /\ ~io[s].sent
  /\ LET b == io[s]
     IN  /\ disk' = [disk EXCEPT ![s] = Stored(@, b, stable[s], AllWrites)]
         /\ stable' = [stable EXCEPT ![s] =
                         IF b.log_entries = << >> THEN @ ELSE b.log_entries[Len(b.log_entries)].idx]
         /\ net' = Sent(s, b) /\ promised' = promised \cup Statements(b.messages)
         /\ IF b.committed = << >>
            THEN io' = [io EXCEPT ![s] = NoBatch] /\ reads' = ReadsAfter(s, b)
            ELSE io' = [io EXCEPT ![s].sent = TRUE] /\ reads' = reads
  /\ UNCHANGED <<fsm, decided, left, plan>>

\* Committed entries are passed on once the commit index is stored; the fsm has
\* gone on handling messages meanwhile.
FinishOutput(s) ==
  /\ io[s] # NoBatch /\ io[s].sent
  /\ disk' = [disk EXCEPT ![s] = StoredCommit(@, io[s])]
  /\ reads' = ReadsAfter(s, io[s])
  /\ io' = [io EXCEPT ![s] = NoBatch]
  /\ UNCHANGED <<fsm, stable, net, promised, decided, left, plan>>

\* A crash after k of the writes of the batch in hand, with its messages sent or
\* not if the time for that had come, then a restart.
Crash(s, k) ==
  /\ s \in Plan.crashing /\ Spend("crash")
  /\ io[s] = NoBatch \/ io[s].sent => k = 0
  /\ LET d == IF k = 0 THEN disk[s] ELSE Stored(disk[s], io[s], stable[s], k)
     IN  /\ disk' = [disk EXCEPT ![s] = d]
         /\ fsm' = [fsm EXCEPT ![s] = Load(s, d)]
         /\ stable' = [stable EXCEPT ![s] = LastIdx(NewLog(d.snapshot, d.log))]
         /\ \/ UNCHANGED <<net, promised>>
            \/ k >= SentAfter /\ net' = Sent(s, io[s]) /\ promised' = promised \cup Statements(io[s].messages)
         /\ reads' = {r \in reads : r.server # s \/ r.status # "waiting"}
  /\ io' = [io EXCEPT ![s] = NoBatch]
  /\ UNCHANGED <<decided, plan>>

----------------------------------------------------------------------------
(* Inputs of the fsm                                                       *)

Change(s, f) == fsm' = [fsm EXCEPT ![s] = f]
Quiet == UNCHANGED <<io, stable, disk, promised, decided, plan>>

\* The k-th message from s to t arrives: the first in line, or at the price of a
\* fault one that overtakes others or is to arrive again.  Snapshot transfers are
\* synchronous calls: they and their replies arrive once.
IsCall(m) == m.type \in {"install_snapshot", "snapshot_reply"}
Deliver(s, t, k, again) ==
  /\ k <= Len(net[s][t])
  /\ again => ~IsCall(net[s][t][k])
  /\ IF k = 1 /\ ~again THEN left' = left ELSE Spend("fault")
  /\ Change(t, Step(fsm[t], net[s][t][k]))
  /\ net' = IF again THEN net ELSE [net EXCEPT ![s][t] = RemoveAt(@, k)]
  /\ Quiet /\ UNCHANGED reads

\* A message is lost.  For a snapshot transfer that means that the call fails, and
\* its caller reports so to its own fsm (send_snapshot()).
Caller(m) == IF m.type = "install_snapshot" THEN m.from ELSE m.to
Failure(m) ==
  LET c == Caller(m)
  IN  [SnapshotReply(fsm[c], c, FALSE) EXCEPT !.from = IF c = m.from THEN m.to ELSE m.from]
Lose(s, t) ==
  /\ net[s][t] # << >>
  /\ Spend("fault")
  /\ net' = [net EXCEPT ![s][t] = Tail(@)]
  /\ LET m == Head(net[s][t])
     IN  IF IsCall(m) THEN Change(Caller(m), Step(fsm[Caller(m)], Failure(m))) ELSE fsm' = fsm
  /\ Quiet /\ UNCHANGED reads

ElectionTimeout(s) ==
  /\ ~IsLeader(fsm[s]) /\ s \in Plan.campaigners
  /\ Spend("election")
  /\ Change(s, TickOther(fsm[s], TRUE, Server))
  /\ Quiet /\ UNCHANGED <<net, reads>>

\* A leader that has not heard from a quorum steps down.
LeaderTimeout(s) ==
  /\ IsLeader(fsm[s])
  /\ Spend("tick")
  /\ Change(s, BecomeFollower(fsm[s], Nil))
  /\ Quiet /\ UNCHANGED <<net, reads>>

Idle(s) == s \notin Busy /\ \A t \in Server : net[s][t] = << >> /\ net[t][s] = << >>

Heartbeat(s, expired) ==
  /\ IsLeader(fsm[s])
  /\ IF Plan.idle_ticks /\ Idle(s)
     THEN left' = left ELSE Spend("tick")
  /\ Change(s, TickLeader(fsm[s], expired))
  /\ Quiet /\ UNCHANGED <<net, reads>>

\* wait_for_leader() asks the fsm to look for a leader; the next tick does.
PingLeader(s) ==
  /\ CurrentLeader(fsm[s]) = Nil /\ fsm[s].state = "follower"
  /\ Spend("ping")
  /\ Change(s, TickOther([fsm[s] EXCEPT !.ping_leader = TRUE], FALSE, Server))
  /\ Quiet /\ UNCHANGED <<net, reads>>

AddCommand(s, c) ==
  /\ CanAddEntry(fsm[s]) /\ LastIdx(fsm[s].log) < Plan.max_idx
  /\ Change(s, AppendOwn(fsm[s], "command", c))
  /\ Quiet /\ UNCHANGED <<net, reads, left>>

SetConfigurationTo(s, ms) ==
  /\ CanAddConfiguration(fsm[s], ms) /\ LastIdx(fsm[s].log) < Plan.max_idx
  /\ ms # Conf(fsm[s]).current
  /\ Change(s, AddConfiguration(fsm[s], ms))
  /\ Quiet /\ UNCHANGED <<net, reads, left>>

StepDown(s) ==
  /\ CanTransfer(fsm[s]) /\ ~fsm[s].stepdown
  /\ Spend("transfer")
  /\ Change(s, TransferLeadership(fsm[s]))
  /\ Quiet /\ UNCHANGED <<net, reads>>

\* What may have been applied: what the I/O fiber has passed on as committed.
Applied(s) ==
  IF io[s] = NoBatch \/ io[s].committed = << >> THEN fsm[s].observed[3]
  ELSE io[s].committed[1].idx - 1

\* The applier fiber snapshots an applied prefix.
TakeSnapshot(s, idx, trailing) ==
  /\ idx > fsm[s].log.snapshot.idx /\ idx <= Applied(s)
  /\ Spend("snapshot")
  /\ Change(s, FsmApplySnapshot(fsm[s],
       [idx |-> idx, term |-> TermFor(fsm[s].log, idx), config |-> LastConfFor(fsm[s].log, idx)],
       trailing, Plan.max_idx, TRUE))
  /\ Quiet /\ UNCHANGED <<net, reads>>

\* A read barrier starts on a leader; `floor' remembers what was committed then.
StartRead(s) ==
  /\ CanStartRead(fsm[s], s)
  /\ Spend("read")
  /\ Change(s, StartReadBarrier(fsm[s]))
  /\ reads' = reads \cup {[server |-> s, id |-> fsm[s].last_read_id + 1, term |-> fsm[s].current_term,
                           idx |-> fsm[s].commit_idx, floor |-> Len(decided), status |-> "waiting", done_in |-> 0]}
  /\ Quiet /\ UNCHANGED net

Fibers ==
  \E s \in Server :
    \/ PollOutput(s) \/ ProcessOutput(s) \/ FinishOutput(s)
    \/ \E k \in 0..AllWrites : Crash(s, k)
Inputs ==
  \/ \E s \in Server :
       \/ ElectionTimeout(s) \/ LeaderTimeout(s) \/ PingLeader(s)
       \/ \E e \in BOOLEAN : Heartbeat(s, e)
       \/ \E c \in Plan.commands : AddCommand(s, c)
       \/ \E ms \in Plan.targets : SetConfigurationTo(s, ms)
       \/ StepDown(s) \/ StartRead(s)
       \/ \E i \in 1..Plan.max_idx, t \in Plan.trailing : TakeSnapshot(s, i, t)
  \/ \E s, t \in Server : \/ \E k \in 1..MaxOvertake, again \in BOOLEAN : Deliver(s, t, k, again)
                          \/ Lose(s, t)

Next == Fibers \/ (Turn /\ Inputs)

Spec == Init /\ [][Next]_vars

\* What the runtime gives: fibers run, what is sent and not lost arrives, and the
\* leader's timer ticks.  This is weak fairness of the four actions, with ENABLED
\* spelled out.
CanPoll(s) == io[s] = NoBatch /\ HasOutput(fsm[s]) /\ Cardinality(Busy \ {s}) <= Plan.busy
CanTick(s) == IsLeader(fsm[s]) /\ Turn /\ Plan.idle_ticks /\ Idle(s) /\ TickLeader(fsm[s], FALSE) # fsm[s]
Fairness ==
  /\ \A s \in Server :
       /\ []<>~CanPoll(s) \/ []<><<PollOutput(s)>>_vars
       /\ []<>(io[s] = NoBatch) \/ []<><<ProcessOutput(s) \/ FinishOutput(s)>>_vars
       /\ []<>~CanTick(s) \/ []<><<Heartbeat(s, FALSE)>>_vars
  /\ \A s, t \in Server :
       []<>(net[s][t] = << >> \/ ~Turn) \/ []<><<Deliver(s, t, 1, FALSE)>>_vars

----------------------------------------------------------------------------
(* Properties                                                              *)

\* Entry i as the disk d would give it back after a restart; TRUE stands for
\* "inside the snapshot".
OnDisk(d, e) == e.idx <= d.snapshot.idx \/ \E k \in 1..Len(d.log) : d.log[k] = e
InLog(l, e)  == \/ e.idx <= l.snapshot.idx
                \/ e.idx >= l.first_idx /\ e.idx <= LastIdx(l) /\ GetEntry(l, e.idx) = e

\* Messages still to be handled are of known types and every index is in range.
TypeOK ==
  /\ \A s \in Server :
       /\ fsm[s].id = s
       /\ fsm[s].state \in {"follower", "candidate", "leader"}
       /\ fsm[s].current_term \in Nat
       /\ fsm[s].voted_for \in Server \cup {Nil}
       /\ fsm[s].commit_idx \in fsm[s].log.snapshot.idx..LastIdx(fsm[s].log)
       /\ fsm[s].log.stable_idx \in fsm[s].log.snapshot.idx..LastIdx(fsm[s].log)
       /\ fsm[s].log.first_idx \in 1..(fsm[s].log.snapshot.idx + 1)
       /\ disk[s].commit_idx <= disk[s].snapshot.idx + Len(disk[s].log)
  /\ \A s, t \in Server : \A k \in 1..Len(net[s][t]) : net[s][t][k].from = s /\ net[s][t][k].to = t /\ s # t

\* No two servers lead in the same term, whatever crashes happened in between.
OneLeaderPerTerm ==
  \A s, t \in Server :
    IsLeader(fsm[s]) /\ IsLeader(fsm[t]) /\ fsm[s].current_term = fsm[t].current_term => s = t

\* Whatever a server passes on to be applied, from its log or as a snapshot,
\* is what was committed at that index before (state machine safety).
NoDivergence ==
  \A s \in Server :
    /\ io[s] # NoBatch => \A k \in 1..Len(io[s].committed) :
         LET e == io[s].committed[k] IN e.idx <= Len(decided) => decided[e.idx].entry = e
    /\ LET snp == disk[s].snapshot
       IN  snp.idx > 0 => snp.idx <= Len(decided) /\ decided[snp.idx].entry.term = snp.term

\* A leader has every entry that was committed in an earlier term.
LeaderCompleteness ==
  \A s \in Server : IsLeader(fsm[s]) => \A k \in 1..Len(decided) :
    decided[k].at < fsm[s].current_term => InLog(fsm[s].log, decided[k].entry)

\* What is counted on is on disk, with a crash at any write.  Entries committed before any
\* change of the configuration are on the disks of a majority of its voters, although the
\* leader counts its own copy before it is written.  And match_idx is a promise of the
\* follower: while it is in the leader's term, its disk agrees with the leader up to there.
CountedIsDurable ==
  /\ \A k \in 1..Len(decided) : (\A j \in 1..k : ~IsConf(decided[j].entry)) =>
       2 * Cardinality({s \in Voters(Plan.members) : OnDisk(disk[s], decided[k].entry)})
         > Cardinality(Voters(Plan.members))
  /\ \A s \in Server : IsLeader(fsm[s]) => \A p \in Peers(fsm[s]) :
       disk[p].term <= fsm[s].current_term =>
         \A i \in fsm[s].log.first_idx..fsm[s].tracker[p].match_idx :
           OnDisk(disk[p], GetEntry(fsm[s].log, i))

\* A committed configuration is on the disks of a majority of its own voters, and
\* while it is joint of a majority of the voters before it as well.
ConfigurationsReachTheirVoters ==
  \A k \in 1..Len(decided) : LET e == decided[k].entry IN IsConf(e) =>
    \A ms \in {e.data.current, e.data.previous} \ {NoMembers} :
      2 * Cardinality({s \in Voters(ms) : OnDisk(disk[s], e)}) > Cardinality(Voters(ms))

\* The assertions and internal errors of the fsm: a message of the current term
\* from another leader than the one known, entries that leave a gap or overwrite
\* the snapshot, a next index at or below the match index, a candidate without a
\* previous configuration, a read reply from the future.
FsmAsserts ==
  /\ \A s, t \in Server : \A k \in 1..Len(net[s][t]) : LET m == net[s][t][k]  f == fsm[t] IN
       /\ m.term = f.current_term /\ FromLeader(m) => CurrentLeader(f) \in {Nil, m.from}
       /\ /\ m.type = "append_request" /\ m.term >= f.current_term
          /\ MatchTerm(f.log, m.prev_log_idx, m.prev_log_term)
          => MaybeAppendAsserts(f.log, m.entries)
       /\ m.type = "read_quorum_reply" => m.term <= f.current_term
  /\ \A s \in Server : LET f == fsm[s] IN
       /\ \A p \in DOMAIN f.tracker : f.tracker[p].next_idx > f.tracker[p].match_idx
       /\ LastConfIdx(f.log) > f.commit_idx => HasPrevConfiguration(f.log)

\* If two logs have an entry with the same index and term, they are identical up
\* to there (log.hh).
LogMatching ==
  \A s, t \in Server : LET l == fsm[s].log  k == fsm[t].log IN
    \A i \in l.first_idx..LastIdx(l) :
      i >= k.first_idx /\ i <= LastIdx(k) /\ GetEntry(l, i).term = GetEntry(k, i).term
        => \A j \in MaxOf(l.first_idx, k.first_idx)..i : GetEntry(l, j) = GetEntry(k, j)

\* A read barrier returns an "index that is safe to read without breaking
\* linearizability" (raft.hh): completed in the term it began in, it covers
\* everything committed before it began.  A deposed leader that has not noticed yet
\* does not get the quorum for a stale read.
ReadsAreLinearizableInTerm ==
  \A r \in reads : r.status = "done" /\ r.done_in = r.term => r.idx >= r.floor

\* Two configurations are never in flight in a leader's log: beyond what is committed
\* it holds at most one, even if it has restarted with an older commit index.
OneConfigurationChange ==
  \A s \in Server : IsLeader(fsm[s]) =>
    Cardinality({i \in ConfIdxs(fsm[s].log.entries, fsm[s].log.snapshot.idx) :
                   i > MaxOf(fsm[s].commit_idx, Len(decided))}) <= 1

\* While a leader that steps down waits for the server it told to run for election,
\* that server has the whole of the leader's log: a transfer loses no entry that
\* the leader has accepted.
TransferLosesNothing ==
  \A s \in Server : LET f == fsm[s]  t == f.timeout_now_sent IN
    IsLeader(f) /\ t # Nil /\ fsm[t].current_term = f.current_term =>
      \A i \in f.log.first_idx..LastIdx(f.log) : InLog(fsm[t].log, GetEntry(f.log, i))

MaxLen == Max({Plans[p].max_idx : p \in DOMAIN Plans})

\* Every entry the leader adds is committed on all servers in the end, although
\* messages are lost: ticks repeat what was not acknowledged.
EntriesReachEveryone ==
  \A i \in 1..MaxLen :
    (\E s \in Server : IsLeader(fsm[s]) /\ LastIdx(fsm[s].log) >= i)
      ~> (\A s \in Server : fsm[s].commit_idx >= i)

----------------------------------------------------------------------------
(* Elections, as RaftVoting specifies them, while all servers are the voters *)

Voting == INSTANCE RaftVoting WITH
  MaxTerm <- Max({Plans[p].budget["election"] : p \in DOMAIN Plans}),
  Quorum  <- {Q \in SUBSET Server : 2 * Cardinality(Q) > Cardinality(Server)},
  cur     <- [s \in Server |-> [term |-> fsm[s].current_term, vote |-> fsm[s].voted_for]],
  saved   <- [s \in Server |-> [term |-> fsm[s].observed[1], vote |-> fsm[s].observed[2]]],
  durable <- [s \in Server |-> [term |-> disk[s].term, vote |-> disk[s].vote]],
  leading <- [s \in Server |-> IsLeader(fsm[s])],
  out     <- [s \in Server |-> Statements(fsm[s].messages) \cup
                 (IF io[s] = NoBatch THEN {} ELSE Statements(io[s].messages))],
  sent    <- promised

\* The group implements RaftVoting: what its servers say about a term is covered by
\* what is on their disks before it leaves them.
ImplementsVoting == Voting!Spec
=============================================================================
