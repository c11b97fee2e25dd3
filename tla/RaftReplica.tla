---------------------------- MODULE RaftReplica ----------------------------
(***************************************************************************)
(* One server's raft::log driven by everything the protocol may ask of it: *)
(* entries appended as a leader, AppendEntries of successive leaders that  *)
(* overwrite its tail, local and remote snapshots, persistence, restart.   *)
(*                                                                         *)
(* `group' is the log of the current leader of the group, whichever server *)
(* that is, `decided' the length of its committed prefix and `past' what   *)
(* earlier leaders left: what the rest of the group may do, reduced to     *)
(* what one log can observe.  Leaders follow each other in the order of    *)
(* their terms.  One that goes on after the next was elected does nothing  *)
(* here that it could not have done before: the server still hears of it   *)
(* only while it has not heard of the next.                                *)
(***************************************************************************)
EXTENDS RaftLog

CONSTANTS
  Command, Config,    \* payloads of command and configuration entries
  InitConfig,         \* configuration of the bootstrap snapshot
  MaxLeaders, MaxIdx, \* bounds: terms, length of the leader's log,
  MaxSum,             \* and of a term and the longest log together
  MaxAppend,          \* bound: entries in one AppendEntries
  TrailingEntries,    \* values of snapshot_trailing
  TrailingBytes       \* value of snapshot_trailing_size

\* The counts and sizes are unsigned (size_t).
ASSUME ReplicaAssumption ==
  /\ MaxLeaders \in Nat /\ MaxIdx \in Nat /\ MaxSum \in Nat /\ MaxAppend \in Nat
  /\ TrailingEntries \subseteq Nat /\ TrailingBytes \in Nat

VARIABLES
  log,      \* _log of the server
  commit,   \* _commit_idx of the server
  leads,    \* is the server itself the current leader?
  group,    \* the current leader's whole log, from index 1
  decided,  \* length of the prefix of `group' that is committed
  term,     \* the current leader's term
  past      \* past[t] is the log the leader of term t left
replicaVars == <<log, commit, leads, group, decided, term, past>>

Dummy == "dummy"
Entry(i, t, k, d) == [idx |-> i, term |-> t, kind |-> k, data |-> d]

Bootstrap == [idx |-> 0, term |-> 0, config |-> InitConfig]

ReplicaInit ==
  /\ log = NewLog(Bootstrap, << >>)
  /\ commit = 0 /\ leads = FALSE
  /\ group = << >> /\ decided = 0 /\ term = 0
  /\ past = [t \in 0..MaxLeaders |-> << >>]

\* The configuration in force at index i of the group's log.
GroupConf(i) ==
  LET c == Greatest({j \in ConfIdxs(group, 0) : j <= i})
  IN  IF c = 0 THEN InitConfig ELSE group[c].data

(***************************************************************************)
(* The group.                                                              *)
(***************************************************************************)
\* fsm::add_entry() on the leader.  A configuration is accepted only when the
\* previous one is committed; leaving a joint configuration obeys the same rule.
AddEntry(k, d) ==
  /\ term > 0 /\ Len(group) < MaxIdx /\ term + Len(group) < MaxSum
  /\ k = "configuration" => \A i \in ConfIdxs(group, 0) : i <= decided
  /\ LET e == Entry(Len(group) + 1, term, k, d)
     IN  /\ group' = Append(group, e)
         /\ log' = IF leads THEN EmplaceBack(log, e) ELSE log
  /\ UNCHANGED <<commit, leads, decided, term, past>>

\* A majority holds a prefix that ends in an entry of the leader's own term.
Decide ==
  /\ \E n \in (decided + 1)..Len(group) : group[n].term = term /\ decided' = n
  /\ UNCHANGED <<log, commit, leads, group, term, past>>

\* What leaders have left, and what the present one has.
Left == {past[t] : t \in 0..MaxLeaders} \cup {group}

\* The server's log from index 1: what its snapshot replaced was decided.
WholeLog == SubSeq(group, 1, log.first_idx - 1) \o log.entries

\* become_leader() on a server whose log holds all decided entries: this one (self), or
\* one whose log is a prefix of what some earlier leader left.  One of its voters has the
\* last decided entry, and votes for no log that ends in an older term (is_up_to_date()).
NewLeader(self, base) ==
  /\ term < MaxLeaders /\ Len(base) < MaxIdx
  /\ \A l \in Left \cup {base} : term + 1 + Len(l) < MaxSum
  /\ Len(base) >= decided /\ SubSeq(base, 1, decided) = SubSeq(group, 1, decided)
  /\ decided > 0 => base[Len(base)].term >= group[decided].term
  /\ LET e == Entry(Len(base) + 1, term + 1, "dummy", Dummy)
     IN  /\ group' = Append(base, e)
         /\ log' = IF self THEN EmplaceBack(log, e) ELSE log
  /\ term' = term + 1 /\ leads' = self
  /\ past' = [past EXCEPT ![term] = group]
  /\ UNCHANGED <<commit, decided>>

\* The logs other servers may have.
Prefixes == UNION {{SubSeq(l, 1, n) : n \in 0..Len(l)} : l \in Left}

(***************************************************************************)
(* The server.                                                             *)
(***************************************************************************)
PrevTerm(p) == IF p = 0 THEN 0 ELSE group[p].term

\* Faulty variant: the commit index is not limited by what the message covers.
AppendEntries_CommitTail(p, n, leaderCommit) ==
  /\ ~leads /\ p + n <= Len(group)
  /\ MatchTerm(log, p, PrevTerm(p))
  /\ log' = IF n = 0 THEN log ELSE MaybeAppend(log, SubSeq(group, p + 1, p + n))
  /\ commit' = MaxOf(commit, MinOf(leaderCommit, LastIdx(log')))
  /\ UNCHANGED <<leads, group, decided, term, past>>

\* fsm::append_entries(): the leader's entries after index p, any number of
\* them, in any order and any number of times; a mismatch leaves no trace.  (A commit
\* index below the server's own has the effect of that, so ReplicaNext does not try it.)
AppendEntries(p, n, leaderCommit) ==
  /\ ~leads /\ p + n <= Len(group)
  /\ MatchTerm(log, p, PrevTerm(p))
  /\ log' = IF n = 0 THEN log ELSE MaybeAppend(log, SubSeq(group, p + 1, p + n))
  /\ commit' = MaxOf(commit, MinOf(MinOf(leaderCommit, p + n), LastIdx(log')))
  /\ UNCHANGED <<leads, group, decided, term, past>>

\* The leader's own maybe_commit().
LeaderCommit ==
  /\ leads /\ commit < decided
  /\ commit' = decided
  /\ UNCHANGED <<log, leads, group, decided, term, past>>

\* fsm::get_output() hands the unstable suffix to persistence.
Persist ==
  /\ log.stable_idx < LastIdx(log)
  /\ log' = StableTo(log, LastIdx(log))
  /\ UNCHANGED <<commit, leads, group, decided, term, past>>

\* The applier fiber snapshots the applied prefix; the configuration it stores
\* is the one last_conf_for() reports.
TakeSnapshot(i, trailing) ==
  /\ i > log.snapshot.idx /\ i <= commit
  /\ log' = ApplySnapshot(log,
              [idx |-> i, term |-> TermFor(log, i), config |-> LastConfFor(log, i)],
              trailing, TrailingBytes)
  /\ UNCHANGED <<commit, leads, group, decided, term, past>>

\* A snapshot from the leader, accepted only beyond the commit index.
InstallSnapshot(i) ==
  /\ ~leads /\ i > commit
  /\ log' = ApplySnapshot(log, [idx |-> i, term |-> group[i].term, config |-> GroupConf(i)], 0, 0)
  /\ commit' = i
  /\ UNCHANGED <<leads, group, decided, term, past>>

\* Crash and restart: the unstable suffix is lost, the commit index falls back
\* to the last value stored, never below the snapshot.
Restart(c) ==
  /\ log' = NewLog(log.snapshot, Slice(log, log.first_idx, log.stable_idx))
  /\ c <= MinOf(commit, log.stable_idx) /\ c >= log.snapshot.idx
  /\ commit' = c
  /\ leads' = FALSE
  /\ UNCHANGED <<group, decided, term, past>>

ReplicaNext ==
  \/ \E d \in Command : AddEntry("command", d)
  \/ \E d \in Config : AddEntry("configuration", d)
  \/ Decide
  \/ NewLeader(TRUE, WholeLog)
  \/ \E base \in Prefixes : NewLeader(FALSE, base)
  \/ \E p \in 0..Len(group), n \in 0..MaxAppend, c \in commit..decided : AppendEntries(p, n, c)
  \/ LeaderCommit
  \/ Persist
  \/ \E i \in 1..commit, t \in TrailingEntries : TakeSnapshot(i, t)
  \/ \E i \in 1..decided : InstallSnapshot(i)
  \/ \E c \in 0..commit : Restart(c)

ReplicaSpec == ReplicaInit /\ [][ReplicaNext]_replicaVars

----------------------------------------------------------------------------
Snapshots == [idx : Nat, term : Nat, config : Config]
Entries == [idx : Nat \ {0}, term : Nat,
            kind : {"command", "configuration", "dummy"}, data : Command \cup Config \cup {Dummy}]

\* Every variable has its type, and the indices of the log are in order.
ReplicaTypeOK ==
  /\ log \in [snapshot : Snapshots, entries : Seq(Entries), first_idx : Nat \ {0},
              stable_idx : Nat, last_conf_idx : Nat, prev_conf_idx : Nat, memory_usage : Nat]
  /\ commit \in Nat /\ decided \in Nat /\ term \in Nat /\ leads \in BOOLEAN
  /\ group \in Seq(Entries) /\ past \in [0..MaxLeaders -> Seq(Entries)]
  /\ log.first_idx <= log.snapshot.idx + 1 /\ log.snapshot.idx <= log.stable_idx
  /\ log.stable_idx <= LastIdx(log)

\* Whatever mixture of truncations, snapshots and restarts led here, the cached position
\* of the last configuration is the one a scan of the log would find, so that
\* get_configuration() returns the configuration in force.  The position before it, when
\* remembered, is the previous configuration entry; when forgotten, the last one is
\* decided and will never be truncated, or there is no other after the snapshot.  And
\* the incremental count of memory_usage(), which the leader's log limiter is charged for,
\* is the size of the commands held.
CachesExact ==
  LET confs  == ConfIdxs(log.entries, log.snapshot.idx)
      others == confs \ {log.last_conf_idx}
  IN  /\ log.last_conf_idx = Greatest(confs)
      /\ IF log.prev_conf_idx # 0 THEN log.prev_conf_idx = Greatest(others)
         ELSE others = {} \/ log.last_conf_idx <= decided
      /\ log.memory_usage = MemoryUsage(log.entries)

\* Every committed entry the server holds, and the last entry of its snapshot,
\* is the one the group decided at that index (state machine safety); a stale
\* tail is never taken for committed.
CommittedIsDecided ==
  /\ log.snapshot.idx <= commit /\ commit <= LastIdx(log) /\ commit <= decided
  /\ \A i \in log.first_idx..commit : GetEntry(log, i) = group[i]
  /\ log.snapshot.idx > 0 => log.snapshot.term = group[log.snapshot.idx].term

\* The assertions of maybe_append() hold for every AppendEntries that can arrive.
AppendAsserts ==
  ~leads => \A p \in 0..Len(group) : \A n \in 1..MaxAppend :
    p + n <= Len(group) /\ MatchTerm(log, p, PrevTerm(p))
      => MaybeAppendAsserts(log, SubSeq(group, p + 1, p + n))

\* The descriptor of a snapshot holds the committed configuration at its index
\* (raft.hh), which the applier fiber takes from last_conf_for(): "the last
\* configuration entry with index smaller than or equal to idx" (log.hh).
SnapshotConfigIsCommitted ==
  log.snapshot.idx <= decided => log.snapshot.config = GroupConf(log.snapshot.idx)

\* No step removes a committed entry above the snapshot or changes one in place.  A
\* restart may take the commit index back; what is committed after it was there before.
CommittedNeverDropped ==
  [][\A i \in (log'.snapshot.idx + 1)..MinOf(commit, commit') :
       i <= LastIdx(log') /\ GetEntry(log', i) = GetEntry(log, i)]_replicaVars
=============================================================================
