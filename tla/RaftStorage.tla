---------------------------- MODULE RaftStorage ----------------------------
(***************************************************************************)
(* Persistence of a Raft server in system tables, class                    *)
(* raft_sys_table_storage (service/raft/raft_sys_table_storage.cc).  Every *)
(* operation is a sequence of CQL statements; each statement is one atomic *)
(* write, stamped with the wall clock, and cells are reconciled by         *)
(* timestamp.  A crash leaves the statements executed so far.  Assumed:     *)
(* the clock has moved forward between two statements.                     *)
(*                                                                         *)
(*   system.raft            static cells vote (term and vote), commit_idx  *)
(*                          and snapshot_id; a row per log entry           *)
(*   system.raft_snapshots  one row: index and term of the snapshot        *)
(*   system.raft_snapshot_config  a row per member of its configuration    *)
(*                                                                         *)
(* The calls are those of the I/O fiber, one at a time                     *)
(* (execute_with_linearization_point), with any arguments it may pass.     *)
(***************************************************************************)
EXTENDS Integers, Sequences, SequencesExt

CONSTANTS
  Voter, Nil,        \* values of a vote
  Config,            \* configurations, as sets of <<disposition, server, can_vote>>
  InitConfig,        \* the configuration bootstrap() stores
  BatchSize,         \* log entries that fit into _max_mutation_size
  MaxTerm, MaxIdx, MaxSnapshots, MaxCalls, MaxRestarts    \* bounds

VARIABLES
  clock,      \* the wall clock
  raft, snapshots, snapshot_config,   \* the tables
  todo,       \* statements of the running operation still to be executed
  before,     \* what the server had stored before that operation
  after,      \* what it will have stored after it
  used        \* calls and restarts so far
vars == <<clock, raft, snapshots, snapshot_config, todo, before, after, used>>

\* A write takes effect if it is newer than what is there.
Cell(v, ts) == [value |-> v, ts |-> ts]
Newer(old, v, ts) == IF ts > old.ts THEN Cell(v, ts) ELSE old
Unwritten == Cell(Nil, -100)
Live(cell, del) == cell.ts > del
Later(a, b) == IF a >= b THEN a ELSE b

Keys == {<<r[1], r[2]>> : r \in UNION Config}   \* primary keys of system.raft_snapshot_config
Boot == [id |-> 0, idx |-> 0, term |-> 0, config |-> InitConfig]

\* The tables after bootstrap() on a new server.
Init ==
  /\ clock = 0
  /\ raft = [vote |-> Unwritten, commit_idx |-> Unwritten, snapshot_id |-> Cell(0, 0),
             row |-> [i \in 1..MaxIdx |-> Unwritten], del |-> [i \in 1..MaxIdx |-> -100]]
  /\ snapshots = Cell([idx |-> 0, term |-> 0], 0)
  /\ snapshot_config = [del |-> -100, row |-> [k \in Keys |->
       IF \E r \in InitConfig : k = <<r[1], r[2]>>
       THEN Cell((CHOOSE r \in InitConfig : k = <<r[1], r[2]>>)[3], 0) ELSE Unwritten]]
  /\ todo = << >>
  /\ after = [term |-> 0, vote |-> Nil, commit_idx |-> 0, snapshot |-> Boot, log |-> << >>]
  /\ before = after
  /\ used = [call |-> 0, restart |-> 0]

----------------------------------------------------------------------------
(* Loading, at the start of a server                                       *)

LoadTermAndVote ==
  IF raft.vote.value = Nil THEN [term |-> 0, vote |-> Nil] ELSE raft.vote.value
LoadCommitIdx == IF raft.commit_idx.value = Nil THEN 0 ELSE raft.commit_idx.value
LoadLog ==
  LET row(i) == IF Live(raft.row[i], raft.del[i]) THEN raft.row[i].value ELSE Nil
  IN  SelectSeq([i \in 1..MaxIdx |-> row(i)], LAMBDA e : e # Nil)
LoadSnapshotDescriptor ==
  [id |-> raft.snapshot_id.value, idx |-> snapshots.value.idx, term |-> snapshots.value.term,
   config |-> {<<k[1], k[2], snapshot_config.row[k].value>> :
                k \in {k \in Keys : Live(snapshot_config.row[k], snapshot_config.del)}}]
Load == [term |-> LoadTermAndVote.term, vote |-> LoadTermAndVote.vote, commit_idx |-> LoadCommitIdx,
         snapshot |-> LoadSnapshotDescriptor, log |-> LoadLog]

----------------------------------------------------------------------------
(* Statements                                                              *)

RaftAfter(st, ts) ==
  CASE st.type = "vote" -> [raft EXCEPT !.vote = Newer(@, st.value, ts)]
    [] st.type = "commit_idx" -> [raft EXCEPT !.commit_idx = Newer(@, st.value, ts)]
    [] st.type = "entries" ->
         [raft EXCEPT !.row = [i \in 1..MaxIdx |->
            LET new == {k \in 1..Len(st.value) : st.value[k].idx = i}
            IN  IF new = {} THEN @[i] ELSE Newer(@[i], st.value[CHOOSE k \in new : TRUE], ts)]]
    [] st.type = "truncate" ->
         [raft EXCEPT !.del = [i \in 1..MaxIdx |-> IF i >= st.value THEN Later(@[i], ts) ELSE @[i]]]
    [] st.type = "latest" ->
         [raft EXCEPT !.snapshot_id = Newer(@, st.value.id, ts),
                      !.del = [i \in 1..MaxIdx |-> IF i <= st.value.tail THEN Later(@[i], ts) ELSE @[i]]]
    [] OTHER -> raft
SnapshotsAfter(st, ts) ==
  IF st.type = "snapshot" THEN Newer(snapshots, st.value, ts) ELSE snapshots
ConfigAfter(st, ts) ==
  CASE st.type = "clear_config" -> [snapshot_config EXCEPT !.del = Later(@, ts)]
    [] st.type = "member" -> 
         [snapshot_config EXCEPT !.row[<<st.value[1], st.value[2]>>] = Newer(@, st.value[3], ts)]
    [] OTHER -> snapshot_config

\* The next statement of the running operation, on the next tick of the clock.
Execute ==
  /\ todo # << >>
  /\ clock' = clock + 1
  /\ raft' = RaftAfter(Head(todo), clock + 1)
  /\ snapshots' = SnapshotsAfter(Head(todo), clock + 1)
  /\ snapshot_config' = ConfigAfter(Head(todo), clock + 1)
  /\ todo' = Tail(todo)
  /\ before' = IF Tail(todo) = << >> THEN after ELSE before
  /\ UNCHANGED <<after, used>>

St(type, value) == [type |-> type, value |-> value]

\* store_log_entries(): as many batches as the size limit asks for.
EntryStatements(es) ==
  [b \in 1..((Len(es) + BatchSize - 1) \div BatchSize) |->
     St("entries", SubSeq(es, (b - 1) * BatchSize + 1, b * BatchSize))]

\* A statement per member of the configuration, in some order.
MemberStatements(cfg) == LET Put(r, s) == Append(s, St("member", r)) IN FoldSet(Put, << >>, cfg)

\* Faulty variant: the log is truncated first.
SnapshotStatements_TailFirst(snp, preserve) ==
  <<St("latest", [id |-> snp.id, tail |-> snp.idx - preserve]),
    St("snapshot", [idx |-> snp.idx, term |-> snp.term]), St("clear_config", Nil)>>
  \o MemberStatements(snp.config)

\* store_snapshot_descriptor().
SnapshotStatements(snp, preserve) ==
  <<St("snapshot", [idx |-> snp.idx, term |-> snp.term]), St("clear_config", Nil)>>
  \o MemberStatements(snp.config)
  \o <<St("latest", [id |-> snp.id, tail |-> snp.idx - preserve])>>

----------------------------------------------------------------------------
(* Calls of the I/O fiber                                                  *)

Call(statements, stored) ==
  /\ todo = << >> /\ used.call < MaxCalls
  /\ todo' = statements
  /\ after' = stored
  /\ used' = [used EXCEPT !.call = @ + 1]
  /\ UNCHANGED <<clock, raft, snapshots, snapshot_config, before>>

LastIdx(p) == IF p.log = << >> THEN p.snapshot.idx ELSE p.log[Len(p.log)].idx

StoreTermAndVote(t, v) ==
  /\ t > after.term \/ (t = after.term /\ after.vote = Nil)
  /\ Call(<<St("vote", [term |-> t, vote |-> v])>>, [after EXCEPT !.term = t, !.vote = v])

StoreLogEntries(n) ==
  /\ LastIdx(after) + n <= MaxIdx /\ after.term > 0
  /\ LET es == [k \in 1..n |-> [idx |-> LastIdx(after) + k, term |-> after.term]]
     IN  Call(EntryStatements(es), [after EXCEPT !.log = @ \o es])

TruncateLog(i) ==
  /\ i > after.commit_idx /\ i > after.snapshot.idx /\ i <= LastIdx(after)
  /\ Call(<<St("truncate", i)>>, [after EXCEPT !.log = SelectSeq(@, LAMBDA e : e.idx < i)])

StoreCommitIdx(i) ==
  /\ i > after.commit_idx /\ i <= LastIdx(after)
  /\ Call(<<St("commit_idx", i)>>, [after EXCEPT !.commit_idx = i])

\* A local snapshot is at a committed entry and may preserve entries before it; a
\* remote one is beyond the commit index and preserves none.
StoreSnapshotDescriptor(i, t, cfg, preserve) ==
  /\ i > after.snapshot.idx /\ after.snapshot.id < MaxSnapshots
  /\ i > after.commit_idx => preserve = 0 /\ t <= after.term
  /\ i <= after.commit_idx => /\ \E k \in 1..Len(after.log) : after.log[k] = [idx |-> i, term |-> t]
                              /\ preserve <= i - after.log[1].idx + 1
  /\ LET snp == [id |-> after.snapshot.id + 1, idx |-> i, term |-> t, config |-> cfg]
     IN  Call(SnapshotStatements(snp, preserve),
              [after EXCEPT !.snapshot = snp,
                            !.log = SelectSeq(@, LAMBDA e : e.idx > i - preserve)])

----------------------------------------------------------------------------
(* The environment                                                         *)

\* A crash, and the server starts from what it loads.
Restart ==
  /\ used.restart < MaxRestarts
  /\ used' = [used EXCEPT !.restart = @ + 1]
  /\ todo' = << >> /\ after' = Load /\ before' = Load
  /\ UNCHANGED <<clock, raft, snapshots, snapshot_config>>

Next ==
  \/ Execute
  \/ \E t \in 1..MaxTerm, v \in Voter \cup {Nil} : StoreTermAndVote(t, v)
  \/ \E n \in 1..MaxIdx : StoreLogEntries(n)
  \/ \E i \in 1..MaxIdx : TruncateLog(i) \/ StoreCommitIdx(i)
  \/ \E i \in 1..MaxIdx, t \in 1..MaxTerm, cfg \in Config, preserve \in 0..1 :
       StoreSnapshotDescriptor(i, t, cfg, preserve)
  \/ Restart

Spec == Init /\ [][Next]_vars

----------------------------------------------------------------------------
\* A server that started now would get what it stored.  Whenever it crashes, its term and vote, its commit index and its log are
\* the ones before or after the running operation; of the entries being stored a
\* prefix may be there, never one without those before it.  And a restart passes the
\* assertion of log's constructor and the check of server_impl::start(): no entry after
\* the snapshot is missing, and the commit index is not beyond the log.
CrashIsClean ==
  LET now == Load
  IN  /\ todo = << >> => now = after
      /\ <<now.term, now.vote>> \in {<<p.term, p.vote>> : p \in {before, after}}
      /\ now.commit_idx \in {before.commit_idx, after.commit_idx}
      /\ \/ now.log \in {before.log, after.log}
         \/ IsPrefix(before.log, now.log) /\ IsPrefix(now.log, after.log)
      /\ now.log # << >> => now.log[1].idx <= now.snapshot.idx + 1
      /\ now.commit_idx <= LastIdx(now)

\* Whenever the server crashes, the snapshot descriptor it loads is one it stored:
\* the configuration in it is "the committed configuration in the snapshot" (raft.hh).
SnapshotIsWhole == Load.snapshot \in {before.snapshot, after.snapshot}
=============================================================================
