# Verification of the consensus core of ScyllaDB

This directory holds TLA+ specifications of the consensus layers of this
repository, the TLC configurations that check them on small instances, and
proofs that TLAPS checks. The repository is ScyllaDB; the parts with the hardest
protocols and the most damage in a mistake are

* the Raft implementation in `raft/` and its persistence in `service/raft/`,
* group 0, the Raft group that holds schema and topology: how servers agree on one
  (`discovery.cc`, `raft_group0.cc`) and how its state is changed (`raft_group0_client.cc`,
  `group0_state_machine.cc`),
* lightweight transactions (`service/paxos/` and the CAS path of
  `service/storage_proxy.cc`),
* the direct failure detector, whose notifications drive the first two.

## 1. Inventory

### The system's parts

| part | code | state | operations | what makes it correct |
|---|---|---|---|---|
| log | `raft/log.cc` | entries, snapshot descriptor, first and stable index, cached positions of the last two configurations, memory count | append, truncate, match, apply snapshot, rebuild from disk | committed entries stay; caches follow the log |
| progress, quorums, votes | `raft/tracker.cc`, `configuration` in `raft/raft.hh` | per follower: next and match index, PROBE/PIPELINE/SNAPSHOT, window, acknowledged reads; votes given | accept, reject, quorum of a (joint) configuration, tally | both majorities decide while a configuration is joint |
| protocol | `raft/fsm.cc`, `raft/fsm.hh` | role, term, vote, log, commit index, outgoing messages, what was last handed out | one handler per message, tick, add entry, transfer leadership, read barrier, `get_output()` | one leader per term, one history of committed entries, linearizable reads |
| server | `raft/server.cc` | I/O fiber with a batch in hand, queue to the applier fiber, waiters, reads, snapshot transfers | poll, persist, send, commit; client requests; start after a crash; abort | writes before messages; true answers for every caller; a state machine that is a decided prefix |
| persistence | `service/raft/raft_sys_table_storage.cc` | three system tables | store/load term and vote, entries, commit index, snapshot; truncate | what is stored is loaded; crashes leave before or after |
| RPC and registry | `service/raft/raft_rpc.cc`, `raft_group_registry.cc` | connections, address map | one-way messages, snapshot transfer as a call | |
| discovery and joining | `service/raft/discovery.cc`, `raft_group0.cc` | peers known, responses, `system.discovery`, the group 0 id | tick, request, response, join, handshake | one group, which everyone joins |
| group 0 client and state machine | `raft_group0_client.cc`, `group0_state_machine*.cc` | guards, state ids, history, tables | start operation, add entry, apply, transfer snapshot | a change takes effect once, and only on the state it was computed from |
| topology coordinator | `service/topology_coordinator.cc`, `storage_service.cc` | topology state in group 0 | one transition per step | |
| lightweight transactions | `service/paxos`, `cas()` in `service/storage_proxy.cc` | promise, accepted and learned proposal per key | prepare, accept, learn, prune, repair | linearizable, each update applied once |
| failure detector | `direct_failure_detector/` | requests, workers, liveness per endpoint and threshold | add/remove endpoint, ping, notify, unregister | notifications alternate and end in the truth |
| storage engine, gossip, hints, repair, streaming, CQL, front ends | rest of the repository | | | |

`PROJECT.json` lists each with what is modelled of it and why not the rest.

### How they interact

The fsm does no I/O. RPC handlers, the timer and client requests call it
synchronously; it changes its state and queues messages. The I/O fiber of the
server polls it (`get_output()`), writes what the batch asks for, one awaited
write after the other, sends the messages, stores the commit index and hands
committed entries and snapshots through a bounded queue to the applier fiber, which
drives the state machine, takes local snapshots and wakes callers. While either fiber
waits, the fsm goes on handling input. A remote snapshot arrives as a call whose
reply is produced by the receiver's I/O fiber.

Group 0 adds commands under a guard (a read barrier, a mutex, the last state id) and its
state machine skips those whose guard is out of date. A server finds its group by exchanging
peer lists, or creates it, starts a Raft server for it, is added by a member, and stores the
group's id. Lightweight transactions use no Raft: every operation is a Paxos
round of its own among the replicas of a row.

### What is hard

* The order of writes and messages, with a crash between any two (`process_fsm_output`).
* The leader counts its own copy of an entry before it is on disk (`advance_stable_idx`).
* Messages lost, repeated, overtaken; replies of an earlier leadership.
* Stale tails: the commit index of an append or of a read request must not
  cover entries that the sender does not know about.
* Joint configurations learned by servers at different times; changes that overlap.
* Caches that must follow the log through truncation, snapshot and restart.
* Callers that wait while leaders change, the log is overwritten, or a snapshot jumps
  over their entry; two callers at one index.
* Snapshot transfers and reads that outlive the leadership they belong to.
* Several statements in several tables for one persistent operation, ordered by
  wall-clock timestamps.
* Commands that are committed twice or late; snapshots pulled in several requests.
* Paxos rounds abandoned halfway, accepts that arrive after their coordinator has given up,
  learned values pruned too early.
* Discovery by servers that start at different times, crash, and forget what was not stored.
* Requests that change while a fiber is still working on the one before.

`PROJECT.json` lists the hazards, each at its line with the properties that cover it.

## 2. Modules

| module | models | style |
|---|---|---|
| `RaftLog` | `raft::log` | operators on a log record |
| `RaftReplica` | one log driven by the whole protocol | state machine |
| `RaftTracker` | `configuration`, `follower_progress`, `tracker`, `votes` | operators |
| `RaftFsm` | `raft::fsm` | operators on an fsm record; each takes the state and an input to the next state |
| `RaftCluster` | servers, their disks and I/O fibers, the network | state machine, EXTENDS `RaftFsm` |
| `RaftVoting` | what the group promises about votes and leaders | abstract state machine, implemented by `RaftCluster` |
| `RaftVotingProofs` | theorems about `RaftVoting`, and about the majorities that `RaftTracker` counts | TLAPS |
| `RaftServer` | one server above the protocol: both fibers, the queue, callers, local snapshots, `abort()` | state machine, EXTENDS `RaftLog` |
| `RaftTransfer` | what a server keeps across leaderships: snapshot transfers, reads, promised replies | state machine |
| `RaftStorage` | `raft_sys_table_storage` | state machine |
| `Discovery` | discovery of group 0 and `join_group0()` | state machine |
| `Group0` | group 0 client and state machine | state machine |
| `Group0Register` | what group 0 promises to the callers of its client | abstract state machine, implemented by `Group0` |
| `Paxos` | lightweight transactions on one row | state machine |
| `FailureDetector` | the direct failure detector | state machine |
| `RaftLogProofs` | what each operation of `RaftLog` returns, and what it caches | TLAPS |
| `RaftReplicaProofs`, `RaftServerProofs`, `RaftTransferProofs`, `FailureDetectorProofs`, `Group0Proofs`, `DiscoveryProofs` | theorems about `RaftReplica`, `RaftServer`, `RaftTransfer`, `FailureDetector`, `Group0`, `Discovery` | TLAPS |
| `MC*`, `PaxosPlans` | instances and scenarios for TLC | |

The module that a server really is, a fsm under fibers under group 0, would be
far out of TLC's reach in one piece. It is cut at the interfaces: each module has what is below
and around it as an environment that does whatever the interface allows (`RaftReplica` and
`RaftServer`: any history of leaders; `Group0`: any committed log; `RaftCluster`: a
persistence that keeps its contract, which `RaftStorage` checks against the implementation).

`MCComponents`, `MCTransactions` and `MCLiveness` put several specifications that do not
interact into one run: the variable `part`, chosen by the initial state, says which one
moves; the others stay in an initial state in which they have nothing to do. They EXTEND the modules
that theorems are about, so that a run checks the very definitions that are proved; names
(`ReplicaInit`, `TransferNext`, `DiscoverySpec`, `ChangesSpec`, `DetectorPlans`, ...) are chosen to be distinct for that
reason. Of the others they have instances.

### Correspondence

**`RaftLog`** keeps the names of the C++ members. `NewLog` is the constructor with
`init_last_conf_idx()`; `MaybeAppend` skips what the log has, truncates at the first
conflict and emplaces the rest, with the effect of each `emplace_back()` on the
cached positions. A command costs one unit of memory, configurations and dummies
none, as in `memory_usage_of()` up to scale.

**`RaftReplica`** reduces the rest of the group to the log of the current leader
(`group`), its term and the length of its committed prefix (`decided`): what one log
can notice of the others. `past` keeps what each earlier leader left. A new leader goes on from any prefix of any of
these logs, or from the server's own log (`leads`: the server is the leader itself), as long as the log has what is decided
and does not end in an older term than that (`is_up_to_date()`). So it may be on an older branch than the leader
before it, and its entries of older terms overwrite a newer-term tail (Raft's Figure 8). Leaders follow each other
in the order of their terms: one that goes on after the next was elected does nothing that it could not have done before.
`ReplicaAssumption` says that the bounds and sizes, unsigned in the code, are numbers.

**`RaftFsm`** has one operator per member function. `_state` is a variant in the
code; the record has the fields of all alternatives and `Enter` resets them.
Messages leave through `SendTo` and wait in `messages` until `Output`. Time is an
input: whether the election timeout, or the deadline of a step down, has passed is
the caller's choice. `TickLeader`, `TickOther` are `tick()` with that choice made.
`force` in a vote request is carried and, as in the code, read by nobody.
In `TransferLeadership` the receiver is the `CHOOSE` of the up-to-date voters, as the
code takes the first in the order of a hash map.

**`RaftCluster`**

| variable | code |
|---|---|
| `fsm[s]` | `_fsm` |
| `io[s]` | the batch in `process_fsm_output()` and whether its messages are sent |
| `stable[s]` | `last_stable` of `io_fiber()` |
| `disk[s]` | what `persistence` would load |
| `net[s][t]` | messages in transit |
| `promised`, `decided`, `reads` | history for the properties |
| `plan`, `left` | the scenario, and what is left of its budget |

`PollOutput` is `get_output()`; `ProcessOutput` the four awaited writes and the
messages; `FinishOutput` the commit index, after which committed entries are passed
on and read barriers answered. Disk contents between two writes are visible only to
a crash, so `Crash(s, k)` chooses after how many of the writes it strikes, and after
the fourth also whether the messages had left. `Deliver` is an RPC handler; the
network is FIFO per pair for free, and overtaking, repetition and loss cost a
fault of the run's budget. A snapshot transfer is a call: it is not repeated, and
losing it or its reply is a failure that `send_snapshot()` reports to the caller's fsm.
`decided` grows when a server hands out committed entries for the first time.

**`RaftServer`**

| variable | code |
|---|---|
| `log`, `commit`, `observed`, `output` | the fsm: log, commit index, `_observed`, the snapshot in its next output |
| `todo` | the rest of `process_fsm_output()` for the batch in hand |
| `queue` | `_apply_entries`, bounded by `QueueMax` |
| `work` | what `applier_fiber()` is awaiting |
| `applied`, `desc` | `_applied_idx`, `_snapshot_desc_idx` |
| `machine`, `executed` | the user's state machine: what it contains, and what reached it by `apply()` |
| `calls` | `_awaited_commits`, `_awaited_applies`, `_awaited_indexes` and the callers behind them |
| `wanted`, `trigger` | `trigger_snapshot()` and its waiter |
| `member`, `phase` | the RPC configuration; `abort()` |
| `group`, `decided`, `term`, `past`, `leads` | the rest of the group: the current leader's log, and those earlier leaders left, from which the next one may come |

Each await of the two fibers is a step of its own. A failed assertion sets
`phase` to `"dead"`, which `ServerAsserts` excludes. `NewLeader` asks that the log a leader starts from is at least as
new as what is decided, the comparison of terms in `is_up_to_date()`; `Effects` is what entries make of the state machine.
`BoundsAssumption` says that the bounds are numbers and that no scenario has more terms than `MaxTerm`.

**`RaftTransfer`** numbers leaderships (`gen`) and tags messages, quorums, transfers and reads with
the one they belong to; the code has no such tags. A batch goes through the stages of
`process_fsm_output()`. `calls` are `rpc::send_snapshot()` under way, `transfers` and
`aborted` the two maps that `abort_snapshot_transfer()` and the end of a call consult. `reached` is the
role whose messages have left last; a candidate becomes leader only when its own have, unless it is the
only voter (`SoleVoter`). A configuration is followed by another once it is committed: by the answers to a batch that
has left, or, for a sole voter, in `get_output()`. The end of a batch answers the reads at the front of the
queue up to its quorum (`AnswerReads`).

**`RaftStorage`** makes every call a sequence of statements. A statement is atomic
and gets the next tick of the clock as its timestamp; a cell keeps the newest value,
and a row with a tombstone at least as new is not there. `Execute` runs one statement;
`Restart` may come between any two. The calls are those the I/O fiber can make, with
any argument. `after` is what the server believes to have stored once the call is
done, `before` what it had before.

**`RaftVoting`** has per server a term and vote in memory (`cur`), in the hands of the
I/O fiber (`saved`) and on disk (`durable`), whether it leads, and the statements it
made: votes granted and claims to leadership (any message that only leaders send).
Statements leave only once the disk covers them.

**`Discovery`** has per server the fields of class `discovery` (`peers`, `responded`, `requests`,
`leader`), how far `join_group0()` is (`phase`), the group found, the Raft server started and
whether `_group0` holds the group (`announced`, what `peer_exchange()` answers with). `table`
is `system.discovery` and the stored group id; `exchanges` are `group0_peer_exchange` calls.
`SoundPlans` is the condition on seeds of `discovery.hh` (lines 83-87): some server can be reached from every other one.
A server's number is its address and its Raft id; a peer list tells which of its addresses come with an id.
`Tick` and `PeerExchange` include the write to the table that comes before their consequences. A call whose
caller no longer waits may still arrive. The handshake is the legacy one, a single call to
the server that told of the group; the one of the topology coordinator is not modelled.

**`Group0`** takes the Raft group for what `RaftServer` says it is: commands are committed in one
order (`log`), an added entry may be committed late, twice or never (`flight`). `Effective` are the
commands of a batch that are not obsolete, one after the other (`Advance`, `Run`). The state is
two tables, `schema` and `topology`, whose values are the sequences of changes they have seen, and
the history of state ids. `work` is a batch in `merge_and_apply()`, written table by table with the
history last; `pull` a snapshot transfer with one request per table, at one moment each.
`Group0Register` is a register with a version: an operation reads it, and changes it only if
the version is still the one it read.

**`Paxos`** follows one row. `row[r]` has the cells of `system.paxos` and of the base table with their
timestamps; `cas[o]` is a `paxos_response_handler` and the coroutine that drives it. The row's value is the
sequence of writes applied to it, so that what an operation has seen can be told from it. Replies
are handled where they are made; requests are delivered in any order, late or never.

**`FailureDetector`** has the map of requests (`updates`), the fiber that works it off (`fiber`, `placed`),
per endpoint a worker with the state of its ping and notification fibers, and the flags `alive` and
`marked` by which they communicate. A listener stands for all listeners with its threshold. Time is the number of
unanswered pings in a row. `view` is what listeners were told, `wanted` what the user asked for.

For every property of a passing run there is a definition named `X_Fault`
right before the definition `X` it replaces, commented "Faulty variant". These are plausible mistakes
(a dropped guard, a write after the message, an off-by-one); TLC finds the
property violated with each, so none holds by the shape of the model. They are not
used by any specification.

## 3. Runs

| run | instance | properties |
|---|---|---|
| `RaftElection` | `election`: 3 servers, 2 elections, 1 crash | refinement of `RaftVoting`; types |
| `RaftSafety` | `old_term`, `stale_read`, `stale_snapshot`: 3 servers, 2 elections on logs that crashed leaders left, with a read, or a snapshot and pre-vote; `ping`: a follower looks for its leader; `snapshot`: a voter and a learner, 1 snapshot, 1 crash, 1 fault | no divergence, leader completeness, log matching, the fsm's assertions, linearizable reads, what is committed or acknowledged is on disk |
| `RaftReconfiguration` | `joint`: 2 elections with a joint configuration in one log; `shrink`: to one member and back; `grow`: from one member, 2 elections, 1 crash, 1 fault; `transfer`: 1 step down; `crash`: 2 elections, 1 crash | one leader per term, no divergence, no overlapping changes, configurations reach their voters, the successor has the whole log, durability |
| `RaftServer` | 2 callers, terms to 2, log to 3, queue of 1; six scenarios: waiters at one index, entries and reads that a snapshot jumps over or settles, `abort()`, `trigger_snapshot()`, removal | the state machine is a decided prefix, answers are true, assertions, every caller is answered |
| `RaftLiveness` | Raft: 3 servers, 2 faults; discovery: 2 servers that know each other, 3 with one seed, 1 crash, 1 lost call; failure detector: 2 endpoints, 2 listeners, up to 3 requests, 2 outages | every entry is committed everywhere; everyone joins; notifications alternate and end in the truth |
| `Components` | voting: 2 servers, 1 term; log: terms to 3, logs to 4, both together to 6; transfers: 1 peer, 5 changes of role, 2 transfers, 1 read; storage: 3 entries, 2 terms, 5 calls, 1 restart; discovery: 3 servers, 1 crash | the abstract promises of elections; caches, committed prefix and assertions of the log; transfers, promises and reads across leaderships; stored is loaded, crashes are clean; one group |
| `Transactions` | Paxos: 3 replicas, 2 or 3 operations, 2 to 4 ballots, timeouts, late requests; group 0: 2 servers, 2 or 3 operations, retries, 1 crash, 1 snapshot transfer | linearizability, each update once; tables follow the log, changes are of one state, refinement of `Group0Register` |
| `RaftReplicaSnapshotConf`, `RaftStorageTorn`, `RaftServerDropped`, `RaftServerTrigger`, `PaxosPrune` | small | expected violations, see 5 |

The definitions each run checks (each is stated in words where it is defined):

* `RaftReplicaSnapshotConf` (module `RaftReplica`, violated): `SnapshotConfigIsCommitted`
* `RaftElection` (module `MCRaftCluster`): `TypeOK`, `ImplementsVoting`
* `RaftSafety` (module `MCRaftCluster`): `NoDivergence`, `LeaderCompleteness`, `LogMatching`, `FsmAsserts`, `ReadsAreLinearizableInTerm`, `CountedIsDurable`
* `RaftReconfiguration` (module `MCRaftCluster`): `OneLeaderPerTerm`, `NoDivergence`, `OneConfigurationChange`, `ConfigurationsReachTheirVoters`, `TransferLosesNothing`, `CountedIsDurable`
* `RaftLiveness` (module `MCLiveness`): `NotificationsAlternate`, `EntriesReachEveryone`, `EveryoneJoins`, `ListenersLearn`
* `RaftStorageTorn` (module `MCRaftStorage`, violated): `SnapshotIsWhole`
* `RaftServer` (module `MCRaftServer`): `MachineIsDecidedPrefix`, `AnswersAreTrue`, `ServerAsserts`, `CallersAreAnswered`
* `RaftServerDropped` (module `MCRaftServer`, violated): `DroppedNeverCommitted`
* `RaftServerTrigger` (module `MCRaftServer`, violated): `TriggerAsserts`
* `Components` (module `MCComponents`): `TypesOK`, `VotesOnce`, `OneClaimPerTerm`, `OneLeaderPerTerm`, `CachesExact`, `CommittedIsDecided`, `AppendAsserts`, `CommittedNeverDropped`, `TransfersMatchProgress`, `PromisesAreKept`, `LeadershipsStayApart`, `CrashIsClean`, `OneGroup`
* `Transactions` (module `MCTransactions`): `CasIsLinearizable`, `AppliedOnce`, `TablesFollowTheLog`, `ChangeIsOfOneState`, `ImplementsRegister`
* `PaxosPrune` (module `MCPaxos`, violated): `CasIsLinearizable`

### Bounds and why they suffice

Most modules explore a few scenarios (`Plans`, `Scenarios`, `DetectorPlans`, defined in the `MC` modules). `Init` picks one: who is
a member, what is on the disks, what may be asked for, and a budget of how often an
election timer expires, a server crashes, the network misbehaves, and so on. A scenario
asks one question and gets what that question needs: two elections for anything that
concerns a change of leader, one crash at any of the writes, one or two faults. Scenarios of Raft's
hard cases take more elections than TLC can afford from the empty log; those start
from what a crash of all servers leaves on disk after the first half of the scenario
(`TwoUnreplicated`, `StaleTail`, `JointPending`; their comments tell how the state comes about).

`plan.busy` limits how many servers may have output in work when the next input is
handled. With 0 the output of an input is processed first; with 1 or 2 inputs
are also handled by servers with a batch in hand, which is what the order of writes
and messages is sensitive to. `election` and `crash` use 1, `old_term` uses 2, the others 0.
`plan.campaigners` limits whose election timer expires, `plan.crashing` who crashes, and
`MaxOvertake` how far a message overtakes.

In `RaftServer` two callers are enough for two waiters at one index, and a queue of one for a full one.
In `RaftTransfer` one peer is enough since transfers to different peers share nothing but the batch; five
changes of role allow to lose leadership and regain it. In `RaftReplica` three terms and three entries are the least
for a leader on an older branch to overwrite a newer-term tail with an entry of an older term; the first two terms
have room for a fourth entry, for configurations before and after the point of truncation. `MaxSum` is what bounds a term and the
longest log together: a third leader comes only after logs of two entries. In `Paxos` three replicas have quorums that
differ in one; a round that is abandoned, one that finishes it, and a read after both are the shortest way to
lose or repeat an update. In `Group0` batches have up to two commands, so that one of them can
be obsolete because of the other; the loop of `add_entry()` that adds the entry again is cut after the third attempt (the theorems: after any). In `Discovery` the creator of the group is
known to one of two other servers only, which could form a group of their own if they forgot it; the one that knows it may crash while it discovers.

Deadlock is not checked where budgets run out: the bounded system then really stops.
Symmetry is used where no constant tells the servers apart and only safety is checked
(`RaftElection`, `Transactions`).

`OneConfigurationChange` counts the configurations beyond what the group has committed, not
beyond the leader's own commit index: a leader that restarted with an older commit index on disk
may hold a committed configuration above it and the next one, which is harmless.
`CountedIsDurable` takes the voters from the configuration in force when an entry is decided; for entries
decided after a change of configuration it only speaks of what followers acknowledged.

### Fairness

* `RaftCluster` (`Fairness`): the I/O fiber of each server runs, the first message of each pair is delivered
  in the end unless the budget of faults loses it, and the leader's timer ticks while nothing is in
  transit. The formula is weak fairness of these actions with ENABLED spelled out, since
  evaluating ENABLED over the fsm operators is slow. With `plan.idle_ticks` ticks are free only
  while the leader is idle, so that the state space stays finite; ticks at other moments only repeat messages.
* `RaftServer`: both fibers run, and `abort()` comes to its end. `CallersAreAnswered` asks nothing of the group:
  a caller whose entry is neither committed nor replaced waits, and the property excuses it.
* `Discovery`: servers start and go on with `join_group0()`, calls that are not lost are answered, a handshake that nobody can do fails.
* `FailureDetector`: the three kinds of fibers run, and pings end.

Fibers, timers and sleeps are scheduled by the runtime for ever, calls have timeouts, and a network that delivers
nothing gives no progress to any protocol. No fairness is assumed of users, crashes, faults, elections or endpoints.

### Reads across leaderships

`ReadsAreLinearizableInTerm` (in `RaftCluster`) speaks of reads completed in the term they began in.
`process_fsm_output()` fails waiting reads only if the server does not lead at the end of a batch, and
read ids start from 0 in each leadership. That no read of one leadership is answered
by a quorum of the next is `LeadershipsStayApart` (in `RaftTransfer`): an election needs messages, messages
leave with a batch, and batches are worked off one after another, so that a batch ends while
the server is a candidate. Two limits of this argument: a server that is the only voter
needs no messages and can lose and regain leadership within one batch (`SoleVoter = TRUE`; then the
assertion of `send_snapshot()` can fail as well, if it has a learner); and a transfer may be aborted late, but is then found in
`_aborted_snapshot_transfers` when it ends.

## 4. Proofs

All theorems hold for every value of the constants: any number of servers, peers, endpoints, operations,
entries, terms, crashes and messages. Where a specification has bounds (`MaxIdx`,
`MaxGen`, the budgets of a scenario) they are arbitrary numbers, which the arguments do not use.

### Votes (`RaftVotingProofs`)

For every set of servers, every system of pairwise intersecting quorums and every bound on terms
(`VotingAssumption`):

* `TypeCorrect`: `Spec => []TypeOK`
* `VoteSafety`: over the whole history a server supports one candidate per term
* `ClaimSafety`: no two servers ever send leader's messages of one term
* `LeaderSafety`: no two servers lead one term at the same time, nor does one lead a
  term in which another has sent leader's messages

None of these is inductive. The invariant `IInv` adds: the three copies of term and
vote are ordered by age, disk before fiber before memory (`CopiesInOrder`); a statement sent is
covered by the disk of its author, one queued by the memory (`StatementsCovered`), so
that a crash cannot lead the author to contradict what left; statements of one author about
one term agree, queued or sent (`Consistent`); and whoever leads or claims to has the votes of
a quorum in the history (`LeadersElected`). `Inductive` has one lemma per action. `ClaimSafety`
and `LeaderSafety` then follow by intersecting two quorums in a server that voted
once.

`RaftElection` checks that the detailed model implements `RaftVoting` (`ImplementsVoting`) while the
configuration is fixed, so the theorems carry over to the code as far as that
run's bounds reach.

`RaftVoting` is about any system of intersecting quorums. That the code counts such quorums, also while a configuration
is joint, is proved of `RaftTracker`, for any finite sets of members and any progress:

* `DecisionsMeet`: sets of servers that have the majorities which two successive configurations ask for (the same one, or one
  before and after `enter_joint()` or `leave_joint()`) have a server in common
* `ElectionsMeet`: so have the votes of two candidates that `tally_votes()` declares winners
* `CommittedIs`: `tracker::committed()`, by the pivot of the sorted values and the minimum of two pivots, is the largest index that all
  these majorities have acknowledged, or the commit index there was if that is larger
* `CommitsMeetElections`: the winner of an election under the same or a neighbouring configuration has the vote of a server that
  acknowledged what was newly committed

The pivot is a choice in the model (`SortedValue`). That the k-th smallest value exists follows from the least number principle;
the rest is counting: fewer than k values below the pivot are the same as a majority at or above it.

### The log (`RaftLogProofs`, `RaftReplicaProofs`)

`RaftLogProofs` says of each operation of `raft::log` which indices the log it returns has and which entries are there.
The loop of `maybe_append()` is a choice of the first conflict in the model; that there is
one, or none, follows from the least number principle, which is derived from the well-foundedness of `<`.

* `ReplicaCommits`: what one log holds as committed, and the end of its snapshot, is what the group decided
* `ReplicaAsserts`: the assertions of `maybe_append()` and `truncate_uncommitted()` hold
* `ReplicaKeeps`: no step drops or changes a committed entry above the snapshot (an action property)
* `ReplicaCaches`: the cached positions of configurations and the memory count are what a scan of the log would compute
* `ReplicaIsGood`: the invariant

The theorems are about every history of leaders: each goes on from any log that an earlier one left, also from an older branch
than the last one's, if it is up to date with what is decided. The invariant `Good` therefore speaks of the logs of all leaders so far
(`LeaderLogs`): a leader's log with an entry of term s is, up to there, the log that the leader of s had
(`Matching`); whoever led in the term of the last decided entry or later has all that is decided (`Complete`). The server's entries come
from such logs, each with what precedes it (`FromLeaders`); a leader's log is the group's (`LeaderHasAll`). Entries of different
terms in one log need not come from one leader: a snapshot may be installed over a stale tail of another branch.
Such a log ends in an older term than what is decided, so that its server is not elected: this is where `NewLeader`
needs the comparison of terms. The invariant is stated of a log, a commit index, the leaders' logs and the group as parameters,
so that there is one lemma without primes per operation.

`ReplicaCaches` needs a second invariant on top (`CInv`). A truncation rolls the last position back to the one before and
forgets that one; a second truncation would then roll back to nothing. It does not come to that: a position is only forgotten
when all earlier configurations are `Fixed`, decided and equal to the group's, and entries that are truncated differ from the
group's. So the invariant says of the server's log and of every leader's that all configurations but the last are decided (`LogConfs`, `GroupConfs`, `PastConfs`, from the rule that
a configuration is accepted only when the previous one is committed), and of the two positions a and b that a is the last one and b
the one before it, or forgotten while a is `Fixed` or alone (`Tops`). `RaftLogProofs` shows of each operation that it keeps `Tops`, given which
entries stay, and that memory is counted right: the commands of two parts of a log add up to those of the whole (`MemoryOfConcat`).

### The server (`RaftServerProofs`)

For logs, queues and terms of any length and any callers (`BoundsAssumption`):

* `MachineTheorem`: the state machine is what the decided entries up to `_applied_idx` make of it
* `AnswersTheorem`: what `add_entry()` and `read_barrier()` tell their callers is true
* `AssertsTheorem`: the assertions of both fibers, `wait_for_entry()` and `fsm::apply_snapshot()` hold
* `ServerInvariant`: the invariant

The group's part of the invariant is about the logs of all leaders so far: a log with an entry of term s is, up to there, the log that the
leader of s had (`Matching`), and leaders since the last decided entry have all that is decided (`Complete`). The server's entries come from such logs
(`FromLeaders`). Its fibers are a pipe: from `_applied_idx` on, the work of the applier fiber, the items of the queue and what the I/O fiber
will still push lead step by step, by entries or by a jump to a snapshot, to the index observed at the last poll (`Pipe`,
`Chain`); a snapshot that was not polled yet is ahead of it (`Ahead`). For the answers: a waiter that is told `ok` has its entry at
or below the index that was applied, with its term; one that is dropped has another's entry at its index, decided.

The proof of `Complete` failed at first: `NewLeader` let a server lead whose log was long enough but had an older term at its end, which
`is_up_to_date()` refuses. The guard was added; no property of a run had depended on it.

### Transfers and reads (`RaftTransferProofs`)

While there are other voters (`~SoleVoter`; section 3 tells what happens otherwise):

* `TransferTypes`: type correctness
* `TransfersAreTracked`: the assertion of `send_snapshot()` holds, and no follower in state SNAPSHOT is forgotten
* `PromisesKept`: promises of `apply_snapshot()` and replies on their way correspond one to one
* `LeadershipsApart`: no transfer and no read of one leadership is taken for another's

The code gives up transfers and reads only at the end of a batch and only if the server does not lead at
that moment. The heart of the invariant is `DrainedInTime`: a batch taken in a role other than leader empties the fsm of
what a leadership left, the end of a batch empties the server, and a candidate whose messages have left has seen
both. With it, all that a leader finds is its own (`OneLeadership`), and then each follower's progress tells
exactly whether a transfer is requested or under way (`ProgressExact`). The proof needs that a
configuration is committed, and may be followed by another, only after its batch has left, so that the
RPC module is at most one configuration behind; without it a transfer could start to a server that was removed meanwhile.

### Group 0 (`Group0Proofs`)

For any servers, operations and scenarios whose operations run at servers (`ScenariosAssumption`):

* `ImplementsRegisterTheorem`: `ChangesSpec => ImplementsRegister`, changes are linearizable
* `TablesFollowTheLogTheorem`: the tables of every server are a prefix of the history of changes and have what its state ids say
* `ChangeIsOfOneStateTheorem`: an effective change was computed from exactly the changes before it
* `ChangesInvariant`: the invariant

The effective commands of the log form a chain by their state ids, which grow (`Chain`); every command of
the log either extends the chain or names a predecessor that was superseded when it was committed (`Follows`).
`Count`, the number of changes in a prefix of the log, only grows. A server whose history has `h` changes has
tables with at least those, and has applied a prefix of the log with at most `h` (`NodeAt`). It follows that whatever
stretch of the log the server looks at next, what is not obsolete there is the next part of the chain (`BatchIs`), also
if it replays the log after a crash or had its tables from elsewhere. A guard reads tables at least as new as its state id (`CommandOf`), and
possibly newer ones; but if its command is effective the chain ends in that id, so they were not newer
(`CommitIs`). An operation that returned has a state id that is not the last (`OpOK`), so a copy of its entry that is committed later has
no effect; this is what makes Conflict final.

The refinement is proved step by step: `StartOperation` is Start; `Commit` is Change if the command is effective and
nothing otherwise; `FinishOperation` is Done or Conflict; `Crash` is Lose of the operations at that server; every other
step leaves the register alone.

What `Run` computes for a whole batch is an induction over its length. The induction theorems of the library cannot be
instantiated by the provers, so `RunOneMore` and `BatchIs` take the first index where the claim fails instead.

### Failure detector (`FailureDetectorProofs`)

* `NotificationsInOrder`: listeners are told alive and dead in turns, an endpoint that is not detected was last called dead, and no worker
  is created twice or destroyed without being there

The invariant: shard 0 has placed a worker exactly where one is, but for the moment of its creation (`PlacedHaveWorkers`);
what a listener is marked with is what it was told, unless it is being told (`MarksAreViews`); and the
notifying fiber ends only with all marks dead (`EndsWithDead`).

### Discovery (`DiscoveryProofs`)

* `OneGroupTheorem`: `SoundPlans => (DiscoverySpec => []OneGroup)`, one group comes out of discovery, for any number of servers, any seeds
  among which some server can be reached from every other one, and any starts, crashes, lost calls and failed handshakes

`SoundPlans` is a hypothesis, since `discovery.hh` asks it of the user; `MCComponents` assumes it of its scenario (`SeedsAssumption`), which TLC
evaluates. The invariant has two parts. What servers know of each other (`Know`): stored peers contain the seeds; who has answered knows who
asked and has told its seeds and itself (`AnswerOk`); and of two servers that a third has answered, one has heard of the other (`Met`), because the
third stored the first before it answered the second. The peers of a leader have all answered, so they contain their own seeds and with them
the server that all can reach; hence two leaders have an answer of one server in common, one knows the other, which must have answered it,
and each would have to be smaller than the other. What follows for groups (`Groups`): either nobody has heard of one yet (`Nobody`; several may have been created by a leader that
crashed and became leader again), or one is the only group that anyone is told of, starts or stores, and its creator is about to store
it or has (`Owned`). The creator stays the only possible leader, since it remains with the servers it knew in `Seated`: they are closed under seeds,
all know it, and tell of it whoever asks them.

### Only model-checked

* Liveness (`CallersAreAnswered`, `EntriesReachEveryone`, `EveryoneJoins`, `ListenersLearn`): fairness and ENABLED are out of the prover's reach.
* What is checked of `RaftCluster`, and that it implements `RaftVoting`. Its state is that of the whole fsm of every server, and each of the
  operators of `RaftFsm` would have to be characterised first, as `RaftLogProofs` does for the log. What is proved instead are the parts: votes and crashes
  (`RaftVotingProofs`), majorities and commit indices (`RaftTracker`), the log (`RaftReplicaProofs`), the server around it.
* `CrashIsClean` of `RaftStorage`: loading a log selects rows, and the statements of a descriptor are folded over its members; both
  are recursive definitions, about which the prover can show nothing.
* `CasIsLinearizable` and `AppliedOnce` of `Paxos`. The agreement on one ballot is textbook; what the properties are about is how rounds are
  repaired, pruned and read from, over a base table reconciled by timestamps, and with the exception of finding 5. An inductive invariant for that was not found.
* `TypesOK` as a whole; its parts for `RaftVoting` and `RaftTransfer` are proved.

## 5. Findings

1. **A snapshot can get an outdated configuration** (`RaftReplicaSnapshotConf`).
   `truncate_uncommitted()` forgets `_prev_conf_idx` when it rolls a configuration back.
   `last_conf_for()` then believes that there is no other configuration after the snapshot and
   returns the snapshot's, although the log holds a later one at or below the index asked for.
   The applier fiber stores the result as "the committed configuration in the snapshot".
   It takes three configurations: a committed one, one truncated by a later leader, and
   a new one after it, with the applied index still below the newest.
2. **A torn snapshot descriptor** (`RaftStorageTorn`). `store_snapshot_descriptor()` updates three
   tables statement by statement. A crash in between leaves the new index and term
   with the old, an empty or a partial configuration.
3. **`dropped_entry` for an entry that is committed** (`RaftServerDropped`). Of two callers at one index,
   `wait_for_entry()` answers the one of the older term by the term of the commit index
   (`raft/server.cc:632`). If it waits for `applied`, its entry may be committed and not yet applied.
   Group 0 tries again, which is safe there.
4. **An assertion of the applier fiber can fail** (`RaftServerTrigger`). A `trigger_snapshot()` request waits in the
   queue while the fsm installs a snapshot of the leader; the term of the applied index is then
   gone from the log when `raft/server.cc:1426` asserts it.
5. **Acks of two learns are counted together** (`PaxosPrune`). A coordinator that finished another round before its own
   prunes after a quorum of acks of both. With learns that wait for less than a quorum, a
   completed write can be missed by the next operation.

Observations without a run of their own:

* **A group is announced before it is stored.** `start_server_for_group0()` sets `_group0`
  (`service/raft/raft_group0.cc:419`), from which `peer_exchange()` answers, before `join_group0()` stores the id; the comment
  at line 544 says "Allow peer_exchange() RPC to access group 0 only after group0_id is persisted". A creator that crashes
  in between discovers anew and creates a second group, although others may have joined the first.
  `OneGroup` and `EveryoneJoins` name this crash (`forgotten`) as their exception, and what follows it is not explored.
* The repair of replicas that miss the most recent commit waits for one ack (consistency level ANY,
  `service/storage_proxy.cc:1981`). In the scenarios this does no harm: the read that follows
  takes the newest of a quorum, one of which holds the commit.
* A rejected prepare does not raise the minimum for the next ballot (`service/storage_proxy.cc:1905`), so that a coordinator whose
  clock is behind keeps failing until it catches up. In the model the next ballot may be any later one.
* The guard of a group 0 operation may see tables of two moments, if a snapshot is installed after its
  read barrier (`service/raft/raft_group0_client.cc:91`). A command computed from such a mixture conflicts (`ChangeIsOfOneState`).
* `RaftStorage` assumes that the wall clock moves forward between two statements. Statements on the Raft
  tables are stamped with the raw clock (`cql3/query_processor.cc:890`), and cells and
  tombstones are reconciled by that stamp. On a machine whose clock is
  set back, a new vote, or entries stored after a truncation, would be shadowed by older writes.
* After a crash between bootstrapping a Raft server and storing the group id, the next start bootstraps over it; the FIXME
  at `service/raft/raft_group0.cc:521` describes it. `Discovery` has no Raft state and does not see it.

## 6. Not modelled

Within the modelled components: the log limiter semaphore and `wait_for_memory_permit`, byte sizes
(entries per message and per batch are constants), `modify_config()` (a `set_configuration()` with a computed argument),
metrics, address books; the expiry of Paxos rows, truncation records, pending endpoints; unguarded
commands, history garbage collection and the upgrade procedure of group 0; the joining handshake of the topology
coordinator; `stop()` and the shards of the failure detector. Failure-detector answers are free choices in the Raft model.

Of the rest of the repository, by far the most lines are not protocols: the storage engine, compaction and
readers (data structures and formats), the CQL, Alternator and REST front ends, tools and utilities. They have either no
state machine or one whose correctness is about data in bulk, which a model checker on small
instances says little about. The consensus code modelled here is a few percent of the
implementation's lines, and the share that the map covers is small for that reason; it could be raised only
by models of code without interesting interleavings. The parts with protocols of their own that are
left are the topology coordinator, gossip, hinted handoff, the commit log, view building, repair and the
reader concurrency semaphore; each has an entry in `PROJECT.json`.

## 7. Plan

Done: all modules of section 2. Next, in this order:

1. Proofs: the operators of `RaftFsm` one by one, as a base for `RaftCluster`; an inductive invariant of `Paxos`; `RaftVoting` with a
   configuration that changes, on `ElectionsMeet`.
2. `RaftCluster` over torn descriptors, to see what finding 2 does to a group.
3. The joining handshake of the topology coordinator on top of `Discovery` and `Group0`.
4. The reader concurrency semaphore, and the segment life cycle of the commit log.
