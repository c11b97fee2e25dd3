----------------------------- MODULE RaftServer -----------------------------
(***************************************************************************)
(* How one server answers its callers: raft/server.cc above the protocol.  *)
(*                                                                         *)
(* The I/O fiber polls the fsm and passes committed entries, remote        *)
(* snapshots and requests through a bounded queue to the applier fiber,    *)
(* which drives the state machine and wakes add_entry(), read_barrier()    *)
(* and trigger_snapshot() callers.  Meanwhile messages change the fsm's    *)
(* log and commit index under both fibers.                                 *)
(*                                                                         *)
(* The rest of the group is what this server can observe of it: the log of *)
(* the current leader (`group'), its decided prefix, and the logs earlier  *)
(* leaders left behind, from one of which the next leader may come.        *)
(***************************************************************************)
EXTENDS RaftLog

CONSTANTS
  Client,            \* callers, one call each
  MaxTerm, MaxIdx,   \* bounds: terms, length of the leader's log
  Plans,             \* what is explored together: a function from names to plans
  QueueMax,          \* capacity of _apply_entries
  SnapshotThreshold, \* snapshot_threshold: applied entries since the last snapshot
  SnapshotThresholdSize, \* snapshot_threshold_log_size
  SnapshotTrailing   \* snapshot_trailing

\* The bounds are numbers, and those of a plan are within them.
ASSUME BoundsAssumption ==
  /\ MaxTerm \in Nat /\ MaxIdx \in Nat /\ SnapshotTrailing \in Nat
  /\ \A p \in DOMAIN Plans : Plans[p].terms \in 1..MaxTerm

\* A plan says which call each caller makes ("none" for none), what else the run may do,
\* and its share of the bounds.  What may happen besides: others' entries ("others"), a
\* snapshot of the leader, a request for one ("trigger"), "abort", removal from the group
\* ("leave"), a caller that gives up ("cancel").
Scenarios == Plans

VARIABLES
  plan,      \* the name of the plan
  group, decided, term, past,  \* the group: past[t] is the log a leader of term t left
  leads,     \* is this server the current leader?
  log,       \* _fsm: its log,
  commit,    \*       its commit index,
  observed,  \*       the commit index at the last poll,
  output,    \*       the snapshot in the next output
  todo,      \* what the I/O fiber has left to do with the batch in hand
  queue,     \* _apply_entries
  work,      \* what the applier fiber is doing
  applied,   \* _applied_idx
  desc,      \* _snapshot_desc_idx
  machine,   \* what the state machine contains: the effect of each entry up to _applied_idx
  executed,  \* those that reached it through state_machine::apply()
  calls,     \* the callers
  wanted,    \* _new_server_requests.snapshot
  trigger,   \* index trigger_snapshot() waits for, 0 if nobody waits
  member,    \* is the server in the configuration of its RPC module?
  phase      \* "running", "stopping" in abort(), "stopped", or "dead": an assertion failed

groupVars == <<plan, group, decided, term, past>>
fsmVars   == <<leads, log, commit, observed, output>>
fiberVars == <<todo, queue, work>>
smVars    == <<applied, desc, machine, executed>>
callVars  == <<calls, wanted, trigger>>
vars == <<groupVars, fsmVars, fiberVars, smVars, callVars, member, phase>>

Nothing == [kind |-> "nothing"]
Entry(i, t, k) == [idx |-> i, term |-> t, kind |-> k]
Snapshot(i, t) == [idx |-> i, term |-> t, config |-> "c"]

NoCall == [status |-> "idle", type |-> "none", idx |-> 0, term |-> 0]

\* The answer to a call.  One that promises nothing (commit_status_unknown,
\* request_aborted, stopped_error) is not remembered further.
Told(c, outcome) ==
  IF outcome \in {"ok", "dropped"} THEN [c EXCEPT !.status = outcome]
  ELSE [NoCall EXCEPT !.status = "unknown"]

Plan == Scenarios[plan]
May(what) == what \in Plan.may

Init ==
  /\ plan \in DOMAIN Scenarios
  /\ group = <<Entry(1, 1, "dummy")>> /\ decided = 0 /\ term = 1
  /\ past = [t \in 1..MaxTerm |-> << >>]
  /\ leads = FALSE
  /\ log = NewLog(Snapshot(0, 0), << >>)
  /\ commit = 0 /\ observed = 0 /\ output = Nothing
  /\ todo = << >> /\ queue = << >> /\ work = Nothing
  /\ applied = 0 /\ desc = 0 /\ machine = << >> /\ executed = {}
  /\ calls = [w \in Client |-> NoCall]
  /\ wanted = FALSE /\ trigger = 0 /\ member = TRUE /\ phase = "running"

Alive == phase \in {"running", "stopping"}

(***************************************************************************)
(* The group and the fsm.                                                  *)
(***************************************************************************)
\* fsm::add_entry() on the leader, here or elsewhere.
Added(e) ==
  /\ group' = Append(group, e)
  /\ log' = IF leads THEN EmplaceBack(log, e) ELSE log

\* A command of some other server's client.
OtherEntry ==
  /\ phase = "running" /\ May("others") /\ Len(group) < Plan.idxs
  /\ Added(Entry(Len(group) + 1, term, "command"))
  /\ UNCHANGED <<plan, decided, term, past, leads, commit, observed, output, fiberVars, smVars, callVars,
                 member, phase>>

\* A majority holds a prefix that ends in an entry of the leader's own term.
Decide ==
  /\ phase = "running"
  /\ \E n \in (decided + 1)..Len(group) : group[n].term = term /\ decided' = n
  /\ UNCHANGED <<plan, group, term, past, fsmVars, fiberVars, smVars, callVars, member, phase>>

\* This server's log from index 1: what its snapshot replaced was decided.
WholeLog == SubSeq(group, 1, log.first_idx - 1) \o log.entries

\* become_leader() on a server whose log holds all decided entries: this one, or one
\* whose log is a prefix of what an earlier leader left behind.  One of its voters has the
\* last decided entry, and votes for no log that ends in an older term (is_up_to_date()).
NewLeader(self, base) ==
  /\ phase = "running" /\ term < Plan.terms /\ Len(base) < Plan.idxs
  /\ Len(base) >= decided /\ SubSeq(base, 1, decided) = SubSeq(group, 1, decided)
  /\ decided > 0 => base[Len(base)].term >= group[decided].term
  /\ LET e == Entry(Len(base) + 1, term + 1, "dummy")
     IN  /\ group' = Append(base, e)
         /\ log' = IF self THEN EmplaceBack(log, e) ELSE log
  /\ term' = term + 1 /\ leads' = self
  /\ past' = [past EXCEPT ![term] = group]
  /\ UNCHANGED <<plan, decided, commit, observed, output, fiberVars, smVars, callVars, member, phase>>

\* The logs other servers may have.
Prefixes ==
  UNION {{SubSeq(l, 1, n) : n \in 0..Len(l)} : l \in {past[t] : t \in 1..MaxTerm} \cup {group}}

\* fsm::append_entries(): the leader's entries up to q arrive with commit index c.  What
\* a message does depends on the entries it ends with, not on where it starts: those
\* the log already has are skipped.  (One whose start does not match leaves no trace.)
AppendEntries(q, c) ==
  /\ phase = "running" /\ ~leads
  /\ log' = MaybeAppend(log, SubSeq(group, 1, q))
  /\ commit' = MaxOf(commit, MinOf(c, q))
  /\ UNCHANGED <<groupVars, leads, observed, output, fiberVars, smVars, callVars, member, phase>>

\* maybe_commit() on this server.
LeaderCommit ==
  /\ phase = "running" /\ leads /\ commit < decided
  /\ commit' = decided
  /\ UNCHANGED <<groupVars, leads, log, observed, output, fiberVars, smVars, callVars, member, phase>>

\* A snapshot from the leader, fresher than the commit index.
InstallSnapshot(i) ==
  /\ phase = "running" /\ May("snapshot") /\ ~leads /\ i > commit
  /\ log' = ApplySnapshot(log, Snapshot(i, group[i].term), 0, 0)
  /\ commit' = i
  /\ output' = [kind |-> "remote", idx |-> i]
  /\ UNCHANGED <<groupVars, leads, observed, fiberVars, smVars, callVars, member, phase>>

(***************************************************************************)
(* Callers.                                                                *)
(***************************************************************************)
Waiting(cs, type) == {w \in Client : cs[w].status = "waiting" /\ cs[w].type = type}

\* add_entry(), the leader's part: the entry gets its id, the reply is under way.
AddEntry(w, type) ==
  /\ phase = "running" /\ Plan.calls[w] = type /\ calls[w].status = "idle" /\ Len(group) < Plan.idxs
  /\ LET e == Entry(Len(group) + 1, term, "command")
     IN  /\ Added(e)
         /\ calls' = [calls EXCEPT ![w] = [status |-> "added", type |-> type,
                                           idx |-> e.idx, term |-> e.term]]
  /\ UNCHANGED <<plan, decided, term, past, leads, commit, observed, output, fiberVars, smVars, wanted,
                 trigger, member, phase>>

\* Is the fate of the entry known on arrival?
Settled(c) == c.idx <= commit /\ (c.type = "committed" \/ c.idx <= applied)

\* wait_for_entry(), its first part: what is said of an entry that is settled.
Verdict(c) ==
  LET t == TermFor(log, c.idx)
  IN  IF t = NoTerm
      THEN IF c.type = "committed" /\ log.snapshot.term = c.term THEN "ok" ELSE "unknown"
      ELSE IF t # c.term THEN "dropped"
      ELSE IF c.type = "applied" /\ log.snapshot.idx >= c.idx THEN "unknown" ELSE "ok"

\* What the loser of two waiters at one index is told.
Loser(c) == IF TermFor(log, commit) > c.term THEN "dropped" ELSE "unknown"

\* wait_for_entry(), its second part: one waiter per index, the one of the higher term.
Enqueue(w) ==
  LET c      == calls[w]
      rivals == {v \in Waiting(calls, c.type) : calls[v].idx = c.idx}
  IN  calls' = [v \in Client |->
        IF v = w /\ \A x \in rivals : calls[x].term < c.term THEN [c EXCEPT !.status = "waiting"]
        ELSE IF v = w \/ (v \in rivals /\ calls[v].term < c.term)
             THEN Told(calls[v], Loser(calls[v]))
        ELSE calls[v]]

\* wait_for_entry(): the reply of the leader has arrived.
WaitForEntry(w) ==
  LET c == calls[w]
      Answer(outcome) == calls' = [calls EXCEPT ![w] = Told(c, outcome)]
  IN  /\ c.status = "added" /\ phase # "dead"
      /\ IF Settled(c) THEN Answer(Verdict(c))
         ELSE IF phase # "running" THEN Answer("stopped")
         ELSE Enqueue(w)
      /\ UNCHANGED <<groupVars, fsmVars, fiberVars, smVars, wanted, trigger, member, phase>>

\* The reply is lost: transport_error becomes commit_status_unknown.
LoseReply(w) ==
  /\ Alive /\ May("cancel") /\ calls[w].status = "added"
  /\ calls' = [calls EXCEPT ![w] = Told(@, "unknown")]
  /\ UNCHANGED <<groupVars, fsmVars, fiberVars, smVars, wanted, trigger, member, phase>>

\* The caller's abort_source fires while it waits.
Cancel(w) ==
  /\ Alive /\ May("cancel") /\ calls[w].status = "waiting"
  /\ calls' = [calls EXCEPT ![w] = Told(@, "aborted")]
  /\ UNCHANGED <<groupVars, fsmVars, fiberVars, smVars, wanted, trigger, member, phase>>

\* read_barrier(): the leader has named a read index, wait_for_apply() waits for it.
ReadBarrier(w) ==
  /\ phase = "running" /\ Plan.calls[w] = "read" /\ calls[w].status = "idle"
  /\ calls' = [calls EXCEPT ![w] = [status |-> IF decided <= applied THEN "ok" ELSE "waiting",
                                    type |-> "read", idx |-> decided, term |-> 0]]
  /\ UNCHANGED <<groupVars, fsmVars, fiberVars, smVars, wanted, trigger, member, phase>>

\* trigger_snapshot()
TriggerSnapshot ==
  /\ phase = "running" /\ May("trigger") /\ trigger = 0 /\ applied > desc
  /\ wanted' = TRUE /\ trigger' = applied
  /\ UNCHANGED <<groupVars, fsmVars, fiberVars, smVars, calls, member, phase>>

(***************************************************************************)
(* The I/O fiber.                                                          *)
(***************************************************************************)
Do(what, arg) == [do |-> what, arg |-> arg]

\* Faulty variant: the entries of a batch go before its snapshot.
Poll_SnapshotLast(m) ==
  LET seen      == MaxOf(observed, log.snapshot.idx)
      hasOutput == output # Nothing \/ seen < commit \/ m # member
  IN  /\ phase = "running" /\ todo = << >> /\ (hasOutput \/ wanted)
      /\ todo' =
           (IF output = Nothing THEN << >> ELSE <<Do("store", output)>>)
           \o (IF seen < commit
               THEN <<Do("push", [kind |-> "entries", es |-> Slice(log, seen + 1, commit)])>>
               ELSE << >>)
           \o (IF output.kind = "remote"
               THEN <<Do("push", [kind |-> "snapshot", idx |-> output.idx])>> ELSE << >>)
           \o (IF hasOutput THEN <<Do("finish", Nothing)>> ELSE << >>)
           \o (IF wanted THEN <<Do("request", Nothing)>> ELSE << >>)
      /\ observed' = commit /\ output' = Nothing /\ member' = m
      /\ UNCHANGED <<groupVars, leads, log, commit, queue, work, smVars, callVars, phase>>

\* io_fiber() wakes up and takes the fsm's output; m: is this server in the
\* configuration that comes with it?
Poll(m) ==
  LET seen      == MaxOf(observed, log.snapshot.idx)
      hasOutput == output # Nothing \/ seen < commit \/ m # member
  IN  /\ phase = "running" /\ todo = << >> /\ (hasOutput \/ wanted)
      /\ todo' =
           (IF output = Nothing THEN << >> ELSE <<Do("store", output)>>)
           \o (IF output.kind = "remote"
               THEN <<Do("push", [kind |-> "snapshot", idx |-> output.idx])>> ELSE << >>)
           \o (IF seen < commit
               THEN <<Do("push", [kind |-> "entries", es |-> Slice(log, seen + 1, commit)])>>
               ELSE << >>)
           \o (IF hasOutput THEN <<Do("finish", Nothing)>> ELSE << >>)
           \o (IF wanted THEN <<Do("request", Nothing)>> ELSE << >>)
      /\ observed' = commit /\ output' = Nothing /\ member' = m
      /\ UNCHANGED <<groupVars, leads, log, commit, queue, work, smVars, callVars, phase>>

Head1(what) == todo # << >> /\ Head(todo).do = what

\* The snapshot descriptor is on disk; trigger_snapshot() callers are woken.
StoreSnapshot ==
  /\ Alive /\ Head1("store")
  /\ desc' = Head(todo).arg.idx
  /\ trigger' = IF trigger <= desc' THEN 0 ELSE trigger
  /\ todo' = Tail(todo)
  /\ UNCHANGED <<groupVars, fsmVars, queue, work, applied, machine, executed, calls, wanted, member,
                 phase>>

\* push_eventually() waits for room in the queue.
Push ==
  /\ phase = "running" /\ Head1("push") /\ Len(queue) < QueueMax
  /\ queue' = Append(queue, Head(todo).arg)
  /\ todo' = Tail(todo)
  /\ UNCHANGED <<groupVars, fsmVars, work, smVars, callVars, member, phase>>

\* The end of process_fsm_output(): a server that neither leads nor belongs to the
\* configuration has its waiters dropped, after those of this batch were notified.
FinishBatch ==
  /\ Alive /\ Head1("finish")
  /\ todo' = (IF ~leads /\ ~member THEN <<Do("push", [kind |-> "removed"])>> ELSE << >>)
             \o Tail(todo)
  /\ UNCHANGED <<groupVars, fsmVars, queue, work, smVars, callVars, member, phase>>

\* process_server_requests()
ServerRequest ==
  /\ Alive /\ Head1("request")
  /\ wanted' = FALSE
  /\ todo' = <<Do("push", [kind |-> "trigger"])>> \o Tail(todo)
  /\ UNCHANGED <<groupVars, fsmVars, queue, work, smVars, calls, trigger, member, phase>>

(***************************************************************************)
(* The applier fiber.                                                      *)
(***************************************************************************)
\* Faulty variant: later waiters of the same term are dropped too.
Notify_SameTerm(cs, es, type) ==
  LET last == es[Len(es)].idx
      Stale(w) == cs[w].term <= es[Len(es)].term
      Hit(w)   == \E e \in {es[k] : k \in 1..Len(es)} : e.idx = cs[w].idx /\ e.term = cs[w].term
  IN  [w \in Client |->
        IF w \notin Waiting(cs, type) THEN cs[w]
        ELSE IF cs[w].idx <= last
             THEN Told(cs[w], IF Hit(w) THEN "ok" ELSE "dropped")
        ELSE IF \A v \in Waiting(cs, type) : cs[v].idx \in (last + 1)..cs[w].idx => Stale(v)
             THEN Told(cs[w], "dropped")
        ELSE cs[w]]

\* notify_waiters(): waiters of the entries get their answer; then those of the next
\* indices are dropped as long as their term is older than the last one committed.
Notify(cs, es, type) ==
  LET last == es[Len(es)].idx
      Stale(w) == cs[w].term < es[Len(es)].term
      Hit(w)   == \E e \in {es[k] : k \in 1..Len(es)} : e.idx = cs[w].idx /\ e.term = cs[w].term
  IN  [w \in Client |->
        IF w \notin Waiting(cs, type) THEN cs[w]
        ELSE IF cs[w].idx <= last
             THEN Told(cs[w], IF Hit(w) THEN "ok" ELSE "dropped")
        ELSE IF \A v \in Waiting(cs, type) : cs[v].idx \in (last + 1)..cs[w].idx => Stale(v)
             THEN Told(cs[w], "dropped")
        ELSE cs[w]]

\* drop_waiters()
Drop(cs, idx) ==
  [w \in Client |-> IF w \in Waiting(cs, "committed") \cup Waiting(cs, "applied") /\ cs[w].idx <= idx
                    THEN Told(cs[w], "unknown") ELSE cs[w]]

\* signal_applied()
Signal(cs, idx) ==
  [w \in Client |-> IF w \in Waiting(cs, "read") /\ cs[w].idx <= idx
                    THEN Told(cs[w], "ok") ELSE cs[w]]

\* What entries do to the state machine: commands are executed, the others are left out.
Effects(es) == [k \in 1..Len(es) |-> IF es[k].kind = "command" THEN es[k] ELSE Nothing]

\* Take the next item off the queue, up to the first wait.
Pop ==
  /\ phase = "running" /\ work = Nothing /\ queue # << >>
  /\ queue' = Tail(queue)
  /\ LET v == Head(queue)
         t == TermFor(log, applied)
     IN  \/ /\ v.kind = "entries"
            /\ calls' = Notify(calls, v.es, "committed")
            /\ work' = [kind |-> "applying", es |-> v.es]
            /\ UNCHANGED phase
         \/ /\ v.kind = "snapshot"
            /\ work' = [kind |-> "loading", idx |-> v.idx]
            /\ UNCHANGED <<calls, phase>>
         \/ /\ v.kind = "removed"
            /\ calls' = Signal(Drop(calls, MaxIdx), applied)
            /\ UNCHANGED <<work, phase>>
         \/ /\ v.kind = "trigger" /\ t # NoTerm
            /\ work' = [kind |-> "taking", idx |-> applied, term |-> t, trailing |-> 0]
            /\ UNCHANGED <<calls, phase>>
         \/ /\ v.kind = "trigger" /\ t = NoTerm
            /\ phase' = "dead"
            /\ UNCHANGED <<calls, work>>
  /\ UNCHANGED <<groupVars, fsmVars, todo, smVars, wanted, trigger, member>>

\* Is it time for a snapshot at idx, going by the fsm's log as it is now?
SnapshotDue(idx) ==
  /\ idx > log.snapshot.idx
  /\ \/ idx - log.snapshot.idx >= SnapshotThreshold
     \/ log.memory_usage >= SnapshotThresholdSize

\* state_machine::apply() has returned.
Applied ==
  /\ Alive /\ work.kind = "applying"
  /\ LET es   == work.es
         last == es[Len(es)]
         told == Notify(calls, es, "applied")
     IN  /\ applied' = last.idx
         /\ machine' = machine \o Effects(es)
         /\ executed' = executed \cup {es[k] : k \in 1..Len(es)}
         /\ IF SnapshotDue(last.idx)
            THEN /\ work' = [kind |-> "taking", idx |-> last.idx, term |-> last.term,
                             trailing |-> SnapshotTrailing]
                 /\ calls' = told
            ELSE work' = Nothing /\ calls' = Signal(told, last.idx)
  /\ UNCHANGED <<groupVars, fsmVars, todo, queue, desc, wanted, trigger, member, phase>>

\* state_machine::take_snapshot() has returned; the fsm ignores the snapshot if it has
\* a later one by now.
SnapshotTaken ==
  /\ Alive /\ work.kind = "taking"
  /\ IF work.idx > log.snapshot.idx
     THEN /\ log' = ApplySnapshot(log, Snapshot(work.idx, work.term), work.trailing, MaxIdx)
          /\ output' = [kind |-> "local", idx |-> work.idx]
     ELSE UNCHANGED <<log, output>>
  /\ work' = Nothing
  /\ calls' = Signal(calls, applied)
  /\ UNCHANGED <<groupVars, leads, commit, observed, todo, queue, smVars, wanted, trigger, member,
                 phase>>

\* Faulty variants: waiters are not dropped; readers are not woken.
SnapshotLoaded_NoDrop ==
  /\ Alive /\ work.kind = "loading"
  /\ applied' = work.idx
  /\ machine' = Effects(SubSeq(group, 1, work.idx))
  /\ calls' = Signal(calls, work.idx)
  /\ work' = Nothing
  /\ UNCHANGED <<groupVars, fsmVars, todo, queue, desc, executed, wanted, trigger, member, phase>>
SnapshotLoaded_NoSignal ==
  /\ Alive /\ work.kind = "loading"
  /\ applied' = work.idx
  /\ machine' = Effects(SubSeq(group, 1, work.idx))
  /\ calls' = Drop(calls, work.idx)
  /\ work' = Nothing
  /\ UNCHANGED <<groupVars, fsmVars, todo, queue, desc, executed, wanted, trigger, member, phase>>

\* state_machine::load_snapshot() has returned.
SnapshotLoaded ==
  /\ Alive /\ work.kind = "loading"
  /\ applied' = work.idx
  /\ machine' = Effects(SubSeq(group, 1, work.idx))
  /\ calls' = Signal(Drop(calls, work.idx), work.idx)
  /\ work' = Nothing
  /\ UNCHANGED <<groupVars, fsmVars, todo, queue, desc, executed, wanted, trigger, member, phase>>

(***************************************************************************)
(* abort()                                                                 *)
(***************************************************************************)
\* The event loop and the queue are broken: no more polls, pushes and pops.
Abort ==
  /\ phase = "running" /\ May("abort")
  /\ phase' = "stopping" /\ trigger' = 0
  /\ UNCHANGED <<groupVars, fsmVars, fiberVars, smVars, calls, wanted, member>>

\* The I/O fiber ends at its next push.
IoStops ==
  /\ phase = "stopping" /\ Head1("push")
  /\ todo' = << >>
  /\ UNCHANGED <<groupVars, fsmVars, queue, work, smVars, callVars, member, phase>>

\* Both fibers have ended; whoever waits is told.
Stopped ==
  /\ phase = "stopping" /\ todo = << >> /\ work = Nothing
  /\ phase' = "stopped"
  /\ calls' = [w \in Client |-> IF calls[w].status = "waiting"
                                THEN Told(calls[w], "stopped") ELSE calls[w]]
  /\ UNCHANGED <<groupVars, fsmVars, fiberVars, smVars, wanted, trigger, member>>

----------------------------------------------------------------------------
Group ==
  \/ OtherEntry
  \/ Decide
  \/ NewLeader(TRUE, WholeLog)
  \/ \E base \in Prefixes : NewLeader(FALSE, base)
  \/ \E q \in 1..Len(group) : \E c \in {0} \cup (commit + 1)..MinOf(q, decided) : AppendEntries(q, c)
  \/ LeaderCommit
  \/ \E i \in 1..decided : InstallSnapshot(i)

Callers ==
  \/ \E w \in Client, type \in {"committed", "applied"} : AddEntry(w, type)
  \/ \E w \in Client : WaitForEntry(w) \/ LoseReply(w) \/ Cancel(w) \/ ReadBarrier(w)
  \/ TriggerSnapshot
  \/ Abort

IoFiber == Poll(member) \/ StoreSnapshot \/ Push \/ FinishBatch \/ ServerRequest \/ IoStops

ApplierFiber == Pop \/ Applied \/ SnapshotTaken \/ SnapshotLoaded

Next == Group \/ Callers \/ IoFiber \/ (May("leave") /\ Poll(FALSE)) \/ ApplierFiber \/ Stopped

\* The fibers run whenever they can; the group, the network and the callers need not.
Spec ==
  /\ Init /\ [][Next]_vars
  /\ WF_vars(IoFiber) /\ WF_vars(ApplierFiber) /\ WF_vars(Stopped)

----------------------------------------------------------------------------
Has(c) == c.idx <= decided /\ group[c.idx].term = c.term

\* Whatever mixture of batches and snapshots the queue delivers, the state machine
\* contains the commands of a decided prefix, each once and in order, up to _applied_idx.
MachineIsDecidedPrefix ==
  /\ applied <= decided
  /\ machine = Effects(SubSeq(group, 1, applied))

\* Answers are the truth (server.hh, add_entry).  Success: the entry with that index and
\* term is decided, and for `applied' it went through state_machine::apply() on this server;
\* a read returns after everything up to its index is in the state machine.  dropped_entry,
\* when the caller waits for the commit: the entry is not decided and never will be, and
\* the command may be added again.
AnswersAreTrue ==
  \A w \in Client :
    /\ calls[w].status = "ok" =>
         /\ calls[w].type # "read" => Has(calls[w])
         /\ calls[w].type = "applied" =>
              \E e \in executed : e.idx = calls[w].idx /\ e.term = calls[w].term
         /\ calls[w].type = "read" => applied >= calls[w].idx
    /\ calls[w].status = "dropped" /\ calls[w].type = "committed" => ~Has(calls[w])

\* An entry whose caller is told dropped_entry was replaced, whatever the caller waits
\* for, as server.hh and the comment in wait_for_entry() say it.
DroppedNeverCommitted ==
  \A w \in Client : calls[w].status = "dropped" => ~Has(calls[w])

\* The assertions of the two fibers, wait_for_entry() and fsm::apply_snapshot() hold:
\* no notification comes out of order, no snapshot goes back, no entry is skipped.
ServerAsserts ==
  /\ phase = "running" /\ work = Nothing /\ queue # << >> =>
       LET v == Head(queue)
       IN  /\ v.kind = "entries" =>
                /\ v.es[Len(v.es)].idx = applied + Len(v.es)
                /\ \A w \in Waiting(calls, "committed") : calls[w].idx >= v.es[1].idx
           /\ v.kind = "snapshot" => v.idx >= applied
  /\ work.kind = "applying" =>
       \A w \in Waiting(calls, "applied") : calls[w].idx >= work.es[1].idx
  /\ work.kind = "taking" => work.idx <= observed
  /\ TermFor(log, commit) # NoTerm
  /\ \A w \in Client : calls[w].status = "added" =>
       /\ Settled(calls[w]) /\ TermFor(log, calls[w].idx) = NoTerm => log.snapshot.idx >= calls[w].idx
       /\ \A v \in Waiting(calls, calls[w].type) : calls[v].idx = calls[w].idx
                                                    => calls[v].term # calls[w].term

\* The assertion of the applier fiber on a trigger_snapshot_msg: the term of the applied
\* index is in the log, "last truncation index <= snapshot index <= applied index".
TriggerAsserts ==
  phase = "running" /\ work = Nothing /\ queue # << >> /\ Head(queue).kind = "trigger"
    => TermFor(log, applied) # NoTerm

\* Nobody waits for ever for what has happened: a caller whose index is committed here, or
\* whose server is being stopped, gets an answer; and a snapshot that was asked for is on
\* disk in the end, whichever snapshot serves it.
CallersAreAnswered ==
  /\ \A w \in Client :
       calls[w].status = "waiting" /\ (calls[w].idx <= commit \/ phase = "stopping")
         ~> calls[w].status # "waiting" \/ phase = "dead"
  /\ trigger # 0 ~> trigger = 0 \/ phase = "dead"
=============================================================================
