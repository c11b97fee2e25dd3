------------------------------- MODULE Group0 -------------------------------
(* Changes of the group 0 state: raft_group0_client (guards, state ids,       *)
(* retries) and group0_state_machine (apply, the merger, snapshot transfer).   *)
(* The Raft group itself is the log of its committed commands; an entry that a *)
(* client added may be committed late, twice (a retry), or never.              *)
(*                                                                            *)
(* The state is two tables, schema and topology, each a cell whose value is   *)
(* the sequence of the changes it has seen; a change appends itself to both.   *)
(* Unguarded commands, history garbage collection and the upgrade to Raft are  *)
(* not modelled.                                                              *)
EXTENDS Naturals, FiniteSets, Sequences, SequencesExt

CONSTANTS
  Node,
  Scenarios,      \* the scenarios to explore
  None

VARIABLES
  scenario,   \* the scenario
  log,        \* the committed commands
  flight,     \* entries that were added and may yet be committed
  node,       \* node[n]: the tables of n and how far its state machine is
  work,       \* work[n]: the batch that n is applying, or NoWork
  pull,       \* pull[n]: the snapshot that n is transferring, or NoPull
  op,         \* op[o]: the operation o and its group0_guard
  faults      \* the crashes and the snapshot transfers so far
changeVars == <<scenario, log, flight, node, work, pull, op, faults>>

\* A scenario says at which server each operation runs (home) and after which
\* attempts they may add their entry again (retries), and bounds the gap between state ids (skew), the
\* commands in a batch (batch), the crashes and the snapshot transfers.
Home == Scenarios[scenario].home
Operation == UNION {DOMAIN Scenarios[p].home : p \in DOMAIN Scenarios}
ASSUME ScenariosAssumption ==
  \A p \in DOMAIN Scenarios :
    /\ \A o \in DOMAIN Scenarios[p].home : Scenarios[p].home[o] \in Node
    /\ Scenarios[p].skew \in Nat /\ Scenarios[p].batch \in Nat
Running == {"barrier", "guard", "sent"}

NoId == [ts |-> 0, op |-> None]
TableCell(ts, v) == [ts |-> ts, v |-> v]
MergeCell(c, d) == IF d.ts > c.ts THEN d ELSE c
LastId(history) == IF history = {} THEN NoId ELSE CHOOSE i \in history : \A j \in history : i.ts >= j.ts

NoWork == [step |-> "none", upto |-> 0, cmds |-> << >>]
NoPull == [step |-> "none", from |-> None, idx |-> 0]
Free(n) == node[n].mutex = "free"     \* _read_apply_mutex

ChangesInit ==
  /\ scenario \in DOMAIN Scenarios
  /\ log = << >> /\ flight = {} /\ faults = [crashes |-> 0, transfers |-> 0]
  /\ node = [n \in Node |-> [schema |-> TableCell(0, << >>), topology |-> TableCell(0, << >>),
                             history |-> {}, applied |-> 0, mutex |-> "free"]]
  /\ work = [n \in Node |-> NoWork]
  /\ pull = [n \in Node |-> NoPull]
  /\ op = [o \in Operation |-> [phase |-> "idle", barrier |-> 0, cmd |-> None, attempt |-> 0]]

----------------------------------------------------------------------------
(* The client                                                              *)

\* start_operation takes _operation_mutex and makes a read barrier ...
StartOperation(o) ==
  /\ o \in DOMAIN Home /\ op[o].phase = "idle"
  /\ \A p \in DOMAIN Home : Home[p] = Home[o] => op[p].phase \notin Running
  /\ op' = [op EXCEPT ![o].phase = "barrier", ![o].barrier = Len(log)]
  /\ UNCHANGED <<log, flight, node, work, pull, faults>>

\* ... which ends when the state machine has caught up; then it takes the read_apply
\* mutex and reads the last state id.  The caller reads the tables and computes its
\* change.  The clock may be any, but the new id is later than the last one.
NewIds(last, o) == {[ts |-> t, op |-> o] : t \in (last.ts + 1)..(last.ts + Scenarios[scenario].skew)}
TakeGuard(o) ==
  LET n == Home[o]
      last == LastId(node[n].history)
  IN  /\ op[o].phase = "barrier"
      /\ node[n].applied >= op[o].barrier
      /\ Free(n)
      /\ \E id \in NewIds(last, o) :
           op' = [op EXCEPT ![o].phase = "guard",
                            ![o].cmd = [prev |-> last, new |-> id,
                                        schema |-> TableCell(id.ts, Append(node[n].schema.v, o)),
                                        topology |-> TableCell(id.ts, Append(node[n].topology.v, o))]]
      /\ node' = [node EXCEPT ![n].mutex = "guard"]
      /\ UNCHANGED <<log, flight, work, pull, faults>>

Entry(o, attempt) == [cmd |-> op[o].cmd, attempt |-> attempt]
\* add_entry releases the read_apply mutex and adds the entry; it adds it again
\* when it hears that the entry was dropped or that its fate is unknown.
AddEntry(o) ==
  /\ op[o].phase = "guard"
  /\ node' = [node EXCEPT ![Home[o]].mutex = "free"]
  /\ flight' = flight \cup {Entry(o, 1)}
  /\ op' = [op EXCEPT ![o].phase = "sent", ![o].attempt = 1]
  /\ UNCHANGED <<log, work, pull, faults>>
RetryEntry(o) ==
  /\ op[o].phase = "sent" /\ <<o, op[o].attempt>> \in Scenarios[scenario].retries
  /\ flight' = flight \cup {Entry(o, op[o].attempt + 1)}
  /\ op' = [op EXCEPT ![o].attempt = @ + 1]
  /\ UNCHANGED <<log, node, work, pull, faults>>
\* Faulty variant: add_entry does not look at the history.
FinishOperation_Blind(o) ==
  /\ op[o].phase = "sent"
  /\ \E i \in 1..node[Home[o]].applied : log[i] = Entry(o, op[o].attempt)
  /\ op' = [op EXCEPT ![o].phase = "done"]
  /\ UNCHANGED <<log, flight, node, work, pull, faults>>
\* The entry is applied here: the history tells whether it had an effect.
FinishOperation(o) ==
  LET n == Home[o]
  IN  /\ op[o].phase = "sent"
      /\ \E i \in 1..node[n].applied : log[i] = Entry(o, op[o].attempt)
      /\ op' = [op EXCEPT ![o].phase = IF op[o].cmd.new \in node[n].history THEN "done" ELSE "conflict"]
      /\ UNCHANGED <<log, flight, node, work, pull, faults>>

\* Raft commits an entry.
Commit(e) ==
  /\ log' = Append(log, e)
  /\ flight' = flight \ {e}
  /\ UNCHANGED <<node, work, pull, op, faults>>

----------------------------------------------------------------------------
(* The state machine                                                       *)

\* Faulty variant: only the first command of a batch is checked against the history.
Effective_FirstOnly(last, batch) ==
  LET ok == batch # << >> /\ batch[1].cmd.prev = last
  IN  IF ok THEN [i \in DOMAIN batch |-> batch[i].cmd] ELSE << >>
\* The commands of a batch that are not obsolete: each follows the last state id,
\* that of the history or of the command before it in the batch.
Advance(s, cmd) ==
  IF cmd.prev # s.last THEN s
  ELSE [last |-> IF cmd.new.ts > s.last.ts THEN cmd.new ELSE s.last, cmds |-> Append(s.cmds, cmd)]
Run(last, batch) ==
  LET f[i \in 0..Len(batch)] ==
        IF i = 0 THEN [last |-> last, cmds |-> << >>] ELSE Advance(f[i-1], batch[i].cmd)
  IN  f[Len(batch)]
Effective(last, batch) == Run(last, batch).cmds

\* apply() takes the mutex; the effective commands are merged into one.
StartApply(n, k) ==
  LET upto == node[n].applied + k
      cmds == Effective(LastId(node[n].history), SubSeq(log, node[n].applied + 1, upto))
  IN  /\ work[n] = NoWork /\ Free(n) /\ upto <= Len(log)
      /\ IF cmds = << >>
         THEN /\ node' = [node EXCEPT ![n].applied = upto]
              /\ UNCHANGED work
         ELSE /\ node' = [node EXCEPT ![n].mutex = "apply"]
              /\ work' = [work EXCEPT ![n] = [step |-> "schema", upto |-> upto, cmds |-> cmds]]
      /\ UNCHANGED <<log, flight, pull, op, faults>>

\* The changes are written first, table by table, and the state ids after them.
Steps == <<"schema", "topology", "history">>
NextStep(step) == Steps[(CHOOSE i \in 1..2 : Steps[i] = step) + 1]
NewestCell(c, S) == CHOOSE d \in S \cup {c} : \A e \in S \cup {c} : d.ts >= e.ts
WriteChange(n) ==
  LET cmds == ToSet(work[n].cmds)
  IN  /\ work[n].step \in {"schema", "topology"}
      /\ node' = [node EXCEPT
           ![n].schema = IF work[n].step = "schema" THEN NewestCell(@, {c.schema : c \in cmds}) ELSE @,
           ![n].topology = IF work[n].step = "topology" THEN NewestCell(@, {c.topology : c \in cmds}) ELSE @]
      /\ work' = [work EXCEPT ![n].step = NextStep(@)]
      /\ UNCHANGED <<log, flight, pull, op, faults>>
WriteHistory(n) ==
  /\ work[n].step = "history"
  /\ node' = [node EXCEPT ![n].history = @ \cup {c.new : c \in ToSet(work[n].cmds)},
                          ![n].applied = IF work[n].upto > @ THEN work[n].upto ELSE @,
                          ![n].mutex = "free"]
  /\ work' = [work EXCEPT ![n] = NoWork]
  /\ UNCHANGED <<log, flight, pull, op, faults>>

\* transfer_snapshot pulls the schema and the history in one request and the
\* topology in another, each under the mutex of the sender; neither is the state
\* at the snapshot's index, but that of the moment.
PullSchema(n, m, idx) ==
  /\ pull[n] = NoPull /\ n # m /\ Free(m)
  /\ faults.transfers < Scenarios[scenario].transfers
  /\ faults' = [faults EXCEPT !.transfers = @ + 1]
  /\ idx > node[n].applied /\ idx <= node[m].applied
  /\ pull' = [pull EXCEPT ![n] = [step |-> "pull", from |-> m, idx |-> idx, schema |-> node[m].schema,
                                  history |-> node[m].history]]
  /\ UNCHANGED <<log, flight, node, work, op>>
\* Faulty variant: the history comes with the second request.
PullTopology_History(n) ==
  LET m == pull[n].from
  IN  /\ pull[n].step = "pull" /\ Free(m)
      /\ pull' = [pull EXCEPT ![n] = [topology |-> node[m].topology, step |-> "schema", from |-> m, idx |-> @.idx,
                                      schema |-> @.schema, history |-> node[m].history]]
      /\ UNCHANGED <<log, flight, node, work, op, faults>>
PullTopology(n) ==
  LET m == pull[n].from
  IN  /\ pull[n].step = "pull" /\ Free(m)
      /\ pull' = [pull EXCEPT ![n] = [topology |-> node[m].topology, step |-> "schema", from |-> m, idx |-> @.idx,
                                      schema |-> @.schema, history |-> @.history]]
      /\ UNCHANGED <<log, flight, node, work, op, faults>>
\* The receiver writes them under its own mutex, the history last.
InstallTables(n) ==
  /\ \/ /\ pull[n].step = "schema" /\ Free(n)
        /\ node' = [node EXCEPT ![n].schema = MergeCell(@, pull[n].schema), ![n].mutex = "snapshot"]
     \/ /\ pull[n].step = "topology"
        /\ node' = [node EXCEPT ![n].topology = MergeCell(@, pull[n].topology)]
  /\ pull' = [pull EXCEPT ![n].step = NextStep(@)]
  /\ UNCHANGED <<log, flight, work, op, faults>>
InstallHistory(n) ==
  /\ pull[n].step = "history"
  /\ node' = [node EXCEPT ![n].history = @ \cup pull[n].history,
                          ![n].applied = IF pull[n].idx > @ THEN pull[n].idx ELSE @,
                          ![n].mutex = "free"]
  /\ pull' = [pull EXCEPT ![n] = NoPull]
  /\ UNCHANGED <<log, flight, work, op, faults>>

\* A restart: the tables stay, Raft replays its log from some snapshot of its own.
Crash(n) ==
  /\ faults.crashes < Scenarios[scenario].crashes
  /\ faults' = [faults EXCEPT !.crashes = @ + 1]
  /\ \E idx \in 0..node[n].applied :
       node' = [node EXCEPT ![n].applied = idx, ![n].mutex = "free"]
  /\ work' = [work EXCEPT ![n] = NoWork]
  /\ pull' = [pull EXCEPT ![n] = NoPull]
  /\ op' = [o \in Operation |-> IF op[o].phase \in Running /\ Home[o] = n
                         THEN [op[o] EXCEPT !.phase = "lost"] ELSE op[o]]
  /\ UNCHANGED <<log, flight>>

ChangesNext ==
  /\ UNCHANGED scenario
  /\ \/ \E o \in Operation : StartOperation(o) \/ TakeGuard(o) \/ AddEntry(o) \/ RetryEntry(o) \/ FinishOperation(o)
     \/ \E e \in flight : Commit(e)
     \/ \E n \in Node, k \in 1..Scenarios[scenario].batch : StartApply(n, k)
     \/ \E n \in Node : WriteChange(n) \/ WriteHistory(n) \/ PullTopology(n) \/ InstallTables(n)
                        \/ InstallHistory(n) \/ Crash(n)
     \/ \E n, m \in Node, idx \in 1..Len(log) : PullSchema(n, m, idx)

ChangesSpec == ChangesInit /\ [][ChangesNext]_changeVars

----------------------------------------------------------------------------
(* Properties                                                              *)

\* The changes that the committed commands make, in their order.
Decided == Effective(NoId, log)
Ops(cmds) == [i \in DOMAIN cmds |-> cmds[i].new.op]

\* What every server has applied is a prefix of the same history of changes: obsolete
\* commands and second copies of a retried one change nothing anywhere.  And
\* group0_state_machine::merge_and_apply and transfer_snapshot write the state ids
\* after the changes: a server whose history has an id has its whole change, also
\* after a crash in the middle, or a transfer of tables that were read apart.
TablesFollowTheLog ==
  \A n \in Node : /\ IsPrefix(node[n].schema.v, Ops(Decided))
                  /\ IsPrefix(node[n].topology.v, Ops(Decided))
                  /\ \A id \in node[n].history :
                       id.op \in ToSet(node[n].schema.v) /\ id.op \in ToSet(node[n].topology.v)

\* A change that takes effect was computed from exactly the changes before it, in
\* every table: a guard that saw more of one table than of another yields a conflict.
ChangeIsOfOneState ==
  \A i \in DOMAIN Decided :
    /\ Decided[i].schema.v = SubSeq(Ops(Decided), 1, i)
    /\ Decided[i].topology.v = SubSeq(Ops(Decided), 1, i)

Abstract == INSTANCE Group0Register WITH
  Op <- Operation,
  state <- Ops(Decided),
  outcome <- [o \in Operation |-> IF op[o].phase \in Running THEN "pending" ELSE op[o].phase],
  seen <- [o \in Operation |-> IF op[o].phase = "done" THEN Front(op[o].cmd.schema.v) ELSE << >>]

\* Changes of the group 0 state are linearizable: add_entry returns when the change
\* has taken effect once, on the state its guard observed, and reports a concurrent
\* modification only when it has not and never will.
ImplementsRegister == Abstract!Spec
=============================================================================
