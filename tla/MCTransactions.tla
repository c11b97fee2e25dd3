--------------------------- MODULE MCTransactions ---------------------------
(* The two kinds of conditional changes, lightweight transactions (Paxos) and *)
(* changes of the group 0 state (Group0), one at a time: `part' says which    *)
(* one moves, the other stays in an initial state.                            *)
EXTENDS Paxos, PaxosPlans, Group0, TLC

CONSTANTS n1, n2

VARIABLE part

ReplicaSymmetry == Permutations(Replica)

\* Operations at two servers: one that may add its entry three times, in batches; a crash in
\* the middle of a batch or of a snapshot transfer; a transfer during two other changes.
ChangeScenarios ==
  LET plain == [home |-> [a |-> n1, b |-> n2], retries |-> {}, skew |-> 1, batch |-> 2,
                crashes |-> 0, transfers |-> 0]
  IN  [retry |-> [plain EXCEPT !.retries = {<<"a", 1>>, <<"a", 2>>}, !.skew = 2],
       crash |-> [plain EXCEPT !.crashes = 1, !.transfers = 1],
       transfer |-> [plain EXCEPT !.home = [a |-> n1, b |-> n2, c |-> n2], !.batch = 1, !.transfers = 1]]

TransactionsInit ==
  /\ part \in {"paxos", "group0"}
  /\ Init /\ ChangesInit
  /\ part = "paxos" \/ plan = "race"
  /\ part = "group0" \/ scenario = "retry"

TransactionsNext ==
  \/ part = "paxos" /\ Next /\ UNCHANGED <<part, changeVars>>
  \/ part = "group0" /\ ChangesNext /\ UNCHANGED <<part, vars>>

TransactionsSpec == TransactionsInit /\ [][TransactionsNext]_<<part, vars, changeVars>>
=============================================================================
