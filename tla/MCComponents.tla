---------------------------- MODULE MCComponents ----------------------------
(* The components of a Raft server that are checked on their own, and how     *)
(* servers agree on their group, one at a time: `part' says which one moves,  *)
(* the others stay in an initial state.                                       *)
EXTENDS RaftVoting, RaftReplica, RaftTransfer, Discovery, TLC

CONSTANTS s1, s2

VARIABLES
  part,
  clock, raft, snapshots, snapshot_config, todo, before, after, used          \* RaftStorage

Majorities == {Q \in SUBSET Server : 2 * Cardinality(Q) > Cardinality(Server)}

Both == {<<"CURRENT", "s1", TRUE>>, <<"CURRENT", "s2", TRUE>>}
Leaving == {<<"CURRENT", "s1", TRUE>>, <<"CURRENT", "s2", FALSE>>,
            <<"PREVIOUS", "s1", TRUE>>, <<"PREVIOUS", "s2", TRUE>>}

Storage == INSTANCE RaftStorage WITH
  Voter <- {"s1"}, Config <- {Both, Leaving}, InitConfig <- Both, BatchSize <- 1, MaxTerm <- 2,
  MaxIdx <- 3, MaxSnapshots <- 2, MaxCalls <- 5, MaxRestarts <- 1

\* 2 and 3 know each other and 1, the smallest, knows 3.  Either 1 crashes, once it is in a
\* group, or 3, which has to remember 1 when it starts discovery again.
Servers == 1..3
SeedPlans ==
  [tail |-> [seeds |-> <<{3}, {3}, {2}>>, up |-> {1, 2, 3},
             crashing |-> {<<1, "member">>, <<3, "discovering">>},
             left |-> [crash |-> 1, fault |-> 0]]]
ASSUME SeedsAssumption == SoundPlans

ComponentsInit ==
  /\ part \in {"voting", "replica", "transfer", "storage", "discovery"}
  /\ Init /\ ReplicaInit /\ TransferInit /\ Storage!Init /\ DiscoveryInit
  /\ part = "voting" \/ cur = [s \in Server |-> [term |-> 0, vote |-> Nil]]

storageVars == <<clock, raft, snapshots, snapshot_config, todo, before, after, used>>

ComponentsNext ==
  \/ /\ part = "voting" /\ Next
     /\ UNCHANGED <<part, replicaVars, transferVars, storageVars, discoveryVars>>
  \/ /\ part = "replica" /\ ReplicaNext
     /\ UNCHANGED <<part, vars, transferVars, storageVars, discoveryVars>>
  \/ /\ part = "transfer" /\ TransferNext
     /\ UNCHANGED <<part, vars, replicaVars, storageVars, discoveryVars>>
  \/ /\ part = "storage" /\ Storage!Next
     /\ UNCHANGED <<part, vars, replicaVars, transferVars, discoveryVars>>
  \/ /\ part = "discovery" /\ DiscoveryNext
     /\ UNCHANGED <<part, vars, replicaVars, transferVars, storageVars>>

ComponentsSpec ==
  /\ ComponentsInit
  /\ [][ComponentsNext]_<<part, vars, replicaVars, transferVars, storageVars, discoveryVars>>

----------------------------------------------------------------------------
(* The properties of the components, each while its component moves.       *)

\* The types: of RaftVoting, of raft::log and what surrounds it, and of what server_impl
\* keeps across leaderships.
TypesOK ==
  CASE part = "voting" -> TypeOK
    [] part = "replica" -> ReplicaTypeOK
    [] part = "transfer" -> TransferTypeOK
    [] OTHER -> TRUE
\* What raft_sys_table_storage has stored is what it loads.  A crash between two CQL
\* statements leaves the term, the vote, the commit index and the log of before or after
\* the operation, or a prefix of the entries being stored, and the assertions of the next
\* start hold.
CrashIsClean == part = "storage" => Storage!CrashIsClean
=============================================================================
