------------------------------ MODULE MCPaxos ------------------------------
(* Paxos for TLC. *)
EXTENDS Paxos, PaxosPlans, TLC

ReplicaSymmetry == Permutations(Replica)
=============================================================================
