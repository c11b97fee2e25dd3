------------------------------- MODULE MCLiveness -----------------------------
(* What must happen in the end: discovery ends in a group (Discovery), the    *)
(* group makes progress (RaftCluster) and the failure detector that its       *)
(* servers ask learns the truth (FailureDetector), one at a time: `part' says *)
(* which one moves, the others stay in a state with nothing to do.            *)
EXTENDS MCRaftCluster, FailureDetector

VARIABLES
  part,
  seedPlan, node, table, exchanges, config, budget, forgotten                  \* Discovery

NoOne == [seeds |-> << >>, up |-> {}, crashing |-> {}, left |-> [crash |-> 0, fault |-> 0]]

\* Two servers that know each other, three with the same seed, which is one of them;
\* with one crash and one lost call.
Starts ==
  LET P(seeds) == [seeds |-> seeds, up |-> {}, left |-> [crash |-> 1, fault |-> 1],
                   crashing |-> (DOMAIN seeds)
                                \X {"discovering", "found", "handshake", "storing", "member"}]
  IN  [idle |-> NoOne, mutual |-> P(<<{2}, {1}>>), same |-> P(<<{2}, {2}, {2}>>)]

\* An endpoint that is added, removed and added again, goes away and comes back, while a
\* listener leaves; two endpoints that are added while one goes away.
Detections ==
  LET P(requests, flips, leaving) ==
        [requests |-> [e |-> requests[1], d |-> requests[2]], flips |-> [e |-> flips, d |-> 0],
         leaving |-> leaving]
  IN  [idle |-> P(<<0, 0>>, 0, 0), one |-> P(<<3, 0>>, 2, 1), two |-> P(<<2, 1>>, 1, 0)]

Thresholds == [fast |-> 1, slow |-> 2]

Startup == INSTANCE Discovery WITH
  Node <- 1..3, Plans <- Starts, plan <- seedPlan, server <- node, left <- budget

startupVars == <<seedPlan, node, table, exchanges, config, budget, forgotten>>

LivenessInit ==
  /\ part \in {"raft", "discovery", "detector"}
  /\ Init /\ Startup!DiscoveryInit /\ DetectorInit
  /\ (part = "discovery") = (seedPlan # "idle")
  /\ (part = "detector") = (pingPlan # "idle")

LivenessNext ==
  \/ part = "raft" /\ Next /\ UNCHANGED <<part, startupVars, detectorVars>>
  \/ part = "discovery" /\ Startup!DiscoveryNext /\ UNCHANGED <<part, vars, detectorVars>>
  \/ part = "detector" /\ DetectorNext /\ UNCHANGED <<part, vars, startupVars>>

LivenessSpec ==
  /\ LivenessInit /\ [][LivenessNext]_<<part, vars, startupVars, detectorVars>>
  /\ Fairness /\ Startup!DiscoveryFairness /\ DetectorFairness

----------------------------------------------------------------------------
\* join_group0(): every server is in the group in the end.
EveryoneJoins == Startup!EveryoneJoins
=============================================================================
