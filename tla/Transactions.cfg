CONSTANTS
  Replica = {a, b, c}
  Plans <- QuorumPlans
  Nil = Nil
  Node = {n1, n2}
  Scenarios <- ChangeScenarios
  None = None
  n1 = n1
  n2 = n2
SPECIFICATION TransactionsSpec
SYMMETRY ReplicaSymmetry
CHECK_DEADLOCK FALSE
INVARIANTS CasIsLinearizable AppliedOnce TablesFollowTheLog ChangeIsOfOneState
PROPERTIES ImplementsRegister
