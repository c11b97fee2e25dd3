CONSTANTS
  Replica = {a, b, c}
  Plans <- PrunePlans
  Nil = Nil
SPECIFICATION Spec
SYMMETRY ReplicaSymmetry
CHECK_DEADLOCK FALSE
INVARIANT CasIsLinearizable
