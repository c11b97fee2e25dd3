CONSTANTS
  w1 = w1
  w2 = w2
  Client = {w1, w2}
  Plans <- ServerPlans
  MaxTerm = 3
  MaxIdx = 4
  QueueMax = 1
  SnapshotThreshold = 2
  SnapshotThresholdSize = 3
  SnapshotTrailing = 1
SPECIFICATION Spec
CHECK_DEADLOCK FALSE
INVARIANTS MachineIsDecidedPrefix AnswersAreTrue ServerAsserts
PROPERTIES CallersAreAnswered
