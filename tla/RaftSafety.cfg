CONSTANTS
  Nil = Nil
  s1 = s1
  s2 = s2
  s3 = s3
  Server = {s1, s2, s3}
  Plans <- SafetyPlans
  MaxInFlight = 1
  AppendChunk = 1
  MaxOvertake = 2
SPECIFICATION Spec
CHECK_DEADLOCK FALSE
INVARIANTS NoDivergence LeaderCompleteness LogMatching FsmAsserts ReadsAreLinearizableInTerm CountedIsDurable
