CONSTANTS
  Nil = Nil
  s1 = s1
  s2 = s2
  Voter = {s1, s2}
  Config <- Configurations
  InitConfig <- Both
  BatchSize = 1
  MaxTerm = 2
  MaxIdx = 3
  MaxSnapshots = 2
  MaxCalls = 4
  MaxRestarts = 1
SPECIFICATION Spec
CHECK_DEADLOCK FALSE
INVARIANT SnapshotIsWhole
