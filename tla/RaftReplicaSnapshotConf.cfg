CONSTANTS
  Command = {a}
  Config = {c0, c1}
  InitConfig = c0
  MaxLeaders = 2
  MaxIdx = 4
  MaxSum = 7
  MaxAppend = 2
  TrailingEntries = {0, 1}
  TrailingBytes = 1
SPECIFICATION ReplicaSpec
INVARIANT SnapshotConfigIsCommitted
