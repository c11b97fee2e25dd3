CONSTANTS
  s1 = s1
  s2 = s2
  Server = {s1, s2}
  Nil = Nil
  Quorum <- Majorities
  MaxTerm = 1
  Command = {a}
  Config = {c0}
  InitConfig = c0
  MaxLeaders = 3
  MaxIdx = 4
  MaxSum = 6
  MaxAppend = 2
  TrailingEntries = {0, 1}
  TrailingBytes = 1
  Peer = {p}
  SoleVoter = FALSE
  MaxGen = 5
  MaxTransfers = 2
  MaxReads = 1
  Node <- Servers
  Plans <- SeedPlans
SPECIFICATION ComponentsSpec
CHECK_DEADLOCK FALSE
INVARIANTS
  TypesOK VotesOnce OneClaimPerTerm OneLeaderPerTerm
  CachesExact CommittedIsDecided AppendAsserts
  TransfersMatchProgress PromisesAreKept LeadershipsStayApart CrashIsClean OneGroup
PROPERTIES CommittedNeverDropped
