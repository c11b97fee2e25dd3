CONSTANTS
  Nil = Nil
  s1 = s1
  s2 = s2
  s3 = s3
  Server = {s1, s2, s3}
  Plans <- LivenessPlans
  MaxInFlight = 1
  AppendChunk = 1
  MaxOvertake = 2
  Endpoint = {"e", "d"}
  Listener = {"fast", "slow"}
  Threshold <- Thresholds
  DetectorPlans <- Detections
SPECIFICATION LivenessSpec
CHECK_DEADLOCK FALSE
INVARIANTS NotificationsAlternate
PROPERTIES EntriesReachEveryone EveryoneJoins ListenersLearn
