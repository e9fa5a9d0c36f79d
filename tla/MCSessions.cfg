CONSTANTS
  Users = {a, b}
  SessionIds = {s1, s2}
  NoSession = NoSession
  Images = {i1}
  Lists = {l1}
  Durations = {1}
  Buffers = {1, 3}
  MaxInt = 3
  MaxQueueAttempts = 2
  MaxClock = 6
  LastStart = 1
  MaxFaults = 1
SPECIFICATION FairSpec
CHECK_DEADLOCK FALSE
INVARIANTS TypeOK NothingDangles OpenForDuration
PROPERTIES UnknownIsUnaccepted AcceptedIsDecided ImplementsLifecycle
