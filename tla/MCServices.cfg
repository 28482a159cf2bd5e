SPECIFICATION ServicesSpec
CONSTANTS
  Gets = {g1, g2}
  Clients = {c1, c2, c3}
  NoClient = NoClient
  LimitKeys = {"apps", "calls"}
  Config <- TwoConfigs
  Costs = {0, 3}
  BucketSize = 3
  Day = 6
  CleanupEvery = 1
  MaxTime = 8
  Sockets = {s1, s2, s3}
  NoSocket = NoSocket
  Msgs = {m1, m2}
  Hello = Hello
  MaxPendingSends = 1
  MaxRetries = 2
  Requests = {u1, u2}
  Builds = {b1, b2}
INVARIANTS ServicesTypeOK PromptsAreAwaited LimitsHold RefusalsAreJustified OneSocket HeardInOrder RequestHasATaker
PROPERTIES GetsEnd RequestIsTaken
CHECK_DEADLOCK FALSE
