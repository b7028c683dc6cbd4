SPECIFICATION FairSpec
CONSTANTS
  Commands = {c1, c2}
  Sessions = {s1}
  SessionOf <- OneSession
  Policies = {p1, p2}
  NoPolicy = NoPolicy
  NoCommand = NoCommand
  Workers = {w1}
  MaxQueue = 1
  Callers <- MCCallers
  MaxExecQueue = 1
  MaxConcurrency = 2
  Concurrency = 2
  MaxFaults = 2
  Changes = {n1}
  DefaultPolicy = p1
  Filtered = {p2}
  MaxEvents = 2
INVARIANT ProcessIsKept
INVARIANT RestartKeepsPolicy
PROPERTY KeepsContract
PROPERTY CallsSettle
CHECK_DEADLOCK FALSE
