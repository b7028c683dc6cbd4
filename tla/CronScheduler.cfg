SPECIFICATION FairSpec
CONSTANTS
  JobIds = {j1, j2}
  Sessions = {s1}
  Users = {u1}
  Checks = {k1, k2}
  Schedules <- MCSchedules
  Horizon = 2
  TTL = 2
  MaxDelay = 1
  JobLimit = 2
  MaxTroubles = 1
CONSTRAINT Few
INVARIANT OncePerPoint
INVARIANT TimerCoversJobs
INVARIANT DiskAgrees
PROPERTY DueIsServed
CHECK_DEADLOCK FALSE
