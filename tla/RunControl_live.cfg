SPECIFICATION FairSpec
CONSTANTS
  Requests = {r1}
  MaxItems = 2
  Clients = {c1}
  MaxQueued = 1
  MaxTurns = 1
  MaxGoals = 1
  MaxFaults = 0
  MaxCrashes = 0
  AllowAbort = TRUE
  AllowErrors = TRUE
  AllowDirect = TRUE
  AllowEdits = FALSE
  Runner = Runner
  NoRequest = NoRequest
INVARIANT RetriesDeduplicated
PROPERTY RunEnds
PROPERTY ClaimsResolve
INVARIANT GoalsBounded
