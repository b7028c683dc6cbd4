SPECIFICATION Spec
CONSTANTS
  Requests = {}
  MaxItems = 2
  Clients = {c1, c2}
  MaxQueued = 1
  MaxTurns = 1
  MaxGoals = 1
  MaxFaults = 0
  MaxCrashes = 0
  AllowAbort = FALSE
  AllowErrors = TRUE
  AllowDirect = TRUE
  AllowEdits = FALSE
  Runner = Runner
  NoRequest = NoRequest
SYMMETRY Symmetry
INVARIANT RunExclusive
INVARIANT ClaimsHeld
INVARIANT ClaimsExclusive
INVARIANT CronNotStranded
