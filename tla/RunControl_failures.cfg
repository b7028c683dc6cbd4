SPECIFICATION Spec
CONSTANTS
  Requests = {}
  MaxItems = 2
  Clients = {c1}
  MaxQueued = 1
  MaxTurns = 1
  MaxGoals = 1
  MaxFaults = 1
  MaxCrashes = 1
  AllowAbort = TRUE
  AllowErrors = TRUE
  AllowDirect = FALSE
  AllowEdits = TRUE
  Runner = Runner
  NoRequest = NoRequest
SYMMETRY Symmetry
INVARIANT HistoryAgrees
INVARIANT DeliveredOnce
PROPERTY DeliverySpec
