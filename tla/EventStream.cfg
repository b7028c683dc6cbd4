SPECIFICATION FairSpec
CONSTANTS
  Sessions = {s1}
  None = None
  Streams = {t1}
  SessionOf <- MCSessionOf
  Clients = {c1}
  HistoryLimit = 2
  ByteLimit = 3
  SendLimit = 1
  MaxPublished = 4
  MaxDrops = 1
  MaxRestarts = 1
INVARIANT NoSilentGap
INVARIANT DeltasKeepOrder
PROPERTY CatchesUp
CHECK_DEADLOCK FALSE
