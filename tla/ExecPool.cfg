SPECIFICATION PoolSpec
CONSTANTS
  Commands = {c1, c2, c3}
  Sessions = {s1}
  SessionOf <- OwnSession
  Policies = {p1}
  NoPolicy = NoPolicy
  NoCommand = NoCommand
  Workers = {w1, w2}
  MaxQueue = 2
  Callers = {k1}
CONSTRAINT MCFrames
SYMMETRY MCSymmetry
INVARIANT RequestsAreOwned
INVARIANT NoLostWakeup
CHECK_DEADLOCK FALSE
