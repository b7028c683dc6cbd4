SPECIFICATION Spec
CONSTANTS
  MaxCalls = 3
  MaxShells = 6
  MaxFaults = 2
  MaxAborts = 1
  MaxChanges = 1
INVARIANT Serialized
INVARIANT NoStrayTerminal
PROPERTY CallsEnd
CHECK_DEADLOCK FALSE
