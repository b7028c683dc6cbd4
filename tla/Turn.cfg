SPECIFICATION Spec
CONSTANTS
    a1 = a1
    a2 = a2
    a3 = a3
    Agents = {a1, a2, a3}
    Subs = {a2, a3}
    ToolsOf <- MCToolsOf
    Modes = {"ask", "acceptEdits", "yolo"}
    MaxConcurrent = 1
    MaxRounds = 1
    MaxSwitches = 1
    MaxTroubles = 1
INVARIANT NobodyIsStranded
INVARIANT NothingRunsUnasked
INVARIANT SlotsAreKept
PROPERTY StopEnds
CHECK_DEADLOCK FALSE
