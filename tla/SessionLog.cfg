SPECIFICATION Spec
CONSTANTS
    MaxMessages = 3
    MaxTruncates = 2
    MaxEdits = 1
    MaxFails = 1
    MaxCrashes = 1
CONSTRAINT Few
INVARIANT AcceptedIsReadable
INVARIANT PathIsWhole
INVARIANT NothingMissed
CHECK_DEADLOCK FALSE
