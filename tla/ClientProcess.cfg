\* Beats with two of them outstanding at a time, over five rounds; the
\* supervisor is unbounded.
CONSTANTS
    MissedBeforeWarn = 2  WaitRounds = 2
    MaxBeats = 5  MaxRounds = 5
SPECIFICATION ProcSpec
INVARIANTS UnansweredIsReported ConnectedMeansUp
PROPERTIES CountedOnce StayingUpIsReported StopsOnSignal
CHECK_DEADLOCK FALSE
