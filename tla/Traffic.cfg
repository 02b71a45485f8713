\* A client that comes and goes, crashes at any point of a save, and a window,
\* a retention and a cap small enough that pruning and capping happen.
CONSTANTS
    Window = 2  Keep = 3  Grace = 1  MaxLog = 2
    MaxTime = 5  MaxBytes = 1  MaxFlips = 3
SPECIFICATION FairSpec
INVARIANTS UptimeIsExact CleanIsSaved
PROPERTIES ImplementsLedger TrafficIsSaved DownIsRecorded
CHECK_DEADLOCK FALSE
