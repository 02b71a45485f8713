\* A client that forwards a connection and leaves between two samples.
CONSTANTS
    Window = 2  Keep = 3  Grace = 1  MaxLog = 2
    MaxTime = 5  MaxBytes = 1  MaxFlips = 3
SPECIFICATION Spec
INVARIANTS OfflineIsMeasured
CHECK_DEADLOCK FALSE
