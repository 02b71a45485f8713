\* Two clients whose heartbeats arrive whenever they like, or stop.
CONSTANTS
    Clients = {c1, c2}  NoClient = NoClient
    LostTicks = 3
SPECIFICATION FairSpec
INVARIANT CallbacksPaired
PROPERTIES LostAfterSilence SilenceIsFlagged
