\* Two connections of one client, every kind of request; EvictWait never elapses, so eviction must complete by itself.
CONSTANTS
    Sessions = {a1, a2}  Addrs = {a1, a2}
    a1 = a1  a2 = a2  a3 = a3  b1 = b1  alice = alice  p1 = p1  p2 = p2
    Names = {alice}  NoName = NoName
    Ports = {p1}  AnyPort = AnyPort  NoPort = NoPort
    NoSession = NoSession
    NameOf <- NamesOfAll
    AllowedOf <- AllowedP1  AddrOf <- OwnAddr
    ClientReqs <- AllReqs
    MaxReqs = 1  EvictTimer = FALSE
SPECIFICATION FairSpec
PROPERTIES EvictionCompletes DeadLinkFreesPorts KeepaliveEnds ImplementsLease
CHECK_DEADLOCK FALSE
