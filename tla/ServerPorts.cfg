\* A named and a nameless client that may both bind p1 and also ask for p2,
\* which neither is allowed; two requests may be buffered.
CONSTANTS
    Sessions = {a1, b1}  Addrs = {a1, b1}
    a1 = a1  a2 = a2  a3 = a3  b1 = b1  alice = alice  p1 = p1  p2 = p2
    Names = {alice}  NoName = NoName
    Ports = {p1, p2}  AnyPort = AnyPort  NoPort = NoPort
    NoSession = NoSession
    NameOf <- NamesOfAll
    AllowedOf <- AllowedP1  AddrOf <- OwnAddr
    ClientReqs <- AllReqs
    MaxReqs = 2  EvictTimer = FALSE
SPECIFICATION Spec
INVARIANTS DoneMeansReleased
PROPERTIES OnlyOwnerFrees
CHECK_DEADLOCK FALSE
