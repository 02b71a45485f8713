\* Three connections of one client reconnecting at once; EvictWait may elapse.
CONSTANTS
    Sessions = {a1, a2, a3}  Addrs = {a1, a2, a3}
    a1 = a1  a2 = a2  a3 = a3  b1 = b1  alice = alice  p1 = p1  p2 = p2
    Names = {alice}  NoName = NoName
    Ports = {p1}  AnyPort = AnyPort  NoPort = NoPort
    NoSession = NoSession
    NameOf <- NamesOfAll
    AllowedOf <- AllowedP1  AddrOf <- OwnAddr
    ClientReqs <- ForwardOnly
    MaxReqs = 1  EvictTimer = TRUE
SPECIFICATION Spec
SYMMETRY ClientSymmetry
INVARIANTS TypeOK OneLiveSession DoneMeansReleased ReclaimsPorts StaleIsEvicted NoDeadEntry WaitsForEarlier
CHECK_DEADLOCK FALSE
