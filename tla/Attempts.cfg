\* A client that roams between two addresses, its old session still there when
\* the new one comes; a handshake failing from either address; instants of half
\* a second, and an unknown address logged once per instant.
CONSTANTS
    Names = {n1}  IPs = {i1, i2}  NoIP = NoIP  Handlers = {h1}
    Second = 2  LogEvery = 1
    MaxTime = 4  MaxFails = 2  MaxConns = 2
SPECIFICATION Spec
INVARIANTS ArrivalsAreReported SuppressedAreCounted
SYMMETRY AddressSymmetry
CHECK_DEADLOCK FALSE
