\* Two upload streams, of which the client may refuse one.
CONSTANTS
    Probes = {}  Downs = {d1}  Ups = {u1, u2}
SPECIFICATION Spec
INVARIANTS OneStreamIsANumber
CHECK_DEADLOCK FALSE
