\* A probe of either kind and a stream of each direction share a tunnel that
\* may die or close at any moment, with an ssh that passes half-closes on or not.
CONSTANTS
    Probes = {p1}  Downs = {d1}  Ups = {u1}
SPECIFICATION FairSpec
INVARIANTS ActiveCountsPipes
PROPERTIES RefusedProbeFails MeasureReturns StreamsLeaveNothing ProbesLeaveNothing
CHECK_DEADLOCK FALSE
