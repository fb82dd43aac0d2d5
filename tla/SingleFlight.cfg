SPECIFICATION FlightSpec
CONSTANTS
    Callers = {t1, t2, t3}
    FlightKeys = {k1, k2}
    Flights = {f1, f2}
    NoFlight = NoFlight
    CachedKeys = {k1}
INVARIANTS
    NoOrphanWaiter
PROPERTIES
    WaitersReturn
    PermitSpec
