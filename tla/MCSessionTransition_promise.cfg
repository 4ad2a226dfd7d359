SPECIFICATION FairSpec
CONSTANTS
    None = None
    Chans = {c1, c2}
    Peers = {p1, p2}
    AskedKinds = {"reset", "switch", "restart"}
    MaxTargets = 1
    MaxRequest = 1
INVARIANTS
    TypeOK PromiseHeld
PROPERTIES
    PromisesClosed
CHECK_DEADLOCK FALSE
