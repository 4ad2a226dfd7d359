SPECIFICATION Spec
CONSTANTS
    None = None
    Chans = {c1, c2}
    Peers = {}
    AskedKinds = {"reset"}
    MaxTargets = 1
    MaxRequest = 2
SYMMETRY Symmetry
INVARIANTS
    CompletedByBoth NoWaiterStranded
PROPERTIES
    ConcludedOnce
CHECK_DEADLOCK FALSE
