SPECIFICATION Spec
CONSTANTS
    None = None
    Chans = {c1, c2}
    Peers = {p1}
    AskedKinds = {"reset", "switch", "restart"}
    MaxTargets = 1
    MaxRequest = 1
SYMMETRY Symmetry
INVARIANTS
    CloseNoticeLast
CHECK_DEADLOCK FALSE
