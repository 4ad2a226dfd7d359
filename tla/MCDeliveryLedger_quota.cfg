SPECIFICATION Spec
CONSTANTS
    None = None
    Agents = {a1, a2}
    Senders = {a1}
    Noticed = {}
    Purged = {}
    Chans = {c1, c2, c3}
    Gens = {g1}
    JoinModes = {"resync", "off"}
    Reports = {"release"}
    BacklogLimit = 2
    PairLimit = 1
    RecipientLimit = 2
    MaxSeq = 2
    MaxInc = 1
    MaxToken = 1
    MaxCrash = 0
SYMMETRY ChanSymmetry
INVARIANTS
    EarlyQuotaHeld BacklogHeld
CHECK_DEADLOCK FALSE
