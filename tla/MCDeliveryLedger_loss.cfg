SPECIFICATION Spec
CONSTANTS
    None = None
    Agents = {a1, a2}
    Senders = {a1}
    Noticed = {}
    Purged = {}
    Chans = {c1, c2}
    Gens = {g1}
    JoinModes = {"resync"}
    Reports = {}
    BacklogLimit = 2
    PairLimit = 0
    RecipientLimit = 0
    MaxSeq = 2
    MaxInc = 3
    MaxToken = 3
    MaxCrash = 1
SYMMETRY ChanSymmetry
INVARIANTS
    TypeOK EntriesConsistent NothingForgotten LossesFinal
CHECK_DEADLOCK FALSE
