SPECIFICATION Spec
CONSTANTS
    None = None
    Agents = {a1}
    Senders = {}
    Noticed = {a1}
    Purged = {a1}
    Chans = {c1, c2}
    Gens = {g1, g2}
    JoinModes = {"resync", "ack", "off"}
    Reports = {"submitted", "uncertain"}
    BacklogLimit = 2
    PairLimit = 0
    RecipientLimit = 0
    MaxSeq = 1
    MaxInc = 2
    MaxToken = 3
    MaxCrash = 1
SYMMETRY GenSymmetry
INVARIANTS
    LedgerInv SingleAuthority AuthoritySurvives
CHECK_DEADLOCK FALSE
