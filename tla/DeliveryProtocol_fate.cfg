SPECIFICATION Spec
CONSTANTS
    None = None
    Agents = {r, s1}
    Gens = {0, 1}
    Recipient = r
    Sender = s1
    RangeLimit = 2
    CompletionLimit = 2
    MaxSeq = 2
    MaxLoad = 2
    MaxDeaths = 1
INVARIANTS
    TypeOK
    NothingStuck
PROPERTIES
    ImplementsFate
    EveryMessageAccounted
CHECK_DEADLOCK FALSE
