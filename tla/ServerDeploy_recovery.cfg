SPECIFICATION FairSpec
CONSTANTS
    MaxTx = 2
    MaxImage = 2
    MaxWrites = 2
    MaxFaults = 2
    Keep = 1
INVARIANTS
    TypeOK
    PairHeld
    NothingLost
PROPERTIES
    CommitSound
    RollbackSound
    ImplementsDeployment
    OpenIsClosed
CHECK_DEADLOCK FALSE
