SPECIFICATION Spec
CONSTANTS
    MaxTx = 2
    MaxImage = 2
    MaxWrites = 1
    MaxFaults = 2
    Keep = 1
PROPERTIES
    RolledBackPair
CHECK_DEADLOCK FALSE
