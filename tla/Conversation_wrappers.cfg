SPECIFICATION Spec
CONSTANTS
    None = None
    Agents = {a, b}
    Starter = a
    MaxTurns = 3
    MaxSends = 4
    MaxFailures = 1
    MaxFaults = 1
INVARIANTS
    TypeOK EndIsReal DropReported SomeoneCanSpeak
PROPERTIES
    EndIsKept
CHECK_DEADLOCK FALSE
