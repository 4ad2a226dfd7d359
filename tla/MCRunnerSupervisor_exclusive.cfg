CONSTANTS
    None = None
    Agents = {a, b}
    Sessions = {s1, s2}
    Old = {s1, s2}
    MaxRestarts = 1
    MaxRequest = 3
    MaxPid = 2
SPECIFICATION Spec
SYMMETRY Interchangeable
CHECK_DEADLOCK FALSE
INVARIANTS
    ResumeExclusive
