\* One traced process and one of its children; numbers are used again.
SPECIFICATION Spec
CONSTANTS
    Pid = {1, 2}
    Boot = {1, 2}
    Whitelist = {1}
    Segs <- MCSegs
    ProcPath <- MCProcPath
    Loaded <- MCLoaded
    Modes = {"hook", "manual", "brk"}
    MaxSteps = 3
    MaxPending = 2
INVARIANTS TypeOK NoDuplicates OnlyFromFamily HandledIsKnown
PROPERTY KnownStaysKnown
CHECK_DEADLOCK FALSE
