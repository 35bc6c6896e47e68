\* Calls of two threads that die and are reborn, from the first table on.
SPECIFICATION Spec
CONSTANTS
    Tid = {t1, t2}
    Sys <- MCSys
    Points <- MCPoints
    Configs <- MCConfigs
    Filtered = {"openat"}
    Forgets = {"execve"}
    MaxLive = 2
SYMMETRY Symmetry
INVARIANTS TypeOK ExitPairs ReturnsLeaveNothing
PROPERTY ReportedCallsComplete
