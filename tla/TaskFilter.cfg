\* Four command lines; the loader runs while threads fork, die, change and reuse numbers.
SPECIFICATION FairSpec
CONSTANTS
    Pid <- MCPid
    Uid <- MCUid
    Comm = {"main", "RenderThread"}
    Configs <- MCConfigs
    SelfPid = 1
    Boot = {1, 2}
    Width = 1024
    ListCap = 3
    ForkCap = 2
    NameCap = 2
INVARIANTS TypeOK SelfNeverTraced PassedMeansWanted
PROPERTIES VerdictIsStable LoadingEnds
