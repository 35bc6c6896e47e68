\* A uid whitelist with one app uid, and a process whose pid is that uid minus 0x800.
SPECIFICATION Spec
CONSTANTS
    Pid <- AliasPids
    Uid <- MCUid
    Comm = {"main"}
    Configs <- UidConfigs
    SelfPid = 1
    Boot <- AliasPids
    Width = 1024
    ListCap = 1024
    ForkCap = 3
    NameCap = 2
INVARIANT ListsDoNotInterfere
