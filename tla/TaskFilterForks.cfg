\* One whitelisted pid, with numbers and map entries enough for two generations of forks.
SPECIFICATION Spec
CONSTANTS
    Pid = {1, 2, 3, 4}
    Uid = {0}
    Comm = {"main"}
    Configs <- ForkConfigs
    SelfPid = 1
    Boot = {1, 2}
    Width = 1024
    ListCap = 1024
    ForkCap = 512
    NameCap = 2
PROPERTY ForksAreTraced
