SPECIFICATION Spec
CONSTANTS
    Word <- MCWord
    Text <- MCText
    Long <- MCLong
    Filters <- MCFilters
    Modules <- MCModules
    MaxBytes = 64
    MagicLen = 128
    MaxLoop = 3
    MaxIov = 2
    MaxOp = 49
    BufSize = 341
    MaxElement = 16
INVARIANTS
    ReturnsAreRead
