\* Nested and recursive functions that return or are left by longjmp, in two threads.
SPECIFICATION Spec
CONSTANTS
    Tid = {t1, t2}
    Func <- MCFunc
    Configs <- MCConfigs
    Filtered = {"read"}
    MaxFrames = 3
SYMMETRY Symmetry
INVARIANTS TypeOK ReturnShowsOwnArguments ReturnsReported
