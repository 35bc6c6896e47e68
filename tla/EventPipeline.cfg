\* Two threads and three records; every channel can be full.
SPECIFICATION FairSpec
CONSTANTS
    Uuid = {"a", "b"}
    Id <- MCId
    MaxEvents = 3
    InCap = 2
    ChanCap = 1
    MaxTick = 1
INVARIANTS TypeOK OneWorkerPrints
PROPERTIES ImplementsLog WorkersEnd EventsLeave
CHECK_DEADLOCK FALSE
