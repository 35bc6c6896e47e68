\* Two records and a channel of one, so that one record waits for the lock or on the channel
\* while the other is written, and one is written whole behind a part of the other.
SPECIFICATION Spec
CONSTANTS
    Modules <- MCModules
    MaxRecords = 2
    InCap = 1
INVARIANTS TypeOK DumpReadsBack
PROPERTY AcceptedAreDumped
CHECK_DEADLOCK FALSE
