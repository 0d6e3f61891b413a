\* Two receivers, three log events, two start_up() calls.
CONSTANTS
    r1 = r1
    r2 = r2
    Receivers <- MCReceivers
    MaxPackets = 3
    MaxStarts = 2
SPECIFICATION Spec
\* The model is bounded; a fault (abort or use after free) ends it.
CHECK_DEADLOCK FALSE
INVARIANTS TypeOK QueueMatchesOwners
PROPERTIES QueuedRecordsLeave
