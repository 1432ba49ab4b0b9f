SPECIFICATION FairSpec
CONSTANTS
    Node = {1, 2, 3}
    Observer = {2}
    HEARTBEAT_FAILURE_COUNT = 3
    MaxCrashes = 2
    MaxDelay = 0
INVARIANTS
    NoFalseSuspicion
PROPERTY
    LeadersConverge
CHECK_DEADLOCK FALSE
