\* Every order in which the entries of four indices can arrive, with duplicates and
\* conflicting entries, and two insertions.
SPECIFICATION NodeSpec
CONSTANTS
    e1 = e1
    e2 = e2
    Entry = {e1, e2}
    MaxIndex = 3
    NewSlaves <- MCNewSlaves
    FirstSlaves = "first"
    Task = {"t1", "t2"}
    PROPOSAL_RETRIES = 3
INVARIANTS
    AvailableIndicesExact
    ConfigFollowsLog
    OneJobForTheFirst
    TriedForOneIndex
PROPERTY
    ImplementsAppliedLog
CHECK_DEADLOCK FALSE
