\* One insertion, and a log that other nodes fill.
SPECIFICATION NodeSpec
CONSTANTS
    e1 = e1
    e2 = e2
    Entry = {e1, e2}
    MaxIndex = 3
    NewSlaves <- MCNewSlaves
    FirstSlaves = "first"
    Task = {"t1"}
    PROPOSAL_RETRIES = 3
INVARIANT QueueInvariant
CHECK_DEADLOCK FALSE
