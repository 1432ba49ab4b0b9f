\* Two nodes and four indices: every pair of logs with holes in different places, so
\* requests of several arrays, and several rounds in both directions.
SPECIFICATION FairSyncSpec
CONSTANTS
    Node = {n1, n2}
    MaxIndex = 3
INVARIANTS
    SyncedEntriesAreDecided
    RequestDescribesHoles
PROPERTY
    LogsConverge
