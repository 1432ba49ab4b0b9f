\* Keys do not interact in the store, so one is enough: up to five versions of it,
\* with reads before, between and after them.
SPECIFICATION Spec
CONSTANTS
    Key = {k1}
    Value = {v1, v2}
    Timestamp = {1, 2, 3, 4, 5}
    NoValue = NoValue
INVARIANTS
    VersionsIncrease
    SnapshotReads
    SearchFindsPosition
