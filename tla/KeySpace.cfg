\* Two masters, two slaves, two tables: both masters may be asked for both tables.
SPECIFICATION Spec
CONSTANTS
    m1 = m1
    Master = {m1, m2}
    Slave = {s1, s2}
    Table = {t1, t2}
    FirstMaster = m1
    FirstSlave = s1
    RETRY_LIMIT = 1
    MaxQueue = 1
    MaxFinds = 2
SYMMETRY TableSymmetry
INVARIANTS
    TypeOK
    AssertionsHold
    SlavesFollowMasters
    TableAssignedOnce
    NoChangeDropped
    LocatedIsServed
CHECK_DEADLOCK FALSE
