\* Two tables, asked for at the master that the slave does not report to first: a request
\* may have to wait for the change that a request before it has left behind.
SPECIFICATION FairSpec
CONSTANTS
    m1 = m1
    Master = {m1, m2}
    Slave = {s1}
    Table = {t1, t2}
    FirstMaster = m1
    FirstSlave = s1
    RETRY_LIMIT = 1
    MaxQueue = 1
    MaxFinds = 2
ACTION_CONSTRAINT OtherMasterAsked
PROPERTY
    KeySpaceSettles
CHECK_DEADLOCK FALSE
