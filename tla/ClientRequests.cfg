\* Two replicas share a key that exists.  A read at 3 competes with writes at 2 and 4;
\* these may be sent to both replicas, any number of times, and wait for each other at
\* one of them.
SPECIFICATION FairSpec
CONSTANTS
    s1 = s1
    w0 = w0
    w1 = w1
    w2 = w2
    r1 = r1
    k1 = k1
    v0 = v0
    v1 = v1
    v2 = v2
    Replica = {s1, s2}
    RequestId = {w0, w1, w2, r1}
    Request <- MCRequest
    Key = {k1}
    Value = {v0, v1, v2}
    NoValue = NoValue
    InitialLog <- KeyExists
    RETRY_LIMIT = 2
    MaxQueue = 2
ACTION_CONSTRAINTS
    OldRequestsRest
    OneLongQueue
INVARIANTS
    TypeOK
    CommittedAtMostOnce
    NeverWritesToThePast
    ReplicasAgree
    RejectedNeverCommitted
PROPERTY QueueNeverStuck
