\* The key does not exist yet when the read is decided.
SPECIFICATION Spec
CONSTANTS
    s1 = s1
    w0 = w0
    w1 = w1
    w2 = w2
    r1 = r1
    k1 = k1
    v0 = v0
    v1 = v1
    v2 = v2
    Replica = {s1, s2}
    RequestId = {w0, w1, w2, r1}
    Request <- MCRequest
    Key = {k1}
    Value = {v0, v1, v2}
    NoValue = NoValue
    InitialLog <- NothingDecided
    RETRY_LIMIT = 1
    MaxQueue = 1
SYMMETRY Symmetry
INVARIANT
    NeverWritesToThePast
