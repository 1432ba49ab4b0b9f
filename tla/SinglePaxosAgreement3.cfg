\* Three acceptors, one proposer that retries, proposal numbers up to 3, slow channels.
SPECIFICATION Spec
CONSTANTS
    n1 = n1
    n2 = n2
    n3 = n3
    v1 = v1
    v2 = v2
    Node = {n1, n2, n3}
    Proposer = {n1}
    Learner = {n2, n3}
    Value = {v1, v2}
    None = None
    RandMax = 1
    MaxRnd = 3
    MaxProposals = 3
SYMMETRY Symmetry
ACTION_CONSTRAINTS
    FewLearners
    NoDrops
    SlowChannels
    FewProposals
INVARIANT Agreement
CHECK_DEADLOCK FALSE
