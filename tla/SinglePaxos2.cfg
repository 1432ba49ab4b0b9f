\* Two acceptors (the group size of initialize_constants), both proposing a value of
\* their own, with proposal numbers up to 2, and no message lost for ever.
SPECIFICATION FairSpec
CONSTANTS
    n1 = n1
    n2 = n2
    v1 = v1
    v2 = v2
    Node = {n1, n2}
    Proposer = {n1, n2}
    Learner = {n1, n2}
    Value = {v1, v2}
    None = None
    RandMax = 2
    MaxRnd = 2
    MaxProposals = 2
ACTION_CONSTRAINTS
    FewProposals
    OwnValues
INVARIANTS
    PromiseExpected
    OneValuePerRound
    LearnedIsChosen
    PromiseReportsLastVote
    Agreement
PROPERTY LoneProposerLearned
CHECK_DEADLOCK FALSE
