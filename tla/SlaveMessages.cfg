SPECIFICATION FairSpec
CONSTANTS
    Peer = {"slave", "client"}
    Self = "self"
    Message <- MCMessage
    Content <- MCContent
    Script <- MCScript
    TabletId = {"low", "high", "top"}
    RangeOf <- MCRangeOf
    Thread = {1, 2}
    MAX_MESSAGES_QUEUE_SIZE = 2
    MaxCrashes = 1
    Unknown = "unknown"
INVARIANTS
    TypeOK
    OneTaskForTheHead
    HandledInOrder
    RoutedOnce
    ThreadsBalanced
PROPERTY
    AllHandled
CHECK_DEADLOCK FALSE
