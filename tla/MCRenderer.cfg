SPECIFICATION FairSpec
CONSTANTS
    r1 = r1
    r2 = r2
    c1 = c1
    Runs = {r1, r2}
    Conversations = {c1}
    ConversationOf <- InOneThread
    MaxMessages = 2
    MaxWire = 2
    MaxRequests = 2
    MaxCrashes = 1
CHECK_DEADLOCK FALSE
INVARIANT ViewIsCurrent
INVARIANT HistoryIsWhole
PROPERTY EndedRunIsLeft
