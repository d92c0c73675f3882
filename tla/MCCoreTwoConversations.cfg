SPECIFICATION Spec
CONSTANTS
    r1 = r1
    r2 = r2
    c1 = c1
    c2 = c2
    Runs = {r1, r2}
    Conversations = {c1, c2}
    ConversationOf <- TwoConversations
    MaxCalls = 1
    MaxToolRounds = 1
    CallKinds = {"ask", "allow", "input"}
    CrashPoints = {"await", "sync", "recovery"}
INVARIANT PromptsAreAwaited
INVARIANT ExecutionIsAuthorised
PROPERTY TransitionsAreLegal
PROPERTY NoToolAfterAbort
PROPERTY CheckpointIsKept
PROPERTY ImplementsLedger
