SPECIFICATION FairSpec
CONSTANTS
    r1 = r1
    r2 = r2
    c1 = c1
    c2 = c2
    Runs = {r1, r2}
    Conversations = {c1, c2}
    ConversationOf <- OneConversation
    MaxCalls = 1
    MaxToolRounds = 1
    CallKinds = {"ask", "allow", "deny", "unavailable", "input"}
    CrashPoints = {"await"}
INVARIANT OneOpenRunPerConversation
INVARIANT OpenRunsAreExecuted
INVARIANT EffectsAreReported
PROPERTY AbortsEnd
PROPERTY ApprovedCallIsEntered
