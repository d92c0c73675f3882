SPECIFICATION Spec
CONSTANTS
    r1 = r1
    r2 = r2
    c1 = c1
    c2 = c2
    Runs = {r1}
    Conversations = {c1, c2}
    ConversationOf <- OneRun
    MaxCalls = 3
    MaxToolRounds = 2
    CallKinds = {"ask", "allow", "deny", "unavailable", "input"}
    CrashPoints = {"await", "sync", "recovery"}
INVARIANT IInv
INVARIANT EnteredOnce
