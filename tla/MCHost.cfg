SPECIFICATION FairSpec
CONSTANTS
    NoHost = NoHost
    Hosts = {h1, h2, h3}
    Requests = {q1, q2}
    Executions = {e1}
CHECK_DEADLOCK FALSE
INVARIANT ClientAgrees
INVARIANT NoOrphan
PROPERTY RequestSettles
PROPERTY HostReturns
PROPERTY QuitEnds
