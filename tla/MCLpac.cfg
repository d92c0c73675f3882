SPECIFICATION Spec
CONSTANTS
    Executions = {x1, x2}
    NoExecution = NoExecution
    Grants = 1
    MaxDeaths = 1
SYMMETRY Interchangeable
INVARIANT GrantsAreRecorded
INVARIANT RecoverySparesTheLiving
INVARIANT EffectIsTrue
INVARIANT LeftoversAreKnown
