CONSTANTS
    Commands = {1, 2, 3}
    FreshPlans <- MCFresh
    ConnectedPlans <- MCConnected
    Clients = {1, 2, 3, 4}
    Forms = 2
SPECIFICATION Spec
INVARIANTS
    NoOrphan
    RunningIsReal
    FormsFollowReset
    AwaitsOnlyTheKilled
PROPERTY
    ShownIsCurrent
