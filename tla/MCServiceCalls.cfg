CONSTANTS
    c1 = c1
    c2 = c2
    c3 = c3
    Dom = {1, 2, 3, 4}
    Call = {c1, c2, c3}
    MAX_CLIENTS = 2
    Plans <- MCPlans
    MayDie = {2, 3}
    None = None
SPECIFICATION FairSpec
CHECK_DEADLOCK FALSE
INVARIANTS
    PortsUnique
    ConnectsOwnCall
    KilledAfterUse
PROPERTY
    DisposableReleased
