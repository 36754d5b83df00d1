SPECIFICATION Spec
CONSTANTS
    MAX_CLIENTS = 2
    remote_domain_id = 2
    Domain = {0, 3}
    Pid = {p1, p2}
    User = {u1}
    Ident = {i1, i2}
    None = None
    AgentVersions = {3}
    VCHAN_SPACE = 1
    TriggerValid = {TRUE}
    MaxCrashes = 0
    MaxKills = 0
    MayTerminate = FALSE
SYMMETRY Symmetry
INVARIANTS
    AnsweredAtMostOnce
    MarksCoverTables
    NotifyConsistent
    RunningClientNotified
    NoStaleDescriptor
    PortAccounted
    AnsweredByOwnChild
