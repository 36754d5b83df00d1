SPECIFICATION Spec
CONSTANTS
    MAX_CLIENTS = 1
    remote_domain_id = 2
    Domain = {0}
    Pid = {p1, p2}
    User = {u1}
    Ident = {i1}
    None = None
    AgentVersions = {2, 3}
    VCHAN_SPACE = 1
    TriggerValid = {TRUE, FALSE}
    MaxCrashes = 1
    MaxKills = 1
    MayTerminate = TRUE
SYMMETRY Symmetry
INVARIANTS
    PortAccounted
