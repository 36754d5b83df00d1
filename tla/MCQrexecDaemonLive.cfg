SPECIFICATION FairSpec
CONSTANTS
    MAX_CLIENTS = 1
    remote_domain_id = 2
    Domain = {0}
    Pid = {p1, p2}
    User = {u1}
    Ident = {i1, i2}
    None = None
    AgentVersions = {3}
    VCHAN_SPACE = 1
    TriggerValid = {TRUE}
    MaxCrashes = 0
    MaxKills = 1
    MayTerminate = FALSE
PROPERTIES
    RequestAnswered
