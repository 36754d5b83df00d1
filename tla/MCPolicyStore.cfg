SPECIFICATION FairSpec
CONSTANTS
    PolicyFile = {"30-user", "50-other"}
    BadFile = {"User"}
    Include = {"inc"}
    Contents <- Three
    Initial <- Start
    Admin = {a1, a2}
    None = None
    a1 = a1
    a2 = a2
    Workloads <- TheWorkloads
INVARIANTS
    CacheFresh
    TokenHolds
    StaysLoadable
PROPERTY EventuallyInForce
