SPECIFICATION Spec
CONSTANTS
    MAX_FDS = 2
    MAX_OPEN = 2
    Client = {c1, c2}
    Conn = {k1, k2, k3}
    Pid = {p1, p2}
    None = None
    VCHAN_SPACE = 1
    MayTerminate = FALSE
SYMMETRY Symmetry
INVARIANTS
    NotReportedWhileServed
    PollAligned
    WatchedFdOwned
    AnswerReachesRequester
PROPERTY KeepsPromise
