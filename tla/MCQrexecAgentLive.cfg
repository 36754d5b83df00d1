SPECIFICATION FairSpec
CONSTANTS
    MAX_FDS = 2
    MAX_OPEN = 2
    Client = {c1}
    Conn = {k1, k2}
    Pid = {p1, p2}
    None = None
    VCHAN_SPACE = 1
    MayTerminate = TRUE
PROPERTIES
    EndedIsReported
    PostponedIsServed
    ClientAnswered
