SPECIFICATION Spec
CONSTANTS
    Calls <- AllCalls
    ExitCodes = {0, 7}
INVARIANTS
    InOrder
    OutputComplete
    SuccessIsReal
    EofBeforeExitCode
    ChildCollected
