SPECIFICATION FairSpec
CONSTANTS
    Calls <- LiveCalls
    ExitCodes = {7}
PROPERTIES
    DisconnectEndsLoopUnlessBuffered
    CallerReturns
