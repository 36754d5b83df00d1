\* From a command to a running service.
SPECIFICATION Spec
CONSTANTS
    NDirs = 2
    Scenarios <- TheScenarios
    User <- TheUsers
    None = None
\* A request that was served is the end of a behaviour.
CHECK_DEADLOCK FALSE
INVARIANTS
    LookupOrder
    MultiplexerAgrees
    OutcomeAsConfigured
    EndpointAsNamed
