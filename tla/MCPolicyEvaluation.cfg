SPECIFICATION Spec
CONSTANTS
    Rules <- NextRules
    SystemInfos <- Systems
    Requests <- AllRequests
INVARIANTS
    AllowedTargetUsable
    AutostartRespected
    EvaluationPredicts
    ChoicesAreGranted
