CONSTANTS
    NumTasks = 2
    MaxPolls = 2
SPECIFICATION Spec
CHECK_DEADLOCK FALSE
INVARIANTS
    ResultsConserved
    SuccessDrainFindsSuccess
    CompleteWhenAllCounted
    FlagAgreesWithSignatures
    EarlyExitJustified
PROPERTY
    KeepsPromise
    CallReturns
