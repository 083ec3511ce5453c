CONSTANTS
    NumTasks = 2
    MaxPolls = 0
    GetTxAfter = 1
    MaxIterations = 2
    NoSig = NoSig
SPECIFICATION Spec
CHECK_DEADLOCK FALSE
INVARIANTS
    AnswerIsTrue
    BuyLandsOnce
PROPERTY
    SwapReturns
