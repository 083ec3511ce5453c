CONSTANTS
    Writers = {w1, w2}
    Swqos = {Default, Jito}
    Default = Default
    Prices = {1}
    Tips = {0, 1}
    NoValue = NoValue
    MaxOps = 1
    MaxClients = 2
    MinTip <- MCMinTip
SPECIFICATION PlanSpec
SYMMETRY WriterSymmetry
CONSTRAINT Explored
CHECK_DEADLOCK FALSE
INVARIANTS
    ConflictsAreRaces
    GlobalTakesEffect
    PlanIsSafe
