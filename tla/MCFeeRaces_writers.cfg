CONSTANTS
    Writers = {w1, w2}
    Swqos = {Default, Jito}
    Default = Default
    Prices = {1}
    Tips = {0}
    NoValue = NoValue
    MaxOps = 1
    MaxClients = 0
    MinTip <- MCMinTip
SPECIFICATION PlanSpec
CHECK_DEADLOCK FALSE
INVARIANT
    NormalExcludesHighLow
