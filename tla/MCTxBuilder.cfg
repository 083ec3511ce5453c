CONSTANTS
    Tasks = {1, 2, 3}
    Params <- MCParams
    MiddlewareChains <- MCChains
    PoolSize = 1
    PoolCapacity = 2
    MaxAllocated = 4
    MaxNonce = 3
SPECIFICATION Spec
CHECK_DEADLOCK FALSE
INVARIANTS
    PoolsAreSound
    MessageIsOwn
    SendsOwnBytes
    OneTradePerNonce
