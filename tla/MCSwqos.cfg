CONSTANTS
    Sigs = {s1, s2}
    NoSig = NoSig
    MaxSigs = 2
    MaxBatch = 2
    GetTxAfter = 2
    MaxIterations = 3
    Senders = {q1, q2, q3}
    Nobody = Nobody
    MaxSends = 1
    MaxClones = 2
SPECIFICATION SwqosSpec
CHECK_DEADLOCK FALSE
INVARIANTS
    OkMeansConfirmed
    TradeErrorIsFinal
    SendTypeOK
    ReportsAreTrue
    NoGapInBatch
    ResendIsSafe
PROPERTIES
    SendEnds
    ConnectionNeverRegresses
    EverySendEnds
    PingStopsAfterDrop
