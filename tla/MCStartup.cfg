CONSTANTS
    Clients = {c1, c2}
    MaxRetries = 2
    Configs <- MCConfigs
    SWQOS_BLACKLIST = {"NextBlock"}
    Connecting = {"Soyas", "Speedlanding"}
    Plans <- MCPlans
    NoClient = NoClient
    MaxRent = 1
SPECIFICATION StartSpec
CHECK_DEADLOCK FALSE
INVARIANTS
    ClientsAreComplete
    ClientsFollowConfig
PROPERTIES
    StartupEnds
    RentsCatchUp
