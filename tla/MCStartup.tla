------------------------------ MODULE MCStartup ------------------------------
EXTENDS Startup

MCConfigs ==
    <<[type |-> "NextBlock", url |-> ""], [type |-> "Soyas", url |-> ""],
      [type |-> "Soyas", url |-> "custom"], [type |-> "Default", url |-> "rpc"]>>
MCPlan(k1, w1, k2, w2) ==
    LET first == CHOOSE c \in Clients : TRUE
    IN  [c \in Clients |-> IF c = first THEN [kind |-> k1, create_wsol_ata |-> w1]
                                        ELSE [kind |-> k2, create_wsol_ata |-> w2]]
MCPlans ==
    {MCPlan("new", FALSE, "new", FALSE), MCPlan("new", TRUE, "shared", TRUE),
     MCPlan("new", FALSE, "shared", TRUE)}
==============================================================================
