------------------------------ MODULE MCMarket ------------------------------
EXTENDS Market
MCLpSupply == [p \in Pools |-> CASE p = "a" -> 7 [] p = "b" -> 3 [] OTHER -> 9]
MCInitPool == [base |-> 30, quote |-> 20]
MCInitCurve == [vt |-> 40, vs |-> 12, rt |-> 30, rs |-> 0]
=============================================================================
