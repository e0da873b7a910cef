---------------------------- MODULE MCSmartRouter ----------------------------
EXTENDS SmartRouter, TLC

CONSTANTS o1, o2

\* One order over two accounts that only together can carry it.
Balances   == (1 :> 2) @@ (2 :> 2)
Minimums   == (1 :> 1) @@ (2 :> 1)
Prices     == (1 :> 3) @@ (2 :> 2)
NoPriority == (1 :> 100) @@ (2 :> 100)
OneOrder   == (o1 :> 3)

\* Two orders on one account that carries both only if one of them fills in
\* part, or lets go.
OneBalance == (1 :> 3)
OneMinimum == (1 :> 1)
OnePrice   == (1 :> 3)
SamePriority == (1 :> 100)
TwoOrders  == (o1 :> 2) @@ (o2 :> 2)
OneOrderAlone == (o1 :> 2)
=============================================================================
