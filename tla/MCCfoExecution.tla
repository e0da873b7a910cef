--------------------------- MODULE MCCfoExecution ---------------------------
EXTENDS CfoExecution, TLC

CONSTANTS r1, r2, r3, k1, k2, m1

\* Two orders on one fixture, on opposite selections.
TwoOrders  == (r1 :> k1) @@ (r2 :> k2)
TwoStakes  == (k1 :> 2) @@ (k2 :> 1)
OneMarket  == (k1 :> m1) @@ (k2 :> m1)
Opposite   == (k1 :> "HOME") @@ (k2 :> "AWAY")

\* One order submitted again and again.
OneOrder   == [r \in Requests |-> k1]
OneStake   == (k1 :> 2)
OnItsMarket == (k1 :> m1)
OnHome     == (k1 :> "HOME")
=============================================================================
