SPECIFICATION Spec
CONSTANTS
  o1 = o1
  o2 = o2
  Orders = {o1}
  Sweepers = {"beat"}
  Operators = {"admin"}
  Venues = {1, 2}
  Balance <- Balances
  LeastStake <- Minimums
  Odds <- Prices
  Priority <- NoPriority
  Desired <- OneOrder
  Failures = 1
  Mortal = {o1, "beat"}
INVARIANT TypeOK
INVARIANT ClosedOrderAddsUp
INVARIANT RouteLeavesNothingHalfway
INVARIANT PlanCoversTheOrder
CHECK_DEADLOCK FALSE
