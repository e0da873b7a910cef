SPECIFICATION Spec
CONSTANTS
  o1 = o1
  o2 = o2
  Orders = {o1, o2}
  Sweepers = {"beat"}
  Operators = {}
  Venues = {1}
  Balance <- OneBalance
  LeastStake <- OneMinimum
  Odds <- OnePrice
  Priority <- SamePriority
  Desired <- TwoOrders
  Failures = 2
  Mortal = {o1}
INVARIANT ReservedIsTheOpenHolds
INVARIANT ReleasedIsNeverSent
INVARIANT OpenBetIsHeld
PROPERTY StatusesMoveForward
CHECK_DEADLOCK FALSE
