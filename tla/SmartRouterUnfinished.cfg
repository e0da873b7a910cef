SPECIFICATION Spec
CONSTANTS
  o1 = o1
  o2 = o2
  Orders = {o1}
  Sweepers = {"beat"}
  Operators = {}
  Venues = {1}
  Balance <- OneBalance
  LeastStake <- OneMinimum
  Odds <- OnePrice
  Priority <- SamePriority
  Desired <- OneOrderAlone
  Failures = 2
  Mortal = {}
INVARIANT AnsweredOrderIsFinished
CHECK_DEADLOCK FALSE
