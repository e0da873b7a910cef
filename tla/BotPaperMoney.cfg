SPECIFICATION CapSpec
CONSTANTS
  Deposit = 2
  Targets = {0, 1, 2}
  BetBound = 2
INVARIANT RealMoneyAddsUp
CHECK_DEADLOCK FALSE
