SPECIFICATION Spec
CONSTANTS
  r1 = r1
  r2 = r2
  r3 = r3
  k1 = k1
  k2 = k2
  m1 = m1
  Nobody = Nobody
  Requests = {r1, r2}
  Keys = {k1, k2}
  KeyOf <- TwoOrders
  Stake <- TwoStakes
  Markets = {m1}
  MarketOf <- OneMarket
  Selections = {"HOME", "AWAY"}
  Pick <- Opposite
  Prices = {1, 2}
  AskedPrice = 1
  Fills = {1}
  Resolvers = {}
  Sweepers = {"beat"}
  Opening = 20
  MarketPct = 10
  StakePct = 10
  MaxFailures = 2
  ErrorsAreFinal = TRUE
INVARIANT TypeOK
INVARIANT LedgerExplainsBalances
INVARIANT NeverGradesAnUnstruckBet
INVARIANT MarketCapHolds
PROPERTY PeakIsHighWaterMark
CHECK_DEADLOCK FALSE
