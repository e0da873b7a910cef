SPECIFICATION FairSpec
CONSTANTS
  r1 = r1
  r2 = r2
  r3 = r3
  k1 = k1
  k2 = k2
  m1 = m1
  Nobody = Nobody
  Requests = {r1}
  Keys = {k1}
  KeyOf <- OneOrder
  Stake <- OneStake
  Markets = {m1}
  MarketOf <- OnItsMarket
  Selections = {"HOME"}
  Pick <- OnHome
  Prices = {1}
  AskedPrice = 1
  Fills = {2}
  Resolvers = {"resolver", "resolve_now"}
  Sweepers = {}
  Opening = 20
  MarketPct = 10
  StakePct = 10
  MaxFailures = 2
  ErrorsAreFinal = TRUE
PROPERTY DoubtEnds
CHECK_DEADLOCK FALSE
