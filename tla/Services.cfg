SPECIFICATION ServicesSpec
CONSTANTS
  KsRequests = 3
  KsAtOnce = 2
  KsChats = {"c1"}
  KsOrders = {"o"}
  KsLosses = 1
  KsLimits = {0, 1}
  w1 = w1
  w2 = w2
  c1 = c1
  c2 = c2
  Workers = {w1, w2}
  Callers = {c1, c2}
  MaxTokens = 2
  SessionOutages = 1
  ExRequests = {"r1", "r2"}
  ExUsers = {"u1", "u2"}
  ExKeys = {"k1", "k2"}
  ExOrders <- TwoRequests
  MaxExposure = 2
  MaxStake = 2
  Deposit = 2
  Targets = {0, 1, 2}
  BetBound = 2
  Signals = 2
  Slices = 1
  Redeliveries = 1
  Legs = 3
  Unit = 10
  Prices = {29, 31, 36, 40}
  Matched = {24, 26, 28, 30, 34, 41}
  Totals = {20, 31}
  f1 = f1
  f2 = f2
  s1 = s1
  s2 = s2
  m1 = m1
  m2 = m2
  Entries = 2
  Cells = {"x", "y"}
  Frames <- TwoFrames
  Consumers = {f1, f2}
  BadSteps = 1
  Rows = {1, 2}
  Sweepers = {s1, s2}
  LastTime = 4
  CommitLag = 1
  SweepSpan = 1
  Overlap = 2
  Page = 1
  MaxPages = 2
  Last = 2
  Members = {m1, m2}
  MaxPoll = 2
  Troubles = 2
  p1 = p1
  p2 = p2
  BusReaders = {p1, p2}
  BusEvents = 2
  Garbled = {2}
  MaxDeliveries = 3
  OpportunityOf <- OneOpportunity
  QueueMax <- OneAndTwo
  BatchMax <- OneAndTwo
  MaxSessions = 1
  MaxFailures = 1
  FeedDeaths = 1
INVARIANT StopBarsOrders
PROPERTY OnlyALiftEndsAStop
INVARIANT OneUsableToken
INVARIANT RetryCarriesAnotherToken
INVARIANT ExposureWithinMandate
INVARIANT LiveBetIsCounted
INVARIANT OneSendPerKey
PROPERTY RulingStands
PROPERTY MovingKeepsRealMoney
INVARIANT FundsMatchMode
INVARIANT ArchivedBotIsEmpty
PROPERTY CapitalIsNotPerformance
INVARIANT NoWashTrade
INVARIANT SecondBetNeedsALostRow
INVARIANT SlippedFillsCover
PROPERTY StakesStayChecked
INVARIANT AckedTicksAreStored
INVARIANT NoFactSkipped
INVARIANT CommittedIsHandled
INVARIANT ShutdownLosesNoQuote
CHECK_DEADLOCK FALSE
