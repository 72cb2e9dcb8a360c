SPECIFICATION FairSpec
CONSTANTS
  usdc = usdc
  rsr = rsr
  rtok = rtok
  dai = dai
  treasury = treasury
  furnace = furnace
  stRSR = stRSR
  manager = manager
  t1 = t1
  t2 = t2
  Tokens = {usdc, rsr, rtok, dai}
  RSR = rsr
  RToken = rtok
  Basket = dai
  BackingManager = manager
  RSRTrader = t1
  RTokenTrader = t2
  Destinations = {furnace, stRSR, treasury}
  FURNACE = furnace
  ST_RSR = stRSR
  GNOSIS_MAX_TOKENS = 3
  FEE_DENOMINATOR = 2
  feeNumerator = 1
  FIX_ONE = 2
  quantum <- Quantum
  InitialHoldings <- Holdings
  InitialNeeded = 2
  InitialTable <- Table
  Shares <- MCShares
  Sizes = {3}
  MinBuys = {0, 4}
  Proceeds = {0, 1, 2}
  AuctionLengths = {1}
  Erc20Lists <- Lists
  MaxTrades = 2
  MaxStray = 1
INVARIANTS TradesCounted
PROPERTIES WholeBackingJudged PoorTradesStopTrading DistributionFair EveryTradeSettles
CHECK_DEADLOCK FALSE
