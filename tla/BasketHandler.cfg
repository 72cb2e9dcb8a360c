SPECIFICATION FairSpec
CONSTANTS
  dai = dai
  usdc = usdc
  cDai = cDai
  usdt = usdt
  ethDai = ethDai
  usdtCoin = usdtCoin
  usdcCoin = usdcCoin
  usd = usd
  eth = eth
  NoAsset = NoAsset
  ERC20s <- Three
  Targets <- USDorETH
  Assets <- Plugins
  erc20Of <- TokenOf
  classOf <- ClassOf
  targetOf <- TargetOf
  Registry <- AtFirst
  PrimeBaskets <- PrimeBasketArgs
  BackupMaxes = {2}
  BackupLists <- BackupArgs
  FIX_ONE = 2
  BASIS_POINTS = 2
  delayUntilDefault = 1
  defaultThreshold = 1
  fallbackPrice = 3
  allowedDrop = 1
  Market <- Readings
  FIX_MAX = 1000
  MaxNonce = 2
PROPERTIES SwitchMeetsConfig QuantityStable BasketRecovers
