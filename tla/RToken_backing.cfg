SPECIFICATION FairSpec
CONSTANTS
  alice = alice
  bob = bob
  dai = dai
  usdc = usdc
  Accounts <- One
  Tokens <- TwoTokens
  Baskets <- Diversify
  FIX_ONE = 2
  BLOCKS_PER_HOUR = 2
  MIN_BLOCK_ISSUANCE_LIMIT = 1
  MIN_BU_RATE = 1
  MAX_BU_RATE = 4
  Wallet <- Purse31
  Amounts = {1}
  IssuanceRates = {1, 3}
  Floors = {0, 1}
  Rates = {1, 3}
  backingBuffer = 1
  Shares = 1
  MaxAuction = 1
  MaxBlock = 3
  MaxItems = 2

PROPERTIES BackingKept NoDilutionByRedemption NoDilutionByRevenue RedemptionsThrottled EveryIssuanceSettles
