SPECIFICATION Spec
CONSTANTS
  alice = alice
  bob = bob
  dai = dai
  usdc = usdc
  Accounts <- Both
  Tokens <- OneToken
  Baskets <- Swap
  FIX_ONE = 2
  BLOCKS_PER_HOUR = 2
  MIN_BLOCK_ISSUANCE_LIMIT = 1
  MIN_BU_RATE = 1
  MAX_BU_RATE = 4
  Wallet <- Purse3
  Amounts = {1, 2}
  IssuanceRates = {1}
  Floors = {0}
  Rates = {0}
  backingBuffer = 0
  Shares = 1
  MaxAuction = 1
  MaxBlock = 3
  MaxItems = 3
INVARIANTS DepositsHeld OneSchedule QueuesOrdered PendingIsBacked EndIdForVestIsMaximal
SYMMETRY Symmetry
