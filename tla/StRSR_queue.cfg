SPECIFICATION FairSpec
CONSTANTS
  alice = alice
  bob = bob
  strsr = strsr
  manager = manager
  Accounts <- One
  THIS = strsr
  BackingManager = manager
  FIX_ONE = 2
  MAX_STAKE_RATE = 4
  MAX_DRAFT_RATE = 4
  MAX_UNSTAKING_DELAY = 4
  MAX_REWARD_PERIOD = 2
  InitialHoldings <- OneStaker
  Delays = {2, 4}
  Periods = {1, 2}
  Ratios = {1}
  MaxTime = 3
  MaxEra = 2
  MaxDrafts = 3
INVARIANTS QueuesOrdered EndIdIsMaximal
PROPERTIES OutflowWithinDrafts DraftsPaid
