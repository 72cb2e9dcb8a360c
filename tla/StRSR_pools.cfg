SPECIFICATION Spec
CONSTANTS
  alice = alice
  bob = bob
  strsr = strsr
  manager = manager
  Accounts <- Two
  THIS = strsr
  BackingManager = manager
  FIX_ONE = 2
  MAX_STAKE_RATE = 4
  MAX_DRAFT_RATE = 4
  MAX_UNSTAKING_DELAY = 3
  MAX_REWARD_PERIOD = 1
  InitialHoldings <- TwoStakers
  Delays = {2}
  Periods = {1}
  Ratios = {1}
  MaxTime = 2
  MaxEra = 2
  MaxDrafts = 1
SYMMETRY Symmetry
INVARIANTS PoolsCovered Solvent TotalsMatchParts DraftsNeverAppreciate SeizureSufficient
PROPERTIES RateRisesOnlyBySeizure
