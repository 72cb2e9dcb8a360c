SPECIFICATION FairSpec
CONSTANTS
  deployer = deployer
  other = other
  Accounts <- MCAccounts
  Deployer = deployer
  LONG_FREEZE_CHARGES = 2
  MAX_SHORT_FREEZE = 1
  MAX_LONG_FREEZE = 2
  MAX_UNFREEZE_AT = 9
  ShortFreezes = {1}
  LongFreezes = {1, 2}
PROPERTIES NoPowerWithoutOwner ThawsOnItsOwn
