CONSTANTS
  a1 = a1
  a2 = a2
  cron = cron
  manual = manual
  none = none
  None = none
  Assets <- TwoAssets
  Priced <- OneAsset
  Passes <- OnePass
  Watched <- BothBy
  Levels <- TwoLevels
  InitRows <- OneRow
  Edits <- OneRequest
  MaxEdits = 0
  MaxMoves = 0
  MaxLapses = 0
  MaxFaults = 0
CHECK_DEADLOCK FALSE
SPECIFICATION FairSpec
PROPERTY BuyersAreTold
