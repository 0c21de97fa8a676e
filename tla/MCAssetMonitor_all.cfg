CONSTANTS
  a1 = a1
  a2 = a2
  cron = cron
  manual = manual
  none = none
  None = none
  Assets <- OneAsset
  Priced <- OneAsset
  Passes <- TwoPasses
  Watched <- AllByTwo
  Levels <- TwoLevels
  InitRows <- OneRow
  Edits <- OneRequest
  MaxEdits = 1
  MaxMoves = 1
  MaxLapses = 1
  MaxFaults = 1
CHECK_DEADLOCK FALSE
SPECIFICATION FairSpec
INVARIANTS TypeOK OnlyOverlapsRevert OnlyClashesRepeat
PROPERTY BuyersAreTold
