CONSTANTS
  cron = cron
  manual = manual
  coin = coin
  gold = gold
  none = none
  NoAsset = none
  Passes <- TwoPasses
  Manual <- OneManual
  Coins <- OneCoin
  Golds <- OneGold
  Home <- InWon
  Abroad <- InDollars
  Rates <- TwoRates
  MaxDrifts = 1
  MaxLapses = 1
  MaxFaults = 1
CHECK_DEADLOCK FALSE
SPECIFICATION Spec
INVARIANT SalesAreFounded
