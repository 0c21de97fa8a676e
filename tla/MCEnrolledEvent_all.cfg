CONSTANTS
  airdrop = airdrop
  r1 = r1
  r2 = r2
  cron = cron
  manual = manual
  u1 = u1
  none = none
  noRow = noRow
  Events <- OneEvent
  Requests <- TwoRequests
  NoRow = noRow
  MaxRuns = 2
  MaxFaults = 1
  Runs <- TwoRuns
  Urls <- OneUrl
  Nothing = none
  MaxPosts = 1
  MaxLapses = 1
  MaxMisses = 1
  MaxMishaps = 1
SPECIFICATION SpecAll
INVARIANTS TypesOK StatusIsKept NotRunWhenOff OnlyFaultsRepeat
PROPERTY NoticesAreTold
