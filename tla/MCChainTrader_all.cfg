CONSTANTS
  cron = cron
  http = http
  none = none
  NoPermit = none
  Jobs <- TwoJobs
  Cron <- CronJob
  Runs <- TwoJobs
  Legs = 2
  Polls = 2
  Cover = 2
  MaxLaunches = 2
  MaxFaults = 2
  Prices <- TwoPrices
  Amounts <- Holdings
  Unit = 2
  MaxStarts = 3
  MaxTrades = 1
  MaxFailures = 1
  One = 16384
  Fine = 32
  Multipliers <- ThreeBits
  MaxTick = 7
  Spacing = 2
  Widths <- SomeWidths
  Slippages <- Percent
  Fixed <- SomeWindows
  Between <- EndOrMiddle
  Wallets <- OneWallet
  MaxMoves = 1
  MaxStakes = 2
SPECIFICATION SpecAll
INVARIANTS TypesOK ClashesAreExplained DriftIsReported AdviceIsExplained OnlyItsTickMisjudges
PROPERTY RunsEnd
