CONSTANTS
  won = won
  stock = stock
  share = share
  cron = cron
  http = http
  Reports <- TwoReports
  Cron <- CronOnly
  Holdings <- SomeHoldings
  Won = won
  Stable <- OnlyWon
  InDollars <- OnlyShare
  FirstSums <- SomeSums
  Levels <- TwoLevels
  DollarRates <- TwoRates
  Gain = 5
  Infinite <- LeastInteger
  MaxChanges = 2
  MaxFailures = 1
  Roles <- AllRoles
  PaidInUsd <- Dollars
  MaxAssets = 3
  MaxFaults = 2
CHECK_DEADLOCK FALSE
SPECIFICATION SpecDesk
INVARIANTS TypesOK AnswersAreOfOneMoment SpendingFillsPortion ToldOnceAPeriod OnlyStaleIdsMislead
