CONSTANTS
  order = order
  http = http
  cron = cron
  f1 = f1
  won = won
  dollar = dollar
  share = share
  Writers <- TwoWriters
  Passes <- OnePass
  Funds <- OneFund
  Assets <- Three
  Krw = won
  Usd = dollar
  DollarAssets <- InDollars
  Counts <- OneSize
  Prices <- PriceSet
  Rates <- RateSet
  Quote <- Market
  MaxRecords = 2
  MaxFaults = 1
SPECIFICATION FairSpec
INVARIANTS TypeOK OnlyRacesLoseChanges DoubleEntry OnlyRacesUnbalance
PROPERTY SumsConverge
