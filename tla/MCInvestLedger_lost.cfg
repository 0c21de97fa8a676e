CONSTANTS
  order = order
  http = http
  cron = cron
  f1 = f1
  won = won
  dollar = dollar
  share = share
  Writers <- TwoWriters
  Passes <- OnePass
  Funds <- OneFund
  Assets <- Cash
  Krw = won
  Usd = dollar
  DollarAssets <- DollarOnly
  Counts <- OneSize
  Prices <- PriceSet
  Rates <- OneRate
  Quote <- CashMarket
  MaxRecords = 3
  MaxFaults = 0
SPECIFICATION Spec
INVARIANT SummaryIsHoldings
SYMMETRY Symmetry
