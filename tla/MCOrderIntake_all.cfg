CONSTANTS
  coin = coin
  stock = stock
  c1 = c1
  c2 = c2
  s1 = s1
  one = one
  two = two
  notOurs = notOurs
  none = none
  Orders <- ThreeOrders
  Coin = coin
  Stock = stock
  StreamOf <- ThreeSources
  Registered <- TwoOrders
  FundIds <- TwoFunds
  NotOurs = notOurs
  None = none
  MaxPresses = 2
  MaxFaults = 1
SPECIFICATION FairSpec
CHECK_DEADLOCK FALSE
INVARIANTS TypeOK OnePlace OnlyStrayPressesMisfile
PROPERTIES OrdersSettle StreamsAreFeeds
