CONSTANTS
  domestic = domestic
  overseas = overseas
  d1 = d1
  d2 = d2
  o1 = o1
  none = none
  cron = cron
  http = http
  Orders <- ThreeOrders
  Domestic = domestic
  Overseas = overseas
  TopicOf <- Reported
  Sales <- OneSale
  None = none
  Day = 2
  Uptimes <- ShortOrLong
  MaxPings = 1
  MaxFaults = 1
  Callers <- TwoCallers
  NoToken = none
  NoHistory = none
  Life = 2
  Skew = 0
  Page = 2
  Listings <- SomeListings
  MaxRefusals = 1
CHECK_DEADLOCK FALSE
SPECIFICATION FairApi
INVARIANTS TypesOK OnlyOverlapsSpoil OutcomesAreExplained
PROPERTIES StreamComesBack TopicsAreFeeds QuotesComeBack
