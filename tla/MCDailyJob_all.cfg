CONSTANTS
  a1 = a1
  old = old
  c1 = c1
  c2 = c2
  none = none
  Assets <- OneAsset
  Prices <- TwoPrices
  Cent = 4
  FirstEmas <- SomeEmas
  Companies <- ThreeCompanies
  Veteran = old
  None = none
  FirstDay = 5
  MaxDay = 8
  MaxFaults = 1
CHECK_DEADLOCK FALSE
SPECIFICATION Spec
INVARIANTS TypeOK DayIsDone NewcomersAreToldOnce
PROPERTY EmaFollowsPrice
