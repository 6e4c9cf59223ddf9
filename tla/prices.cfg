SPECIFICATION FairSpec
CONSTANTS
  h1 = h1
  model = model
  vendor = vendor
  reseller = reseller
  Models = {model}
  Parts = {1, 2}
  Providers = {vendor, reseller}
  OwnEndpoint = {vendor}
  Rates <- AllRates
  NoRate = NoRate
  Tables <- Shipped
  Handlers = {h1}
  Operations <- Asked
  Schedule = Schedule
INVARIANT HeldIsAQuestion ServedAsStored
PROPERTY LargeMovesWait ListIsTakenUp
