SPECIFICATION Spec
CONSTANTS
  btc = btc
  eth = eth
  Topics = {btc, eth}
  Prices = {1}
  Sizes = {0, 1}
  MaxEvents = 2
  MaxSeq = 3
  MaxInFlight = 2
  MaxReconnects = 0
CHECK_DEADLOCK FALSE
INVARIANT SkippingLosesNothing
