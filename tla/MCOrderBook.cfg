SPECIFICATION Spec
CONSTANTS
  btc = btc
  eth = eth
  Topics = {btc}
  Prices = {1, 2}
  Sizes = {0, 1}
  MaxEvents = 1
  MaxSeq = 3
  MaxInFlight = 2
  MaxReconnects = 1
CHECK_DEADLOCK FALSE
INVARIANTS
  TypeOK
  FreshBookIsVenueBook
  ViewsAreBestFirst
  SurfacesAgree
