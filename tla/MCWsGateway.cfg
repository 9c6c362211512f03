SPECIFICATION FairSpec
CONSTANTS
  c1 = c1
  c2 = c2
  btc = btc
  eth = eth
  Consumers <- MCConsumers
  Topics <- MCTopics
CHECK_DEADLOCK FALSE
INVARIANTS
  TypeOK
  SubscriptionsAgree
  DepartedAreForgotten
  ReadersAreRegistered
PROPERTIES
  ForceClosedWereTold
  DrainTerminates
