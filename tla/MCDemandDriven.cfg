SPECIFICATION Spec
CONSTANTS
  c1 = c1
  c2 = c2
  c3 = c3
  btc = btc
  eth = eth
  other = other
  Consumers <- MCConsumers
  Topics <- MCTopics
  Configured <- MCConfigured
INVARIANTS
  TypeOK
  IndicesAgree
  ChannelsFollowDemand
PROPERTIES
  EdgeTriggered
  ImplementsUpstreamDemand
