SPECIFICATION FairSpec
CONSTANTS
  btc = btc
  eth = eth
  NoTopic = NoTopic
  Topics <- MCTopics
  MaxSeq = 5
  MaxInFlight = 2
  MaxLosses = 1
  MaxReconnects = 1
CHECK_DEADLOCK FALSE
INVARIANTS
  TypeOK
  FreshBooksAreIntact
  NoTopicAbandoned
PROPERTIES
  StaleTopicsRecover
