SPECIFICATION Spec
CONSTANTS
  btc = btc
  eth = eth
  NoTopic = NoTopic
  Topics <- MCTopics
  MaxSeq = 5
  MaxInFlight = 2
  MaxLosses = 1
  MaxReconnects = 0
CHECK_DEADLOCK FALSE
PROPERTIES
  ReceivedSnapshotMakesFresh
