SPECIFICATION FairSpec
CONSTANTS
  c1 = c1
  c2 = c2
  btc = btc
  Consumers <- MCConsumers
  Topics <- MCTopics
  MaxRequests = 2
  SessionIdleMs = 1
CHECK_DEADLOCK FALSE
INVARIANTS
  TypeOK
  SessionsAgree
  DrainLeavesNothingOpen
PROPERTIES
  SessionsEnd
