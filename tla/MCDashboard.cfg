SPECIFICATION FairSpec
CONSTANTS
  t1 = t1
  t2 = t2
  btc = btc
  eth = eth
  Tabs = {t1, t2}
  Topics = {btc, eth}
  None = None
  MaxOps = 3
CHECK_DEADLOCK FALSE
INVARIANTS
  TypeOK
  TabsAreSubscribed
  RequestsAreTransitions
PROPERTIES
  TabsAreFed
