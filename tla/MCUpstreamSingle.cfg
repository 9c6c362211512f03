SPECIFICATION Spec
CONSTANTS
  btc = btc
  eth = eth
  w1 = w1
  w2 = w2
  w3 = w3
  NoSocket = NoSocket
  SocketIdleMs = 1
  Symbols <- MCSymbols
  Sockets <- MCSockets
CHECK_DEADLOCK FALSE
INVARIANTS
  SingleConnection
