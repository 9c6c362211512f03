SPECIFICATION Spec
CONSTANTS
  Empty = Empty
  Capacity = 3
  Watermark = 1
  MaxBuffered = 4
  MaxMessages = 9
CHECK_DEADLOCK FALSE
PROPERTIES
  LaggedIsBackedUp
