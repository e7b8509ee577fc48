CONSTANTS
  Directions = {"req", "res"}
  MaxMsgs = 3
  ChanSize = 1
  StreamBuffer = 2
  MaxTries = 1
SPECIFICATION MCSpec
INVARIANTS
  RelayInv
  DeliveredInOrder
  CloseMeansComplete
  DrainedReachesPeer
PROPERTIES
  CloseUnblocks
  ImplementsChannel
CHECK_DEADLOCK FALSE
