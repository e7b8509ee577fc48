CONSTANTS
  MaxEvents = 3
  Feeds = {low, high} NoFeed = NoFeed low = low high = high
  Incoming <- const_Incoming PaddingOnly <- const_PaddingOnly
  FrameEnds <- const_FrameEnds KeyFrames <- const_KeyFrames
  Dummy = 13 MaxBurst = 2 Ranges = 2 Slots = 3 Cycle = 6
  Numbers <- const_Numbers MaxLag = 2
SPECIFICATION MCSpec
INVARIANTS
  NegotiationInv
  SettledAgrees
  NumbersMatch
PROPERTIES
  ChangesReachPeer
  GivenOnce
CHECK_DEADLOCK FALSE
