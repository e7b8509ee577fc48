CONSTANTS
  MaxEvents = 2
SPECIFICATION Spec
INVARIANTS
  NegotiationWatched
CHECK_DEADLOCK FALSE
