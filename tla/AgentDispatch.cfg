CONSTANTS
  Dispatches = {d1}
  Workers = {w1, w2}
  NoWorker = NoWorker
  FlushOnStop = TRUE MaxOps = 4
  Producers = {p1, p2} Consumers = {c1, c2} MaxItems = 3
SPECIFICATION MCSpec
INVARIANTS
  DispatchInv
  AtMostOneAssignment
  NoOrphanAgent
  RunningIsTerminable
  DeleteRemovesAgent
  QueueKeeps DispatcherKeeps
PROPERTIES
  DeleteEnds
CHECK_DEADLOCK FALSE
