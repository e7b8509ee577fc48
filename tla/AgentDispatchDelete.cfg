CONSTANTS
  Dispatches = {d1}
  Workers = {w1, w2}
  NoWorker = NoWorker
SPECIFICATION Spec
INVARIANTS
  NoLaunchAfterDelete
CHECK_DEADLOCK FALSE
