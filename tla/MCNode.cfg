CONSTANTS
  r1 = r1 r2 = r2 NoRoom = NoRoom
  c1 = c1 c2 = c2 NoConn = NoConn
  Rooms = {r1, r2}
  Conns = {c1, c2}
  Identities = {alice}
  Calls = {r1, r2, signal} NoCall = NoCall
  Kinds <- const_Kinds
  Nodes = {c1, c2} NoNode = NoNode
  MaxFaults = 1
  Cids = {c1, c2}
  Threads = {r1, r2, signal} Signal = signal NoThread = NoThread
  MaxRequests = 3 MaxRemotes = 2 MaxEvents = 2
  signal = signal
  MaxSpatial = 1 MaxTemporal = 1 Overshoot = FALSE SpatialCost = 10
  Tracks = {c1, c2} Managed = {c1, c2}
  Upstreams <- const_Upstreams MaxLayers <- const_MaxLayers Capacities = {1, 4} MaxChanges = 2
SPECIFICATION MCSpec
SYMMETRY Symmetry
INVARIANTS
  SessionInv NoStray ClosedRoomIsEmpty
  PlacedOnce
  RequestsProceed MonitorsMatch RevokedIsGone
  StateFits
PROPERTIES KeepsWithin
CHECK_DEADLOCK FALSE
