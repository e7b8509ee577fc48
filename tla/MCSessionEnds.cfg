CONSTANTS
  Rooms = {r1, r2}
  NoRoom = NoRoom
  Tracks = {t1, t2}
  MaxClicks = 3
  node = node noNodeRoom = noNodeRoom c1 = c1 c2 = c2 noConn = noConn alice = alice
SPECIFICATION MCSpec
INVARIANTS
  ClientInv
  VoiceConsistent
PROPERTIES
  KeepsTrying
  ClosedLeaves
