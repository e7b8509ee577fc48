CONSTANTS
  Rooms = {r1, r2}
  NoRoom = NoRoom
  Conns = {c1, c2}
  NoConn = NoConn
  Identities = {alice}
SPECIFICATION FairSpec
PROPERTIES
  EmptyRoomCloses
CHECK_DEADLOCK FALSE
