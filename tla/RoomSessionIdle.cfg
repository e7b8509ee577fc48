CONSTANTS
  Rooms = {r1}
  NoRoom = NoRoom
  Conns = {c1}
  NoConn = NoConn
  Identities = {alice}
SPECIFICATION Spec
PROPERTIES
  OnlyEmptyCloses
CHECK_DEADLOCK FALSE
