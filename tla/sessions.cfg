\* Every fault and every legal misuse: what holds whatever happens.
SPECIFICATION Spec
CONSTANTS
  User = {u1, u2}
  NoUser = NoUser
  Conn = {c1, c2}
  NoConn = NoConn
  SchemaKeys = TRUE
  MaxChats = 1
  MaxMessages = 0
  MaxSession = 3
  Faults = {"kill", "db", "template"}
  AccountSwitch = TRUE
SYMMETRY Symmetry
INVARIANTS TypeOK SessionsDistinct SessionAuthentic FriendsPairUnique
