\* A push to a connection that is closing.
SPECIFICATION Spec
CONSTANTS
  User = {u1, u2}
  NoUser = NoUser
  Conn = {c1, c2}
  NoConn = NoConn
  SchemaKeys = TRUE
  MaxChats = 0
  MaxMessages = 0
  MaxSession = 2
  Faults = {}
  AccountSwitch = FALSE
PROPERTIES PushFailureContained
