\* Two friends write two messages to each other from any tabs.
SPECIFICATION ResumedFair
CONSTANTS
  User = {u1, u2}
  NoUser = NoUser
  Conn = {c1, c2}
  NoConn = NoConn
  SchemaKeys = TRUE
  MaxChats = 1
  MaxMessages = 2
  MaxSession = 2
  Faults = {}
  AccountSwitch = FALSE
  Asked = {"login", "logout", "newMessage"}
  MaxOut = 1
  Patient = TRUE
  MaxWire = 1
INVARIANTS PageShowsChats
PROPERTIES MessageShown
