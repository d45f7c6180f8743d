\* Two tabs, two users, from registration to friendship, whatever they click.
SPECIFICATION SystemSpec
CONSTANTS
  User = {u1, u2}
  NoUser = NoUser
  Conn = {c1, c2}
  NoConn = NoConn
  SchemaKeys = TRUE
  MaxChats = 1
  MaxMessages = 0
  MaxSession = 2
  Faults = {}
  AccountSwitch = FALSE
  Asked = {"registration", "login", "logout", "searchUser", "addFriend", "acceptFriend"}
  MaxOut = 1
  Patient = TRUE
  MaxWire = 1
SYMMETRY Symmetry
INVARIANTS AcceptedHaveChat ClientTypeOK   PageShowsOnline
