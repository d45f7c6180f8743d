\* One account per connection, three connections: two tabs and a friend.
SPECIFICATION Spec
CONSTANTS
  User = {u1, u2}
  NoUser = NoUser
  Conn = {c1, c2, c3}
  NoConn = NoConn
  SchemaKeys = TRUE
  MaxChats = 1
  MaxMessages = 1
  MaxSession = 3
  Faults = {}
  AccountSwitch = FALSE
SYMMETRY Symmetry
INVARIANTS PresenceSound ConnectedSeesAll
PROPERTIES OnlyMembersSee TransmittedIsHanded
