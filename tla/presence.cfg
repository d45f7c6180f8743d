\* Presence with every fault, one account per connection, fair handlers and no
\* symmetry: what must hold and what must eventually happen.
SPECIFICATION FairSpec
CONSTANTS
  User = {u1, u2}
  NoUser = NoUser
  Conn = {c1, c2}
  NoConn = NoConn
  SchemaKeys = TRUE
  MaxChats = 0
  MaxMessages = 0
  MaxSession = 3
  Faults = {"kill", "db", "template"}
  AccountSwitch = FALSE
INVARIANTS PresenceSound
PROPERTIES PresenceKept DepartedGoOffline
