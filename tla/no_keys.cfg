\* A schema that declares no keys: rows may name the user -1, a chat list may
\* name a member twice, and a message a chat that does not exist yet.
SPECIFICATION Spec
CONSTANTS
  User = {u1, u2}
  NoUser = NoUser
  Conn = {c1, c2}
  NoConn = NoConn
  SchemaKeys = FALSE
  MaxChats = 1
  MaxMessages = 1
  MaxSession = 2
  Faults = {"kill"}
  AccountSwitch = FALSE
SYMMETRY Symmetry
INVARIANTS  FriendsPairUnique
PROPERTIES OnlyMembersSee TransmittedIsHanded
