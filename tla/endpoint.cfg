CONSTANTS
  Conn = {c1, c2, c3}
  MaxBacklog = 2
SPECIFICATION EndpointFair
INVARIANTS EndpointTypeOK OneAccept
  
CHECK_DEADLOCK FALSE
