CONSTANTS
  Secure = TRUE
  CloseCodes = {"going_away"}
  MaxFrames = 1
  MaxTaken = 1
SPECIFICATION WsFair
PROPERTIES KeepsPromise HandshakeEnds
CHECK_DEADLOCK FALSE
