CONSTANTS
  Secure = FALSE
  CloseCodes = {"going_away"}
  MaxFrames = 2
  MaxTaken = 3
SPECIFICATION WsSpec
INVARIANTS WsTypeOK InOrder OneRead SilentAfterClose QueueMoves StillReading
 
CHECK_DEADLOCK FALSE
