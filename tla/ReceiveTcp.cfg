\* A server on TCP with link recovery: two requests, cut anywhere.
SPECIFICATION FairSpec
CONSTANTS
  Backend <- Tcp
  Type = "indication"
  Requests <- MCIndications
  GarbledShapes <- MCGarbled
  MaxFrames = 2
  LinkRecovery = TRUE
  ProtocolRecovery = FALSE
  ByteTimeout = TRUE
  Settles = TRUE
  Noise = FALSE
INVARIANTS
  TypeOK
  Genuine
  StartsAtFrame
PROPERTY Returns
\* When all frames are written and read the server waits for ever.
CHECK_DEADLOCK FALSE
