\* A TCP connection with both recovery modes: late answers, crashes, orphans, and
\* more calls than transaction identifiers.
SPECIFICATION FairSpec
CONSTANTS
  Backend <- MCTcp
  Ops <- MCOps
  MaxTid = 2
  MaxCalls = 5
  MaxFaults = 3
  LinkRecovery = TRUE
  ProtocolRecovery = TRUE
INVARIANT TypeOK
PROPERTIES
  KeepsContract
  CallReturns
  Resynchronises
\* After the last call the client is done.
CHECK_DEADLOCK FALSE
