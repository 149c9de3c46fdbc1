\* One server, two calls of any kind, one damaged byte in each.
SPECIFICATION Spec
CONSTANTS
  Backend <- Rtu
  Slave = 17
  NbBits = 17
  NbRegisters = 3
  Calls <- MCCalls
  Masks <- MCMasks
  MaxCalls = 2
INVARIANTS
  TypeOK
  Returned
  DamageDetected
  ChecksumsAgree
  FloatsKept
PROPERTY ServedAsCalled
\* After the last call nothing happens any more.
CHECK_DEADLOCK FALSE
