\* Two conversations with one frame in flight on each, timers that run while a
\* popup is open.
SPECIFICATION Spec
CONSTANTS
  MaxConn = 2
  MaxInFlight = 1
  MaxPopups = 2
  MaxCount = 4
  Readings <- MCReadings
  Noise <- MCNoise
  LimitSettings <- MCOneLimit
INVARIANTS
  TypeOK
  Authentic
  LampNeverOverclaims
PROPERTY JumpFiltered
