\* One conversation; the timer ticks while a popup is open.
SPECIFICATION FairSpec
CONSTANTS
  MaxConn = 1
  MaxInFlight = 1
  MaxPopups = 2
  MaxCount = 4
  Readings <- MCStableReadings
  Noise <- MCNoise
  LimitSettings <- MCOneLimit
PROPERTY PollsEverySensor
