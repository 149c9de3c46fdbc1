\* One value per sensor and no damaged reply, so that the filter never refuses; two
\* settings of the voltage limits; two conversations, and no timer runs while a
\* popup is open.
SPECIFICATION FairSpec
CONSTANTS
  MaxConn = 2
  MaxInFlight = 1
  MaxPopups = 1
  MaxCount = 4
  Readings <- MCStableReadings
  Noise = {}
  LimitSettings <- MCTwoLimits
INVARIANT PollerAlive
PROPERTIES
  EverySensorShown
  PollsEverySensor
  DeadLinkNoticed
  AlarmFollowsLimits
