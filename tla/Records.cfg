\* Two stacked popups: timers run while one is open.
SPECIFICATION FairSpec
CONSTANTS
  MaxRecords = 3
  MaxPopups = 2
  MaxOverrun = 2
  SaveMinutes <- MCSaveMinutes
  DefaultMinutes = 2
  Minute = 1
INVARIANTS
  TypeOK
  SavedOnce
  CountdownArmed
PROPERTY TablesEmptied
