SPECIFICATION Spec
CONSTANTS
  MaxRecords = 2
  MaxPopups = 2
  MaxOverrun = 2
  SaveMinutes <- MCSaveMinutes
  DefaultMinutes = 2
  Minute = 1
PROPERTY TextExportComplete
