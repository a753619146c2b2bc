SPECIFICATION FairSpec
CONSTANTS
  Manual = {}
  Importer = Importer
  RunIds = {1, 2, 3}
  NoRun = 0
  Pages = 2
  Attempts = 2
  MaxConnects = 1
  MaxManual = 0
  MaxFaults = 1
  ManualTypes = {}
  CrashIn = {"people"}
PROPERTIES
  ImportCompletes
CHECK_DEADLOCK FALSE
