SPECIFICATION FairSpec
CONSTANTS
  Manual = {m1}
  m1 = m1
  Importer = Importer
  RunIds = {1, 2, 3}
  NoRun = 0
  Pages = 2
  Attempts = 2
  MaxConnects = 1
  MaxManual = 1
  MaxFaults = 1
  ManualTypes = {"people", "leave_balances"}
  CrashIn = {"leave_records", "leave_balances"}
PROPERTIES
  ImportCompletes
CHECK_DEADLOCK FALSE
