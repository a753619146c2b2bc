SPECIFICATION Spec
CONSTANTS
  Manual = {m1}
  m1 = m1
  Importer = Importer
  RunIds = {1, 2, 3}
  NoRun = 0
  Pages = 2
  Attempts = 2
  MaxConnects = 2
  MaxManual = 1
  MaxFaults = 1
  ManualTypes = {"leave_balances"}
  CrashIn = {"people", "leave_records", "leave_balances"}
INVARIANTS
  TypeOK
  OneRunPerType
PROPERTIES
  CompletionCoversRoster
  LeaseSpec
CHECK_DEADLOCK FALSE
