SPECIFICATION FairSpec
CONSTANTS
  w1 = w1
  Workers = {w1}
  NoWorker = NoWorker
  Origins = {"team_calendar_leave"}
  Offered = {"approve"}
  MaxGeneration = 1
  Recovery = TRUE
  EvidenceWaits = TRUE
  InboundSync = FALSE
  PayrollEdits = TRUE
PROPERTIES
  RecoveryCompletes
CHECK_DEADLOCK FALSE
