SPECIFICATION FairSpec
CONSTANTS
  w1 = w1
  Workers = {w1}
  NoWorker = NoWorker
  Origins = {"team_calendar_leave", "xero_leave"}
  Offered = {"approve", "decline", "withdraw"}
  MaxGeneration = 1
  Recovery = TRUE
  EvidenceWaits = TRUE
  InboundSync = TRUE
  PayrollEdits = FALSE
INVARIANTS
  NoLostLeave
  DecisionMatchesPayroll
  CompletedIsCommitted
PROPERTIES
  WriteSpec
  RecoveryCompletes
CHECK_DEADLOCK FALSE
