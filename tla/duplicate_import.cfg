SPECIFICATION Spec
CONSTANTS
  w1 = w1
  Workers = {w1}
  NoWorker = NoWorker
  Origins = {"team_calendar_leave"}
  Offered = {"approve"}
  MaxGeneration = 1
  Recovery = FALSE
  EvidenceWaits = TRUE
  InboundSync = TRUE
  PayrollEdits = FALSE
INVARIANTS
  OneCardPerLeave
CHECK_DEADLOCK FALSE
