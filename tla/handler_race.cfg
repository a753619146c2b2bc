SPECIFICATION Spec
CONSTANTS
  w1 = w1
  w2 = w2
  Workers = {w1, w2}
  NoWorker = NoWorker
  Origins = {"team_calendar_leave", "xero_leave"}
  Offered = {"approve", "decline", "withdraw"}
  MaxGeneration = 2
  Recovery = FALSE
  EvidenceWaits = TRUE
  InboundSync = FALSE
  PayrollEdits = FALSE
SYMMETRY WorkerSymmetry
INVARIANTS
  TypeOK
  SingleUnresolved
  DecisionMatchesPayroll
PROPERTIES
  WriteSpec
CHECK_DEADLOCK FALSE
