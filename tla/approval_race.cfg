SPECIFICATION Spec
CONSTANTS
  w1 = w1
  w2 = w2
  Workers = {w1, w2}
  NoWorker = NoWorker
  Origins = {"team_calendar_leave"}
  Offered = {"approve", "decline"}
  MaxGeneration = 3
  Recovery = TRUE
  EvidenceWaits = TRUE
  InboundSync = FALSE
  PayrollEdits = TRUE
SYMMETRY WorkerSymmetry
INVARIANTS
  OneLeavePerRequest
  FencedAttempts
  NoLostLeave
  NoLateLeave
CHECK_DEADLOCK FALSE
