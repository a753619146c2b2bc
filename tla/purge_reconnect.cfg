SPECIFICATION Spec
CONSTANTS
  Runs = {r1, r2}
  r1 = r1
  r2 = r2
  NoRun = NoRun
  Sources = {"xero_leave"}
  Offered = {"approve", "decline", "withdraw"}
  Slack = 2
  Skew = 2
  MaxStarts = 2
  MaxEvents = 1
SYMMETRY Symmetry
PROPERTIES
  FullSyncShows
CHECK_DEADLOCK FALSE
