SPECIFICATION Spec
CONSTANTS
  Runs = {r1, r2}
  r1 = r1
  r2 = r2
  NoRun = NoRun
  Sources = {"team_calendar_leave", "xero_leave"}
  Offered = {"approve", "decline", "withdraw"}
  Slack = 2
  Skew = 2
  MaxStarts = 2
  MaxEvents = 2
SYMMETRY Symmetry
INVARIANTS
  TypeOK
  NothingMissed
  ArchivedIsGone
PROPERTIES
  NeverOlder
CHECK_DEADLOCK FALSE
