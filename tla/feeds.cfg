SPECIFICATION Spec
CONSTANTS
  Readers = {r1}
  Jobs = {j1}
  Admins = {a1, a2}
  Offered = {"pause", "archive", "restore", "issue", "rotate", "resume",
             "rename"}
  Tokens = {1, 2}
  NoToken = 0
  NoAdmin = NoAdmin
  Names = {n1, n2}
  NoName = NoName
  Contents = {c1, c2}
  Absent = Absent
  MaxEdits = 2
  MaxOps = 2
  MaxRequests = 2
  r1 = r1
  j1 = j1
  a1 = a1
  a2 = a2
  c1 = c1
  c2 = c2
  n1 = n1
  n2 = n2
SYMMETRY Symmetry
INVARIANTS
  TypeOK
  ArchivedHasNoToken
  EtagIsCurrent
PROPERTIES
  ServedIsCurrent
  SequenceRises
CHECK_DEADLOCK FALSE
