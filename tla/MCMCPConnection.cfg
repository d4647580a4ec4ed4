SPECIFICATION FairSpec
CONSTANTS
  Callers = {c1, c2}
  Free = Free
  MaxSessions = 3
  MaxPages = 2
  Cursors = {p1}
  Listers = {c2}
  Margin = 1
  DefaultTTL = 2
  Life = 2
INVARIANTS
  NoSessionLeaked
  ExecutedOnce
  TokenValidOnArrival
PROPERTY
  RequestsReturn
CHECK_DEADLOCK FALSE
