\* The restart rule of docs/DELEGATION.md, which loadStoreAt does not follow.
SPECIFICATION Spec
CONSTANTS
  Handlers = {h1}
  Tokens = {t1, t2, t3}
  Requests <- MCRequests
  Envelope <- MCEnvelope
  Generations = {1}
  None = None
  MaxTime = 2
  MaxRequests = 3
  MaxCrashes = 1
PROPERTY RestartGatesOutstandingState
CHECK_DEADLOCK FALSE
