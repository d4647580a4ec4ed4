SPECIFICATION Spec
CONSTANTS
  Handlers = {h1, h2}
  Tokens = {t1, t2, t3}
  Requests <- MCRequests
  Envelope <- MCEnvelope
  Generations = {1, 2}
  None = None
  MaxTime = 1
  MaxRequests = 3
  MaxCrashes = 2
SYMMETRY Symmetry
INVARIANTS
  IndexConsistent
  ClosedGateIsEmpty
  TerminalIsForever
  SavedStateIsRecoverable
PROPERTIES
  FileOnlyAdvances
  KeepsPromise
CHECK_DEADLOCK FALSE
