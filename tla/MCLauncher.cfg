SPECIFICATION Spec
CONSTANTS
  Clients = {c1, c2}
  Monitor = Monitor
  HTTPServers = {}
  StdioServers = {cli}
  NoOIDC = {}
  Sessions = {s1}
  NoSession = NoSession
  None = None
  MaxFailures = 1
  MaxErrors = 2
  MaxLaunches = 3
SYMMETRY Symmetry
INVARIANTS
  CachedIsOpen
  NothingCachedAfterClose
  OpenIsOwned
PROPERTIES
  PublishNeverReplaces
  KeepsService
CHECK_DEADLOCK FALSE
