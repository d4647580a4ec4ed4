\* Session connections at shutdown, and the monitor's restart, as the comments of
\* Launcher.Close and clearServerForRestart have them.  Run with -continue.
SPECIFICATION Spec
CONSTANTS
  Clients = {c1}
  Monitor = Monitor
  HTTPServers = {}
  StdioServers = {cli}
  NoOIDC = {}
  Sessions = {s1}
  NoSession = NoSession
  None = None
  MaxFailures = 2
  MaxErrors = 2
  MaxLaunches = 2
INVARIANT RestartIsFresh
PROPERTY SessionsClosedByClose
CHECK_DEADLOCK FALSE
