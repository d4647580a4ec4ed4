SPECIFICATION FairSpec
CONSTANTS
  Clients = {c1}
  Monitor = Monitor
  HTTPServers = {web}
  StdioServers = {cli}
  NoOIDC = {web}
  Sessions = {s1}
  NoSession = NoSession
  None = None
  MaxFailures = 2
  MaxErrors = 2
  MaxLaunches = 1
PROPERTIES
  NobodyWaitsForever
  MonitorGivesUp
CHECK_DEADLOCK FALSE
