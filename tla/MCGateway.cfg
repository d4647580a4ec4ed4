SPECIFICATION Spec
CONSTANTS
  Messages <- MCMessages
  MaxAge = 1
  MaxTime = 3
  Processes <- MCProcesses
  Backends = {"github", "local"}
  Tools = {"t1", "t2"}
  Allowed <- MCAllowed
  Advertised <- MCAdvertised
  RetryInterval = 1
  NoProcess = NoProcess
  NoTool = NoTool
  Requests = {r1, r2}
  Agents = {"a1", "a2"}
  Configs <- MCConfigs
  Executor = "executor"
  HTTPBackends = {"github"}
  DelegatedBackend = "github"
  DelegatedTools = {"t1"}
  SessionTTL = 1
  CacheSize = 1
  NoServer = NoServer
SYMMETRY MCSymmetry
INVARIANTS
  ServersComplete
  DelegatedCallsAuthorized
PROPERTIES
  NoReplay
  RegisteredIsFinal
