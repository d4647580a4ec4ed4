SPECIFICATION Spec
CONSTANTS
  Callers = {c1, c2}
  NoCaller = NoCaller
  MaxBackendCalls = 1
  MaxAttempts = 2
  MaxOutput = 2
  RequiredSizes = {0, 3}
  FragmentNames = {"f", "g"}
  Segments <- MCSegments
  Configs <- MCConfigs
  RequestsOf <- MCRequestsOf
  Claims <- MCClaims
  Sensitive <- MCSensitive
  Repos <- MCRepos
  PrivateTag <- MCPrivateTag
  SecrecyTags <- MCSecrecyTags
  IntegrityTags <- MCIntegrityTags
  PolicyLabels <- MCPolicyLabels
  Resources <- MCResources
  Labelled <- MCLabelled
  Shapes <- MCShapes
  DeniedTTL = 1
  DeniedItems = 1
  MaxTime = 1
  MaxFlips = 1
SYMMETRY MCSymmetry
INVARIANTS
  AnswersAreReadable
  UpstreamSeesOnlyReads
  CrossRepoWasPublic
  GuardIsolation
