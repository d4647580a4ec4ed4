SPECIFICATION Spec
CONSTANTS
  Calls = {c1, c2, c3}
  c1 = c1  c2 = c2  c3 = c3
  gh = gh  tracker = tracker  plain = plain
  list = list  get = get  post = post
  scope = scope  secret = secret  approved = approved
  None = None
  Servers <- MCServers
  Guarded <- MCGuarded
  SecrecyTags <- MCSecrecyTags
  IntegrityTags <- MCIntegrityTags
  Tools <- MCTools
  SingularTools <- MCSingularTools
  ArtifactTool = post
  Requests <- MCRequests
  Refused <- MCRefused
  Labelled <- MCLabelled
  AgentDefault <- MCAgentDefault
  LabelAgent <- MCLabelAgent
  DefaultMode = "filter"
  ToolCallLimits <- MCToolCallLimits
SYMMETRY Symmetry
CHECK_DEADLOCK FALSE
PROPERTY IntegrityIsIntersected
