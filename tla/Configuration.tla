---------------------------- MODULE Configuration -----------------------------
(***************************************************************************)
(* Loading the configuration (internal/config): LoadFromFile reads TOML,   *)
(* LoadFromStdin JSON; both end in the same Config, along different        *)
(* checks.  A written configuration is                                     *)
(*   [faults, gateway, agentID, apiKey, agentIDs, dockerless, runtime,     *)
(*    envRuntime, servers, guards, agentPolicies, forcePublic, exempt]     *)
(* where faults are the fields out of range, an identity is Unset or text, *)
(* and a server is [type, command, container, url, mounts, auth, ca,       *)
(* badFilter, custom, guard, policies].  Values that only pass through are left    *)
(* out; Refused is a start that ends with an error.                        *)
(***************************************************************************)
EXTENDS GuardPolicies

Unset       == "unset"
NoAgentIDs  == <<Unset>>
Refused     == [ok |-> FALSE]

\* Fields either loader may refuse, by the name of what is wrong with them.
FaultKinds == {"syntax", "unknownField", "port", "payloadSizeThreshold", "trustedBots", "opentelemetry",
               "startupTimeout", "toolTimeout", "payloadDir", "domain", "undefinedVariable", "customSchemas"}

\* LoadFromFile: timeouts, the payload directory and the domain are taken as
\* they are, and variables are expanded in the telemetry section only.
FileFaults == {"syntax", "unknownField", "port", "payloadSizeThreshold", "trustedBots", "opentelemetry"}

\* ExpandRawJSONVariables and the JSON schema come before the decoder, then
\* validateRuleBasedPatterns and validateGatewayConfig.
StdinFaults == FaultKinds

IsStdioServerType(t)   == t \in {"", "stdio", "local"}
NormalizeServerType(t) == IF IsStdioServerType(t) THEN "stdio" ELSE t

-----------------------------------------------------------------------------
(* Identities                                                              *)

\* validateAgentIDs: a list that is given has entries, none blank, none twice.
ValidAgentIDs(ids) ==
  ids # NoAgentIDs => ids # <<>> /\ IsInjective(ids) /\ \A i \in DOMAIN ids : ids[i] # ""

\* Exactly one way to name the agents.
OneIdentity(w) ==
  /\ {w.agentID, w.apiKey} # {Unset} \/ w.agentIDs # NoAgentIDs
  /\ ValidAgentIDs(w.agentIDs)
  /\ w.agentIDs # NoAgentIDs => w.agentID = Unset /\ w.apiKey = Unset

\* LoadFromFile looks for a blank api_key after agent_id has replaced it.
ValidFileIdentity(w)  == w.agentID # "" /\ (w.agentID = Unset => w.apiKey # "") /\ OneIdentity(w)

\* The schema has no apiKey.
ValidStdinIdentity(w) == w.agentID # "" /\ w.apiKey = Unset /\ OneIdentity(w)

\* Mutant: only the new name of the field is read.
EffectiveAgentIDNew(w) == w.agentID

\* normalizeAgentID, effectiveAgentID: agent_id wins over the deprecated api_key.
EffectiveAgentID(w) == IF w.agentID # Unset THEN w.agentID ELSE w.apiKey

\* GetAgentIDs: an empty list turns authentication off.
GetAgentIDs(w) ==
  IF w.agentIDs # NoAgentIDs THEN Range(w.agentIDs) ELSE {EffectiveAgentID(w)} \ {Unset}

\* validateSingleAgentPolicy: the servers, and the servers of its tools, must be
\* known, and an allow-only policy valid.
ValidSingleAgentPolicy(w, p) ==
  /\ p.servers \subseteq DOMAIN w.servers /\ p.tools \subseteq p.servers
  /\ p.allowOnly # NoPolicy => ValidGuardPolicy(p.allowOnly)

\* validateAgentPolicies: no policy for an unknown agent; with several agents,
\* one for each.
ValidAgentPolicies(w) ==
  LET agents == GetAgentIDs(w)  policies == w.agentPolicies IN
  /\ DOMAIN policies \subseteq agents
  /\ Cardinality(agents) > 1 => DOMAIN policies = agents
  /\ \A a \in DOMAIN policies : ValidSingleAgentPolicy(w, policies[a])

HasAgentAllowOnlyPolicies(cfg) ==
  \E a \in DOMAIN cfg.agentPolicies : cfg.agentPolicies[a].allowOnly # NoPolicy

\* validateGuardPolicies.
ValidGuards(w) ==
  \A g \in DOMAIN w.guards : w.guards[g].policy # NoPolicy => ValidGuardPolicy(w.guards[g].policy)

-----------------------------------------------------------------------------
(* Servers                                                                 *)

\* configuredContainerRuntimeCommand, and effectiveContainerRuntimeCommand with
\* dockerless mode and the environment's override.
ConfiguredCommand(w) == IF w.runtime = Unset THEN "docker" ELSE w.runtime
EffectiveCommand(w)  ==
  IF w.dockerless THEN "podman" ELSE IF w.envRuntime # Unset THEN w.envRuntime ELSE ConfiguredCommand(w)

\* validateServerAuth, validateAuthConfig: auth is for HTTP servers, of the one
\* known type and with its environment present.
ValidAuth(s) == s.auth # Unset => s.type = "http" /\ s.auth = "github-oidc"

\* validateToolResponseFilters: the jq filters must compile.
ValidFilters(s) == ~s.badFilter

ValidCommonFields(s) == ValidAuth(s) /\ ValidFilters(s)

\* validateTOMLStdioContainerization and the loop after it.
ValidFileServer(w, s) ==
  /\ IsStdioServerType(s.type) => s.command = ConfiguredCommand(w)
  /\ s.ca => s.type = "http"
  /\ ValidCommonFields(s)

FileServer(s) ==
  [type |-> s.type, command |-> s.command, containerized |-> IsStdioServerType(s.type), guard |-> s.guard, policies |-> s.policies]

\* validateCustomServerConfig: the type must be registered; a schema without a
\* URL is not asked, one that cannot be fetched or compiled refuses as well.
CustomSchemas == {"unregistered", "unasked", "unusable", "refuses", "accepts"}
ValidCustomServer(s) == s.custom \in {"unasked", "accepts"}

\* validateStandardServerConfig.
ValidStandardServer(s) ==
  \/ s.type = "stdio" /\ s.container /\ s.mounts # "bad" /\ ValidCommonFields(s)
  \/ s.type = "http"  /\ s.url /\ s.mounts = "none" /\ ValidCommonFields(s)

\* validateServerConfigWithCustomSchemas.
ValidStdinServer(s) ==
  LET type == NormalizeServerType(s.type) IN
  /\ s.ca => type = "http"
  /\ IF type \in {"stdio", "http"} THEN ValidStandardServer([s EXCEPT !.type = type]) ELSE ValidCustomServer(s)

\* buildStdioServerConfigWithRuntime: everything that is not HTTP becomes a
\* container, a custom type too.
StdinServer(w, s) ==
  LET type == IF s.type = "http" THEN "http" ELSE "stdio" IN
  [type |-> type, command |-> EffectiveCommand(w), containerized |-> type = "stdio", guard |-> s.guard, policies |-> s.policies]

-----------------------------------------------------------------------------
(* The loaders                                                             *)

Loaded(w, servers) ==
  [ok |-> TRUE, servers |-> servers, guards |-> w.guards, agents |-> GetAgentIDs(w),
   agentPolicies |-> w.agentPolicies, forcePublic |-> w.forcePublic, exempt |-> w.exempt,
   global |-> NoPolicy]

LoadFromFile(w) ==
  IF /\ w.faults \intersect FileFaults = {}
     /\ DOMAIN w.servers # {}
     /\ \A s \in DOMAIN w.servers : ValidFileServer(w, w.servers[s])
     /\ ValidFileIdentity(w) /\ ValidGuards(w) /\ ValidAgentPolicies(w)
  THEN Loaded(w, [s \in DOMAIN w.servers |-> FileServer(w.servers[s])])
  ELSE Refused

\* The schema demands a gateway section; dockerless mode demands podman.
LoadFromStdin(w) ==
  IF /\ w.faults \intersect StdinFaults = {} /\ w.gateway
     /\ w.dockerless => w.runtime # "docker"
     /\ ValidStdinIdentity(w)
     /\ \A s \in DOMAIN w.servers : ValidStdinServer(w.servers[s])
     /\ ValidGuards(w) /\ ValidAgentPolicies(w)
  THEN Loaded(w, [s \in DOMAIN w.servers |-> StdinServer(w, w.servers[s])])
  ELSE Refused

===============================================================================
