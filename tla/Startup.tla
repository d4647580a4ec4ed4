------------------------------- MODULE Startup --------------------------------
(***************************************************************************)
(* The start of the gateway (internal/cmd/root.go run, internal/server     *)
(* NewUnified): load a configuration, apply flags and environment, choose  *)
(* and register a guard for every server, and serve or exit.  When the     *)
(* workflow's own repository is public, policies are forced to public      *)
(* scope on the way (internal/server/guard_visibility.go).                 *)
(*                                                                         *)
(* Servers are registered in the order of a Go map, any order.  Guard      *)
(* files, WASM compilation and the GitHub API may fail.                    *)
(***************************************************************************)
EXTENDS Configuration

CONSTANTS
  Written,     \* configurations, as written
  Clis, Envs,  \* guard policy flags and environment: [set, json, scope]
  SafeOutputs  \* IDs of safe-outputs servers

\* What is parsed out of a configuration, flags or the environment has the fields of its
\* kind, and a name of an agent is text.
ASSUME StartupAssumption ==
  /\ \A w \in Written :
       /\ w.faults \subseteq FaultKinds
       /\ w.agentIDs # NoAgentIDs => w.agentIDs \in Seq(STRING) /\ Unset \notin Range(w.agentIDs)
       /\ \A s \in DOMAIN w.servers : /\ IsFiniteSet(DOMAIN w.servers[s].policies)
                                     /\ IsPolicy(ParseServerGuardPolicy(s, w.servers[s].policies))
       /\ \A g \in DOMAIN w.guards : IsPolicy(w.guards[g].policy)
  /\ \A src \in Clis \union Envs : IsPolicy(src.json)

VARIABLES
  phase,       \* "start", "loaded", "registering", "serving" or "exited"
  cfg,         \* the Config; overrides change it in place
  strict,      \* the enforcement mode is strict
  envForce,    \* MCP_GATEWAY_FORCE_PUBLIC_REPOS is not false
  actual,      \* GitHub's visibility of the workflow repository
  visibility,  \* repoVisibilityCached: "unasked", "unknown" or the visibility
  guards,      \* guard registry: server -> guard
  difc,        \* enableDIFC
  before,      \* history: cfg before the first guard was registered
  compiled     \* history: servers whose own WASM guard was found and loaded

vars == <<phase, cfg, strict, envForce, actual, visibility, guards, difc, before, compiled>>

Empty == [x \in {} |-> NoPolicy]

\* The map f with v at k.
Put(f, k, v) == [x \in DOMAIN f \union {k} |-> IF x = k THEN v ELSE f[x]]

Init ==
  /\ phase = "start" /\ cfg = Refused /\ before = Refused
  /\ strict = TRUE /\ envForce \in BOOLEAN /\ actual \in {"public", "private"}
  /\ visibility = "unasked" /\ guards = Empty /\ difc = FALSE /\ compiled = {}

Exit == phase' = "exited" /\ UNCHANGED <<cfg, strict, envForce, actual, visibility, guards, difc, before, compiled>>

-----------------------------------------------------------------------------
(* run, up to NewUnified.                                                  *)

Load ==
  /\ phase = "start"
  /\ \E w \in Written : \E loaded \in {LoadFromFile(w), LoadFromStdin(w)} :
       /\ cfg' = loaded
       /\ phase' = IF loaded.ok THEN "loaded" ELSE "exited"
  /\ UNCHANGED <<strict, envForce, actual, visibility, guards, difc, before, compiled>>

\* ValidateExecutionEnvironmentForRuntime finds no runtime, socket or variable.
InvalidEnvironment == phase = "loaded" /\ Exit

\* applyLaunchAndGuardsOverrides, then resolveGuardPolicyFromFlags.
ApplyFlags ==
  /\ phase = "loaded"
  /\ \E cli \in Clis, env \in Envs, s \in BOOLEAN :
       LET override == ResolveGuardPolicyOverride(cli, env) IN
       IF override = Invalid THEN phase' = "exited" /\ UNCHANGED <<cfg, before, strict>>
       ELSE /\ phase' = "registering"
            /\ cfg' = [cfg EXCEPT !.global = override]
            /\ before' = cfg' /\ strict' = s
  /\ UNCHANGED <<envForce, actual, visibility, guards, difc, compiled>>

\* The sink server IDs, the delegation settings, a backend that must register,
\* the listener: each may end the start.
FailToStart == phase = "registering" /\ Exit

-----------------------------------------------------------------------------
(* Guard policies of a server.                                             *)

\* resolveGuardPolicy: global, then the server's own, then its guard's.
ResolveGuardPolicy(c, s) ==
  LET own == ParseServerGuardPolicy(s, c.servers[s].policies)  g == c.servers[s].guard IN
  IF c.global # NoPolicy THEN Validated(c.global)
  ELSE IF own # NoPolicy THEN own
  ELSE IF g \in DOMAIN c.guards /\ c.guards[g].policy # NoPolicy THEN Validated(c.guards[g].policy)
  ELSE NoPolicy

\* The agents of a configuration, and any delegated bearer: authenticated, without a
\* policy of its own.
DelegatedAgent == "delegation:handle"
Identities(c)  == c.agents \union {DelegatedAgent}

AgentAllowOnly(c, a) == IF a \in DOMAIN c.agentPolicies THEN c.agentPolicies[a].allowOnly ELSE NoPolicy

\* resolveGuardPolicyForAgent, for every call: the agent's own allow-only policy wins.
ResolveGuardPolicyForAgent(c, a, s) ==
  IF AgentAllowOnly(c, a) # NoPolicy THEN Validated(AgentAllowOnly(c, a)) ELSE ResolveGuardPolicy(c, s)

\* The policy is that of the guard's configuration.
FromGuardConfig(c, s) ==
  c.global = NoPolicy /\ ParseServerGuardPolicy(s, c.servers[s].policies) = NoPolicy

\* shouldForcePublicRepos, given what is known of the repository.
ForcingDisabled == cfg.forcePublic = "off" \/ ~envForce
Forced(v)       == ~ForcingDisabled /\ v = "public"

\* overrideToPublicScope, on the Config: the global policy, else the server's
\* map; one that does not parse stays as it is, one in no known form gets an
\* allow-only key added.
OverrideToPublicScope(c, s) ==
  LET raw == c.servers[s].policies  own == ParseServerGuardPolicy(s, raw)
      with(map) == [c EXCEPT !.servers[s].policies = map]
  IN IF c.global # NoPolicy THEN [c EXCEPT !.global = PublicScope(@)]
     ELSE IF own.kind = "allow-only" THEN with(Put(Empty, "allow-only", PublicScope(own)))
     ELSE IF own = NoPolicy THEN with(Put(raw, "allow-only", PublicScope(own)))
     ELSE c

\* isServerExemptFromSinkVisibility.
Exempt(c, s) == c.forcePublic = "off" \/ {"*", s} \intersect c.exempt # {}

-----------------------------------------------------------------------------
(* Guards of a server.                                                     *)

Noop == [name |-> "noop", visibility |-> ""]
Wasm == [name |-> "wasm", visibility |-> ""]

\* verifySinkVisibilityAtRuntime: a declared visibility gives way to a public
\* repository's.
VerifySinkVisibility(declared, v) == IF declared # "" /\ v = "public" THEN "public" ELSE declared

\* registerGuard: an external sink counts as public unless told otherwise, a
\* safe-outputs sink when the repository is.
SinkVisibility(c, s, ws, v) ==
  LET assumed == ws.visibility = "" /\ ~Exempt(c, s) /\ (s \notin SafeOutputs \/ v = "public") IN
  VerifySinkVisibility(IF assumed THEN "public" ELSE ws.visibility, v)

\* createGuardFromConfig, CreateGuard: whatever cannot be made is a noop guard.
ConfiguredGuards(c, s) ==
  LET g == c.servers[s].guard IN
  IF g \in DOMAIN c.guards /\ c.guards[g].type = "wasm" /\ c.guards[g].path THEN {Wasm, Noop} ELSE {Noop}

\* The guards that a server without a WASM guard of its own may get.
OtherGuards(c, s, v) ==
  LET p == ResolveGuardPolicy(c, s) IN
  IF p.kind = "write-sink"
  THEN {[name |-> "write-sink", visibility |-> SinkVisibility(c, s, p, v)]}
  ELSE ConfiguredGuards(c, s)

\* requireGuardPolicyIfGuardEnabled: without a policy a guard is replaced by noop.
RequirePolicy(c, s, g) ==
  IF /\ g # Noop /\ ResolveGuardPolicy(c, s) = NoPolicy
     /\ DOMAIN c.servers[s].policies = {} /\ ~HasAgentAllowOnlyPolicies(c)
  THEN Noop ELSE g

PolicyError(c, s, g) == g # Noop /\ ResolveGuardPolicy(c, s) = Invalid

\* resolveWorkflowRepoVisibility asks GitHub once, when somebody needs it.
Needed(c, s, own) ==
  LET p == ResolveGuardPolicy(c, s) IN
  \/ ~ForcingDisabled
  \/ ~own /\ p.kind = "write-sink" /\ (p.visibility # "" \/ ~Exempt(c, s))

Answers == IF visibility = "unasked" THEN {actual, "unknown"} ELSE {visibility}

\* Mutant: a guard without a policy is dropped before the policy is forced.
RegisterGuardForcesLast(s) ==
  /\ phase = "registering" /\ s \in DOMAIN cfg.servers \ DOMAIN guards
  /\ \E own \in BOOLEAN, v \in Answers :
       LET forced == IF Forced(v) THEN OverrideToPublicScope(cfg, s) ELSE cfg IN
       \E g \in (IF own THEN {Wasm} ELSE OtherGuards(cfg, s, v)) :
         /\ visibility' = IF Needed(cfg, s, own) THEN v ELSE visibility
         /\ cfg' = forced
         /\ compiled' = IF own THEN compiled \union {s} ELSE compiled
         /\ IF PolicyError(forced, s, g) THEN phase' = "exited" /\ UNCHANGED guards
            ELSE phase' = phase /\ guards' = Put(guards, s, RequirePolicy(cfg, s, g))
  /\ UNCHANGED <<strict, envForce, actual, difc, before>>

\* registerGuard: own tells whether the server's own WASM guard was found and
\* loaded; the policy is forced before the guard is asked to have one.
RegisterGuard(s) ==
  /\ phase = "registering" /\ s \in DOMAIN cfg.servers \ DOMAIN guards
  /\ \E own \in BOOLEAN, v \in Answers :
       LET forced == IF Forced(v) THEN OverrideToPublicScope(cfg, s) ELSE cfg IN
       \E g \in (IF own THEN {Wasm} ELSE OtherGuards(cfg, s, v)) :
         /\ visibility' = IF Needed(cfg, s, own) THEN v ELSE visibility
         /\ cfg' = forced
         /\ compiled' = IF own THEN compiled \union {s} ELSE compiled
         /\ IF PolicyError(forced, s, g) THEN phase' = "exited" /\ UNCHANGED guards
            ELSE phase' = phase /\ guards' = Put(guards, s, RequirePolicy(forced, s, g))
  /\ UNCHANGED <<strict, envForce, actual, difc, before>>

-----------------------------------------------------------------------------
(* NewUnified after the guards, and the rest of run.                       *)

HasNonNoopGuard       == \E s \in DOMAIN guards : guards[s].name # "noop"
HasNonNoopSourceGuard == \E s \in DOMAIN guards : guards[s].name = "wasm"
HasServerPolicies     == \E s \in DOMAIN cfg.servers : DOMAIN cfg.servers[s].policies # {}

\* Enforcement is on as soon as anything asks for it.
EnableDIFC == HasNonNoopGuard \/ cfg.global # NoPolicy \/ HasServerPolicies \/ HasAgentAllowOnlyPolicies(cfg)

\* validateSafeOutputsGuards.
SafeOutputsUnguarded ==
  /\ strict /\ HasNonNoopSourceGuard
  /\ \E s \in DOMAIN guards : s \in SafeOutputs /\ guards[s].name = "noop"

Serve ==
  /\ phase = "registering" /\ DOMAIN guards = DOMAIN cfg.servers
  /\ difc' = EnableDIFC
  /\ phase' = IF EnableDIFC /\ SafeOutputsUnguarded THEN "exited" ELSE "serving"
  /\ UNCHANGED <<cfg, strict, envForce, actual, visibility, guards, before, compiled>>

Started == phase \in {"serving", "exited"} /\ UNCHANGED vars

Next ==
  \/ Load \/ InvalidEnvironment \/ ApplyFlags \/ FailToStart \/ Serve \/ Started
  \/ \E s \in (IF cfg.ok THEN DOMAIN cfg.servers ELSE {}) : RegisterGuard(s)

Spec == Init /\ [][Next]_vars

-----------------------------------------------------------------------------
(* Properties                                                              *)

\* The workflow's repository is known to be public and nobody opted out: then
\* no server reads outside public repositories and no sink takes secrets,
\* whatever order, source and form the policies came in.  A WASM guard that
\* was loaded is in place, and labels the calls of every identity by an
\* allow-only policy of public scope (one with a write-sink policy refuses
\* them all); a write-sink guard is public unless its server is exempt.  The
\* exception is an agent with an allow-only policy of its own: it is held to
\* that one as it was written, which forcing does not reach.
PublicWorkflowIsScoped ==
  phase = "serving" /\ Forced(visibility) =>
    \A s \in DOMAIN cfg.servers :
      /\ s \in compiled => guards[s] = Wasm
      /\ guards[s] = Wasm =>
           \A a \in Identities(cfg) :
             LET p == ResolveGuardPolicyForAgent(cfg, a, s)  own == AgentAllowOnly(before, a) IN
             IF own # NoPolicy THEN p = own
             ELSE p.kind = "write-sink" \/ (p.kind = "allow-only" /\ p.repos = "public")
      /\ guards[s].name = "write-sink" => guards[s].visibility = "public" \/ Exempt(cfg, s)
      /\ difc

\* ForcePublicRepos "controls whether the gateway automatically overrides the allow-only
\* policy to repos="public" when the GITHUB_REPOSITORY repo is public" (config_core.go:179):
\* no identity reads outside public repositories, one with a policy of its own included.
AgentsAreScoped ==
  phase = "serving" /\ Forced(visibility) =>
    \A s \in DOMAIN cfg.servers, a \in Identities(cfg) :
      LET p == ResolveGuardPolicyForAgent(cfg, a, s) IN
      guards[s] = Wasm /\ p.kind = "allow-only" => p.repos = "public"

\* Forcing only narrows: a server's policy keeps its kind and its minimum
\* integrity, and its scope stays or becomes public.  A policy that comes
\* from the guard's own configuration is the exception: it is superseded.
ForcingOnlyNarrows ==
  phase = "serving" =>
    \A s \in DOMAIN cfg.servers :
      LET p == ResolveGuardPolicy(before, s)  q == ResolveGuardPolicy(cfg, s) IN
      CASE p.kind = "write-sink" -> q = p \/ FromGuardConfig(before, s)
        [] p.kind = "allow-only" -> \/ q = p \/ q = [p EXCEPT !.repos = "public"]
                                    \/ FromGuardConfig(before, s)
        [] OTHER -> TRUE

\* A gateway that serves authenticates: it has an agent, no blank one, and of
\* several agents each has a policy, however the agents were written down.
AuthenticationIsOn ==
  phase \in {"loaded", "registering", "serving"} =>
    /\ cfg.agents # {} /\ cfg.agents \intersect {"", Unset} = {}
    /\ Cardinality(cfg.agents) > 1 => cfg.agents = DOMAIN cfg.agentPolicies

\* validateTOMLStdioContainerization: "This enforces MCP Gateway Specification
\* Section 3.2.1", every server that the launcher runs as a process is run in
\* a container.
ProcessesAreContainerized ==
  phase = "serving" => \A s \in DOMAIN cfg.servers : cfg.servers[s].type = "http" \/ cfg.servers[s].containerized

===============================================================================
