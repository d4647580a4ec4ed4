# A TLA+ development for the MCP gateway

The gateway (`awmg`, Go, `internal/`) stands between MCP clients (agents) and
backend MCP servers. It launches the backends, checks every tool call against an
information-flow policy computed by guards, limits and breaks circuits, hands out
invocation-scoped delegated identities, and also runs as a forward proxy to the
GitHub API. This directory holds TLA+ models of it, the TLC configurations that
check them on small instances, and TLAPS proofs of the most important properties
for every instance. `PROJECT.json` maps each definition to the lines it models and
lists components, hazards, runs, mutants, findings and theorems.

## The system

| Component | State | Operations | What is hard |
|---|---|---|---|
| Delegation (`delegation/`) | identities under four indexes, admitted schema hashes, the recovery gate, the state file | create-or-confirm, revoke, revoke-by-labels, status, reconcile, authorize, save, load | handlers interleave around two mutexes; writes fail before or after the rename; the process dies anywhere; the file may be damaged or of another generation |
| Circuit breaker (`server/circuit_breaker.go`) | state, streak, opening time, upstream reset, probe slot | Allow, RecordSuccess, RecordRateLimit, RecordProbeReleased | outcomes are recorded in another state than the call was admitted in; probes that hang |
| Launcher (`launcher/`) | connection cache, session pool, start times, errors, failure counts | GetOrLaunch, GetOrLaunchForSession, cleanup, restart, Close | a launch is four critical sections; callers share it; a monitor restarts, a cleanup evicts, a shutdown closes meanwhile |
| MCP connections (`mcp/`), OIDC (`oidc/`) | one SDK or plain HTTP session, a token per audience | request, list, reconnect, refresh, close | concurrent reconnects, a retry of what was done, pages without end, Close during a reconnect |
| Reference monitor (`difc/`, `guard/pipeline.go`) | one label (secrecy and integrity tags) per agent | evaluate, filter, accumulate | all calls of an agent read and change one label, without a lock around a call |
| Tool-call pipeline (`server/backend_call.go`, `guard_init.go`, `unified.go`) | guard session state and call counts per session and server | callBackendTool, ensureGuardInitialized, enforceToolCallLimit | first calls overlap; the label changes between the phases of a call |
| Responses (`difc/path_*.go`, `middleware/`) | payload files | apply path labels, filter, store, answer by reference | pointers a guard may write in many ways; several copies of a document; a file written in two steps |
| Front end (`server/http_server.go`, `routed.go`, `middleware*.go`, `hmac.go`, `session*.go`) | nonces, sessions, per-agent servers, session guards | authenticate, verify, register, route, authorise, shut down | copies of a message, requests during registration, expiry of an executor, shutdown beside calls |
| Tool registry (`server/tool_registry.go`) | tools, registered backends, failures | ensureToolsRegistered | double-checked lock, retry deferral, tools published in two steps |
| WASM guards (`guard/wasm_*.go`) | one module instance, failed latch | label_agent, label_resource, label_response, Close | one caller at a time, callbacks into the caller's backend, callers that go away |
| Proxy (`proxy/`, `enclavegithub/`) | agents' labels, denied repositories | classify, restrict, label, forward, filter, stream | three kinds of client over one guard; GraphQL; a cache of visibility |
| Start (`cmd/`, `config/`, `server/guard_visibility.go`) | the configuration, registered guards | load, override, register guards, force public scope, serve | policies from four places, guards in any order, two loaders |
| Logging, tracing, helpers | none that decides | | |
| GitHub guard (`guards/github-guard`, Rust) | none | computes labels | |

How they interact: `Startup` yields the configuration and a guard per server. A
request is authenticated and its signature checked, waits for its backend's tools
to be registered, gets the server of its agent, and makes a tool call; the call
asks `delegation` whether it is authorised, makes sure that the guard of its
server is initialised, is charged to the budget, passes the reference monitor,
then the breaker, then gets a connection from the launcher and goes over it. Its
result passes the reference monitor again, then the payload middleware.
`InitiateShutdown` refuses new requests, stops the health monitor, closes the
launcher, then the guards and the compilation cache. The proxy runs the same
phases over REST and GraphQL with one guard.

What makes each one correct: an identity's end is final and an invocation has one
bearer (delegation); the circuit opens only on a full streak and comes back
(breaker); one backend per key, none cached after it was closed, none lost
(launcher, connections); the agent's label covers what it was given and writes are
checked against it (reference monitor, pipeline, proxy); what a label denies
leaves a response and nothing else does (responses); no message is used twice within
its window and no agent reaches what its policy does not name (front end); only reads
go upstream (proxy); the servers of a public workflow have public scope (start).

## Modules

| Module | Models | Notes |
|---|---|---|
| `DelegationStore`, `DelegationStoreProofs` | `delegation/{store,recovery,identity,envelope,control_handler}.go`, `util/atomic_write.go` | The Store is one record, one step per critical section under `Store.mu`. A handler is a program counter: locked operation, snapshot under `persistMu`, write, answer. A token stands for a handle and its bearer. |
| `DelegatedBearer` | the promise of the above | Abstract: bearers accepted, drawn, told and ended; no handlers, locks or file. `DelegationStore` implements it (`KeepsPromise`) with `live` mapped to what `authorize` accepts now. |
| `CircuitBreaker` (proofs in `CallPipelineProofs`) | `server/circuit_breaker.go`, its calls in `backend_call.go` | Times are kept as ages, saturated at `Horizon`: time is unbounded, the state space finite. |
| `Launcher`, `LauncherProofs` | `launcher/{launcher,connection_pool,health_monitor}.go`, `InitiateShutdown` | A caller is a program counter through lookup, shared launch, publication and `recordStart`; the monitor is a caller too. `served` is a history variable: what was published, under which key. |
| `SharedBackends` | the promise of the above | Abstract: one connection per key at a time, each for one key for ever, none after the stop; no launches, locks or monitor. `Launcher` implements it (`KeepsService`): what is cached serves, what a call uses was given. |
| `OIDCProvider` | `oidc/provider.go` | One audience. `Token` holds its mutex over the request to the issuer: one step. |
| `MCPConnection` (extends it), `MCPConnectionProofs` | `mcp/{connection*,http_transport*,pagination}.go` | A request is a program counter: read the session, send, wait, reconnect under the write lock, retry. The transport is chosen by fallback at the start. |
| `DIFCLabels` | `difc/{labels,flow_labels,evaluator,resource,pipeline_decisions}.go` | The label algebra and the decisions, as operators. |
| `CallPipeline`, `CallPipelineProofs` | `callBackendTool`, `ensureGuardInitialized`, `enforceToolCallLimit`, `guard/{pipeline,label_agent}.go`, `difc/agent.go` | One session, whose calls share one agent label: the session and the agent have the same id in the gateway. |
| `PathLabels` | `difc/{path_labels,path_collections}.go` | Operators. A document is a function from paths to nodes; a pointer is its tokens and whether it is spelled canonically. |
| `Responses` (extends it), `ResponsesProofs` | the end of `callBackendTool`, `mcp/tool_result.go`, `middleware/{jqschema,content_rewrite}.go` | Calls side by side, one step per read, write or decision; files are written in two steps. |
| `RequestSigning`, `ToolRegistry` | `server/hmac.go`; `server/tool_registry.go` | State of the front end with its own locks: actions that `Gateway` composes. |
| `Gateway` (extends both), `GatewayProofs` | `server/{http_server,middleware,middleware_auth,routed,session,delegation,agent_policy_enforce,guard_init,unified_lifecycle}.go` | A request is a program counter through the middleware chain to the tool handler; startup, the executor's end and shutdown run beside it. |
| `WasmGuard` | `guard/wasm_{lifecycle,exec,parse,labels}.go` | Who runs the module, with whose backend, for how long. |
| `GraphQLSelection`, `RouteTable` | `proxy/read_only.go`; `proxy/router.go` | Pure operators, compared with reference definitions by the assumptions of `MCProxy`. |
| `Proxy` (extends the last three), `ProxyProofs` | `proxy/{proxy,handler,enclave,enclave_request,delegation,response_transform,graphql}.go`, `enclavegithub/` | Plain, enclave and delegation proxies, chosen in the initial state. |
| `GuardPolicies`, `Configuration` | `config/guard_policy*.go`; the loaders and validators of `config/` | Operators from what is written to the `Config`. |
| `Startup` (extends them), `StartupProofs` | `cmd/root.go` `run`, `NewUnified`, `registerGuard`, `guard_visibility.go` | Load, flags, one guard at a time in any order, serve or exit. |
| `MC*` | | Instances for TLC. |

A definition that begins "Mutant:" in its comment is a plausible bug, used only to
show that a property can fail.

### Abstractions worth knowing

* **Delegation.** Requests are records drawn from a small set; validation,
  binding comparison, expiry and schema admission are modelled as the code does
  them. The integrity check and the JSON of the file are one bit: it parses or it
  does not. `now` is read before the lock and used inside it, as in the code.
* **Breaker.** The parsing of rate-limit texts only decides whether a reset time
  is known and how far away it is, also in the past.
* **Launcher.** A backend launch succeeds, fails, or times out and completes
  later. `Break` is the environment: a server goes away for good. Connections
  have no behaviour of their own here; `MCPConnection` has one of them in full.
  `RecordError` finds no entry to count in, as a launch runs only while its key
  has none: the pool in fact evicts for idleness alone.
* **Connections.** A session is a number, a token the time it has left. Whether an
  answer is lost, late, an error or "session not found" (also from a tool, in
  text) is a choice. Token lifetimes that cannot be read say nothing of the token.
* **Pipeline.** The guard's answers, the backend's result, the breaker and the
  conversion of results are nondeterministic choices. The evaluation of one item
  is one step, although the code reads the two tag sets one after the other; the
  two halves of an accumulation are two steps, between which others read the
  label and, because of `AgentLabels.mu`, nobody writes it. Phases 3 and 4 are
  one step, as nothing shared changes between them. Items form a set.
* **Responses.** A case is a document, the copies the backend sends of it, whether
  its list of content items has items, is empty, null or absent, the guard's answer,
  the agent's label, the operation and the mode, and the filter. A guard without
  labels, and an operation whose responses are not labelled, take the same way. The
  threshold is compared with three sizes: small, large, and a
  text well below it that marshals to more. Of a jq filter only what it keeps is
  known. Array elements keep their path when earlier ones are removed: paths name
  nodes, as a denied pointer refers to the response before filtering.
* **Front end.** A signature is a message from a set; that it cannot be forged is
  assumed. The configuration, agents and their policies, is chosen in the initial
  state among the legal ones (`LegalPolicies`): a single agent may have no policy,
  and then no identity is refused anything (`Enforced`). The timestamp and the nonce
  of a message are checked in two steps, as each reads the clock. With one agent
  the backend's registered guard serves all sessions (`MultiAgent`). Only routed
  mode is modelled: unified mode has one server for all.
* **Proxy.** Filtering and accumulation are one step each; `CallPipeline`, which
  models the same code, takes them apart. Requests, tools and bodies are classes.
* **Start.** The policy of a call is that of its agent on its server
  (`ResolveGuardPolicyForAgent`); a delegated bearer is one more agent, without a
  policy of its own. What only passes through the configuration is left out. A field out
  of range is a named fault that a loader finds or does not look for.

## Runs

| Run | Instance | What it shows |
|---|---|---|
| `delegation_store` | 2 handlers, 3 tokens, 2 generations, 3 requests, 2 crashes, clock 0..1, one dynamic schema (265k states) | The indexes agree; a closed gate means an empty store; an acknowledged end is final across crashes, failing writes and damage; what is saved can be loaded; the file never goes back; the promise of `DelegatedBearer` is kept, with one bearer told per invocation |
| `circuit_breaker` | 3 calls, one may hang, threshold 2 (35k states) | Full streak, slot discipline, recovery |
| `launcher` | 2 clients, the monitor, one stdio server, one session, 3 launches, the monitor gives up at once (856k states) | Cached connections are open, nothing cached after Close, no connection lost except the two known ways, launches are shared; the promise of `SharedBackends` is kept, so no session is given a connection launched for another |
| `launcher_liveness` | 1 client, an HTTP server without OIDC and a stdio server (59k states) | Nobody waits for ever, shutdown included; the monitor gives up |
| `call_pipeline` | 3 calls on servers in propagate, strict and filter mode (829k states) | Label coverage, write checks, blocked data, budgets |
| `mcp_connection` | 2 requests, one of them a list too, every transport, three sessions (430k states) | No session lost, no executed call sent again, tokens valid on arrival, requests return |
| `gateway` | 2 requests with one signed message, an executor, 2 agents with policies and signatures or 1 without either, 2 backends, cache of one server, clock 0..3 (2.6M states) | No replay of a fresh message, complete servers, delegated calls authorised, registration final |
| `proxy` | 2 clients, 7 configurations, 3 repositories, one change of visibility (1.7M states) | Readable answers, reads only, cross-repository access, guard isolation |
| `startup` | 2 servers under about 800 written configurations, flags, environment and every answer of GitHub (295k states) | Public scope of every identity without a policy of its own, narrowing, authentication |
| `responses` | 1 call under some 160 guard answers, on three documents, with filters, three agent labels, every operation and mode, empty and missing content, beside another call in the same directory (92k states) | Nothing denied survives, everything else does |

Bounds. Two handlers suffice for every race on the two mutexes, as each is between
a pair of critical sections; three requests allow create, end and re-create around
two crashes; the third token would make a second bearer visible. The breaker needs
one call admitted before the opening, the probe, and a third call to be let in
wrongly. The launcher needs a leader, a follower and the monitor, and a third
launch to replace the second; the monitor's failure count matters to `MonitorGivesUp`
only, whose run lets it reach two. In the pipeline two calls overlap on initialisation
and the third writes what they read. A connection needs two callers to overlap on
one expiry, three sessions for both to
reconnect, one after the other, and two pages with a cursor that repeats. In the gateway two requests
are two copies of a message, or a request beside a registration, and a cache of
one server makes every second identity evict; the clock passes the message's
window, the nonce's life and the retry interval; both configurations are explored,
two agents with policies whose requests are signed, and one agent without either,
where both requests may wait for one registration at once. The proxy's guard is shared by
two clients, and one denial fills its cache. The assumptions of `MCProxy` compare
route dispatch on all paths of up to four segments over ten names, and of
repository paths with three more over forty, and GraphQL selection on all
documents of two operations and two fragments. `MaxTime`, `MaxRequests`,
`MaxCrashes`, `MaxLaunches`, `MaxSessions`, `MaxFlips` and `Life` are the only
bounds that cut behaviours.

Deadlock is not checked where the behaviour really ends: all calls made, the
bounds used up, or the gateway shut down.

### Where a text and the code differ

Two runs state what a comment says and find that the code does otherwise;
`findings` in `PROJECT.json` quotes the lines.

| Run | The text | The code |
|---|---|---|
| `mcp_reconnect` | a reconnect is safe for concurrent callers | each caller that saw the session expire closes the session it finds, also a fresh one in use |
| `gateway_shutdown` | the compilation cache is closed after all guards | calls under way may create guards after it |

The following were found the same way. The first group has a property in its
module and a configuration beside it, to be run by hand; TLC finds each violated
(`MCLauncherDoc.cfg` and `MCStartupDoc.cfg` have two: run them with `-continue`, or
TLC stops at the first).

| Configuration (module) | Property | The text | The code |
|---|---|---|---|
| `MCDelegationDoc.cfg` (`MCDelegationStore`) | `RestartGatesOutstandingState` | `docs/DELEGATION.md:100`: a restart with outstanding labelled state reports `recovery_incomplete` | `recovery.go:175` restores the gate as saved |
| `MCCircuitBreakerDoc.cfg` (`MCCircuitBreaker`) | `OneProbeAtATime` | `circuit_breaker.go:178`: one probe until it resolves | any call's late outcome frees the slot |
| `MCLauncherDoc.cfg` (`MCLauncher`) | `SessionsClosedByClose` | `launcher.go:464`: Close closes all session connections | it drops them from the pool |
| `MCLauncherDoc.cfg` (`MCLauncher`) | `RestartIsFresh` | `launcher.go:500`: a restart launches afresh | it may join an older launch and get a connection it has just closed |
| `MCCallPipelineBudget.cfg` (`MCCallPipeline`) | `BudgetPerSession` | `README.md:194`: limits are per session | per initialisation; overlapping first calls initialise twice |
| `MCCallPipelineIntegrity.cfg` (`MCCallPipeline`) | `IntegrityIsIntersected` | `docs/GUARD_RESPONSE_LABELING.md:85`: integrity is intersected over the items | with the union of the items' integrity |
| `MCProxyShapes.cfg` (`MCProxy`) | `FilterRemovesItems` | `docs/PROXY_MODE.md:354`: filter mode removes filtered items | `response_transform.go`: an object with `total_count` but neither `items` nor `repositories` is returned as it was |
| `MCStartupDoc.cfg` (`MCStartup`) | `AgentsAreScoped` | `config_core.go:179`: the policy is overridden to `repos="public"` when the repository is public | an agent's own allow-only policy wins at every call (`guard_init.go:320`) and is never overridden (`guard_visibility.go:186`) |
| `MCStartupDoc.cfg` (`MCStartup`) | `ProcessesAreContainerized` | `validation_gateway.go:164`: stdio servers are containerized | a type that is neither stdio nor http, such as `sse`, is not checked and is launched as a process |
| `MCResponsesNotice.cfg` (`MCResponses`) | `WithheldIsTold` | `backend_call.go:498`: a notice tells the agent that items were withheld | an answer by reference (`jqschema.go:696`) drops it |

Seen on reading, without a property of their own: when no agent policies are
configured, the call of a delegated bearer that dies on its way is not refused but
goes on with every tool of its backend (`delegation.go:51`,
`agent_policy_enforce.go:59`), although `docs/DELEGATION.md:114` gives delegated
identities a bounded lifetime; a copy of a signed message that passes the timestamp
check and is then held, before the nonce check or while its body is read, until the
nonce is evicted, is admitted (`hmac.go:159`, `hmac.go:93`); structured content beside
an empty list of content items never reaches the agent (`tool_result.go:92`);
the fast path of the payload middleware
compares the text's length with the threshold, but escaping may make the marshalled
data longer than the margin it leaves; a payload that could not be saved is still
announced with "saved as a JSON file at payloadPath", with an empty path; forcing
public scope supersedes a policy that comes from a guard's own configuration, also
a stricter minimum integrity; `path_labels.go:34` says that unmatched elements
inherit the resource's labels, but they get empty ones; in the single form of path
labels, a label whose pointer spells the collection otherwise than `items_path` is
skipped, and one for something below an element counts for the whole element; the
noop guard accepts any
policy, so a server whose guard could not be loaded enforces none; the TOML loader
does not look at several fields the JSON loader refuses.

### Fairness

* Breaker: the clock runs, clients keep calling, and every call but the hanging
  ones is answered (the tool timeout cuts calls where it is set). Nothing is
  assumed of a hanging probe: recovery rests on `probeStrandedTimeout`.
* Launcher: goroutines that can move do, and every launch ends because of the
  connect and startup timeouts. `MonitorStops` is strongly fair: Go's `select`
  picks at random among ready cases, so a stop that stays ready while ticks keep
  coming is picked in the end.
* Connections: goroutines run, and each request is answered, or failed by its
  deadline; a connect attempt has one, too. Nobody has to send or to close.

## Proofs

TLAPS proves every safety invariant, every action property and both refinements
that a passing run checks, for every value of the constants that satisfies the
modules' assumptions. Each proof module states one
inductive invariant, a conjunction of named parts; one lemma per operation shows
that the operation keeps them, and the theorems follow. TLC has checked each
invariant on the component's run (`BudgetInv` with counts up to the limit).

* `CallPipelineProofs`: `TypeOK`, `SecrecyCarried`, `BlockedNeverDelivered`,
  `CachedGuardIsApplied` and the action property `WritesCoverDelivered`, for any
  sets of calls, servers, tags, requests and responses. `SecrecyCarried` is about
  data already returned and is not inductive; `PipelineInv` adds `Shape` (what a
  call may hold at each phase) and `Cover` (what Phase 5 let through is covered
  by the label already, or in propagate mode will be once Phase 6 has run). Each
  part survives the steps of other calls because the secrecy label only grows
  (`FlowGrows`). `WritesCoverDelivered` follows with the transitivity of the flow
  relation, wildcard included (`FlowTransitive`), and the fact that only Phase 2
  takes a call to the backend (`OnlyCheckReachesBackend`).
  `BudgetPerInitialisation` counts: `BudgetInv` says that the calls admitted for
  a tool are as many as the used `Slots`, the pairs of a stored guard state and a
  number up to that state's count. The set is finite and lies in a product of
  known size; a call that counts in a state takes one slot more, whichever state
  it read before another call stored its own.

  The same module has the circuit breaker, which Phase 3 asks before the backend is
  called: `BreakerTypeOK`, `TrippedHasStreak`, `SlotOnlyHalfOpen` and
  `SlotHeldByProbe`, for any number of calls, threshold and timeouts. Their
  conjunction `BreakerInv` is inductive. The streak needs the bound on the
  counter; that the slot belongs to a probe under way needs that no slot is taken
  outside HALF-OPEN, or an outcome there would leave it behind.
* `DelegationStoreProofs`: `TypeOK`, `IndexConsistent`, `ClosedGateIsEmpty`,
  `TerminalIsForever`, `SavedStateIsRecoverable`, the action property
  `FileOnlyAdvances` and the refinement `KeepsPromise`. None is inductive alone.
  `DelegationInv` adds `LockInv` (one handler between snapshot and write, as
  `persistMu` is held), `HandlersInv` (a snapshot is a state the store was in and
  has only advanced from, and covers the file while the gate is open; a handler
  at "clear" knows that an incomplete store was overridden), `FileInv` (what is in the
  file is in the store unless the gate is closed), `TerminalInv` and `ToldInv` (a disclosed bearer is in the file, or in a store or snapshot on
  its way there, unless an override discarded it). For `KeepsPromise`
  each handler step, crash, restart and tick is shown to be a step of
  `DelegatedBearer` or a stutter, with `live` mapped to `LiveExecutors`.
* `LauncherProofs`: `TypeOK`, `CachedIsOpen`, `NothingCachedAfterClose`,
  `OpenIsOwned`, the action property `PublishNeverReplaces` and the refinement
  `KeepsService`. `LauncherInv`
  adds that a key has at most one launch (`FlightInv`, which is what singleflight
  gives), and that while it has one nothing is cached under that key; that each
  connection has at most one owner among callers and caches (`OwnerInv`); and
  what the monitor holds at each point (`MonitorInv`). Publishing then meets an
  empty slot, and a connection closed by the monitor was in no other cache. For
  `KeepsService` the second invariant `ServedInv` says that whatever is cached, is
  about to be returned or is in use was published under the key of its cache entry
  or call, and that what is about to be published never was. Each step of a caller,
  the monitor, the cleanup and Close is then a step of `SharedBackends` or a stutter:
  the end of a shared launch gives its connection at once to all who joined it.
* `MCPConnectionProofs`: `TypeOK`, `NoSessionLeaked`, `ExecutedOnce` and
  `TokenValidOnArrival`. `ConnectionInv` adds `LockInv` (who reconnects, and
  that only the holder of the lock does), `SessionInv` (what the sessions are
  before the connection is up, during a reconnect and once Close has begun),
  `Counted` (how often a request at each point may have been executed), and
  `TokenInv` (time left and time passed since `Token()` add up to more than the
  margin).
* `GatewayProofs`, for `Gateway` with `RequestSigning` and `ToolRegistry`:
  `TypeOK`, `ServersComplete`, `DelegatedCallsAuthorized` and the action properties
  `NoReplay` and `RegisteredIsFinal`. `GatewayInv` adds that a nonce of an accepted
  message stays recorded as long as the message is fresh, which needs `NonceTTL`
  to be twice the window, as `hmac.go` has it. `NoReplay`, an action property,
  follows: a copy that is admitted found its nonce evicted, so its timestamp has left
  the window since it was checked. `ServersComplete` and `DelegatedCallsAuthorized`
  hold for every legal configuration, and name what a gateway without policies does
  with a dead executor. `GatewayInv` also says that whoever registers a backend
  holds its lock and that a backend is marked registered only with all its tools
  (`RegistryInv`); that no server is built before its backends are
  registered; and what a request has passed at each stage (`RequestInv`).
* `ProxyProofs`: `TypeOK`, `UpstreamSeesOnlyReads`, `GuardIsolation`,
  `CrossRepoWasPublic`, and `AnswersAreReadable`. `ProxyInv` adds that the guard
  serves the request that holds its lock with that request's context
  (`GuardInv`, with the part about `WasmGuard`), that the cache of denials is
  bounded (`CacheInv`), that each message sent was `Permitted` by the
  configuration, and how each request was `Routed`. `AnswersInv` adds what a
  request holds between the phases (`Held`) and has given its client (`Given`).
  `AnswersStayReadable` has the hypothesis that no response is a search envelope,
  as in the run: with envelopes TLC finds it violated, for the reason that
  violates `FilterRemovesItems`.
* `StartupProofs`: `PublicWorkflowIsScoped`, `ForcingOnlyNarrows` and
  `AuthenticationIsOn`, for any servers, written policies, flags and order of
  registration. The hard part is that forcing changes the one global policy again
  with each server while one server's policy stands beside the others': `StartupInv`
  relates the Config to the one that was loaded (`ConfigInv`) and says that what
  has been forced stays forced (`ScopeInv`). `PublicWorkflowIsScoped` is about the
  policy in use, per identity: an agent without a policy of its own, or a delegated
  bearer, has the server's, and one with an allow-only policy has that one still as it
  was loaded (`AgentPoliciesStay`).
* `ResponsesProofs`: `NothingDeniedSurvives` and `AnswerIsComplete`, for every
  document, guard answer, agent label, operation, mode, filter, set of copies and
  number of calls. What must go (nodes whose label, read from the pointers' meaning,
  the call's operation may not touch)
  is contained in what the code denies, and that in what may go
  (`CollectionDenied`, `CollectionsDenied`): a strict pointer leads to the one node
  it names (`StrictIsExact`, `OnePathPerNode`), and the index that the single form
  parses from a pointer finds the element the pointer is about
  (`TokenFindsElement`, `IndexFindsElement`, with `items_path` "/" for the root). `ResponsesInv` then follows the copies: each
  one in a
  call's hands is the filtered document less what is denied (`Fit`), ids are drawn
  once, and a payload file is written and announced by one call only, whoever
  shares its directory.

The assumptions are those of the modules: that model values which stand for "nothing"
are not values, that bounds are natural numbers, in `Proxy` and `Startup`
that the configurations and answers drawn have the types the code gives them, and
in `Responses` that documents hold the nodes above each node and name elements by
canonical numerals, that guard answers are as parsed, and that a response has at
least one copy of its document. TLC
evaluates all of them on every run. `Gateway`'s says what a legal configuration is:
at most one agent with or without agent policies, or several with a policy each,
and signatures checked or not.

Only model-checked:

* Liveness (`Recovers`, `NobodyWaitsForever`, `MonitorGivesUp`, `RequestsReturn`):
  fairness and ENABLED are out of the prover's reach.
* The comparisons of route dispatch and GraphQL selection with their definitions
  (assumptions of `MCProxy`), which would take induction over data. No module has a
  recursive operator; `IncludeFragment` is a recursive function.

## Plan

What would come next, in this order:

1. An abstract set of accepted messages that `Gateway` implements with its nonce
   cache and clock, as `Launcher` implements `SharedBackends`.
2. More of the front end as action properties: what an executor's end and the
   shutdown may never do to a call under way.
3. The two-phase forms that `Proxy` takes as one step, shared with `CallPipeline`.

## Not modelled

Logging and tracing (output only); GraphQL field injection, header and URL
rewriting, the JSON schema, variable expansion and the other string work, whose
questions are about characters; certificates and HTTP plumbing; unified mode, which
takes the steps of routed mode with one server; prompt calls, which forward; the
sys tools, whose backend no start registers; the mount policy, a pure check; the
fixed labellings of the noop and write-sink guards; and the Rust guard, whose
answers are nondeterministic labels here.
