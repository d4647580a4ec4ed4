------------------------------- MODULE Gateway --------------------------------
(* The HTTP front end of the gateway in routed mode, from the middleware chain  *)
(* to the tool handler (internal/server: middleware*.go, routed.go,             *)
(* http_server.go, session.go, agent_policy_enforce.go, delegation.go,          *)
(* guard_init.go, handlers.go, unified_lifecycle.go): a request is              *)
(* authenticated, its signature checked, refused after shutdown, held until its *)
(* backend's tools are registered, given the cached server of its identity, and *)
(* its tool call authorised and bound to the session's own guard.  Startup      *)
(* registration, the executor's lifetime and the shutdown run beside it.        *)
(* What the call does after that is the module CallPipeline.                    *)
EXTENDS RequestSigning, ToolRegistry

CONSTANTS
  Requests,      \* requests that reach the gateway
  Agents,        \* agent identifiers a configuration may name
  Configs,       \* configurations: records [agents, policies, signed]
  Executor,      \* a delegated executor's bearer
  HTTPBackends,  \* backends of type http: only their routes retry the registration
  DelegatedBackend, DelegatedTools,  \* what a delegated executor may use
  SessionTTL,    \* lifetime of an idle cached server, in ticks
  CacheSize,     \* filteredServerCacheMaxSize
  NoServer

\* validateAgentPolicies: only a single agent may do without policies; several
\* agents have one each.
LegalPolicies(c) ==
  \/ DOMAIN c.policies = {} /\ Cardinality(c.agents) <= 1
  \/ DOMAIN c.policies = c.agents

ASSUME GatewayAssumption ==
  /\ Executor \notin Agents
  /\ \A c \in Configs : c.agents \subseteq Agents /\ c.signed \in BOOLEAN /\ LegalPolicies(c)
  /\ Processes = Requests \cup Backends /\ Requests \cap Backends = {}
  /\ SessionTTL \in Nat /\ CacheSize \in Nat \ {0}
  /\ HTTPBackends \subseteq Backends /\ DelegatedBackend \in Backends

VARIABLES
  phase,         \* how the startup launches backends, then whether the gateway serves
  req,           \* request -> how far it is
  used,          \* messages whose signature was accepted once (history)
  live,          \* the delegation store holds the executor's bearer as live
  servers,       \* serverCache: <<backend, agent>> -> [tools, at]
  delegated,     \* delegationServerCache: <<backend, executor>> -> [tools, at]
  sessions,      \* us.sessions: identities that have one
  guards,        \* identity -> its isolated guard: none or open
  closing,       \* the place in InitiateShutdown
  doomed         \* sessions whose guards closeSessionGuards has still to close

frontVars == <<phase, req, used, live, servers, delegated, sessions, guards, closing, doomed>>
vars == <<now, nonces, config, registryVars, frontVars>>

\* isMultiAgent.
MultiAgent == Cardinality(config.agents) > 1

Identities == Agents \cup {Executor}
BadCredentials == {"missing", "malformed", "unknown"}

Idle == [pc |-> "idle", who |-> "missing", backend |-> NoServer, msg |-> NoServer,
         server |-> NoServer, via |-> "none"]

EmptyCache == [k \in {} |-> Idle]

Init ==
  /\ SigningInit /\ RegistryInit
  /\ config \in Configs
  /\ phase \in {"parallel", "sequential"}
  /\ req = [r \in Requests |-> Idle]
  /\ used = {}
  /\ live = TRUE
  /\ servers = EmptyCache /\ delegated = EmptyCache
  /\ sessions = {}
  /\ guards = [i \in Identities |-> "none"]
  /\ closing = "running"
  /\ doomed = {}

At(r, place) == req[r].pc = place
Goto(r, place) == req' = [req EXCEPT ![r].pc = place]
Answer(r) == req' = [req EXCEPT ![r] = [Idle EXCEPT !.pc = "answered"]]

-------------------------------------------------------------------------------
\* Startup: NewUnified registers the tools of every backend before it serves.

\* Sequential startup takes the next backend only when the one before is finished.
StartupBegins(b) ==
  /\ phase \in {"parallel", "sequential"} /\ reg[b] = "none"
  /\ phase = "sequential" =>
       \A c \in Backends \ {b} : reg[c] \in {"none", "done", "failed"}
  /\ RegGoto(b, "read")
  /\ UNCHANGED <<tools, registered, retryAfter, owner, todo, half, now, nonces, frontVars>>

StartupStep(b) == RegisterStep(b, b, now) /\ UNCHANGED <<now, nonces, frontVars>>

\* Failures to reach a backend do not stop the startup; a fatal one does.
StartupEnds ==
  /\ phase \in {"parallel", "sequential"}
  /\ \/ \A b \in Backends : reg[b] \in {"done", "failed", "fatal"}
     \/ phase = "sequential" /\ \E b \in Backends : reg[b] = "fatal"
  /\ phase' = IF \E b \in Backends : reg[b] = "fatal" THEN "failed" ELSE "serving"
  /\ UNCHANGED <<now, nonces, registryVars, req, used, live, servers, delegated,
                 sessions, guards, closing, doomed>>

-------------------------------------------------------------------------------
\* The middleware chain, outermost first.

\* authMiddlewareWithDelegation: a configured key, or the bearer of a live executor.
Authenticated(who) == who \in config.agents \/ (who = Executor /\ live)

\* applyHMACIfConfigured: without a secret no signature is looked at.
FirstCheck == IF config.signed THEN "headers" ELSE "admit"

Arrive(r) ==
  /\ phase = "serving" /\ At(r, "idle")
  /\ \E who \in Identities \cup BadCredentials, b \in Backends, m \in Messages :
       req' = [req EXCEPT ![r] =
                 IF Authenticated(who)
                 THEN [Idle EXCEPT !.pc = FirstCheck, !.who = who, !.backend = b, !.msg = m]
                 ELSE [Idle EXCEPT !.pc = "answered"]]
  /\ UNCHANGED <<now, nonces, registryVars, phase, used, live, servers, delegated,
                 sessions, guards, closing, doomed>>

\* hmacMiddleware, before the body is read: the timestamp is looked at once, ...
CheckTimestamp(r) ==
  /\ At(r, "headers")
  /\ IF Fresh(req[r].msg) THEN Goto(r, "nonce") ELSE Answer(r)
  /\ UNCHANGED <<now, nonces, registryVars, phase, used, live, servers, delegated,
                 sessions, guards, closing, doomed>>

\* ... then the nonce, by a clock of its own that is read under the cache's lock.
CheckNonce(r) ==
  /\ At(r, "nonce")
  /\ SeenNonce
  /\ IF Seen(req[r].msg) THEN Answer(r) ELSE Goto(r, "body")
  /\ UNCHANGED <<now, registryVars, phase, used, live, servers, delegated,
                 sessions, guards, closing, doomed>>

\* The body is read and the signature verified; either may fail.
VerifySignature(r) ==
  /\ At(r, "body")
  /\ Goto(r, "record") \/ Answer(r)
  /\ UNCHANGED <<now, nonces, registryVars, phase, used, live, servers, delegated,
                 sessions, guards, closing, doomed>>

RecordNonce(r) ==
  /\ At(r, "record")
  /\ CheckAndSet(req[r].msg)
  /\ IF Seen(req[r].msg)
     THEN Answer(r) /\ UNCHANGED used
     ELSE Goto(r, "admit") /\ used' = used \cup {req[r].msg}
  /\ UNCHANGED <<now, registryVars, phase, live, servers, delegated,
                 sessions, guards, closing, doomed>>

\* rejectIfShutdown, then rejectDelegatedNonToolMethods: a live executor is held
\* to the tool methods.  The route of an http backend waits for its registration.
Admit(r) ==
  /\ At(r, "admit")
  /\ \E toolMethod \in BOOLEAN :
       IF closing # "running" \/ (req[r].who = Executor /\ live /\ ~toolMethod)
       THEN Answer(r) /\ UNCHANGED reg
       ELSE IF req[r].backend \in HTTPBackends
            THEN req' = [req EXCEPT ![r].pc = "register", ![r].msg = NoServer]
                 /\ RegGoto(r, "read")
            ELSE req' = [req EXCEPT ![r].pc = "establish", ![r].msg = NoServer]
                 /\ UNCHANGED reg
  /\ UNCHANGED <<now, nonces, tools, registered, retryAfter, owner, todo, half, phase,
                 used, live, servers, delegated, sessions, guards, closing, doomed>>

RegisterForRequest(r) ==
  /\ At(r, "register")
  /\ RegisterStep(r, req[r].backend, now)
  /\ UNCHANGED <<now, nonces, frontVars>>

\* requireBackendRegistration: 503 while the backend is not registered.
RegistrationEnds(r) ==
  /\ At(r, "register") /\ reg[r] \in {"done", "failed", "fatal"}
  /\ RegGoto(r, "none")
  /\ IF reg[r] = "done" THEN Goto(r, "establish") ELSE Answer(r)
  /\ UNCHANGED <<now, nonces, tools, registered, retryAfter, owner, todo, half, phase,
                 used, live, servers, delegated, sessions, guards, closing, doomed>>

-------------------------------------------------------------------------------
\* The server of a session: a snapshot of the tools its identity may use, cached.

\* agentPoliciesEnforced: a gateway without policies lets every identity do all.
Enforced == DOMAIN Policies # {}

\* A permission check that lets an identity without a policy through.
CanUseOpen(who, b, t) == who \in DOMAIN Policies => AllowsTool(Policies[who], b, t)

\* agentCanUseTool: under policies, an identity without one may use nothing.
CanUse(who, b, t) ==
  Enforced => who \in DOMAIN Policies /\ AllowsTool(Policies[who], b, t)

\* agentCanAccessServer.
CanAccess(who, b) ==
  Enforced => who \in DOMAIN Policies /\ AllowsServer(Policies[who], b)

\* IsDelegatedTool, on the one backend delegation serves.
DelegatedMay(b, t) == b = DelegatedBackend /\ t \in DelegatedTools

\* registerFilteredTools: a tool without a handler is left out.
Handled(b) == {t \in Tools : tools[b][t] = "handled"}

CreateAgentFilteredServer(b, who) == {t \in Handled(b) : CanUse(who, b, t)}
CreateDelegationFilteredServer(b) == {t \in Handled(b) : DelegatedMay(b, t)}

\* TTLCache.GetOrCreate: idle entries expire, a hit is touched, and when the
\* cache is full the least recently used entry makes room.
Unexpired(cache) == {k \in DOMAIN cache : now - cache[k].at <= SessionTTL}

Roomy(cache, kept, key) ==
  IF key \in kept \/ Cardinality(kept) < CacheSize THEN {kept}
  ELSE {kept \ {k} : k \in {x \in kept : \A y \in kept : cache[x].at <= cache[y].at}}

Value(cache, key, created) ==
  IF key \in Unexpired(cache) THEN cache[key].tools ELSE created

CachesAfter(cache, key, created) ==
  {[k \in kept \cup {key} |->
      IF k = key THEN [tools |-> Value(cache, key, created), at |-> now] ELSE cache[k]]
   : kept \in Roomy(cache, Unexpired(cache), key)}

\* setupSessionCallback and the server factory of the route.
Establish(r) ==
  LET who == req[r].who
      b   == req[r].backend
      key == <<b, who>>
      give(server) == req' = [req EXCEPT ![r].pc = "call", ![r].server = server]
  IN /\ At(r, "establish")
     /\ \/ /\ who = Executor /\ live
           /\ delegated' \in CachesAfter(delegated, key, CreateDelegationFilteredServer(b))
           /\ give(delegated'[key].tools)
           /\ UNCHANGED servers
        \/ /\ ~(who = Executor /\ live) /\ CanAccess(who, b)
           /\ servers' \in CachesAfter(servers, key, CreateAgentFilteredServer(b, who))
           /\ give(servers'[key].tools)
           /\ UNCHANGED delegated
        \/ /\ ~(who = Executor /\ live) /\ ~CanAccess(who, b)
           /\ Answer(r)
           /\ UNCHANGED <<servers, delegated>>
     /\ UNCHANGED <<now, nonces, registryVars, phase, used, live,
                    sessions, guards, closing, doomed>>

-------------------------------------------------------------------------------
\* The tool handler up to the guarded call.

\* requireSession: a tool of the session's server is called; anything else
\* (tools/list, an unknown tool) is answered without a session.
CallTool(r) ==
  /\ At(r, "call")
  /\ \/ /\ req[r].server # {}
        /\ sessions' = sessions \cup {req[r].who}
        /\ Goto(r, "authorize")
     \/ Answer(r) /\ UNCHANGED sessions
  /\ UNCHANGED <<now, nonces, registryVars, phase, used, live, servers, delegated,
                 guards, closing, doomed>>

\* authorizeDelegatedToolCall asks the store again; a bearer that died meanwhile
\* is no longer a delegated one and falls to the agent policies, if there are any.
Authorize(r) ==
  LET who == req[r].who
      b   == req[r].backend
  IN /\ At(r, "authorize")
     /\ \E t \in req[r].server :
          \/ /\ who = Executor /\ live /\ DelegatedMay(b, t)
             /\ req' = [req EXCEPT ![r].pc = "guard", ![r].via = "delegation"]
          \/ /\ ~(who = Executor /\ live) /\ CanUse(who, b, t)
             /\ req' = [req EXCEPT ![r].pc = "guard", ![r].via = "policy"]
          \/ /\ \/ who = Executor /\ live
                \/ ~CanUse(who, b, t)
             /\ Answer(r)
     /\ UNCHANGED <<now, nonces, registryVars, phase, used, live, servers, delegated,
                    sessions, guards, closing, doomed>>

\* guardForSession: with several agents, the session's own guard instance, made on
\* first use; with one, the backend's registered guard.
GuardForSession(r) ==
  /\ At(r, "guard")
  /\ \/ ~MultiAgent /\ Goto(r, "backend") /\ UNCHANGED guards
     \/ /\ MultiAgent
        /\ guards' = [guards EXCEPT ![req[r].who] = "open"]
        /\ Goto(r, "backend")
     \/ MultiAgent /\ guards[req[r].who] = "none" /\ Answer(r) /\ UNCHANGED guards
  /\ UNCHANGED <<now, nonces, registryVars, phase, used, live, servers, delegated,
                 sessions, closing, doomed>>

\* The rest of callBackendTool (module CallPipeline) and the answer.
Finish(r) ==
  /\ At(r, "backend")
  /\ Answer(r)
  /\ UNCHANGED <<now, nonces, registryVars, phase, used, live, servers, delegated,
                 sessions, guards, closing, doomed>>

-------------------------------------------------------------------------------
\* The executor's identity expires or is revoked.
ExecutorEnds ==
  /\ live /\ live' = FALSE
  /\ UNCHANGED <<now, nonces, registryVars, phase, req, used, servers, delegated,
                 sessions, guards, closing, doomed>>

ClockTicks == Tick /\ UNCHANGED <<nonces, registryVars, frontVars>>

\* InitiateShutdown, by a signal, a failed startup or, with one agent, /close (with
\* several it is acknowledged and ignored): requests under way are not waited for.
MarkShutdown ==
  /\ phase \in {"serving", "failed"} /\ closing = "running"
  /\ closing' = "marked"
  /\ UNCHANGED doomed

\* The backends are closed (module Launcher); then closeSessionGuards lists the sessions.
ListSessions ==
  /\ closing = "marked"
  /\ closing' = "guards"
  /\ doomed' = sessions

\* The instances are closed and forgotten, one session at a time.
CloseGuardsOf(i) ==
  /\ closing = "guards" /\ i \in doomed
  /\ doomed' = doomed \ {i}
  /\ guards' = [guards EXCEPT ![i] = "none"]
  /\ UNCHANGED closing

\* Registry.Close and CloseGlobalCompilationCache follow.
CloseCompilationCache ==
  /\ closing = "guards" /\ doomed = {}
  /\ closing' = "closed"
  /\ UNCHANGED doomed

Shutdown ==
  /\ \/ (MarkShutdown \/ ListSessions \/ CloseCompilationCache) /\ UNCHANGED guards
     \/ \E i \in Identities : CloseGuardsOf(i)
  /\ UNCHANGED <<now, nonces, registryVars, phase, req, used, live, servers, delegated, sessions>>

\* The gateway is shut down and no request is under way: the process ends.
Exited ==
  /\ closing = "closed"
  /\ \A r \in Requests : req[r].pc \in {"idle", "answered"}
  /\ UNCHANGED vars

RequestStep(r) ==
  \/ Arrive(r) \/ CheckTimestamp(r) \/ CheckNonce(r) \/ VerifySignature(r) \/ RecordNonce(r)
  \/ Admit(r) \/ RegisterForRequest(r) \/ RegistrationEnds(r)
  \/ Establish(r) \/ CallTool(r) \/ Authorize(r) \/ GuardForSession(r) \/ Finish(r)

Next ==
  /\ \/ \E b \in Backends : StartupBegins(b) \/ StartupStep(b)
     \/ StartupEnds
     \/ \E r \in Requests : RequestStep(r)
     \/ ExecutorEnds
     \/ ClockTicks
     \/ Shutdown
     \/ Exited
  /\ UNCHANGED config

Spec == Init /\ [][Next]_vars

-------------------------------------------------------------------------------
Request ==
  [pc : {"idle", "answered", "headers", "nonce", "body", "record", "admit", "register", "establish",
         "call", "authorize", "guard", "backend"},
   who : Identities \cup {"missing"}, backend : Backends \cup {NoServer},
   msg : Messages \cup {NoServer},
   server : (SUBSET Tools) \cup {NoServer}, via : {"none", "delegation", "policy"}]

\* The variables have their types.
TypeOK ==
  /\ RegistryTypeOK
  /\ config \in Configs
  /\ now \in 0 .. MaxTime
  /\ phase \in {"parallel", "sequential", "serving", "failed"}
  /\ req \in [Requests -> Request]
  /\ used \subseteq Messages
  /\ live \in BOOLEAN
  /\ DOMAIN servers \subseteq Backends \X Identities
  /\ DOMAIN delegated \subseteq Backends \X {Executor}
  /\ Cardinality(DOMAIN servers) <= CacheSize /\ Cardinality(DOMAIN delegated) <= CacheSize
  /\ sessions \subseteq Identities /\ doomed \subseteq Identities
  /\ guards \in [Identities -> {"none", "open"}]
  /\ closing \in {"running", "marked", "guards", "closed"}

\* A signed message is accepted a second time only when its timestamp would no
\* longer pass: the copy passed the check in time and the gateway itself then held
\* it, between its checks or reading its body, until the window had closed.  Every
\* copy that keeps within the window is refused (hmacMiddleware, nonceTTL).
NoReplay ==
  [][\A r \in Requests :
       At(r, "record") /\ At(r, "admit")' /\ req[r].msg \in used => ~Fresh(req[r].msg)]_vars

\* A session's server, cached or in use, offers exactly the tools its identity may
\* use of those the backend has: none is missing because the server was made
\* while the tools were being registered (requireBackendRegistration,
\* createAgentFilteredServer, TTLCache).  An executor is served the delegated tools;
\* only a dead one, at a gateway without policies, is served as an agent would be.
ServersComplete ==
  LET known(b) == {t \in Tools : tools[b][t] # "absent"}
      agentView(b, who) == {t \in known(b) : CanUse(who, b, t)}
      executorView(b) == {t \in known(b) : DelegatedMay(b, t)}
  IN /\ \A k \in DOMAIN servers : servers[k].tools = agentView(k[1], k[2])
     /\ \A k \in DOMAIN delegated : delegated[k].tools = executorView(k[1])
     /\ \A r \in Requests : req[r].server # NoServer =>
          \/ /\ req[r].who # Executor \/ (~live /\ ~Enforced)
             /\ req[r].server = agentView(req[r].backend, req[r].who)
          \/ req[r].who = Executor /\ req[r].server = executorView(req[r].backend)

\* A call made with a delegated bearer goes on only when the delegation store
\* authorised it: a bearer that dies between its authentication and its call is
\* refused by the agent policies.  Without policies, and only then, the call of a
\* dead bearer goes on unasked (authorizeDelegatedToolCall, agentCanUseTool).
DelegatedCallsAuthorized ==
  \A r \in Requests :
    req[r].who = Executor /\ req[r].pc \in {"guard", "backend"} =>
      req[r].via = "delegation" \/ (~Enforced /\ ~live)

\* Once a backend is registered it stays so and its tools stay as they are, however
\* many requests found it unregistered before (ensureToolsRegistered).
RegisteredIsFinal ==
  [][\A b \in Backends : registered[b] => registered'[b] /\ tools'[b] = tools[b]]_vars

\* CloseGlobalCompilationCache "should be called during graceful shutdown, after all
\* WasmGuard runtimes have been closed" (guard/wasm_lifecycle.go).
CacheClosedAfterGuards ==
  closing = "closed" => \A i \in Identities : guards[i] = "none"

===============================================================================
