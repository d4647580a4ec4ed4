----------------------------- MODULE ToolRegistry -----------------------------
(* Discovery and registration of a backend's tools                            *)
(* (internal/server/tool_registry.go).  A process is a startup goroutine or    *)
(* an HTTP request that found its backend not registered yet.  Discovery of    *)
(* one backend is serialised by a lock of its own, but the state that says     *)
(* whether discovery is needed is read before that lock is taken and again     *)
(* after, and a tool becomes visible in two steps: its description first, its  *)
(* handler in a later critical section.                                        *)
EXTENDS Integers, FiniteSets

CONSTANTS
  Processes,     \* who calls ensureToolsRegistered
  Backends,      \* configured backends
  Tools,         \* names of tools
  Allowed,       \* allowedToolSets: backend -> tools its configuration lets through
  Advertised,    \* backend -> the lists of tools it may answer with
  RetryInterval, \* backendRegistrationRetryInterval, in ticks
  NoProcess, NoTool

ASSUME RegistryAssumption ==
  /\ RetryInterval \in Nat
  /\ NoProcess \notin Processes /\ NoTool \notin Tools
  /\ Allowed \in [Backends -> SUBSET Tools]

VARIABLES
  config,        \* what the gateway was started with, a record [agents, policies, signed]
  tools,         \* us.tools: backend -> tool -> absent, described, or handled
  registered,    \* us.registeredBackends
  retryAfter,    \* us.registrationFailures: backend -> end of the deferral, -1 when none
  owner,         \* us.backendRegistration: the process that holds a backend's lock
  todo,          \* tools the discovery under way has still to store
  half,          \* the tool stored without its handler by that discovery
  reg            \* process -> its place in ensureToolsRegistered

\* gateway.agentPolicies: agent -> [servers, tools]; tools is a function of the
\* servers it restricts, "*" standing for every tool.
Policies == config.policies

registryVars == <<tools, registered, retryAfter, owner, todo, half, reg>>

RegPCs == {"none", "read", "lock", "recheck", "discover", "store", "done", "failed", "fatal"}

RegistryInit ==
  /\ tools = [b \in Backends |-> [t \in Tools |-> "absent"]]
  /\ registered = [b \in Backends |-> FALSE]
  /\ retryAfter = [b \in Backends |-> -1]
  /\ owner = [b \in Backends |-> NoProcess]
  /\ todo = [b \in Backends |-> {}]
  /\ half = [b \in Backends |-> NoTool]
  /\ reg = [p \in Processes |-> "none"]

RegGoto(p, to) == reg' = [reg EXCEPT ![p] = to]

\* A recorded failure is answered again until its deferral ends.
Deferred(b, now) == now < retryAfter[b]

\* What the registration state says: nothing to do, wait, or go on.
Verdict(b, now, goOn) ==
  CASE registered[b]    -> "done"
    [] ~registered[b] /\ Deferred(b, now) -> "failed"
    [] OTHER            -> goOn

\* The first read, under registrationMu, before the backend's lock.
RegRead(p, b, now) ==
  /\ reg[p] = "read"
  /\ RegGoto(p, Verdict(b, now, "lock"))
  /\ UNCHANGED <<tools, registered, retryAfter, owner, todo, half>>

RegLock(p, b) ==
  /\ reg[p] = "lock" /\ owner[b] = NoProcess
  /\ owner' = [owner EXCEPT ![b] = p]
  /\ RegGoto(p, "recheck")
  /\ UNCHANGED <<tools, registered, retryAfter, todo, half>>

\* A caller that trusts what it read before it had the lock.
RegTrust(p, b, now) ==
  /\ reg[p] = "recheck"
  /\ RegGoto(p, "discover")
  /\ UNCHANGED <<tools, registered, retryAfter, owner, todo, half>>

\* The second read, with the lock held: someone else may have finished.
RegRecheck(p, b, now) ==
  /\ reg[p] = "recheck"
  /\ RegGoto(p, Verdict(b, now, "discover"))
  /\ owner' = [owner EXCEPT ![b] = IF Verdict(b, now, "discover") = "discover"
                                   THEN p ELSE NoProcess]
  /\ UNCHANGED <<tools, registered, retryAfter, todo, half>>

\* The discovery failed: the failure is remembered and the lock released.
RegFail(p, b, now, how) ==
  /\ retryAfter' = [retryAfter EXCEPT ![b] = now + RetryInterval]
  /\ owner' = [owner EXCEPT ![b] = NoProcess]
  /\ RegGoto(p, how)
  /\ UNCHANGED <<tools, registered, todo, half>>

\* A policy: the servers it permits and, for some, the tools it restricts them to.
AllowsServer(policy, b) == b \in policy.servers

AllowsTool(policy, b, t) ==
  /\ AllowsServer(policy, b)
  /\ b \in DOMAIN policy.tools => policy.tools[b] \cap {"*", t} # {}

\* validateAgentPolicyTools: a policy may only name tools the backend advertises.
PolicyNamesAdvertised(b, advertised) ==
  \A a \in DOMAIN Policies :
    b \in DOMAIN Policies[a].tools => Policies[a].tools[b] \subseteq advertised \cup {"*"}

\* The backend cannot be launched or does not answer tools/list.
RegUnavailable(p, b, now) ==
  reg[p] = "discover" /\ RegFail(p, b, now, "failed")

\* The backend answers with its tools; a policy that names another one is fatal.
RegDiscover(p, b, now) ==
  /\ reg[p] = "discover"
  /\ \E advertised \in Advertised[b] :
       IF PolicyNamesAdvertised(b, advertised)
       THEN /\ todo' = [todo EXCEPT ![b] = advertised \cap Allowed[b]]
            /\ RegGoto(p, "store")
            /\ UNCHANGED <<tools, registered, retryAfter, owner, half>>
       ELSE RegFail(p, b, now, "fatal")

\* us.tools[name] gets an entry whose Handler is still nil.
StoreDescription(p, b) ==
  /\ reg[p] = "store" /\ half[b] = NoTool
  /\ \E t \in todo[b] :
       /\ tools' = [tools EXCEPT ![b][t] = "described"]
       /\ half' = [half EXCEPT ![b] = t]
       /\ todo' = [todo EXCEPT ![b] = @ \ {t}]
  /\ UNCHANGED <<registered, retryAfter, owner, reg>>

\* The entry gets its handler, in a second critical section.
StoreHandler(p, b) ==
  /\ reg[p] = "store" /\ half[b] # NoTool
  /\ tools' = [tools EXCEPT ![b][half[b]] = "handled"]
  /\ half' = [half EXCEPT ![b] = NoTool]
  /\ UNCHANGED <<registered, retryAfter, owner, todo, reg>>

\* A registration announced while tools are still being stored.
RegFinishEarly(p, b) ==
  /\ reg[p] = "store"
  /\ registered' = [registered EXCEPT ![b] = TRUE]
  /\ retryAfter' = [retryAfter EXCEPT ![b] = -1]
  /\ IF todo[b] = {} /\ half[b] = NoTool
     THEN RegGoto(p, "done") /\ owner' = [owner EXCEPT ![b] = NoProcess]
     ELSE UNCHANGED <<reg, owner>>
  /\ UNCHANGED <<tools, todo, half>>

\* Every tool is stored: success is remembered, the lock released.
RegFinish(p, b) ==
  /\ reg[p] = "store" /\ todo[b] = {} /\ half[b] = NoTool
  /\ registered' = [registered EXCEPT ![b] = TRUE]
  /\ retryAfter' = [retryAfter EXCEPT ![b] = -1]
  /\ owner' = [owner EXCEPT ![b] = NoProcess]
  /\ RegGoto(p, "done")
  /\ UNCHANGED <<tools, todo, half>>

\* One step of ensureToolsRegistered by p for b.
RegisterStep(p, b, now) ==
  \/ RegRead(p, b, now)
  \/ RegLock(p, b)
  \/ RegRecheck(p, b, now)
  \/ RegUnavailable(p, b, now)
  \/ RegDiscover(p, b, now)
  \/ StoreDescription(p, b)
  \/ StoreHandler(p, b)
  \/ RegFinish(p, b)

RegistryTypeOK ==
  /\ tools \in [Backends -> [Tools -> {"absent", "described", "handled"}]]
  /\ registered \in [Backends -> BOOLEAN]
  /\ retryAfter \in [Backends -> Int]
  /\ owner \in [Backends -> Processes \cup {NoProcess}]
  /\ todo \in [Backends -> SUBSET Tools]
  /\ half \in [Backends -> Tools \cup {NoTool}]
  /\ reg \in [Processes -> RegPCs]

===============================================================================
