-------------------------------- MODULE Proxy ---------------------------------
(***************************************************************************)
(* The forward proxy (internal/proxy): GitHub API requests of clients are  *)
(* classified, restricted to reads, labelled by one shared WASM guard,     *)
(* forwarded with the right credential, and answered with what the agent   *)
(* may see.  A plain proxy acts for one agent; an enclave proxy for the    *)
(* agent of each capability, bound to an assigned repository; a delegation *)
(* proxy for the delegated identity of each bearer.                        *)
(*                                                                         *)
(* Paths, tools and bodies are classes; the guard's answers and GitHub's   *)
(* are choices.  Filtering and accumulation are one step each here: the    *)
(* call pipeline of the gateway, which shares that code, takes them apart. *)
(***************************************************************************)
EXTENDS DIFCLabels, WasmGuard, GraphQLSelection, RouteTable

CONSTANTS
  Configs,       \* [kind, readOnly, mode, policy, token] that New may be given
  RequestsOf,    \* per kind of proxy: [method, path, odd, doc, repo, cred] of its clients
  Claims,        \* per credential: the [agent, repo, ops, expires] it stands for
  Sensitive,     \* repositories the enclave policy does not call public
  Repos,         \* repositories
  PrivateTag,    \* per repository: the tag private:<repo>
  SecrecyTags, IntegrityTags,
  PolicyLabels,  \* labels that label_agent gives the proxy's agent
  Resources,     \* [labels, op] that LabelResource may answer with
  Labelled,      \* sets of item labels that LabelResponse may answer with
  Shapes,        \* shapes of labelled responses
  DeniedTTL,     \* enclaveVisibilityDeniedCacheTTL
  DeniedItems,   \* maxEnclaveVisibilityDeniedCacheItems
  MaxTime,       \* bound on the clock
  MaxFlips       \* bound on changes of visibility

ProxyAgent == "proxy"
Agents     == {ProxyAgent} \union {Claims[k].agent : k \in DOMAIN Claims}
Label      == [secrecy : SUBSET SecrecyTags, integrity : SUBSET IntegrityTags]
NoCred     == "none"
ServerAuth == "server"

Kinds      == {"plain", "enclave", "delegation"}

ASSUME ProxyAssumption ==
  /\ Configs \subseteq [kind : Kinds, readOnly : BOOLEAN, mode : EnforcementModes,
                        policy : EnforcementModes \union {"none"}, token : BOOLEAN]
  /\ \A k \in Kinds \ {"plain"} : \A r \in RequestsOf[k] : r.repo \in Repos
  /\ \A k \in DOMAIN Claims : Claims[k].repo \in Repos
  /\ PolicyLabels \in Label /\ Labelled \subseteq SUBSET Label
  /\ Resources \subseteq [labels : Label, op : OperationTypes]
  /\ PrivateTag \in [Repos -> SecrecyTags \ {WildcardTag}]
  /\ DeniedTTL \in Nat \ {0} /\ DeniedItems \in Nat \ {0} /\ MaxTime \in Nat /\ MaxFlips \in Nat

VARIABLES
  config,      \* the Server's settings
  labels,      \* AgentRegistry
  req,         \* the handler of each request
  denied,      \* enclaveState.visibilityDecisions: repository -> deniedUntil
  now, public, flips,  \* the clock; repositories that are public; how often that changed
  sent,        \* history: requests sent to GitHub
  answered     \* history: labels of the data given to each client

proxyVars == <<config, labels, req, denied, now, public, flips, sent, answered>>
vars      == <<proxyVars, guardVars>>

-----------------------------------------------------------------------------
(* Start: New and initGuardPolicy.                                         *)

\* Enclave and delegation proxies need a token and a guard policy.
Accepted(cfg) == cfg.kind # "plain" => cfg.policy # "none" /\ cfg.token

\* They always run in propagate mode, so the data's secrecy follows the agent;
\* otherwise the mode that label_agent answered replaces the configured one.
ServerMode(cfg) ==
  IF cfg.kind # "plain" THEN "propagate" ELSE IF cfg.policy # "none" THEN cfg.policy ELSE cfg.mode

NewServer(cfg) ==
  [kind |-> cfg.kind, readOnly |-> cfg.readOnly, token |-> cfg.token,
   ready |-> cfg.policy # "none", mode |-> ServerMode(cfg)]

\* initGuardPolicy gives the proxy's agent its labels.  Any other agent starts
\* with their integrity, and no secrecy (GetOrCreate).
InitialLabels(a) ==
  IF ~config.ready THEN NoLabel
  ELSE IF a = ProxyAgent THEN PolicyLabels ELSE [PolicyLabels EXCEPT !.secrecy = {}]

Idle == [pc |-> "idle", r |-> [path |-> "none"], agent |-> ProxyAgent, max |-> {},
         bounded |-> FALSE, resource |-> NoLabel, op |-> "read", allowed |-> FALSE,
         labelled |-> FALSE, items |-> {}, shown |-> {}, sawPublic |-> FALSE]
Done == [Idle EXCEPT !.pc = "done"]

Init ==
  /\ \E cfg \in Configs : Accepted(cfg) /\ config = NewServer(cfg)
  /\ labels = [a \in Agents |-> InitialLabels(a)]
  /\ req = [c \in Callers |-> Idle]
  /\ denied = [x \in {} |-> 0]
  /\ now = 0 /\ flips = 0
  /\ public \in IF config.kind = "enclave" THEN SUBSET Repos ELSE {Repos}
  /\ sent = {}
  /\ answered = [c \in Callers |-> {}]
  /\ GuardInit

Plain == config.kind = "plain"
At(c, pc) == req[c].pc = pc

\* A request to GitHub, made for the client of c.
Sent(c, method, body, auth) ==
  [for |-> req[c].r.cred, method |-> method, body |-> body, auth |-> auth]

\* An error or an empty answer: no data is given out.
Ends(c) ==
  /\ req' = [req EXCEPT ![c] = Done]
  /\ UNCHANGED <<config, labels, denied, now, public, flips, sent, answered>>

-----------------------------------------------------------------------------
(* Classification: ServeHTTP, validateReadOnlyRequest, planEnclaveRequest. *)

\* A path of each class of requests.
PathOf(class) ==
  LET repo == <<"repos", "o", "r">> IN
  CASE class = "metadata"   -> <<"meta">>
    [] class = "issues"     -> repo \o <<"issues">>
    [] class = "comments"   -> repo \o <<"issues", "1", "comments">>
    [] class = "artifact"   -> repo \o <<"actions", "artifacts", "1", "zip">>
    [] class = "repository" -> repo \o <<"hooks">>
    [] OTHER -> <<class>>

\* readOnlyRequestBody; odd stands for a method override, a body or an unusual
\* path on a REST request, and for a query on a GraphQL one.
ReadOnlyRequest(r) ==
  /\ ~r.odd
  /\ IF r.path = "graphql" THEN r.method = "POST" /\ Select(r.doc) # NoSelection
     ELSE r.method = "GET" /\ SupportedReadOnlyPath(PathOf(r.path))

\* validateReadOnlyRequest: repository-bound clients get no GraphQL at all.
ValidReadOnly(r) == (r.path = "graphql" => Plain) /\ ReadOnlyRequest(r)

\* VerifyAuthorization: a capability that is signed, of this run and policy,
\* and inside its validity window at this moment.
VerifyAuthorization(r) == r.cred \in DOMAIN Claims /\ now < Claims[r.cred].expires

\* MatchEnclaveRoute: the issue routes, with known query keys.
EnclaveRoutes == {"issues", "comments"}

\* planEnclaveRequest: a plain GET of such a route.
EnclaveRequest(r) == r.method = "GET" /\ r.path \in EnclaveRoutes /\ ~r.odd

\* routeAllowedBy: the capability names the operation.
RouteAllowed(r) == r.path \in Claims[r.cred].ops

Admissible(r) ==
  /\ EnclaveRequest(r)
  /\ IF config.kind = "enclave" THEN VerifyAuthorization(r) /\ RouteAllowed(r)
     ELSE r.cred \in DOMAIN Claims

\* graphqlRootFields: what the selected operation asks for, "..." for fragments.
RootFields(doc) == doc.roots

\* MatchGraphQL: introspection alone is metadata; organisations, and fragments
\* that may hide one, are told by the root fields, the rest by the text.
MatchGraphQL(doc) ==
  IF RootFields(doc) \in {{"__type"}, {"__schema"}} THEN "graphql_introspection"
  ELSE IF "organization" \in RootFields(doc) THEN "graphql_organization"
  ELSE IF "..." \in RootFields(doc) /\ doc.mentionsOrganization THEN "none"
  ELSE doc.tool

\* Mutant: any method is forwarded, as long as the path is not GraphQL.
IsReadOfRest(r) == r.path = "graphql" => r.method = "POST" /\ ~r.odd

\* isRead: anything but GET and a GraphQL POST is refused.
IsRead(r) == IF r.path = "graphql" THEN r.method = "POST" /\ ~r.odd ELSE r.method = "GET"

\* handleGraphQL: the tool of the selected operation decides.
GraphQLDestination(r) ==
  IF Select(r.doc) = NoSelection \/ MatchGraphQL(r.doc) = "none" THEN "done"
  ELSE IF MatchGraphQL(r.doc) = "graphql_introspection" THEN "passthrough"
  ELSE "label"

RestDestination(r) == IF MatchRoute(PathOf(r.path)) = NoRoute THEN "unrecognized" ELSE "label"

\* What a plain proxy does with a request, in the order of ServeHTTP.
PlainDestination(r) ==
  IF r.path = "reflect" /\ r.method = "GET" THEN "done"
  ELSE IF MetadataPath(PathOf(r.path)) /\ r.method = "GET" THEN "passthrough"
  ELSE IF ~IsRead(r) THEN "done"
  ELSE LET to == IF r.path = "graphql" THEN GraphQLDestination(r) ELSE RestDestination(r) IN
       IF to = "label" /\ ~config.ready THEN "done" ELSE to

LocalReflection(r) == Plain /\ r.path = "reflect" /\ r.method = "GET"

Destination(r) ==
  IF r.path = "health" \/ (config.readOnly /\ ~LocalReflection(r) /\ ~ValidReadOnly(r)) THEN "done"
  ELSE IF Plain THEN PlainDestination(r)
  ELSE IF Admissible(r) THEN config.kind ELSE "done"

Receive(c) ==
  /\ At(c, "idle")
  /\ \E r \in RequestsOf[config.kind] :
       req' = [req EXCEPT ![c] = IF Destination(r) = "done" THEN Done
                                 ELSE [Idle EXCEPT !.pc = Destination(r), !.r = r,
                                                   !.sawPublic = r.repo \in public]]
  /\ UNCHANGED <<config, labels, denied, now, public, flips, sent, answered, guardVars>>

-----------------------------------------------------------------------------
(* Admission of delegated and enclave requests.                            *)

\* handleDelegatedRequest: the store accepts or refuses the bearer; it has
\* revoked the identity, or the repository is not one of its own.
AuthorizeExecutor(c) ==
  /\ At(c, "delegation")
  /\ \/ Ends(c)
     \/ /\ Claims[req[c].r.cred].repo = req[c].r.repo
        /\ req' = [req EXCEPT ![c].pc = "label", ![c].agent = Claims[req[c].r.cred].agent,
                              ![c].bounded = TRUE, ![c].max = {PrivateTag[req[c].r.repo]}]
        /\ UNCHANGED <<config, labels, denied, now, public, flips, sent, answered>>
  /\ UNCHANGED guardVars

\* seedEnclaveAssignedRepositorySecrecy: an assigned repository that the policy
\* does not call public.
SeedTags(claims) == {PrivateTag[x] : x \in {claims.repo} \intersect Sensitive}

\* handleEnclaveRequest after its checks: the agent's label is seeded before
\* anything is fetched, and another repository must prove to be public.
SeedEnclaveAgent(c) ==
  /\ At(c, "enclave")
  /\ LET claims == Claims[req[c].r.cred] IN
     /\ labels' = [labels EXCEPT ![claims.agent].secrecy = @ \union SeedTags(claims)]
     /\ req' = [req EXCEPT ![c].pc = IF req[c].r.repo = claims.repo THEN "label" ELSE "visibility",
                           ![c].agent = claims.agent, ![c].bounded = TRUE,
                           ![c].max = {PrivateTag[claims.repo]}]
  /\ UNCHANGED <<config, denied, now, public, flips, sent, answered, guardVars>>

DeniedByCache(c) == req[c].r.repo \in DOMAIN denied /\ now < denied[req[c].r.repo]

\* Mutant: a denial that has run out lets the request pass.
CheckVisibilityTrustsExpiry(c) ==
  /\ At(c, "visibility")
  /\ IF DeniedByCache(c) THEN Ends(c)
     ELSE /\ req' = [req EXCEPT ![c].pc =
                       IF req[c].r.repo \in DOMAIN denied THEN "label" ELSE "lookup"]
          /\ UNCHANGED <<config, labels, denied, now, public, flips, sent, answered>>
  /\ UNCHANGED guardVars

\* enclaveRepositoryIsPublic: only denials are cached, so a decision in the
\* cache never lets a request pass.
CheckVisibilityCache(c) ==
  /\ At(c, "visibility")
  /\ IF DeniedByCache(c) THEN Ends(c)
     ELSE /\ req' = [req EXCEPT ![c].pc =
                       IF req[c].r.repo \in DOMAIN denied THEN "clear" ELSE "lookup"]
          /\ UNCHANGED <<config, labels, denied, now, public, flips, sent, answered>>
  /\ UNCHANGED guardVars

\* clearEnclaveVisibilityDenial, whatever the entry has become since.
ClearVisibilityDenial(c) ==
  /\ At(c, "clear")
  /\ denied' = [x \in DOMAIN denied \ {req[c].r.repo} |-> denied[x]]
  /\ req' = [req EXCEPT ![c].pc = "lookup"]
  /\ UNCHANGED <<config, labels, now, public, flips, sent, answered, guardVars>>

\* GitHub answers with the visibility of this moment, or not usefully.
LookupVisibility(c) ==
  /\ At(c, "lookup")
  /\ \E pc \in {"label", "deny"} :
       /\ pc = "label" => req[c].r.repo \in public /\ c \notin gone
       /\ req' = [req EXCEPT ![c].pc = pc]
  /\ sent' = sent \union {Sent(c, "GET", NoSelection, ServerAuth)}
  /\ UNCHANGED <<config, labels, denied, now, public, flips, answered, guardVars>>

\* cacheEnclaveVisibilityDenial: drop what has run out, then, at the limit,
\* one of the oldest entries, then record this denial.
CacheVisibilityDenial(c) ==
  /\ At(c, "deny")
  /\ LET live   == {x \in DOMAIN denied : now < denied[x]}
         oldest == {x \in live : \A y \in live : denied[x] <= denied[y]}
         repo   == req[c].r.repo
     IN \E evicted \in (IF Cardinality(live) >= DeniedItems THEN {{x} : x \in oldest} ELSE {{}}) :
          denied' = [x \in (live \ evicted) \union {repo} |->
                       IF x = repo THEN now + DeniedTTL ELSE denied[x]]
  /\ req' = [req EXCEPT ![c] = Done]
  /\ UNCHANGED <<config, labels, now, public, flips, sent, answered, guardVars>>

-----------------------------------------------------------------------------
(* handleWithDIFC.  The guard is entered twice: for the resource and for   *)
(* the response; errors of the guard end differently in the two.           *)

\* What the guest's calls to restBackendCaller carry: the server's token, else
\* the credential of the request whose backend the guard holds.
EnrichmentAuth(b) == IF config.token THEN ServerAuth ELSE req[b].r.cred

GuestCallsBackend(c) ==
  /\ HostCallBackend(c)
  /\ sent' = IF BackendCallAllowed
             THEN sent \union {Sent(c, "GET", NoSelection, EnrichmentAuth(guard.backend))}
             ELSE sent
  /\ UNCHANGED <<config, labels, req, denied, now, public, flips, answered>>

GuestRetries(c) == GuardRetries(c) /\ UNCHANGED proxyVars

EnterGuard(c) ==
  /\ req[c].pc \in {"label", "respond"}
  /\ GuardEnter(c)
  /\ UNCHANGED proxyVars

\* A guest that was never entered, failed, or trapped.
GuardFails(c) == GuardRefuses(c) \/ GuardLeaves(c) \/ GuardTraps(c)

LabelResourceFails(c) == At(c, "label") /\ GuardFails(c) /\ Ends(c)

LabelResource(c) ==
  /\ At(c, "label") /\ GuardLeaves(c)
  /\ \E res \in Resources :
       req' = [req EXCEPT ![c].pc = "coarse", ![c].resource = res.labels, ![c].op = res.op]
  /\ UNCHANGED <<config, labels, denied, now, public, flips, sent, answered>>

\* Mutant: the limit of the capability is dropped.
MayReadUnlimited(c, resource) == Evaluate(labels[req[c].agent], resource, req[c].op, config.mode)

\* evaluateRead with secrecyPropagationMax: in propagate mode, secrecy outside
\* the capability is denied for good.
OutsideMax(c, resource) ==
  /\ req[c].bounded /\ req[c].op # "write" /\ config.mode = "propagate"
  /\ ~SecrecyFlows(resource.secrecy, req[c].max)

MayRead(c, resource) ==
  ~OutsideMax(c, resource) /\ Evaluate(labels[req[c].agent], resource, req[c].op, config.mode)

\* Phase 2.
CoarseCheck(c) ==
  /\ At(c, "coarse")
  /\ LET x == req[c]  allowed == MayRead(c, x.resource) IN
     IF ~allowed /\ (x.op # "read" \/ MustDeny(x.resource, x.op) \/ OutsideMax(c, x.resource))
     THEN Ends(c)
     ELSE /\ req' = [req EXCEPT ![c].pc = "forward", ![c].allowed = allowed]
          /\ UNCHANGED <<config, labels, denied, now, public, flips, sent, answered>>
  /\ UNCHANGED guardVars

-----------------------------------------------------------------------------
(* Phase 3: forwardToGitHub.                                               *)

\* Enclave and delegation proxies never forward the client's credential.
ForwardAuth(c) ==
  IF Plain /\ req[c].r.cred # NoCred THEN req[c].r.cred
  ELSE IF config.token THEN ServerAuth ELSE NoCred

Forwarded(c) ==
  LET r == req[c].r IN
  Sent(c, r.method, IF r.path = "graphql" THEN Select(r.doc) ELSE NoSelection, ForwardAuth(c))

IsArtifact(c) == req[c].r.path = "artifact"

\* Metadata, introspection and unrecognised paths, which no label protects;
\* the last still pass Phase 6, with empty labels.
ForwardUnlabelled(c) ==
  /\ req[c].pc \in {"passthrough", "unrecognized"}
  /\ sent' = sent \union {Forwarded(c)}
  /\ \/ req' = [req EXCEPT ![c] = Done]
     \/ /\ c \notin gone
        /\ req' = [req EXCEPT ![c].pc = IF At(c, "unrecognized") THEN "accumulate" ELSE "reply",
                              ![c].shown = {NoLabel}]
  /\ UNCHANGED <<config, labels, denied, now, public, flips, answered, guardVars>>

\* An artifact cannot be filtered: it needs access to the resource, and is
\* streamed to the client before Phase 6.
StreamArtifact(c) ==
  /\ At(c, "forward") /\ IsArtifact(c)
  /\ IF ~req[c].allowed THEN Ends(c)
     ELSE /\ sent' = sent \union {Forwarded(c)}
          /\ \/ req' = [req EXCEPT ![c] = Done] /\ UNCHANGED answered
             \/ /\ c \notin gone
                /\ req' = [req EXCEPT ![c].pc = "accumulate", ![c].shown = {req[c].resource}]
                /\ answered' = [answered EXCEPT ![c] = {req[c].resource}]
          /\ UNCHANGED <<config, labels, denied, now, public, flips>>
  /\ UNCHANGED guardVars

\* What GitHub may answer: nothing, a redirect, an error status, a body in an
\* encoding or JSON that cannot be read, an opaque body, or JSON.  A request
\* whose client has left fails.
UpstreamAnswers(c) ==
  IF c \in gone THEN {"failed"} ELSE {"failed", "redirect", "error", "unreadable", "opaque", "json"}

\* The response has no items to label: it is shown whole or not at all.
ShowWhole(c) == [req EXCEPT ![c].pc = "accumulate", ![c].shown = {req[c].resource}]

\* Only JSON goes on to Phase 4; the others need access to the resource.
Forward(c) ==
  /\ At(c, "forward") /\ ~IsArtifact(c)
  /\ sent' = sent \union {Forwarded(c)}
  /\ \E answer \in UpstreamAnswers(c) :
       req' = CASE answer = "json" ->
                     [req EXCEPT ![c].pc = IF ShouldCallLabelResponse(req[c].op, config.mode)
                                           THEN "respond" ELSE "filter"]
                [] /\ answer \in {"redirect", "error", "opaque"} /\ req[c].allowed
                   /\ config.kind = "enclave" => answer = "error" -> ShowWhole(c)
                [] OTHER -> [req EXCEPT ![c] = Done]
  /\ UNCHANGED <<config, labels, denied, now, public, flips, answered, guardVars>>

-----------------------------------------------------------------------------
(* Phases 4 to 6 and the answer.                                           *)

LabelResponse(c) ==
  /\ At(c, "respond") /\ GuardLeaves(c)
  /\ \/ req' = [req EXCEPT ![c].pc = "filter"]
     \/ \E items \in Labelled :
          req' = [req EXCEPT ![c].pc = "filter", ![c].labelled = TRUE, ![c].items = items]
  /\ UNCHANGED <<config, labels, denied, now, public, flips, sent, answered>>

\* On an error of the guard the coarse result decides; an enclave denies.
LabelResponseFails(c) ==
  /\ At(c, "respond") /\ GuardFails(c)
  /\ req' = IF req[c].allowed /\ config.kind # "enclave" THEN ShowWhole(c)
            ELSE [req EXCEPT ![c] = Done]
  /\ UNCHANGED <<config, labels, denied, now, public, flips, sent, answered>>

\* The items in the answer.  A GraphQL response is returned whole when nothing
\* was filtered, else rebuilt around its first list of nodes, or nulled; an
\* array of a REST search is put back under items or repositories.
Shown(c, shape, accessible) ==
  CASE shape = "tree" /\ accessible # req[c].items -> {}
    [] shape = "envelope" /\ req[c].r.path # "graphql" -> req[c].items
    [] OTHER -> accessible

\* Phase 5.  The answer cannot be built, is blocked, is empty or is shown.
Filter(c) ==
  /\ At(c, "filter")
  /\ LET accessible == {i \in req[c].items : MayRead(c, i)} IN
     \/ Ends(c)
     \/ /\ IF req[c].labelled
           THEN /\ config.mode = "strict" => accessible = req[c].items
                /\ \E shape \in Shapes :
                     req' = [req EXCEPT ![c].pc = "accumulate", ![c].shown = Shown(c, shape, accessible)]
           ELSE req[c].allowed /\ req' = ShowWhole(c)
        /\ UNCHANGED <<config, labels, denied, now, public, flips, sent, answered>>
  /\ UNCHANGED guardVars

\* Phase 6: the whole response, filtered items too.
Accumulate(c) ==
  /\ At(c, "accumulate")
  /\ LET overall == IF req[c].labelled THEN AggregateLabels(req[c].items) ELSE req[c].resource IN
     labels' = IF ShouldAccumulateReadLabels(req[c].op, config.mode)
               THEN [labels EXCEPT ![req[c].agent] =
                       [secrecy |-> @.secrecy \union overall.secrecy,
                        integrity |-> @.integrity \intersect overall.integrity]]
               ELSE labels
  /\ req' = [req EXCEPT ![c].pc = "reply"]
  /\ UNCHANGED <<config, denied, now, public, flips, sent, answered, guardVars>>

Reply(c) ==
  /\ At(c, "reply")
  /\ answered' = [answered EXCEPT ![c] = req[c].shown]
  /\ req' = [req EXCEPT ![c] = [Idle EXCEPT !.pc = "answered", !.r = req[c].r, !.agent = req[c].agent,
                                !.op = req[c].op, !.bounded = req[c].bounded, !.max = req[c].max,
                                !.sawPublic = req[c].sawPublic]]
  /\ UNCHANGED <<config, labels, denied, now, public, flips, sent, guardVars>>

-----------------------------------------------------------------------------
(* The environment: clients leave, time passes, repositories change.       *)

InFlight(c) == req[c].pc \notin {"idle", "done", "answered"}

\* It matters to a request that waits for the guard or is in it.
ClientGone(c) == req[c].pc \in {"label", "respond"} /\ CallerGone(c) /\ UNCHANGED proxyVars

Tick ==
  /\ config.kind = "enclave" /\ now < MaxTime
  /\ now' = now + 1
  /\ UNCHANGED <<config, labels, req, denied, public, flips, sent, answered, guardVars>>

ChangeVisibility(repo) ==
  /\ config.kind = "enclave" /\ flips < MaxFlips
  /\ flips' = flips + 1
  /\ public' = IF repo \in public THEN public \ {repo} ELSE public \union {repo}
  /\ req' = [c \in Callers |->
               IF InFlight(c) /\ req[c].r.repo = repo THEN [req[c] EXCEPT !.sawPublic = TRUE] ELSE req[c]]
  /\ UNCHANGED <<config, labels, denied, now, sent, answered, guardVars>>

Step(c) ==
  \/ Receive(c) \/ AuthorizeExecutor(c) \/ SeedEnclaveAgent(c)
  \/ CheckVisibilityCache(c) \/ ClearVisibilityDenial(c) \/ LookupVisibility(c)
  \/ CacheVisibilityDenial(c)
  \/ EnterGuard(c) \/ GuestCallsBackend(c) \/ GuestRetries(c)
  \/ LabelResource(c) \/ LabelResourceFails(c) \/ CoarseCheck(c)
  \/ ForwardUnlabelled(c) \/ StreamArtifact(c) \/ Forward(c)
  \/ LabelResponse(c) \/ LabelResponseFails(c) \/ Filter(c)
  \/ Accumulate(c) \/ Reply(c) \/ ClientGone(c)

\* Every request has its answer; a handler stuck before that is a deadlock.
AllAnswered == (\A c \in Callers : req[c].pc \in {"done", "answered"}) /\ UNCHANGED vars

Next ==
  \/ \E c \in Callers : Step(c)
  \/ Tick
  \/ \E repo \in Repos : ChangeVisibility(repo)
  \/ AllAnswered

Spec == Init /\ [][Next]_vars

-----------------------------------------------------------------------------
(* Properties                                                              *)

\* Type invariant of the proxy and its guard; in particular the denial cache
\* never holds more than its limit.
TypeOK ==
  /\ GuardTypeOK
  /\ labels \in [Agents -> Label]
  /\ DOMAIN denied \subseteq Repos /\ Cardinality(DOMAIN denied) <= DeniedItems
  /\ answered \in [Callers -> SUBSET Label]

\* What a client has been given by a read, its agent may know: nothing blocked, no
\* secrecy the agent's label does not carry by then (a streamed artifact may
\* run ahead of Phase 6), and for a client bound to a repository no secrecy
\* but that repository's.
AnswersAreReadable ==
  \A c \in Callers : \A item \in answered[c] :
    req[c].op # "write" =>
      /\ BlockedTag \notin item.integrity
      /\ \/ SecrecyFlows(item.secrecy, labels[req[c].agent].secrecy)
         \/ IsArtifact(c) /\ At(c, "accumulate")
      /\ req[c].bounded => item.secrecy \subseteq req[c].max

\* Nothing but reads reaches GitHub, whatever the client sends and whatever
\* the guard asks for: a GET, or a GraphQL body whose one operation is a query.
UpstreamSeesOnlyReads ==
  \A m \in sent : \/ m.method = "GET"
                  \/ m.method = "POST" /\ m.body.op.kind = "query"

\* An enclave agent is let through to another repository only if that was
\* public at some moment since its request arrived, however old or full the
\* cache of denials is.
CrossRepoWasPublic ==
  \A c \in Callers :
    /\ config.kind = "enclave" /\ req[c].pc \in {"label", "coarse", "forward", "respond", "filter",
                                                 "accumulate", "reply", "answered"}
    => req[c].r.repo = Claims[req[c].r.cred].repo \/ req[c].sawPublic

\* The shared guard works for one request at a time, with that request's
\* backend and credential, and no client that goes away takes it down.
GuardIsolation ==
  /\ module = "open"
  /\ guard.holder # NoCaller => guard.backend = guard.holder /\ ~guard.failed
  /\ \A m \in sent :
       \/ m.auth = IF config.token THEN ServerAuth ELSE NoCred
       \/ config.kind = "plain" /\ m.auth = m.for

\* docs/PROXY_MODE.md on filter mode: "Removes filtered items, returns
\* remaining", for every shape of response that the guard may label.
FilterRemovesItems ==
  \A c \in Callers :
    At(c, "accumulate") /\ req[c].labelled /\ config.mode = "filter"
      => \A item \in req[c].shown : MayRead(c, item)

===============================================================================
