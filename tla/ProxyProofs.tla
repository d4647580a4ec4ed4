----------------------------- MODULE ProxyProofs ------------------------------
(***************************************************************************)
(* What the forward proxy guarantees, for any number of clients, any       *)
(* configuration, repositories and labels, and any guard.                  *)
(***************************************************************************)
EXTENDS Proxy, FiniteSetTheorems, TLAPS

(***************************************************************************)
(* The invariant.                                                          *)
(***************************************************************************)

Requests  == UNION {RequestsOf[k] : k \in Kinds}
NoRequest == [path |-> "none"]

\* The handler has admitted the request, and goes on to the guard or has answered.
Admitted == {"label", "coarse", "forward", "respond", "filter", "accumulate", "reply", "answered"}

\* An enclave is still deciding about the repository of the request.
Deciding == {"enclave", "visibility", "clear", "lookup", "deny"}

Over == {"idle", "done"}

Handler ==
  [pc : Admitted \union Deciding \union Over \union {"delegation", "passthrough", "unrecognized"},
   r : Requests \union {NoRequest}, agent : Agents, max : SUBSET SecrecyTags, bounded : BOOLEAN,
   resource : Label, op : OperationTypes, allowed : BOOLEAN, labelled : BOOLEAN,
   items : SUBSET Label, shown : SUBSET Label, sawPublic : BOOLEAN]

\* A request that GitHub may see.
Reads(r) ==
  \/ r.method = "GET"
  \/ r.method = "POST" /\ r.path = "graphql" /\ Select(r.doc).op.kind = "query"

\* Which requests are where in a proxy of a kind, and what admitted them; pub are the
\* repositories that are public now.
Routed(x, kind, pub) ==
  /\ x.pc \notin Over => /\ x.r \in RequestsOf[kind] /\ Reads(x.r)
                         /\ kind # "plain" => x.r.cred \in DOMAIN Claims
  /\ x.pc \in Deciding => kind = "enclave"
  /\ x.pc = "delegation" => kind = "delegation"
  /\ x.pc \in {"passthrough", "unrecognized"} => kind = "plain"
  /\ x.bounded => kind # "plain" /\ WildcardTag \notin x.max
  /\ x.pc \notin Over \union {"answered"} /\ x.r.repo \in pub => x.sawPublic
  /\ kind = "enclave" /\ x.pc \in Admitted => x.r.repo = Claims[x.r.cred].repo \/ x.sawPublic

\* Phase 2 and Phase 5 let an item through: it is not blocked, inside the limit of the
\* request, and known to the agent's label unless that follows in Phase 6.
Readable(x, item, mode, lab) ==
  x.op # "write" =>
    /\ BlockedTag \notin item.integrity
    /\ mode # "propagate" => SecrecyFlows(item.secrecy, lab[x.agent].secrecy)
    /\ x.bounded => item.secrecy \subseteq x.max

\* What Phase 6 leaves of that: the label has followed in every mode.
Known(x, item, lab) ==
  x.op # "write" =>
    /\ BlockedTag \notin item.integrity
    /\ SecrecyFlows(item.secrecy, lab[x.agent].secrecy)
    /\ x.bounded => item.secrecy \subseteq x.max

\* The label that Phase 6 adds to the agent's.
Overall(x) == IF x.labelled THEN AggregateLabels(x.items) ELSE x.resource

\* What a handler holds between the phases.
Held(x, mode, lab) ==
  /\ x.pc \notin {"filter", "accumulate", "reply"} => ~x.labelled
  /\ x.pc = "unrecognized" => x.resource = NoLabel
  /\ x.pc \in {"forward", "respond", "filter"} /\ x.allowed => Readable(x, x.resource, mode, lab)
  /\ x.pc = "accumulate" => \A i \in x.shown : /\ Readable(x, i, mode, lab)
                                               /\ i.secrecy \subseteq Overall(x).secrecy
  /\ x.pc = "reply" => \A i \in x.shown : Known(x, i, lab)

\* What its client has been given.
Given(x, lab, ans) ==
  /\ x.pc \notin {"accumulate", "reply", "answered"} => ans = {}
  /\ x.pc \in {"accumulate", "reply"} => ans \subseteq x.shown /\ (ans # {} => x.r.path = "artifact")
  /\ x.pc = "answered" => \A i \in ans : Known(x, i, lab)

\* New accepts no enclave or delegation proxy without a token, and runs both in
\* propagate mode.
ConfigInv ==
  /\ config \in [kind : Kinds, readOnly : BOOLEAN, token : BOOLEAN, ready : BOOLEAN, mode : EnforcementModes]
  /\ config.kind # "plain" => config.token /\ config.mode = "propagate"

\* The guard is healthy whenever someone is in it, and holds that caller's backend.
GuardInv ==
  /\ GuardTypeOK
  /\ module = "open"
  /\ guard.holder # NoCaller => guard.backend = guard.holder /\ ~guard.failed

CacheInv ==
  /\ IsFiniteSet(DOMAIN denied)
  /\ DOMAIN denied \subseteq Repos /\ Cardinality(DOMAIN denied) <= DeniedItems

\* A request to GitHub that may be made under the configuration cfg.
Permitted(m, cfg) ==
  /\ \/ m.method = "GET"
     \/ m.method = "POST" /\ m.body.op.kind = "query"
  /\ \/ m.auth = IF cfg.token THEN ServerAuth ELSE NoCred
     \/ cfg.kind = "plain" /\ m.auth = m.for

\* Handlers, their requests and the answers given.
HandlersInv ==
  /\ req \in [Callers -> Handler]
  /\ answered \in [Callers -> SUBSET Label]
  /\ \A c \in Callers : Routed(req[c], config.kind, public)

AnswersInv ==
  \A c \in Callers : Held(req[c], config.mode, labels) /\ Given(req[c], labels, answered[c])

\* AnswersInv apart, the invariant holds whatever shapes the guard labels.
ProxyInv ==
  /\ ConfigInv
  /\ GuardInv
  /\ labels \in [Agents -> Label]
  /\ CacheInv
  /\ \A m \in sent : Permitted(m, config)
  /\ HandlersInv

(***************************************************************************)
(* The requests that are let in.                                           *)
(***************************************************************************)

\* Only a query is selected from a GraphQL document.
LEMMA SelectsQueries ==
  ASSUME NEW doc, Select(doc) # NoSelection
  PROVE  Select(doc).op.kind = "query"
<1> DEFINE chosen == Candidates(doc)
           op     == doc.operations[CHOOSE i \in chosen : TRUE]
           below  == {IncludeFragment(doc)[{}, s] : s \in op.spreads}
           frags  == UNION {b.referenced : b \in below}
<1>1. /\ op.kind = "query" /\ Select(doc) = [op |-> op, fragments |-> frags]
  BY DEF Select
<1> HIDE DEF op, frags
<1> QED
  BY <1>1

\* Where ServeHTTP sends a request: only reads go anywhere, and a request to
\* an enclave or delegation proxy carries a credential it knows.
LEMMA DestinationReads ==
  ASSUME NEW r, config.kind \in Kinds, Destination(r) # "done"
  PROVE  /\ Reads(r)
         /\ IF Plain THEN Destination(r) \in {"passthrough", "unrecognized", "label"}
            ELSE Destination(r) = config.kind /\ r.cred \in DOMAIN Claims
<1>1. CASE Plain
  <2>1. Destination(r) = PlainDestination(r)
    BY <1>1 DEF Destination
  <2>2. Reads(r)
    BY <2>1, SelectsQueries DEF PlainDestination, GraphQLDestination, IsRead, Reads
  <2>3. PlainDestination(r) \in {"passthrough", "unrecognized", "label"}
    BY <2>1 DEF PlainDestination, GraphQLDestination, RestDestination
  <2> QED
    BY <1>1, <2>1, <2>2, <2>3
<1>2. CASE ~Plain
  <2>1. Admissible(r) /\ Destination(r) = config.kind
    BY <1>2 DEF Destination
  <2> QED
    BY <1>2, <2>1 DEF Admissible, EnclaveRequest, VerifyAuthorization, Reads
<1> QED
  BY <1>1, <1>2

(***************************************************************************)
(* Handlers.                                                               *)
(***************************************************************************)

\* A handler that has not begun, or is over, is a handler.
LEMMA IdleIsHandler ==
  /\ Idle \in Handler /\ Done \in Handler
  /\ Idle.pc = "idle" /\ Done.pc = "done"
  /\ \A x \in {Idle, Done} : ~x.labelled /\ ~x.bounded /\ x.agent = ProxyAgent /\ x.items = {}
<1>1. NoLabel \in Label /\ ProxyAgent \in Agents
  BY DEF NoLabel, Label, Agents
<1>2. Idle \in Handler
  BY <1>1 DEF Idle, Handler, Over, Admitted, NoRequest, OperationTypes
<1>3. Done \in Handler /\ Done = [Idle EXCEPT !.pc = "done"]
  BY <1>2 DEF Done, Handler, Over
<1>4. /\ Idle.pc = "idle" /\ ~Idle.labelled /\ ~Idle.bounded /\ Idle.agent = ProxyAgent
      /\ Idle.items = {}
  BY DEF Idle
<1>5. /\ Done.pc = "done" /\ ~Done.labelled /\ ~Done.bounded /\ Done.agent = ProxyAgent
      /\ Done.items = {}
  BY DEF Done, Idle
<1> QED
  BY <1>2, <1>3, <1>4, <1>5

\* What a handler holds and has given out stays covered while agents' secrecy grows.
LEMMA Calm ==
  ASSUME NEW x \in Handler, NEW mode, NEW lab, NEW lab2, NEW ans,
         \A a \in Agents : lab[a].secrecy \subseteq lab2[a].secrecy,
         Held(x, mode, lab), Given(x, lab, ans)
  PROVE  Held(x, mode, lab2) /\ Given(x, lab2, ans)
<1>1. x.agent \in Agents
  BY DEF Handler
<1>2. ASSUME NEW i PROVE SecrecyFlows(i.secrecy, lab[x.agent].secrecy)
                           => SecrecyFlows(i.secrecy, lab2[x.agent].secrecy)
  BY <1>1 DEF SecrecyFlows
<1>3. ASSUME NEW i PROVE /\ Readable(x, i, mode, lab) => Readable(x, i, mode, lab2)
                         /\ Known(x, i, lab) => Known(x, i, lab2)
  BY <1>2 DEF Readable, Known
<1>4. Held(x, mode, lab2)
  BY <1>3 DEF Held
<1>5. Given(x, lab2, ans)
  BY <1>3 DEF Given
<1> QED
  BY <1>4, <1>5

\* A step keeps the invariant, and the answers readable if they were.
Kept == ProxyInv' /\ (AnswersInv => AnswersInv')

\* A handler that is replaced by one that may be where it is.
LEMMA StepKeeps ==
  ASSUME ProxyInv, NEW c \in Callers, NEW x \in Handler, req' = [req EXCEPT ![c] = x],
         config' = config, public' = public, GuardInv', CacheInv',
         \A m \in sent' : Permitted(m, config),
         labels' \in [Agents -> Label],
         \A a \in Agents : labels[a].secrecy \subseteq labels'[a].secrecy,
         answered' \in [Callers -> SUBSET Label],
         \A d \in Callers \ {c} : answered'[d] = answered[d],
         Routed(x, config.kind, public),
         AnswersInv => Held(x, config.mode, labels') /\ Given(x, labels', answered'[c])
  PROVE  Kept
<1>1. /\ req \in [Callers -> Handler] /\ req' \in [Callers -> Handler]
      /\ req'[c] = x /\ \A d \in Callers \ {c} : req'[d] = req[d]
  BY DEF ProxyInv, HandlersInv
<1>2. \A d \in Callers : Routed(req'[d], config'.kind, public')
  BY <1>1 DEF ProxyInv, HandlersInv
<1>3. HandlersInv'
  BY <1>1, <1>2 DEF HandlersInv
<1>4. ProxyInv'
  BY <1>3 DEF ProxyInv, ConfigInv
<1>5. ASSUME AnswersInv, NEW d \in Callers
      PROVE  Held(req'[d], config'.mode, labels') /\ Given(req'[d], labels', answered'[d])
  <2>1. CASE d = c
    BY <1>1, <1>5, <2>1
  <2>2. CASE d # c
    <3>1. req'[d] = req[d] /\ answered'[d] = answered[d] /\ req[d] \in Handler
      BY <1>1, <2>2
    <3>2. Held(req[d], config.mode, labels) /\ Given(req[d], labels, answered[d])
      BY <1>5 DEF AnswersInv
    <3> QED
      BY <3>1, <3>2, Calm
  <2> QED
    BY <2>1, <2>2
<1>6. AnswersInv => AnswersInv'
  BY <1>5 DEF AnswersInv
<1> QED
  BY <1>4, <1>6 DEF Kept

\* A step that moves one handler, and changes no label, denial, answer or message.
LEMMA MoveKeeps ==
  ASSUME ProxyInv, NEW c \in Callers, NEW x \in Handler, req' = [req EXCEPT ![c] = x], GuardInv',
         UNCHANGED <<config, labels, denied, public, sent, answered>>,
         Routed(x, config.kind, public),
         AnswersInv => Held(x, config.mode, labels) /\ Given(x, labels, answered[c])
  PROVE  Kept
<1>1. CacheInv' /\ labels' \in [Agents -> Label] /\ answered' \in [Callers -> SUBSET Label]
  BY DEF ProxyInv, HandlersInv, CacheInv
<1>2. \A m \in sent' : Permitted(m, config)
  BY DEF ProxyInv
<1> QED
  BY <1>1, <1>2, StepKeeps

\* A handler that answers nobody has given nothing.
LEMMA NothingGiven ==
  ASSUME NEW c \in Callers, AnswersInv, req[c].pc \notin {"accumulate", "reply", "answered"}
  PROVE  answered[c] = {}
BY DEF AnswersInv, Given

\* A handler that is over.
LEMMA OverIsCalm ==
  ASSUME NEW x \in {Idle, Done}, NEW kind, NEW pub, NEW mode, NEW lab
  PROVE  Routed(x, kind, pub) /\ Held(x, mode, lab) /\ Given(x, lab, {})
<1>1. x.pc \in Over /\ ~x.labelled /\ ~x.bounded
  BY IdleIsHandler DEF Over
<1>2. x.pc \notin Admitted \union Deciding
  BY <1>1 DEF Over, Admitted, Deciding
<1>3. Routed(x, kind, pub)
  BY <1>1, <1>2 DEF Routed, Over, Deciding
<1>4. Held(x, mode, lab)
  BY <1>1 DEF Held, Over
<1>5. Given(x, lab, {})
  BY <1>1 DEF Given, Over
<1> QED
  BY <1>3, <1>4, <1>5

\* An error or an empty answer ends the request.
LEMMA EndsKeeps ==
  ASSUME ProxyInv, NEW c \in Callers, req[c].pc \notin {"accumulate", "reply", "answered"},
         Ends(c), GuardInv'
  PROVE  Kept
<1>1. AnswersInv => Held(Done, config.mode, labels) /\ Given(Done, labels, answered[c])
  BY NothingGiven, OverIsCalm
<1> QED
  BY <1>1, IdleIsHandler, OverIsCalm, MoveKeeps DEF Ends

(***************************************************************************)
(* The guard.                                                              *)
(***************************************************************************)

\* Whatever a caller does with the guard, it stays healthy while it is held, with the
\* backend of who holds it.
LEMMA GuardKeeps ==
  ASSUME GuardInv, NEW c \in Callers,
         \/ UNCHANGED guardVars \/ CallerGone(c) \/ GuardEnter(c) \/ GuardRefuses(c)
         \/ HostCallBackend(c) \/ GuardRetries(c) \/ GuardLeaves(c) \/ GuardTraps(c)
  PROVE  GuardInv'
<1> DEFINE Instance == [holder : Callers \union {NoCaller}, backend : Callers \union {NoCaller},
                       calls : 0..MaxBackendCalls + 1, attempt : 0..MaxAttempts,
                       size : 0..MaxOutput, failed : BOOLEAN]
<1>1. /\ guard \in Instance /\ module = "open" /\ gone \subseteq Callers
      /\ guard.holder # NoCaller => guard.backend = guard.holder /\ ~guard.failed
  BY DEF GuardInv, GuardTypeOK
<1>2. SUFFICES /\ guard' \in Instance /\ module' = "open" /\ gone' \subseteq Callers
               /\ guard'.holder # NoCaller => guard'.backend = guard'.holder /\ ~guard'.failed
  BY DEF GuardInv, GuardTypeOK
<1>3. /\ MaxBackendCalls \in Nat /\ MaxAttempts \in Nat \ {0} /\ MaxOutput \in Nat \ {0}
      /\ RequiredSizes \subseteq Nat /\ NoCaller \notin Callers
  BY WasmGuardAssumption DEF WasmGuardAssumption
<1>4. CASE UNCHANGED guardVars
  BY <1>1, <1>4 DEF guardVars
<1>5. CASE CallerGone(c)
  BY <1>1, <1>5 DEF CallerGone, WasmExecContext
<1>6. CASE GuardEnter(c)
  <2>1. /\ guard' = [guard EXCEPT !.holder = c, !.backend = c, !.calls = 0, !.attempt = 1, !.size = 1]
        /\ ~guard.failed /\ UNCHANGED <<module, gone>>
    BY <1>6 DEF GuardEnter
  <2>2. 1 \in 0..MaxAttempts /\ 1 \in 0..MaxOutput /\ 0 \in 0..MaxBackendCalls + 1
    BY <1>3
  <2>3. /\ guard' \in Instance
        /\ guard'.holder = c /\ guard'.backend = c /\ guard'.failed = guard.failed
    BY <1>1, <2>1, <2>2
  <2> QED
    BY <1>1, <2>1, <2>3
<1>7. CASE GuardRefuses(c)
  BY <1>1, <1>7 DEF GuardRefuses
<1>8. CASE HostCallBackend(c)
  <2>1. guard.calls + 1 \in 0..MaxBackendCalls + 1
    BY <1>1, <1>3, <1>8 DEF HostCallBackend
  <2> QED
    BY <1>1, <1>8, <2>1 DEF HostCallBackend
<1>9. CASE GuardRetries(c)
  <2>1. PICK required \in RequiredSizes :
           /\ CanRetry(required)
           /\ guard' = [guard EXCEPT !.attempt = @ + 1, !.size = NextSize(required)]
    BY <1>9 DEF GuardRetries
  <2>2. NextSize(required) \in 0..MaxOutput
    BY <1>1, <1>3, <2>1 DEF CanRetry, NextSize
  <2>3. guard.attempt + 1 \in 0..MaxAttempts
    BY <1>1, <1>3, <2>1 DEF CanRetry
  <2> QED
    BY <1>1, <1>9, <2>1, <2>2, <2>3 DEF GuardRetries
<1>10. ASSUME GuardLeaves(c) \/ GuardTraps(c) PROVE guard' \in Instance /\ guard'.holder = NoCaller
  <2>1. 0 \in 0..MaxAttempts /\ 0 \in 0..MaxOutput /\ 0 \in 0..MaxBackendCalls + 1
    BY <1>3
  <2>2. Unlocked \in Instance /\ Unlocked.holder = NoCaller
    BY <1>1, <2>1 DEF Unlocked
  <2> QED
    BY <1>10, <2>2 DEF GuardLeaves, GuardTraps
<1>11. CASE GuardLeaves(c)
  BY <1>1, <1>10, <1>11 DEF GuardLeaves
<1>12. CASE GuardTraps(c)
  BY <1>1, <1>10, <1>12 DEF GuardTraps
<1> QED
  BY <1>4, <1>5, <1>6, <1>7, <1>8, <1>9, <1>11, <1>12

(***************************************************************************)
(* Admission.                                                              *)
(***************************************************************************)

\* What is known of a handler that has a request.
LEMMA AtFacts ==
  ASSUME ProxyInv, NEW c \in Callers
  PROVE  /\ req[c] \in Handler /\ Routed(req[c], config.kind, public)
         /\ config.kind \in Kinds /\ req \in [Callers -> Handler]
         /\ AnswersInv => Held(req[c], config.mode, labels) /\ Given(req[c], labels, answered[c])
BY DEF ProxyInv, HandlersInv, ConfigInv, AnswersInv

\* Receive: the request goes where ServeHTTP sends it.
LEMMA ReceiveKeeps ==
  ASSUME ProxyInv, NEW c \in Callers, Receive(c)
  PROVE  Kept
<1>1. GuardInv'
  BY GuardKeeps DEF Receive, guardVars, ProxyInv
<1>2. PICK r \in RequestsOf[config.kind] :
         req' = [req EXCEPT ![c] = IF Destination(r) = "done" THEN Done
                                   ELSE [Idle EXCEPT !.pc = Destination(r), !.r = r,
                                                     !.sawPublic = r.repo \in public]]
  BY DEF Receive
<1>3. At(c, "idle") /\ UNCHANGED <<config, labels, denied, public, sent, answered>>
  BY DEF Receive
<1>4. CASE Destination(r) = "done"
  <2>1. Ends(c)
    BY <1>2, <1>4 DEF Receive, Ends
  <2> QED
    BY <1>1, <1>3, <2>1, EndsKeeps DEF At
<1>5. CASE Destination(r) # "done"
  <2> DEFINE x == [Idle EXCEPT !.pc = Destination(r), !.r = r, !.sawPublic = r.repo \in public]
  <2>1. config.kind \in Kinds
    BY AtFacts
  <2>2. /\ Reads(r)
        /\ IF Plain THEN Destination(r) \in {"passthrough", "unrecognized", "label"}
           ELSE Destination(r) = config.kind /\ r.cred \in DOMAIN Claims
    BY <1>5, <2>1, DestinationReads
  <2>3. r \in Requests
    BY <2>1 DEF Requests
  <2>4. Destination(r) \in {"passthrough", "unrecognized", "label", "enclave", "delegation"}
    BY <2>1, <2>2 DEF Kinds, Plain
  <2> DEFINE to  == Destination(r)
             saw == r.repo \in public
  <2>10. /\ x = [Idle EXCEPT !.pc = to, !.r = r, !.sawPublic = saw] /\ saw \in BOOLEAN
         /\ to \in {"passthrough", "unrecognized", "label", "enclave", "delegation"}
    BY <2>4
  <2> HIDE DEF to, saw, x
  <2>11. to \in Admitted \union Deciding \union Over \union {"delegation", "passthrough", "unrecognized"}
    BY <2>10 DEF Admitted, Deciding
  <2>12. x \in Handler
    BY <2>3, <2>10, <2>11, IdleIsHandler DEF Handler
  <2>13. /\ x.pc = to /\ x.r = r /\ x.sawPublic = saw /\ x.labelled = Idle.labelled
         /\ x.bounded = Idle.bounded /\ x.resource = NoLabel
    BY <2>10 DEF Idle
  <2>5. x.pc = Destination(r) /\ x.sawPublic = (r.repo \in public)
    BY <2>13 DEF to, saw
  <2>6. ~x.labelled /\ ~x.bounded /\ req' = [req EXCEPT ![c] = x]
    BY <1>2, <1>5, <2>13, IdleIsHandler DEF x
  <2>7. Routed(x, config.kind, public)
    <3>1. CASE Plain
      <4>1. config.kind = "plain" /\ x.pc \in {"passthrough", "unrecognized", "label"}
        BY <2>2, <2>5, <3>1 DEF Plain
      <4> QED
        BY <2>2, <2>5, <2>6, <2>13, <4>1 DEF Routed, Over, Deciding
    <3>2. CASE ~Plain
      <4>1. config.kind \in {"enclave", "delegation"} /\ x.pc = config.kind /\ r.cred \in DOMAIN Claims
        BY <2>1, <2>2, <2>5, <3>2 DEF Plain, Kinds
      <4> QED
        BY <2>2, <2>5, <2>6, <2>13, <4>1 DEF Routed, Over, Deciding, Admitted
    <3> QED
      BY <3>1, <3>2
  <2>8. Held(x, config.mode, labels)
    BY <2>4, <2>5, <2>6, <2>13 DEF Held
  <2>9. AnswersInv => Given(x, labels, answered[c])
    BY <1>3, <2>4, <2>5, NothingGiven DEF Given, At
  <2> QED
    BY <1>1, <1>3, <2>6, <2>7, <2>8, <2>9, <2>12, MoveKeeps
<1> QED
  BY <1>4, <1>5

\* A handler that only moves on.
LEMMA Moved ==
  ASSUME NEW x \in Handler,
         NEW pc \in Admitted \union Deciding \union Over \union {"delegation", "passthrough", "unrecognized"}
  PROVE  LET y == [x EXCEPT !.pc = pc] IN
         /\ y \in Handler
         /\ y.pc = pc /\ y.r = x.r /\ y.agent = x.agent /\ y.max = x.max /\ y.bounded = x.bounded
         /\ y.resource = x.resource /\ y.op = x.op /\ y.allowed = x.allowed
         /\ y.labelled = x.labelled /\ y.items = x.items /\ y.shown = x.shown
         /\ y.sawPublic = x.sawPublic
BY DEF Handler

\* The private tag of a repository, and the limit it makes.
LEMMA Limits ==
  ASSUME NEW repo \in Repos
  PROVE  {PrivateTag[repo]} \in SUBSET SecrecyTags /\ WildcardTag \notin {PrivateTag[repo]}
BY ProxyAssumption DEF ProxyAssumption

\* handleDelegatedRequest admits the request for its own repository.
LEMMA AuthorizeExecutorKeeps ==
  ASSUME ProxyInv, NEW c \in Callers, AuthorizeExecutor(c)
  PROVE  Kept
<1>1. GuardInv' /\ At(c, "delegation")
  BY GuardKeeps DEF AuthorizeExecutor, ProxyInv
<1>2. CASE Ends(c)
  BY <1>1, <1>2, EndsKeeps DEF At
<1>3. CASE /\ req' = [req EXCEPT ![c].pc = "label", ![c].agent = Claims[req[c].r.cred].agent,
                                 ![c].bounded = TRUE, ![c].max = {PrivateTag[req[c].r.repo]}]
           /\ UNCHANGED <<config, labels, denied, now, public, flips, sent, answered>>
  <2> DEFINE a == Claims[req[c].r.cred].agent
             m == {PrivateTag[req[c].r.repo]}
             x == [req[c] EXCEPT !.pc = "label", !.agent = a, !.bounded = TRUE, !.max = m]
  <2>1. /\ req[c] \in Handler /\ Routed(req[c], config.kind, public)
        /\ req[c].pc = "delegation" /\ req \in [Callers -> Handler]
    BY <1>1, AtFacts DEF At
  <2>2. /\ config.kind = "delegation" /\ req[c].r \in RequestsOf["delegation"]
        /\ req[c].r.cred \in DOMAIN Claims /\ Reads(req[c].r)
        /\ req[c].r.repo \in public => req[c].sawPublic
    BY <2>1 DEF Routed, Over
  <2>3. req[c].r.repo \in Repos
    BY <2>2, ProxyAssumption DEF ProxyAssumption, Kinds
  <2>4. a \in Agents /\ m \in SUBSET SecrecyTags /\ WildcardTag \notin m
    BY <2>2, <2>3, Limits DEF Agents
  <2>5. req' = [req EXCEPT ![c] = x]
    BY <1>3, <2>1
  <2> HIDE DEF a, m
  <2>6. /\ x \in Handler
        /\ x.pc = "label" /\ x.r = req[c].r /\ x.max = m /\ x.bounded /\ x.resource = req[c].resource
        /\ x.labelled = req[c].labelled /\ x.sawPublic = req[c].sawPublic
    BY <2>1, <2>4 DEF Handler, Admitted
  <2> HIDE DEF x
  <2>7. Routed(x, config.kind, public)
    BY <2>2, <2>4, <2>6 DEF Routed, Over, Deciding
  <2>8. AnswersInv => Held(x, config.mode, labels) /\ Given(x, labels, answered[c])
    <3>1. AnswersInv => ~req[c].labelled /\ answered[c] = {}
      BY <2>1, AtFacts, NothingGiven DEF Held
    <3> QED
      BY <2>6, <3>1 DEF Held, Given
  <2> QED
    BY <1>1, <1>3, <2>5, <2>6, <2>7, <2>8, MoveKeeps
<1> QED
  BY <1>2, <1>3 DEF AuthorizeExecutor

\* The agent of an enclave request is seeded before anything is fetched.
LEMMA SeedEnclaveAgentKeeps ==
  ASSUME ProxyInv, NEW c \in Callers, SeedEnclaveAgent(c)
  PROVE  Kept
<1> DEFINE k   == req[c].r.cred
           a   == Claims[k].agent
           own == req[c].r.repo = Claims[k].repo
           pc  == IF own THEN "label" ELSE "visibility"
           m   == {PrivateTag[Claims[k].repo]}
           x   == [req[c] EXCEPT !.pc = pc, !.agent = a, !.bounded = TRUE, !.max = m]
<1>1. /\ req[c] \in Handler /\ Routed(req[c], config.kind, public)
      /\ req[c].pc = "enclave" /\ req \in [Callers -> Handler]
  BY AtFacts DEF At, SeedEnclaveAgent
<1>2. /\ config.kind = "enclave" /\ req[c].r \in RequestsOf["enclave"]
      /\ k \in DOMAIN Claims /\ Reads(req[c].r)
      /\ req[c].r.repo \in public => req[c].sawPublic
  BY <1>1 DEF Routed, Over, Deciding
<1>3. Claims[k].repo \in Repos
  BY <1>2, ProxyAssumption DEF ProxyAssumption
<1>4. a \in Agents /\ m \in SUBSET SecrecyTags /\ WildcardTag \notin m
  BY <1>2, <1>3, Limits DEF Agents
<1>5. SeedTags(Claims[k]) \subseteq SecrecyTags
  BY <1>3, Limits DEF SeedTags
<1>6. /\ req' = [req EXCEPT ![c] = x]
      /\ labels' = [labels EXCEPT ![a].secrecy = @ \union SeedTags(Claims[k])]
      /\ UNCHANGED <<config, denied, public, sent, answered, guardVars>>
  BY <1>1 DEF SeedEnclaveAgent
<1>7. /\ labels' \in [Agents -> Label]
      /\ \A b \in Agents : labels[b].secrecy \subseteq labels'[b].secrecy
  BY <1>4, <1>5, <1>6 DEF ProxyInv, Label
<1>8. pc \in {"label", "visibility"} /\ (pc = "label" => own)
  OBVIOUS
<1> HIDE DEF pc, a, m
<1>9. /\ x \in Handler
      /\ x.pc = pc /\ x.r = req[c].r /\ x.max = m /\ x.bounded /\ x.resource = req[c].resource
      /\ x.labelled = req[c].labelled /\ x.sawPublic = req[c].sawPublic
  BY <1>1, <1>4, <1>8 DEF Handler, Admitted, Deciding
<1> HIDE DEF x
<1>10. Routed(x, config.kind, public)
  BY <1>2, <1>4, <1>8, <1>9 DEF Routed, Over, Deciding, Admitted
<1>11. AnswersInv => Held(x, config.mode, labels') /\ Given(x, labels', answered'[c])
  <2>1. AnswersInv => ~req[c].labelled /\ answered[c] = {}
    BY <1>1, AtFacts, NothingGiven DEF Held
  <2> QED
    BY <1>6, <1>8, <1>9, <2>1 DEF Held, Given
<1>12. GuardInv' /\ CacheInv' /\ answered' \in [Callers -> SUBSET Label]
  BY <1>6, GuardKeeps DEF ProxyInv, HandlersInv, CacheInv
<1>13. \A n \in sent' : Permitted(n, config)
  BY <1>6 DEF ProxyInv
<1> QED
  BY <1>6, <1>7, <1>9, <1>10, <1>11, <1>12, <1>13, StepKeeps

\* enclaveRepositoryIsPublic finds a denial that stands, one that has run out, or none.
LEMMA CheckVisibilityCacheKeeps ==
  ASSUME ProxyInv, NEW c \in Callers, CheckVisibilityCache(c)
  PROVE  Kept
<1>1. GuardInv' /\ At(c, "visibility")
  BY GuardKeeps DEF CheckVisibilityCache, ProxyInv
<1>2. CASE DeniedByCache(c)
  BY <1>1, <1>2, EndsKeeps DEF At, CheckVisibilityCache
<1>3. CASE ~DeniedByCache(c)
  <2> DEFINE pc == IF req[c].r.repo \in DOMAIN denied THEN "clear" ELSE "lookup"
             x  == [req[c] EXCEPT !.pc = pc]
  <2>1. /\ req[c] \in Handler /\ Routed(req[c], config.kind, public)
        /\ req[c].pc = "visibility" /\ req \in [Callers -> Handler]
    BY <1>1, AtFacts DEF At
  <2>2. pc \in {"clear", "lookup"}
    OBVIOUS
  <2>3. /\ req' = [req EXCEPT ![c] = x]
        /\ UNCHANGED <<config, labels, denied, public, sent, answered>>
    BY <1>3, <2>1 DEF CheckVisibilityCache
  <2> HIDE DEF pc
  <2>4. /\ x \in Handler
        /\ x.pc = pc /\ x.r = req[c].r /\ x.max = req[c].max /\ x.bounded = req[c].bounded
        /\ x.labelled = req[c].labelled /\ x.sawPublic = req[c].sawPublic
    BY <2>1, <2>2, Moved DEF Deciding
  <2> HIDE DEF x
  <2>5. Routed(x, config.kind, public)
    BY <2>1, <2>2, <2>4 DEF Routed, Over, Deciding, Admitted
  <2>6. AnswersInv => Held(x, config.mode, labels) /\ Given(x, labels, answered[c])
    <3>1. AnswersInv => ~req[c].labelled /\ answered[c] = {}
      BY <2>1, AtFacts, NothingGiven DEF Held
    <3> QED
      BY <2>2, <2>4, <3>1 DEF Held, Given
  <2> QED
    BY <1>1, <2>3, <2>4, <2>5, <2>6, MoveKeeps
<1> QED
  BY <1>2, <1>3

\* A denial that has run out leaves the cache.
LEMMA ClearVisibilityDenialKeeps ==
  ASSUME ProxyInv, NEW c \in Callers, ClearVisibilityDenial(c)
  PROVE  Kept
<1> DEFINE x == [req[c] EXCEPT !.pc = "lookup"]
<1>1. /\ req[c] \in Handler /\ Routed(req[c], config.kind, public)
      /\ req[c].pc = "clear" /\ req \in [Callers -> Handler]
  BY AtFacts DEF At, ClearVisibilityDenial
<1>2. /\ req' = [req EXCEPT ![c] = x]
      /\ UNCHANGED <<config, labels, public, sent, answered, guardVars>>
  BY <1>1 DEF ClearVisibilityDenial
<1>3. /\ x \in Handler
      /\ x.pc = "lookup" /\ x.r = req[c].r /\ x.max = req[c].max /\ x.bounded = req[c].bounded
      /\ x.labelled = req[c].labelled /\ x.sawPublic = req[c].sawPublic
  BY <1>1, Moved DEF Deciding
<1> HIDE DEF x
<1>4. Routed(x, config.kind, public)
  BY <1>1, <1>3 DEF Routed, Over, Deciding, Admitted
<1>5. AnswersInv => Held(x, config.mode, labels) /\ Given(x, labels, answered[c])
  <2>1. AnswersInv => ~req[c].labelled /\ answered[c] = {}
    BY <1>1, AtFacts, NothingGiven DEF Held
  <2> QED
    BY <1>3, <2>1 DEF Held, Given
<1>6. CacheInv'
  <2>1. DOMAIN denied' = DOMAIN denied \ {req[c].r.repo}
    BY DEF ClearVisibilityDenial
  <2>2. /\ IsFiniteSet(DOMAIN denied) /\ DOMAIN denied \subseteq Repos
        /\ Cardinality(DOMAIN denied) <= DeniedItems
    BY DEF ProxyInv, CacheInv
  <2>3. IsFiniteSet(DOMAIN denied') /\ Cardinality(DOMAIN denied') <= Cardinality(DOMAIN denied)
    BY <2>1, <2>2, FS_Subset
  <2>4. Cardinality(DOMAIN denied') \in Nat /\ Cardinality(DOMAIN denied) \in Nat /\ DeniedItems \in Nat
    BY <2>2, <2>3, FS_CardinalityType, ProxyAssumption DEF ProxyAssumption
  <2>5. Cardinality(DOMAIN denied') <= DeniedItems
    BY <2>2, <2>3, <2>4
  <2> QED
    BY <2>1, <2>2, <2>3, <2>5 DEF CacheInv
<1>7. /\ GuardInv' /\ labels' \in [Agents -> Label] /\ answered' \in [Callers -> SUBSET Label]
      /\ \A n \in sent' : Permitted(n, config)
  BY <1>2, GuardKeeps DEF ProxyInv, HandlersInv
<1> QED
  BY <1>2, <1>3, <1>4, <1>5, <1>6, <1>7, StepKeeps

\* The lookup at GitHub: a read, with the server's token, that admits the request only
\* if the repository is public now.
LEMMA LookupVisibilityKeeps ==
  ASSUME ProxyInv, NEW c \in Callers, LookupVisibility(c)
  PROVE  Kept
<1>1. /\ req[c] \in Handler /\ Routed(req[c], config.kind, public)
      /\ req[c].pc = "lookup" /\ req \in [Callers -> Handler]
  BY AtFacts DEF At, LookupVisibility
<1>2. PICK pc \in {"label", "deny"} :
         (pc = "label" => req[c].r.repo \in public) /\ req' = [req EXCEPT ![c].pc = pc]
  BY DEF LookupVisibility
<1> DEFINE x == [req[c] EXCEPT !.pc = pc]
<1>3. /\ req' = [req EXCEPT ![c] = x]
      /\ UNCHANGED <<config, labels, denied, public, answered, guardVars>>
      /\ sent' = sent \union {Sent(c, "GET", NoSelection, ServerAuth)}
  BY <1>1, <1>2 DEF LookupVisibility
<1>4. /\ x \in Handler
      /\ x.pc = pc /\ x.r = req[c].r /\ x.max = req[c].max /\ x.bounded = req[c].bounded
      /\ x.labelled = req[c].labelled /\ x.sawPublic = req[c].sawPublic
  BY <1>1, Moved DEF Deciding, Admitted
<1> HIDE DEF x
<1>5. Routed(x, config.kind, public)
  BY <1>1, <1>2, <1>4 DEF Routed, Over, Deciding, Admitted
<1>6. AnswersInv => Held(x, config.mode, labels) /\ Given(x, labels, answered[c])
  <2>1. AnswersInv => ~req[c].labelled /\ answered[c] = {}
    BY <1>1, AtFacts, NothingGiven DEF Held
  <2> QED
    BY <1>4, <2>1 DEF Held, Given
<1>7. config.kind = "enclave" /\ config.token
  BY <1>1 DEF Routed, Deciding, ProxyInv, ConfigInv
<1>8. Permitted(Sent(c, "GET", NoSelection, ServerAuth), config)
  BY <1>7 DEF Permitted, Sent
<1>9. /\ GuardInv' /\ labels' \in [Agents -> Label] /\ answered' \in [Callers -> SUBSET Label]
      /\ CacheInv' /\ \A n \in sent' : Permitted(n, config)
  BY <1>3, <1>8, GuardKeeps DEF ProxyInv, HandlersInv, CacheInv
<1> QED
  BY <1>3, <1>4, <1>5, <1>6, <1>9, StepKeeps

\* One more element in place of an optional one that leaves.
LEMMA Replaced ==
  ASSUME NEW S, IsFiniteSet(S), NEW n \in Nat \ {0}, Cardinality(S) <= n, NEW E, NEW e,
         IF Cardinality(S) >= n THEN \E s \in S : E = {s} ELSE E = {}
  PROVE  IsFiniteSet((S \ E) \union {e}) /\ Cardinality((S \ E) \union {e}) <= n
<1> DEFINE T == S \ E
<1>1. Cardinality(S) \in Nat
  BY FS_CardinalityType
<1>2. IsFiniteSet(T) /\ Cardinality(T) + 1 <= n
  <2>1. CASE Cardinality(S) >= n
    <3>1. PICK s \in S : E = {s}
      BY <2>1
    <3>2. IsFiniteSet(S \ {s}) /\ Cardinality(S \ {s}) = Cardinality(S) - 1
      BY <3>1, FS_RemoveElement
    <3> QED
      BY <1>1, <3>1, <3>2
  <2>2. CASE ~(Cardinality(S) >= n)
    <3>1. T = S
      BY <2>2
    <3> QED
      BY <1>1, <2>2, <3>1
  <2> QED
    BY <2>1, <2>2
<1>3. Cardinality(T) \in Nat
  BY <1>2, FS_CardinalityType
<1> HIDE DEF T
<1>4. IsFiniteSet(T \union {e}) /\ (Cardinality(T \union {e}) = Cardinality(T) \/ Cardinality(T \union {e}) = Cardinality(T) + 1)
  BY <1>2, FS_AddElement
<1>5. Cardinality(T \union {e}) <= n
  BY <1>2, <1>3, <1>4
<1> QED
  BY <1>4, <1>5 DEF T

\* The cache of denials stays within its limit: what has run out goes first, then an old
\* entry makes place for the new one.
LEMMA CacheVisibilityDenialKeeps ==
  ASSUME ProxyInv, NEW c \in Callers, CacheVisibilityDenial(c)
  PROVE  Kept
<1> DEFINE live   == {r \in DOMAIN denied : now < denied[r]}
           oldest == {r \in live : \A s \in live : denied[r] <= denied[s]}
           repo   == req[c].r.repo
<1>1. /\ req[c].pc = "deny" /\ Routed(req[c], config.kind, public)
      /\ req' = [req EXCEPT ![c] = Done]
      /\ UNCHANGED <<config, labels, public, sent, answered, guardVars>>
  BY AtFacts DEF At, CacheVisibilityDenial
<1>2. PICK evicted \in (IF Cardinality(live) >= DeniedItems THEN {{r} : r \in oldest} ELSE {{}}) :
         denied' = [r \in (live \ evicted) \union {repo} |->
                       IF r = repo THEN now + DeniedTTL ELSE denied[r]]
  BY DEF CacheVisibilityDenial
<1>3. DOMAIN denied' = (live \ evicted) \union {repo}
  BY <1>2
<1>4. IF Cardinality(live) >= DeniedItems THEN \E r \in live : evicted = {r} ELSE evicted = {}
  BY <1>2
<1>5. repo \in Repos
  <2>1. config.kind = "enclave" /\ req[c].r \in RequestsOf["enclave"]
    BY <1>1 DEF Routed, Deciding, Over
  <2> QED
    BY <2>1, ProxyAssumption DEF ProxyAssumption, Kinds
<1>6. live \subseteq DOMAIN denied /\ DOMAIN denied \subseteq Repos
  BY DEF ProxyInv, CacheInv
<1> HIDE DEF live, repo
<1>7. IsFiniteSet(live) /\ Cardinality(live) <= DeniedItems /\ DeniedItems \in Nat \ {0}
  <2>1. /\ IsFiniteSet(DOMAIN denied) /\ Cardinality(DOMAIN denied) <= DeniedItems
        /\ DeniedItems \in Nat \ {0}
    BY ProxyAssumption DEF ProxyInv, CacheInv, ProxyAssumption
  <2>2. IsFiniteSet(live) /\ Cardinality(live) <= Cardinality(DOMAIN denied)
    BY <1>6, <2>1, FS_Subset
  <2>3. Cardinality(live) \in Nat /\ Cardinality(DOMAIN denied) \in Nat
    BY <2>1, <2>2, FS_CardinalityType
  <2> QED
    BY <2>1, <2>2, <2>3
<1>8. /\ IsFiniteSet((live \ evicted) \union {repo})
      /\ Cardinality((live \ evicted) \union {repo}) <= DeniedItems
  BY <1>4, <1>7, Replaced
<1>9. CacheInv'
  BY <1>3, <1>5, <1>6, <1>8 DEF CacheInv
<1>10. AnswersInv => Held(Done, config.mode, labels') /\ Given(Done, labels', answered'[c])
  BY <1>1, NothingGiven, OverIsCalm
<1>11. /\ GuardInv' /\ labels' \in [Agents -> Label] /\ answered' \in [Callers -> SUBSET Label]
       /\ \A n \in sent' : Permitted(n, config)
  BY <1>1, GuardKeeps DEF ProxyInv, HandlersInv
<1> QED
  BY <1>1, <1>9, <1>10, <1>11, IdleIsHandler, OverIsCalm, StepKeeps

(***************************************************************************)
(* Labelling and the coarse check.                                         *)
(***************************************************************************)

\* A step that moves no handler.
LEMMA QuietKeeps ==
  ASSUME ProxyInv, GuardInv', \A m \in sent' : Permitted(m, config),
         UNCHANGED <<config, labels, req, denied, public, answered>>
  PROVE  Kept
<1>1. ProxyInv'
  BY DEF ProxyInv, ConfigInv, CacheInv, HandlersInv
<1>2. AnswersInv => AnswersInv'
  BY DEF AnswersInv
<1> QED
  BY <1>1, <1>2 DEF Kept

\* The guest's call back reaches GitHub with the credential of the request that holds
\* the guard, or the server's.
LEMMA GuestCallsBackendKeeps ==
  ASSUME ProxyInv, NEW c \in Callers, GuestCallsBackend(c)
  PROVE  Kept
<1>1. GuardInv' /\ guard.holder = c /\ guard.backend = c /\ c # NoCaller
  BY GuardKeeps, WasmGuardAssumption
     DEF GuestCallsBackend, HostCallBackend, ProxyInv, GuardInv, WasmGuardAssumption
<1> DEFINE m == Sent(c, "GET", NoSelection, EnrichmentAuth(guard.backend))
<1>2. Permitted(m, config)
  <2>1. config.kind \in Kinds /\ (config.kind # "plain" => config.token)
    BY DEF ProxyInv, ConfigInv
  <2>2. /\ m.method = "GET" /\ m.for = req[c].r.cred
        /\ m.auth = IF config.token THEN ServerAuth ELSE req[c].r.cred
    BY <1>1 DEF Sent, EnrichmentAuth
  <2> QED
    BY <2>1, <2>2 DEF Permitted
<1>3. \A n \in sent' : Permitted(n, config)
  BY <1>2 DEF GuestCallsBackend, ProxyInv
<1> QED
  BY <1>1, <1>3, QuietKeeps DEF GuestCallsBackend

\* The other steps of the guard change nothing of the proxy.
LEMMA GuardStepsKeep ==
  ASSUME ProxyInv, NEW c \in Callers, EnterGuard(c) \/ GuestRetries(c) \/ ClientGone(c)
  PROVE  Kept
<1>1. GuardInv' /\ UNCHANGED proxyVars
  BY GuardKeeps DEF EnterGuard, GuestRetries, ClientGone, ProxyInv
<1>2. \A m \in sent' : Permitted(m, config)
  BY <1>1 DEF proxyVars, ProxyInv
<1> QED
  BY <1>1, <1>2, QuietKeeps DEF proxyVars

\* A guard that fails to label the resource ends the request.
LEMMA LabelResourceFailsKeeps ==
  ASSUME ProxyInv, NEW c \in Callers, LabelResourceFails(c)
  PROVE  Kept
<1>1. GuardInv' /\ At(c, "label") /\ Ends(c)
  BY GuardKeeps DEF LabelResourceFails, GuardFails, ProxyInv
<1> QED
  BY <1>1, EndsKeeps DEF At

\* The guard's answer for the resource.
LEMMA LabelResourceKeeps ==
  ASSUME ProxyInv, NEW c \in Callers, LabelResource(c)
  PROVE  Kept
<1>1. GuardInv' /\ UNCHANGED <<config, labels, denied, public, sent, answered>>
  BY GuardKeeps DEF LabelResource, ProxyInv
<1>2. PICK res \in Resources :
         req' = [req EXCEPT ![c].pc = "coarse", ![c].resource = res.labels, ![c].op = res.op]
  BY DEF LabelResource
<1> DEFINE lab == res.labels
           o   == res.op
           x   == [req[c] EXCEPT !.pc = "coarse", !.resource = lab, !.op = o]
<1>3. /\ req[c] \in Handler /\ Routed(req[c], config.kind, public)
      /\ req[c].pc = "label" /\ req \in [Callers -> Handler]
  BY AtFacts DEF At, LabelResource
<1>4. req' = [req EXCEPT ![c] = x]
  BY <1>2, <1>3
<1>5. lab \in Label /\ o \in OperationTypes
  BY ProxyAssumption DEF ProxyAssumption
<1> HIDE DEF lab, o
<1>6. /\ x \in Handler
      /\ x.pc = "coarse" /\ x.r = req[c].r /\ x.max = req[c].max /\ x.bounded = req[c].bounded
      /\ x.labelled = req[c].labelled /\ x.sawPublic = req[c].sawPublic
  BY <1>3, <1>5 DEF Handler, Admitted
<1> HIDE DEF x
<1>7. Routed(x, config.kind, public)
  BY <1>3, <1>6 DEF Routed, Over, Deciding, Admitted
<1>8. AnswersInv => Held(x, config.mode, labels) /\ Given(x, labels, answered[c])
  <2>1. AnswersInv => ~req[c].labelled /\ answered[c] = {}
    BY <1>3, AtFacts, NothingGiven DEF Held
  <2> QED
    BY <1>6, <2>1 DEF Held, Given
<1> QED
  BY <1>1, <1>4, <1>6, <1>7, <1>8, MoveKeeps

\* What MayRead lets through is readable: it is not blocked, and outside propagate mode
\* the label allows it; the limit binds because bounded requests run in propagate mode.
LEMMA MayReadIsReadable ==
  ASSUME ProxyInv, NEW c \in Callers, NEW item, MayRead(c, item)
  PROVE  Readable(req[c], item, config.mode, labels)
<1>1. /\ req[c].bounded => config.mode = "propagate" /\ WildcardTag \notin req[c].max
      /\ req[c] \in Handler
  BY AtFacts DEF ProxyInv, ConfigInv, Routed
<1>2. ASSUME req[c].op # "write"
      PROVE  ReadAllowed(labels[req[c].agent], item, config.mode)
  BY <1>2 DEF MayRead, Evaluate
<1>3. ASSUME req[c].op # "write", req[c].bounded PROVE item.secrecy \subseteq req[c].max
  BY <1>1, <1>3 DEF MayRead, OutsideMax, SecrecyFlows
<1> QED
  BY <1>2, <1>3 DEF Readable, ReadAllowed

\* Phase 2.
LEMMA CoarseCheckKeeps ==
  ASSUME ProxyInv, NEW c \in Callers, CoarseCheck(c)
  PROVE  Kept
<1> DEFINE may == MayRead(c, req[c].resource)
           x   == [req[c] EXCEPT !.pc = "forward", !.allowed = may]
<1>1. GuardInv'
  BY GuardKeeps DEF CoarseCheck, ProxyInv
<1>2. /\ req[c] \in Handler /\ Routed(req[c], config.kind, public)
      /\ req[c].pc = "coarse" /\ req \in [Callers -> Handler]
  BY AtFacts DEF At, CoarseCheck
<1>3. CASE Ends(c)
  BY <1>1, <1>2, <1>3, EndsKeeps
<1>4. CASE /\ req' = [req EXCEPT ![c].pc = "forward", ![c].allowed = may]
           /\ UNCHANGED <<config, labels, denied, public, sent, answered>>
  <2>1. req' = [req EXCEPT ![c] = x]
    BY <1>2, <1>4
  <2>2. may \in BOOLEAN /\ (may => Readable(req[c], req[c].resource, config.mode, labels))
    BY MayReadIsReadable DEF MayRead
  <2> HIDE DEF may
  <2>3. /\ x \in Handler
        /\ x.pc = "forward" /\ x.r = req[c].r /\ x.max = req[c].max /\ x.bounded = req[c].bounded
        /\ x.labelled = req[c].labelled /\ x.sawPublic = req[c].sawPublic /\ x.allowed = may
        /\ x.op = req[c].op /\ x.agent = req[c].agent /\ x.resource = req[c].resource
    BY <1>2, <2>2 DEF Handler, Admitted
  <2> HIDE DEF x
  <2>4. Routed(x, config.kind, public)
    BY <1>2, <2>3 DEF Routed, Over, Deciding, Admitted
  <2>5. AnswersInv => Held(x, config.mode, labels) /\ Given(x, labels, answered[c])
    <3>1. AnswersInv => ~req[c].labelled /\ answered[c] = {}
      BY <1>2, AtFacts, NothingGiven DEF Held
    <3>2. may => Readable(x, x.resource, config.mode, labels)
      BY <2>2, <2>3 DEF Readable
    <3> QED
      BY <2>3, <3>1, <3>2 DEF Held, Given
  <2> QED
    BY <1>1, <1>4, <2>1, <2>3, <2>4, <2>5, MoveKeeps
<1> QED
  BY <1>3, <1>4 DEF CoarseCheck

(***************************************************************************)
(* Phase 3.                                                                *)
(***************************************************************************)

\* What is forwarded is a read, with the credential the configuration prescribes.
LEMMA ForwardedIsPermitted ==
  ASSUME ProxyInv, NEW c \in Callers, req[c].pc \notin Over
  PROVE  Permitted(Forwarded(c), config)
<1>1. Reads(req[c].r)
  BY AtFacts DEF Routed
<1>2. /\ Forwarded(c).for = req[c].r.cred /\ Forwarded(c).method = req[c].r.method
      /\ Forwarded(c).body = IF req[c].r.path = "graphql" THEN Select(req[c].r.doc) ELSE NoSelection
      /\ Forwarded(c).auth = ForwardAuth(c)
  BY DEF Forwarded, Sent
<1>3. \/ Forwarded(c).method = "GET"
      \/ Forwarded(c).method = "POST" /\ Forwarded(c).body.op.kind = "query"
  BY <1>1, <1>2 DEF Reads
<1>4. \/ Forwarded(c).auth = IF config.token THEN ServerAuth ELSE NoCred
      \/ config.kind = "plain" /\ Forwarded(c).auth = Forwarded(c).for
  BY <1>2 DEF ForwardAuth, Plain
<1> QED
  BY <1>3, <1>4 DEF Permitted

\* A response that is shown whole: access to the resource is access to it.
LEMMA ShowWholeKeeps ==
  ASSUME ProxyInv, NEW c \in Callers, req[c].pc \in {"forward", "respond", "filter"},
         req[c].allowed, AnswersInv => ~req[c].labelled, req' = ShowWhole(c),
         UNCHANGED <<config, labels, denied, public>>, GuardInv',
         \A m \in sent' : Permitted(m, config),
         \/ answered' = answered
         \/ IsArtifact(c) /\ answered' = [answered EXCEPT ![c] = {req[c].resource}]
  PROVE  Kept
<1> DEFINE res == req[c].resource
           s   == {res}
           x   == [req[c] EXCEPT !.pc = "accumulate", !.shown = s]
<1>1. /\ req[c] \in Handler /\ Routed(req[c], config.kind, public) /\ req \in [Callers -> Handler]
      /\ AnswersInv => Held(req[c], config.mode, labels) /\ Given(req[c], labels, answered[c])
  BY AtFacts
<1>2. res \in Label
  BY <1>1 DEF Handler
<1>3. req' = [req EXCEPT ![c] = x]
  BY <1>1 DEF ShowWhole
<1>4. s \in SUBSET Label /\ answered \in [Callers -> SUBSET Label]
  BY <1>2 DEF ProxyInv, HandlersInv
<1>5. /\ answered' \in [Callers -> SUBSET Label]
      /\ \A d \in Callers \ {c} : answered'[d] = answered[d]
      /\ answered'[c] = answered[c] \/ (answered'[c] = s /\ req[c].r.path = "artifact")
  <2>1. CASE answered' = answered
    BY <1>4, <2>1
  <2>2. CASE IsArtifact(c) /\ answered' = [answered EXCEPT ![c] = s]
    BY <1>4, <2>2 DEF IsArtifact
  <2> QED
    BY <2>1, <2>2
<1> HIDE DEF s
<1>6. /\ x \in Handler
      /\ x.pc = "accumulate" /\ x.r = req[c].r /\ x.max = req[c].max /\ x.bounded = req[c].bounded
      /\ x.labelled = req[c].labelled /\ x.sawPublic = req[c].sawPublic /\ x.shown = s
      /\ x.op = req[c].op /\ x.agent = req[c].agent /\ x.resource = res
  BY <1>1, <1>4 DEF Handler, Admitted
<1> HIDE DEF x
<1>7. Routed(x, config.kind, public)
  BY <1>1, <1>6 DEF Routed, Over, Deciding, Admitted
<1>8. ASSUME AnswersInv PROVE Held(x, config.mode, labels') /\ Given(x, labels', answered'[c])
  <2>1. Readable(req[c], res, config.mode, labels)
    BY <1>1, <1>8 DEF Held
  <2>2. Readable(x, res, config.mode, labels) /\ Overall(x) = res
    BY <1>6, <1>8, <2>1 DEF Readable, Overall
  <2>3. Held(x, config.mode, labels)
    BY <1>6, <2>2 DEF Held, s
  <2>4. answered[c] = {}
    BY <1>8, NothingGiven
  <2>5. Given(x, labels, answered'[c])
    BY <1>5, <1>6, <2>4 DEF Given
  <2> QED
    BY <2>3, <2>5
<1>9. CacheInv' /\ labels' \in [Agents -> Label]
  BY DEF ProxyInv, CacheInv
<1> QED
  BY <1>3, <1>5, <1>6, <1>7, <1>8, <1>9, StepKeeps

\* Metadata and unrecognised paths are shown under the empty label.
LEMMA ForwardUnlabelledKeeps ==
  ASSUME ProxyInv, NEW c \in Callers, ForwardUnlabelled(c)
  PROVE  Kept
<1> DEFINE pc == IF At(c, "unrecognized") THEN "accumulate" ELSE "reply"
           s  == {NoLabel}
           x  == [req[c] EXCEPT !.pc = pc, !.shown = s]
<1>1. /\ req[c] \in Handler /\ Routed(req[c], config.kind, public) /\ req \in [Callers -> Handler]
      /\ AnswersInv => Held(req[c], config.mode, labels) /\ Given(req[c], labels, answered[c])
      /\ req[c].pc \in {"passthrough", "unrecognized"}
  BY AtFacts DEF ForwardUnlabelled
<1>2. /\ GuardInv' /\ UNCHANGED <<config, labels, denied, public, answered>>
      /\ sent' = sent \union {Forwarded(c)}
  BY GuardKeeps DEF ForwardUnlabelled, ProxyInv
<1>3. Permitted(Forwarded(c), config)
  BY <1>1, ForwardedIsPermitted DEF Over
<1>4. /\ CacheInv' /\ labels' \in [Agents -> Label] /\ answered' \in [Callers -> SUBSET Label]
      /\ \A m \in sent' : Permitted(m, config)
  BY <1>2, <1>3 DEF ProxyInv, CacheInv, HandlersInv
<1>5. CASE req' = [req EXCEPT ![c] = Done]
  <2>1. AnswersInv => Held(Done, config.mode, labels') /\ Given(Done, labels', answered'[c])
    BY <1>1, <1>2, NothingGiven, OverIsCalm
  <2> QED
    BY <1>2, <1>4, <1>5, <2>1, IdleIsHandler, OverIsCalm, StepKeeps
<1>6. CASE req' = [req EXCEPT ![c].pc = pc, ![c].shown = s]
  <2>1. req' = [req EXCEPT ![c] = x]
    BY <1>1, <1>6
  <2>2. pc \in {"accumulate", "reply"} /\ (pc = "accumulate" => req[c].pc = "unrecognized")
    BY DEF At
  <2>3. s \in SUBSET Label
    BY DEF NoLabel, Label
  <2> HIDE DEF pc, s
  <2>4. /\ x \in Handler
        /\ x.pc = pc /\ x.r = req[c].r /\ x.max = req[c].max /\ x.bounded = req[c].bounded
        /\ x.labelled = req[c].labelled /\ x.sawPublic = req[c].sawPublic /\ x.shown = s
        /\ x.resource = req[c].resource
    BY <1>1, <2>2, <2>3 DEF Handler, Admitted
  <2> HIDE DEF x
  <2>5. Routed(x, config.kind, public)
    BY <1>1, <2>2, <2>4 DEF Routed, Over, Deciding, Admitted
  <2>6. ASSUME AnswersInv PROVE Held(x, config.mode, labels) /\ Given(x, labels, answered[c])
    <3>1. /\ Readable(x, NoLabel, config.mode, labels) /\ Known(x, NoLabel, labels)
          /\ NoLabel.secrecy = {}
      BY DEF Readable, Known, NoLabel, SecrecyFlows
    <3>2. Held(x, config.mode, labels)
      BY <2>2, <2>4, <3>1 DEF Held, s
    <3>3. answered[c] = {}
      BY <1>1, <2>6, NothingGiven
    <3> QED
      BY <2>2, <2>4, <3>2, <3>3 DEF Given
  <2> QED
    BY <1>2, <1>4, <2>1, <2>4, <2>5, <2>6, StepKeeps
<1> QED
  BY <1>5, <1>6 DEF ForwardUnlabelled

\* An artifact is streamed to a client that may access the resource.
LEMMA StreamArtifactKeeps ==
  ASSUME ProxyInv, NEW c \in Callers, StreamArtifact(c)
  PROVE  Kept
<1>1. /\ GuardInv' /\ req[c].pc = "forward" /\ IsArtifact(c)
      /\ AnswersInv => Held(req[c], config.mode, labels)
  BY GuardKeeps, AtFacts DEF StreamArtifact, ProxyInv, At
<1>2. CASE ~req[c].allowed
  BY <1>1, <1>2, EndsKeeps DEF StreamArtifact
<1>3. CASE req[c].allowed
  <2>1. /\ sent' = sent \union {Forwarded(c)}
        /\ UNCHANGED <<config, labels, denied, public>>
        /\ \/ req' = [req EXCEPT ![c] = Done] /\ UNCHANGED answered
           \/ /\ req' = [req EXCEPT ![c].pc = "accumulate", ![c].shown = {req[c].resource}]
              /\ answered' = [answered EXCEPT ![c] = {req[c].resource}]
    BY <1>3 DEF StreamArtifact
  <2>2. \A m \in sent' : Permitted(m, config)
    BY <1>1, <2>1, ForwardedIsPermitted DEF Over, ProxyInv
  <2>3. CASE req' = [req EXCEPT ![c] = Done] /\ UNCHANGED answered
    <3>1. AnswersInv => Held(Done, config.mode, labels') /\ Given(Done, labels', answered'[c])
      BY <1>1, <2>3, NothingGiven, OverIsCalm
    <3>2. CacheInv' /\ labels' \in [Agents -> Label] /\ answered' \in [Callers -> SUBSET Label]
      BY <2>1, <2>3 DEF ProxyInv, CacheInv, HandlersInv
    <3> QED
      BY <1>1, <2>1, <2>2, <2>3, <3>1, <3>2, IdleIsHandler, OverIsCalm, StepKeeps
  <2>4. CASE /\ req' = [req EXCEPT ![c].pc = "accumulate", ![c].shown = {req[c].resource}]
             /\ answered' = [answered EXCEPT ![c] = {req[c].resource}]
    <3>1. req' = ShowWhole(c)
      BY <2>4 DEF ShowWhole
    <3>2. AnswersInv => ~req[c].labelled
      BY <1>1 DEF Held
    <3> QED
      BY <1>1, <1>3, <2>1, <2>2, <2>4, <3>1, <3>2, ShowWholeKeeps
  <2> QED
    BY <2>1, <2>3, <2>4
<1> QED
  BY <1>2, <1>3

\* forwardToGitHub: only JSON goes on, anything else is shown to who may access the
\* resource, or not at all.
LEMMA ForwardKeeps ==
  ASSUME ProxyInv, NEW c \in Callers, Forward(c)
  PROVE  Kept
<1>1. /\ GuardInv' /\ req[c].pc = "forward"
      /\ req[c] \in Handler /\ Routed(req[c], config.kind, public) /\ req \in [Callers -> Handler]
      /\ AnswersInv => Held(req[c], config.mode, labels) /\ Given(req[c], labels, answered[c])
  BY GuardKeeps, AtFacts DEF Forward, ProxyInv, At
<1>2. /\ sent' = sent \union {Forwarded(c)}
      /\ UNCHANGED <<config, labels, denied, public, answered>>
  BY DEF Forward
<1>3. \A m \in sent' : Permitted(m, config)
  BY <1>1, <1>2, ForwardedIsPermitted DEF Over, ProxyInv
<1>4. CacheInv' /\ labels' \in [Agents -> Label] /\ answered' \in [Callers -> SUBSET Label]
  BY <1>2 DEF ProxyInv, CacheInv, HandlersInv
<1> DEFINE to == IF ShouldCallLabelResponse(req[c].op, config.mode) THEN "respond" ELSE "filter"
           x  == [req[c] EXCEPT !.pc = to]
<1>5. \/ req' = [req EXCEPT ![c].pc = to]
      \/ req[c].allowed /\ req' = ShowWhole(c)
      \/ req' = [req EXCEPT ![c] = Done]
  BY DEF Forward
<1>6. CASE req' = [req EXCEPT ![c].pc = to]
  <2>1. req' = [req EXCEPT ![c] = x] /\ to \in {"respond", "filter"}
    BY <1>1, <1>6
  <2> HIDE DEF to
  <2>2. /\ x \in Handler
        /\ x.pc = to /\ x.r = req[c].r /\ x.agent = req[c].agent /\ x.max = req[c].max
        /\ x.bounded = req[c].bounded /\ x.resource = req[c].resource /\ x.op = req[c].op
        /\ x.allowed = req[c].allowed /\ x.labelled = req[c].labelled
        /\ x.sawPublic = req[c].sawPublic
    BY <1>1, <2>1, Moved DEF Admitted
  <2> HIDE DEF x
  <2>3. Routed(x, config.kind, public)
    BY <1>1, <2>1, <2>2 DEF Routed, Over, Deciding, Admitted
  <2>4. AnswersInv => Held(x, config.mode, labels') /\ Given(x, labels', answered'[c])
    <3>1. AnswersInv => ~req[c].labelled /\ answered[c] = {}
      BY <1>1, NothingGiven DEF Held
    <3>2. AnswersInv /\ req[c].allowed => Readable(req[c], req[c].resource, config.mode, labels)
      BY <1>1 DEF Held
    <3>3. AnswersInv /\ x.allowed => Readable(x, x.resource, config.mode, labels)
      BY <2>2, <3>2 DEF Readable
    <3> QED
      BY <1>2, <2>1, <2>2, <3>1, <3>3 DEF Held, Given
  <2> QED
    BY <1>1, <1>2, <1>3, <1>4, <2>1, <2>2, <2>3, <2>4, StepKeeps
<1>7. CASE req[c].allowed /\ req' = ShowWhole(c)
  <2>1. AnswersInv => ~req[c].labelled
    BY <1>1 DEF Held
  <2> QED
    BY <1>1, <1>2, <1>3, <1>7, <2>1, ShowWholeKeeps
<1>8. CASE req' = [req EXCEPT ![c] = Done]
  <2>1. AnswersInv => Held(Done, config.mode, labels') /\ Given(Done, labels', answered'[c])
    BY <1>1, <1>2, NothingGiven, OverIsCalm
  <2> QED
    BY <1>1, <1>2, <1>3, <1>4, <1>8, <2>1, IdleIsHandler, OverIsCalm, StepKeeps
<1> QED
  BY <1>5, <1>6, <1>7, <1>8

(***************************************************************************)
(* Phases 4 to 6 and the answer.                                           *)
(***************************************************************************)

\* The items that the guard labels, or none.
LEMMA LabelResponseKeeps ==
  ASSUME ProxyInv, NEW c \in Callers, LabelResponse(c)
  PROVE  Kept
<1>1. /\ GuardInv' /\ req[c].pc = "respond"
      /\ UNCHANGED <<config, labels, denied, public, sent, answered>>
      /\ req[c] \in Handler /\ Routed(req[c], config.kind, public) /\ req \in [Callers -> Handler]
      /\ AnswersInv => Held(req[c], config.mode, labels) /\ Given(req[c], labels, answered[c])
  BY GuardKeeps, AtFacts DEF LabelResponse, ProxyInv, At
<1>2. PICK l \in BOOLEAN, items \in SUBSET Label :
         req' = [req EXCEPT ![c] = [req[c] EXCEPT !.pc = "filter", !.labelled = l, !.items = items]]
  <2>1. CASE req' = [req EXCEPT ![c].pc = "filter"]
    <3> DEFINE y == [req[c] EXCEPT !.pc = "filter", !.labelled = req[c].labelled, !.items = req[c].items]
    <3>1. y = [req[c] EXCEPT !.pc = "filter"] /\ req[c].labelled \in BOOLEAN /\ req[c].items \in SUBSET Label
      BY <1>1 DEF Handler
    <3>2. req' = [req EXCEPT ![c] = y]
      BY <1>1, <2>1, <3>1
    <3> QED
      BY <3>1, <3>2
  <2>2. ASSUME NEW items \in Labelled,
               req' = [req EXCEPT ![c].pc = "filter", ![c].labelled = TRUE, ![c].items = items]
        PROVE  /\ items \in SUBSET Label
               /\ req' = [req EXCEPT ![c] = [req[c] EXCEPT !.pc = "filter", !.labelled = TRUE, !.items = items]]
    BY <1>1, <2>2, ProxyAssumption DEF ProxyAssumption
  <2> QED
    BY <2>1, <2>2 DEF LabelResponse
<1> DEFINE x == [req[c] EXCEPT !.pc = "filter", !.labelled = l, !.items = items]
<1>3. /\ x \in Handler
      /\ x.pc = "filter" /\ x.r = req[c].r /\ x.agent = req[c].agent /\ x.max = req[c].max
      /\ x.bounded = req[c].bounded /\ x.resource = req[c].resource /\ x.op = req[c].op
      /\ x.allowed = req[c].allowed /\ x.sawPublic = req[c].sawPublic
  BY <1>1 DEF Handler, Admitted
<1>4. req' = [req EXCEPT ![c] = x]
  BY <1>2
<1> HIDE DEF x
<1>5. Routed(x, config.kind, public)
  BY <1>1, <1>3 DEF Routed, Over, Deciding, Admitted
<1>6. AnswersInv => Held(x, config.mode, labels) /\ Given(x, labels, answered[c])
  <2>1. AnswersInv => answered[c] = {}
    BY <1>1, NothingGiven
  <2>2. AnswersInv /\ req[c].allowed => Readable(req[c], req[c].resource, config.mode, labels)
    BY <1>1 DEF Held
  <2>3. AnswersInv /\ x.allowed => Readable(x, x.resource, config.mode, labels)
    BY <1>3, <2>2 DEF Readable
  <2> QED
    BY <1>3, <2>1, <2>3 DEF Held, Given
<1> QED
  BY <1>1, <1>3, <1>4, <1>5, <1>6, MoveKeeps

\* On an error of the guard the coarse result decides.
LEMMA LabelResponseFailsKeeps ==
  ASSUME ProxyInv, NEW c \in Callers, LabelResponseFails(c)
  PROVE  Kept
<1>1. /\ GuardInv' /\ req[c].pc = "respond"
      /\ UNCHANGED <<config, labels, denied, public, sent, answered>>
      /\ AnswersInv => Held(req[c], config.mode, labels)
  BY GuardKeeps, AtFacts DEF LabelResponseFails, GuardFails, ProxyInv, At
<1>2. CASE req[c].allowed /\ req' = ShowWhole(c)
  <2>1. AnswersInv => ~req[c].labelled
    BY <1>1 DEF Held
  <2>2. \A m \in sent' : Permitted(m, config)
    BY <1>1 DEF ProxyInv
  <2> QED
    BY <1>1, <1>2, <2>1, <2>2, ShowWholeKeeps
<1>3. CASE req' = [req EXCEPT ![c] = Done]
  <2>1. AnswersInv => Held(Done, config.mode, labels) /\ Given(Done, labels, answered[c])
    BY <1>1, NothingGiven, OverIsCalm
  <2> QED
    BY <1>1, <1>3, <2>1, IdleIsHandler, OverIsCalm, MoveKeeps
<1> QED
  BY <1>2, <1>3 DEF LabelResponseFails

\* Phase 5 shows what may be read.  Of the envelope of a REST search it shows every item
\* the guard labelled, so this holds for responses of the other shapes.
LEMMA FilterKeeps ==
  ASSUME ProxyInv, NEW c \in Callers, Filter(c)
  PROVE  ProxyInv' /\ ("envelope" \notin Shapes /\ AnswersInv => AnswersInv')
<1>1. /\ GuardInv' /\ req[c].pc = "filter"
      /\ req[c] \in Handler /\ Routed(req[c], config.kind, public) /\ req \in [Callers -> Handler]
      /\ AnswersInv => Held(req[c], config.mode, labels) /\ Given(req[c], labels, answered[c])
  BY GuardKeeps, AtFacts DEF Filter, ProxyInv, At
<1> DEFINE accessible == {i \in req[c].items : MayRead(c, i)}
<1>2. CASE Ends(c)
  BY <1>1, <1>2, EndsKeeps DEF Kept
<1>3. CASE /\ ~req[c].labelled /\ req[c].allowed /\ req' = ShowWhole(c)
           /\ UNCHANGED <<config, labels, denied, now, public, flips, sent, answered>>
  <2>1. \A m \in sent' : Permitted(m, config)
    BY <1>3 DEF ProxyInv
  <2> QED
    BY <1>1, <1>3, <2>1, ShowWholeKeeps DEF Kept
<1>4. ASSUME req[c].labelled, NEW shape \in Shapes,
             req' = [req EXCEPT ![c].pc = "accumulate", ![c].shown = Shown(c, shape, accessible)],
             UNCHANGED <<config, labels, denied, now, public, flips, sent, answered>>
      PROVE  ProxyInv' /\ ("envelope" \notin Shapes /\ AnswersInv => AnswersInv')
  <2> DEFINE s == Shown(c, shape, accessible)
             x == [req[c] EXCEPT !.pc = "accumulate", !.shown = s]
  <2>1. s \subseteq req[c].items /\ (shape # "envelope" => s \subseteq accessible)
    BY DEF Shown
  <2>2. s \in SUBSET Label
    BY <1>1, <2>1 DEF Handler
  <2>3. req' = [req EXCEPT ![c] = x]
    BY <1>1, <1>4
  <2> HIDE DEF s
  <2>4. /\ x \in Handler
        /\ x.pc = "accumulate" /\ x.r = req[c].r /\ x.agent = req[c].agent /\ x.max = req[c].max
        /\ x.bounded = req[c].bounded /\ x.labelled /\ x.items = req[c].items /\ x.op = req[c].op
        /\ x.shown = s /\ x.sawPublic = req[c].sawPublic
    BY <1>1, <1>4, <2>2 DEF Handler, Admitted
  <2> HIDE DEF x
  <2>5. Routed(x, config.kind, public)
    BY <1>1, <2>4 DEF Routed, Over, Deciding, Admitted
  <2>6. ASSUME "envelope" \notin Shapes, AnswersInv
        PROVE  Held(x, config.mode, labels) /\ Given(x, labels, answered[c])
    <3>1. s \subseteq accessible
      BY <2>1, <2>6
    <3>2. ASSUME NEW i \in s PROVE Readable(x, i, config.mode, labels)
      <4>1. Readable(req[c], i, config.mode, labels)
        BY <3>1, <3>2, MayReadIsReadable
      <4> QED
        BY <2>4, <4>1 DEF Readable
    <3>3. \A i \in s : i.secrecy \subseteq Overall(x).secrecy
      BY <2>1, <2>4 DEF Overall, AggregateLabels
    <3>4. Held(x, config.mode, labels)
      BY <2>4, <3>2, <3>3 DEF Held
    <3>5. answered[c] = {}
      BY <1>1, <2>6, NothingGiven
    <3> QED
      BY <2>4, <3>4, <3>5 DEF Given
  <2>7. CASE "envelope" \notin Shapes
    BY <1>1, <1>4, <2>3, <2>4, <2>5, <2>6, <2>7, MoveKeeps DEF Kept
  <2>8. ProxyInv'
    <3>1. HandlersInv'
      <4>1. /\ req' \in [Callers -> Handler] /\ req'[c] = x
            /\ \A d \in Callers \ {c} : req'[d] = req[d]
        BY <1>1, <2>3, <2>4
      <4>2. \A d \in Callers : Routed(req'[d], config'.kind, public')
        BY <1>4, <2>5, <4>1 DEF ProxyInv, HandlersInv
      <4> QED
        BY <1>4, <4>1, <4>2 DEF ProxyInv, HandlersInv
    <3> QED
      BY <1>1, <1>4, <3>1 DEF ProxyInv, ConfigInv, CacheInv
  <2> QED
    BY <2>7, <2>8
<1>5. \/ Ends(c)
      \/ /\ ~req[c].labelled /\ req[c].allowed /\ req' = ShowWhole(c)
         /\ UNCHANGED <<config, labels, denied, now, public, flips, sent, answered>>
      \/ /\ req[c].labelled
         /\ \E shape \in Shapes :
              req' = [req EXCEPT ![c].pc = "accumulate", ![c].shown = Shown(c, shape, accessible)]
         /\ UNCHANGED <<config, labels, denied, now, public, flips, sent, answered>>
  BY DEF Filter
<1> QED
  BY <1>2, <1>3, <1>4, <1>5

\* Phase 6 adds the label of the whole response, so what was shown is known from then on.
LEMMA AccumulateKeeps ==
  ASSUME ProxyInv, NEW c \in Callers, Accumulate(c)
  PROVE  Kept
<1> DEFINE overall == Overall(req[c])
           a       == req[c].agent
           new     == [secrecy |-> labels[a].secrecy \union overall.secrecy,
                       integrity |-> labels[a].integrity \intersect overall.integrity]
           x       == [req[c] EXCEPT !.pc = "reply"]
<1>1. /\ GuardInv' /\ req[c].pc = "accumulate"
      /\ UNCHANGED <<config, denied, public, sent, answered>>
      /\ req[c] \in Handler /\ Routed(req[c], config.kind, public) /\ req \in [Callers -> Handler]
      /\ AnswersInv => Held(req[c], config.mode, labels) /\ Given(req[c], labels, answered[c])
      /\ labels \in [Agents -> Label]
  BY GuardKeeps, AtFacts DEF Accumulate, ProxyInv, At
<1>2. /\ labels' = IF ShouldAccumulateReadLabels(req[c].op, config.mode)
                   THEN [labels EXCEPT ![a] = new] ELSE labels
      /\ req' = [req EXCEPT ![c] = x]
  BY <1>1 DEF Accumulate, Overall
<1>3. a \in Agents /\ overall.secrecy \subseteq SecrecyTags
  BY <1>1 DEF Handler, Overall, AggregateLabels, Label
<1>4. new \in Label
  BY <1>1, <1>3 DEF Label
<1>5. labels' \in [Agents -> Label]
  BY <1>1, <1>2, <1>4
<1>6. \A b \in Agents : labels[b].secrecy \subseteq labels'[b].secrecy
  BY <1>1, <1>2, <1>3
<1>7. req[c].op # "write" /\ config.mode = "propagate" => overall.secrecy \subseteq labels'[a].secrecy
  BY <1>1, <1>2, <1>3 DEF ShouldAccumulateReadLabels
<1> HIDE DEF overall, new
<1>8. /\ x \in Handler
      /\ x.pc = "reply" /\ x.r = req[c].r /\ x.agent = a /\ x.max = req[c].max /\ x.op = req[c].op
      /\ x.bounded = req[c].bounded /\ x.shown = req[c].shown /\ x.sawPublic = req[c].sawPublic
  BY <1>1, Moved DEF Admitted
<1> HIDE DEF x
<1>9. Routed(x, config.kind, public)
  BY <1>1, <1>8 DEF Routed, Over, Deciding, Admitted
<1>10. ASSUME AnswersInv PROVE Held(x, config.mode, labels') /\ Given(x, labels', answered'[c])
  <2>1. ASSUME NEW i \in req[c].shown PROVE Known(x, i, labels')
    <3>1. Readable(req[c], i, config.mode, labels) /\ i.secrecy \subseteq overall.secrecy
      BY <1>1, <1>10, <2>1 DEF Held, overall
    <3>2. ASSUME req[c].op # "write" PROVE SecrecyFlows(i.secrecy, labels'[a].secrecy)
      <4>1. CASE config.mode = "propagate"
        BY <1>7, <3>1, <3>2, <4>1 DEF SecrecyFlows
      <4>2. CASE config.mode # "propagate"
        <5>1. SecrecyFlows(i.secrecy, labels[a].secrecy)
          BY <3>1, <3>2, <4>2 DEF Readable
        <5> QED
          BY <1>3, <1>6, <5>1 DEF SecrecyFlows
      <4> QED
        BY <4>1, <4>2
    <3> QED
      BY <1>8, <3>1, <3>2 DEF Readable, Known
  <2>2. Held(x, config.mode, labels')
    BY <1>8, <2>1 DEF Held
  <2>3. Given(x, labels', answered'[c])
    BY <1>1, <1>8, <1>10 DEF Given
  <2> QED
    BY <2>2, <2>3
<1>11. /\ CacheInv' /\ answered' \in [Callers -> SUBSET Label] /\ \A m \in sent' : Permitted(m, config)
  BY <1>1 DEF ProxyInv, CacheInv, HandlersInv
<1> QED
  BY <1>1, <1>2, <1>5, <1>6, <1>8, <1>9, <1>10, <1>11, StepKeeps

\* The answer is what was shown.
LEMMA ReplyKeeps ==
  ASSUME ProxyInv, NEW c \in Callers, Reply(c)
  PROVE  Kept
<1> DEFINE old == req[c]
           x == [Idle EXCEPT !.pc = "answered", !.r = old.r, !.agent = old.agent, !.op = old.op,
                             !.bounded = old.bounded, !.max = old.max, !.sawPublic = old.sawPublic]
<1>1. /\ GuardInv' /\ old.pc = "reply"
      /\ UNCHANGED <<config, labels, denied, public, sent>>
      /\ answered' = [answered EXCEPT ![c] = old.shown]
      /\ old \in Handler /\ Routed(old, config.kind, public) /\ req \in [Callers -> Handler]
      /\ AnswersInv => Held(old, config.mode, labels)
      /\ answered \in [Callers -> SUBSET Label]
  BY GuardKeeps, AtFacts DEF Reply, ProxyInv, At, HandlersInv
<1>2. req' = [req EXCEPT ![c] = x]
  BY DEF Reply
<1> HIDE DEF old
<1>3. /\ x \in Handler
      /\ x.pc = "answered" /\ x.r = old.r /\ x.agent = old.agent /\ x.max = old.max /\ x.op = old.op
      /\ x.bounded = old.bounded /\ x.sawPublic = old.sawPublic /\ ~x.labelled
  BY <1>1, IdleIsHandler DEF Handler, Admitted
<1> HIDE DEF x
<1>4. Routed(x, config.kind, public)
  BY <1>1, <1>3 DEF Routed, Over, Deciding, Admitted
<1>5. /\ answered' \in [Callers -> SUBSET Label]
      /\ answered'[c] = old.shown /\ \A d \in Callers \ {c} : answered'[d] = answered[d]
  BY <1>1 DEF Handler
<1>6. ASSUME AnswersInv PROVE Held(x, config.mode, labels') /\ Given(x, labels', answered'[c])
  <2>1. \A i \in old.shown : Known(old, i, labels)
    BY <1>1, <1>6 DEF Held
  <2>2. \A i \in old.shown : Known(x, i, labels)
    BY <1>3, <2>1 DEF Known
  <2> QED
    BY <1>1, <1>3, <1>5, <2>2 DEF Held, Given
<1>7. CacheInv' /\ labels' \in [Agents -> Label] /\ \A m \in sent' : Permitted(m, config)
  BY <1>1 DEF ProxyInv, CacheInv
<1> QED
  BY <1>1, <1>2, <1>3, <1>4, <1>5, <1>6, <1>7, StepKeeps

(***************************************************************************)
(* The environment, and the specification.                                 *)
(***************************************************************************)

\* A repository turns public or private: requests under way remember that it was public.
LEMMA ChangeVisibilityKeeps ==
  ASSUME ProxyInv, NEW repo \in Repos, ChangeVisibility(repo)
  PROVE  Kept
<1> DEFINE Later(x) == IF x.pc \notin Over \union {"answered"} /\ x.r.repo = repo
                       THEN [x EXCEPT !.sawPublic = TRUE] ELSE x
<1>1. /\ public' = IF repo \in public THEN public \ {repo} ELSE public \union {repo}
      /\ UNCHANGED <<config, labels, denied, sent, answered, guardVars>>
  BY DEF ChangeVisibility
<1>2. req' = [c \in Callers |-> Later(req[c])]
  BY DEF ChangeVisibility, InFlight, Over
<1>3. ASSUME NEW x \in Handler
      PROVE  LET y == Later(x) IN
             /\ y \in Handler
             /\ y.pc = x.pc /\ y.r = x.r /\ y.agent = x.agent /\ y.max = x.max
             /\ y.bounded = x.bounded /\ y.resource = x.resource /\ y.op = x.op
             /\ y.allowed = x.allowed /\ y.labelled = x.labelled /\ y.items = x.items
             /\ y.shown = x.shown
             /\ x.sawPublic => y.sawPublic
             /\ x.pc \notin Over \union {"answered"} /\ x.r.repo = repo => y.sawPublic
  BY DEF Handler
<1> HIDE DEF Later
<1>4. ASSUME NEW x \in Handler, Routed(x, config.kind, public)
      PROVE  Routed(Later(x), config'.kind, public')
  BY <1>1, <1>3, <1>4 DEF Routed
<1>5. ASSUME NEW x \in Handler, NEW ans, Held(x, config.mode, labels), Given(x, labels, ans)
      PROVE  Held(Later(x), config'.mode, labels') /\ Given(Later(x), labels', ans)
  <2> DEFINE y == Later(x)
  <2>1. /\ y.pc = x.pc /\ y.r = x.r /\ y.agent = x.agent /\ y.max = x.max
        /\ y.bounded = x.bounded /\ y.resource = x.resource /\ y.op = x.op
        /\ y.allowed = x.allowed /\ y.labelled = x.labelled /\ y.items = x.items
        /\ y.shown = x.shown
    BY <1>3
  <2> HIDE DEF y
  <2>2. \A i : /\ Readable(x, i, config.mode, labels) => Readable(y, i, config.mode, labels)
               /\ Known(x, i, labels) => Known(y, i, labels)
    BY <2>1 DEF Readable, Known
  <2>3. Overall(y) = Overall(x)
    BY <2>1 DEF Overall
  <2>4. Held(y, config.mode, labels)
    BY <1>5, <2>1, <2>2, <2>3 DEF Held
  <2>5. Given(y, labels, ans)
    BY <1>5, <2>1, <2>2 DEF Given
  <2> QED
    BY <1>1, <2>4, <2>5 DEF y
<1>6. req \in [Callers -> Handler]
  BY DEF ProxyInv, HandlersInv
<1>7. HandlersInv'
  BY <1>1, <1>2, <1>3, <1>4, <1>6 DEF ProxyInv, HandlersInv
<1>8. GuardInv'
  BY <1>1 DEF ProxyInv, GuardInv, GuardTypeOK, guardVars
<1>9. ProxyInv'
  BY <1>1, <1>7, <1>8 DEF ProxyInv, ConfigInv, CacheInv
<1>10. AnswersInv => AnswersInv'
  BY <1>1, <1>2, <1>5, <1>6 DEF AnswersInv
<1> QED
  BY <1>9, <1>10 DEF Kept

\* Every step of the proxy keeps the invariant.
LEMMA NextKeeps ==
  ASSUME ProxyInv, [Next]_vars
  PROVE  ProxyInv' /\ ("envelope" \notin Shapes /\ AnswersInv => AnswersInv')
<1>1. ASSUME NEW c \in Callers, Step(c) PROVE ProxyInv' /\ ("envelope" \notin Shapes /\ AnswersInv => AnswersInv')
  <2>1. CASE Receive(c)
    BY <2>1, ReceiveKeeps DEF Kept
  <2>2. CASE AuthorizeExecutor(c)
    BY <2>2, AuthorizeExecutorKeeps DEF Kept
  <2>3. CASE SeedEnclaveAgent(c)
    BY <2>3, SeedEnclaveAgentKeeps DEF Kept
  <2>4. CASE CheckVisibilityCache(c)
    BY <2>4, CheckVisibilityCacheKeeps DEF Kept
  <2>5. CASE ClearVisibilityDenial(c)
    BY <2>5, ClearVisibilityDenialKeeps DEF Kept
  <2>6. CASE LookupVisibility(c)
    BY <2>6, LookupVisibilityKeeps DEF Kept
  <2>7. CASE CacheVisibilityDenial(c)
    BY <2>7, CacheVisibilityDenialKeeps DEF Kept
  <2>8. CASE EnterGuard(c) \/ GuestRetries(c) \/ ClientGone(c)
    BY <2>8, GuardStepsKeep DEF Kept
  <2>9. CASE GuestCallsBackend(c)
    BY <2>9, GuestCallsBackendKeeps DEF Kept
  <2>10. CASE LabelResource(c)
    BY <2>10, LabelResourceKeeps DEF Kept
  <2>11. CASE LabelResourceFails(c)
    BY <2>11, LabelResourceFailsKeeps DEF Kept
  <2>12. CASE CoarseCheck(c)
    BY <2>12, CoarseCheckKeeps DEF Kept
  <2>13. CASE ForwardUnlabelled(c)
    BY <2>13, ForwardUnlabelledKeeps DEF Kept
  <2>14. CASE StreamArtifact(c)
    BY <2>14, StreamArtifactKeeps DEF Kept
  <2>15. CASE Forward(c)
    BY <2>15, ForwardKeeps DEF Kept
  <2>16. CASE LabelResponse(c)
    BY <2>16, LabelResponseKeeps DEF Kept
  <2>17. CASE LabelResponseFails(c)
    BY <2>17, LabelResponseFailsKeeps DEF Kept
  <2>18. CASE Filter(c)
    BY <2>18, FilterKeeps
  <2>19. CASE Accumulate(c)
    BY <2>19, AccumulateKeeps DEF Kept
  <2>20. CASE Reply(c)
    BY <2>20, ReplyKeeps DEF Kept
  <2> QED
    BY <1>1, <2>1, <2>2, <2>3, <2>4, <2>5, <2>6, <2>7, <2>8, <2>9, <2>10, <2>11, <2>12, <2>13,
       <2>14, <2>15, <2>16, <2>17, <2>18, <2>19, <2>20 DEF Step
<1>2. ASSUME UNCHANGED <<config, labels, req, denied, public, sent, answered, guardVars>>
      PROVE  ProxyInv' /\ (AnswersInv => AnswersInv')
  <2>1. GuardInv'
    BY <1>2 DEF ProxyInv, GuardInv, GuardTypeOK, guardVars
  <2>2. \A m \in sent' : Permitted(m, config)
    BY <1>2 DEF ProxyInv
  <2> QED
    BY <1>2, <2>1, <2>2, QuietKeeps DEF Kept
<1>3. CASE Tick
  BY <1>2, <1>3 DEF Tick
<1>4. CASE AllAnswered \/ UNCHANGED vars
  BY <1>2, <1>4 DEF AllAnswered, vars, proxyVars
<1>5. ASSUME NEW repo \in Repos, ChangeVisibility(repo) PROVE ProxyInv' /\ (AnswersInv => AnswersInv')
  BY <1>5, ChangeVisibilityKeeps DEF Kept
<1> QED
  BY <1>1, <1>3, <1>4, <1>5 DEF Next

\* A proxy that starts satisfies the invariant.
LEMMA InitEstablishes ==
  ASSUME Init
  PROVE  ProxyInv /\ AnswersInv
<1>1. ConfigInv
  <2>1. PICK cfg \in Configs : Accepted(cfg) /\ config = NewServer(cfg)
    BY DEF Init
  <2>2. cfg \in [kind : Kinds, readOnly : BOOLEAN, mode : EnforcementModes,
                 policy : EnforcementModes \union {"none"}, token : BOOLEAN]
    BY ProxyAssumption DEF ProxyAssumption
  <2>3. /\ ServerMode(cfg) \in EnforcementModes
        /\ cfg.kind # "plain" => ServerMode(cfg) = "propagate"
    BY <2>2 DEF ServerMode, EnforcementModes
  <2>4. cfg.kind # "plain" => cfg.token
    BY <2>1 DEF Accepted
  <2>5. /\ config.kind = cfg.kind /\ config.token = cfg.token /\ config.mode = ServerMode(cfg)
        /\ config.readOnly = cfg.readOnly /\ config.ready \in BOOLEAN
        /\ config = [kind |-> config.kind, readOnly |-> config.readOnly, token |-> config.token,
                     ready |-> config.ready, mode |-> config.mode]
    BY <2>1 DEF NewServer
  <2> QED
    BY <2>2, <2>3, <2>4, <2>5 DEF ConfigInv
<1>2. GuardInv
  <2>1. /\ MaxBackendCalls \in Nat /\ MaxAttempts \in Nat /\ MaxOutput \in Nat
    BY WasmGuardAssumption DEF WasmGuardAssumption
  <2> QED
    BY <2>1 DEF Init, GuardInit, GuardInv, GuardTypeOK
<1>3. labels \in [Agents -> Label]
  <2>1. \A a \in Agents : InitialLabels(a) \in Label
    BY ProxyAssumption DEF ProxyAssumption, InitialLabels, NoLabel, Label
  <2> QED
    BY <2>1 DEF Init
<1>4. CacheInv
  <2>1. DOMAIN denied = {}
    BY DEF Init
  <2>2. DeniedItems \in Nat
    BY ProxyAssumption DEF ProxyAssumption
  <2> QED
    BY <2>1, <2>2, FS_EmptySet DEF CacheInv
<1>5. \A c \in Callers : req[c] = Idle /\ answered[c] = {}
  BY DEF Init
<1>6. HandlersInv
  BY <1>5, IdleIsHandler, OverIsCalm DEF HandlersInv, Init
<1>7. AnswersInv
  BY <1>5, OverIsCalm DEF AnswersInv
<1>8. \A m \in sent : Permitted(m, config)
  BY DEF Init
<1> QED
  BY <1>1, <1>2, <1>3, <1>4, <1>6, <1>7, <1>8 DEF ProxyInv

\* The invariant holds always, whatever the clients send, the guard answers and GitHub
\* returns.
THEOREM ProxyInvariant == Spec => []ProxyInv
<1>1. Init => ProxyInv
  BY InitEstablishes
<1>2. ProxyInv /\ [Next]_vars => ProxyInv'
  BY NextKeeps
<1> QED
  BY <1>1, <1>2, PTL DEF Spec

\* Every variable keeps its type, and the cache of visibility denials never holds more
\* than maxEnclaveVisibilityDeniedCacheItems.
THEOREM TypeCorrect == Spec => []TypeOK
<1>1. ProxyInv => TypeOK
  BY DEF ProxyInv, GuardInv, CacheInv, HandlersInv, TypeOK
<1> QED
  BY <1>1, ProxyInvariant, PTL

\* Nothing but reads reaches GitHub: of the client's own requests only a GET or the query
\* selected from a GraphQL document, and of the guard's only GETs.
THEOREM OnlyReadsLeave == Spec => []UpstreamSeesOnlyReads
<1>1. ProxyInv => UpstreamSeesOnlyReads
  BY DEF ProxyInv, Permitted, UpstreamSeesOnlyReads
<1> QED
  BY <1>1, ProxyInvariant, PTL

\* The guard is never taken down by a client, is used with the backend of the request
\* that holds it, and nothing is sent with a credential of another client.
THEOREM GuardIsIsolated == Spec => []GuardIsolation
<1>1. ProxyInv => GuardIsolation
  BY DEF ProxyInv, GuardInv, Permitted, GuardIsolation
<1> QED
  BY <1>1, ProxyInvariant, PTL

\* An enclave agent reaches another repository than its own only if that was public while
\* its request was under way, whatever the cache of denials held.
THEOREM OtherRepositoriesWerePublic == Spec => []CrossRepoWasPublic
<1>1. ProxyInv => CrossRepoWasPublic
  BY DEF ProxyInv, HandlersInv, Routed, Admitted, CrossRepoWasPublic
<1> QED
  BY <1>1, ProxyInvariant, PTL

\* What a client has been given its agent may know, where the guard labels lists and trees
\* (an item of a search envelope is shown although it was filtered: FilterRemovesItems).
THEOREM AnswersStayReadable ==
  ASSUME "envelope" \notin Shapes
  PROVE  Spec => []AnswersAreReadable
<1>1. Init => ProxyInv /\ AnswersInv
  BY InitEstablishes
<1>2. ProxyInv /\ AnswersInv /\ [Next]_vars => (ProxyInv /\ AnswersInv)'
  BY NextKeeps
<1>3. ProxyInv /\ AnswersInv => AnswersAreReadable
  <2> SUFFICES ASSUME ProxyInv, AnswersInv, NEW c \in Callers, NEW item \in answered[c],
                      req[c].op # "write"
               PROVE  /\ BlockedTag \notin item.integrity
                      /\ \/ SecrecyFlows(item.secrecy, labels[req[c].agent].secrecy)
                         \/ IsArtifact(c) /\ At(c, "accumulate")
                      /\ req[c].bounded => item.secrecy \subseteq req[c].max
    BY DEF AnswersAreReadable
  <2>1. Held(req[c], config.mode, labels) /\ Given(req[c], labels, answered[c])
    BY DEF AnswersInv
  <2>2. req[c].pc \in {"accumulate", "reply", "answered"}
    BY <2>1 DEF Given
  <2>3. CASE req[c].pc = "accumulate"
    <3>1. item \in req[c].shown /\ req[c].r.path = "artifact"
      BY <2>1, <2>3 DEF Given
    <3>2. Readable(req[c], item, config.mode, labels)
      BY <2>1, <2>3, <3>1 DEF Held
    <3> QED
      BY <2>3, <3>1, <3>2 DEF Readable, IsArtifact, At
  <2>4. CASE req[c].pc \in {"reply", "answered"}
    <3>1. Known(req[c], item, labels)
      BY <2>1, <2>4 DEF Held, Given
    <3> QED
      BY <3>1 DEF Known
  <2> QED
    BY <2>2, <2>3, <2>4
<1> QED
  BY <1>1, <1>2, <1>3, PTL DEF Spec

===============================================================================
