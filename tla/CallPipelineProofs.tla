-------------------------- MODULE CallPipelineProofs --------------------------
(***************************************************************************)
(* What the reference monitor guarantees, for every set of calls, servers, *)
(* requests, responses, guards and tags.                                   *)
(*                                                                         *)
(* SecrecyCarried speaks of data already returned; to be inductive it has  *)
(* to speak of data on its way too.  Shape says what a call may hold at    *)
(* each point of the pipeline, Cover that the agent's label already covers *)
(* what Phase 5 let through (in strict and filter mode) or will before the *)
(* call returns (in propagate mode).  Every part of it survives the steps  *)
(* of other calls because the secrecy label only grows.                    *)
(***************************************************************************)
EXTENDS CallPipeline, CircuitBreaker, FiniteSetTheorems, TLAPS

Answered == {"filter", "accumulate", "accumulateIntegrity", "return"}

\* What a call holds at each point of the pipeline.
Shape(c) ==
  /\ call[c].todo \subseteq call[c].items
  /\ ~call[c].labelled => call[c].items = {}
  /\ call[c].pc \notin Answered => ~call[c].labelled /\ call[c].accessible = {}
  /\ call[c].pc = "filter" => call[c].accessible \subseteq call[c].items
  /\ call[c].pc \in Answered \ {"filter"}
       => call[c].accessible \subseteq IF call[c].labelled THEN call[c].items
                                       ELSE {call[c].req.labels}
  /\ call[c].pc \in {"label", "labelIntegrity", "store"} => call[c].req.server \in Guarded

Propagates(c) == Mode(call[c].req.server) = "propagate"

\* How the agent's label stands to what the call holds.
Cover(c) ==
  /\ call[c].pc \in {"labelIntegrity", "store"}
       => LabelAgent[call[c].req.server].labels.secrecy \subseteq labels.secrecy
  /\ call[c].pc \in {"backend", "filter"} /\ call[c].req.op # "write" /\ call[c].allowed
       => /\ BlockedTag \notin call[c].req.labels.integrity
          /\ ~Propagates(c) => SecrecyFlows(call[c].req.labels.secrecy, labels.secrecy)
  /\ call[c].pc \in Answered /\ call[c].req.op # "write"
       => \A i \in call[c].accessible :
            /\ BlockedTag \notin i.integrity
            /\ call[c].pc \in {"accumulateIntegrity", "return"} \/ ~Propagates(c)
                 => SecrecyFlows(i.secrecy, labels.secrecy)

PipelineInv ==
  /\ TypeOK
  /\ \A c \in Calls : Shape(c) /\ Cover(c)
  /\ SecrecyCarried /\ BlockedNeverDelivered /\ CachedGuardIsApplied

\* Data that may flow to a label may flow to every larger one.
LEMMA FlowGrows ==
  ASSUME NEW x, NEW A, NEW B, SecrecyFlows(x, A), A \subseteq B
  PROVE  SecrecyFlows(x, B)
BY DEF SecrecyFlows

\* The flow relation is transitive, the wildcard included: a label that holds it
\* only flows to labels that hold it.
LEMMA FlowTransitive ==
  ASSUME NEW x, NEW A, NEW B, SecrecyFlows(x, A), SecrecyFlows(A, B)
  PROVE  SecrecyFlows(x, B)
BY DEF SecrecyFlows

\* The step of one call leaves the others as they are, and their cover holds
\* under a label that has grown.
LEMMA OthersKeep ==
  ASSUME NEW c \in Calls, NEW d \in Calls, Shape(d), Cover(d),
         call'[d] = call[d], labels.secrecy \subseteq labels'.secrecy
  PROVE  Shape(d)' /\ Cover(d)'
<1>1. Shape(d)'
  BY DEF Shape
<1>2. ASSUME NEW x, SecrecyFlows(x, labels.secrecy) PROVE SecrecyFlows(x, labels'.secrecy)
  BY <1>2, FlowGrows
<1>3. Propagates(d)' <=> Propagates(d)
  BY DEF Propagates, Mode
<1>4. Cover(d)'
  BY <1>2, <1>3 DEF Cover
<1> QED
  BY <1>1, <1>4

\* If only one call moves and the label's secrecy grows, what has been returned
\* stays covered.
LEMMA ReturnedKeep ==
  ASSUME SecrecyCarried, BlockedNeverDelivered, CachedGuardIsApplied,
         delivered' = delivered, guardInit' = guardInit,
         labels.secrecy \subseteq labels'.secrecy
  PROVE  (SecrecyCarried /\ BlockedNeverDelivered /\ CachedGuardIsApplied)'
<1>1. SecrecyCarried'
  BY FlowGrows DEF SecrecyCarried
<1>2. BlockedNeverDelivered' /\ CachedGuardIsApplied'
  BY DEF BlockedNeverDelivered, CachedGuardIsApplied
<1> QED
  BY <1>1, <1>2

\* A step of one call that returns nothing, stores no guard state and takes no
\* secrecy tag away need only be checked for that call.
LEMMA CallStep ==
  ASSUME PipelineInv, NEW c \in Calls, TypeOK', Shape(c)', Cover(c)',
         \A d \in Calls \ {c} : call'[d] = call[d],
         labels.secrecy \subseteq labels'.secrecy,
         delivered' = delivered, guardInit' = guardInit
  PROVE  PipelineInv'
<1>1. \A d \in Calls : Shape(d)' /\ Cover(d)'
  <2> TAKE d \in Calls
  <2>1. CASE d = c
    BY <2>1
  <2>2. CASE d # c
    BY <2>2, OthersKeep DEF PipelineInv
  <2> QED
    BY <2>1, <2>2
<1>2. (SecrecyCarried /\ BlockedNeverDelivered /\ CachedGuardIsApplied)'
  BY ReturnedKeep DEF PipelineInv
<1> QED
  BY <1>1, <1>2 DEF PipelineInv

\* An error result ends the call and leaves everything else alone.
LEMMA FailsPreserves ==
  ASSUME PipelineInv, NEW c \in Calls, Fails(c)
  PROVE  PipelineInv'
<1> USE DEF Fails
<1>1. Returned \in CallRecord /\ Returned.pc = "done"
  BY DEF Returned, NewCall, CallRecord, PCs
<1>2. TypeOK'
  BY <1>1 DEF PipelineInv, TypeOK
<1>3. Shape(c)' /\ Cover(c)'
  BY DEF PipelineInv, Shape, Cover, Answered, Returned, NewCall, TypeOK
<1> QED
  BY <1>2, <1>3, CallStep DEF PipelineInv, TypeOK

\* Goto moves one call and changes nothing in it but where it is.
LEMMA GotoFacts ==
  ASSUME TypeOK, NEW c \in Calls, NEW pc \in PCs, Goto(c, pc)
  PROVE  /\ call' \in [Calls -> CallRecord]
         /\ call'[c].pc = pc
         /\ call'[c].req = call[c].req
         /\ call'[c].allowed = call[c].allowed
         /\ call'[c].labelled = call[c].labelled
         /\ call'[c].items = call[c].items
         /\ call'[c].todo = call[c].todo
         /\ call'[c].accessible = call[c].accessible
         /\ \A d \in Calls \ {c} : call'[d] = call[d]
<1>1. call[c] \in CallRecord
  BY DEF TypeOK
<1>2. call' = [call EXCEPT ![c] = [call[c] EXCEPT !.pc = pc]]
  BY DEF Goto
<1>3. [call[c] EXCEPT !.pc = pc] \in CallRecord
  BY <1>1 DEF CallRecord
<1>4. call' \in [Calls -> CallRecord]
  BY <1>2, <1>3 DEF TypeOK
<1>5. call'[c] = [call[c] EXCEPT !.pc = pc] /\ \A d \in Calls \ {c} : call'[d] = call[d]
  BY <1>2 DEF TypeOK
<1> QED
  BY <1>1, <1>4, <1>5 DEF CallRecord

\* The request of a call that was and stays in flight.
LEMMA InFlight ==
  ASSUME TypeOK, NEW c \in Calls, call[c].pc \notin {"new", "done"},
         call'[c].req = call[c].req, \A d \in Calls \ {c} : call'[d] = call[d]
  PROVE  \A d \in Calls : call'[d].pc \notin {"new", "done"} => call'[d].req \in Requests
BY DEF TypeOK

\* Begin: a call that is authorised starts.
LEMMA BeginPreserves ==
  ASSUME PipelineInv, NEW c \in Calls, Begin(c)
  PROVE  PipelineInv'
<1> USE DEF Begin, At
<1>1. PICK r \in Requests : call' = [call EXCEPT ![c].pc = "init", ![c].req = r]
  OBVIOUS
<1>2. TypeOK /\ call[c] \in CallRecord /\ call \in [Calls -> CallRecord]
  BY DEF PipelineInv, TypeOK
<1>3. [call[c] EXCEPT !.pc = "init", !.req = r] \in CallRecord
  BY <1>2 DEF CallRecord, PCs
<1>4. /\ call'[c] = [call[c] EXCEPT !.pc = "init", !.req = r]
      /\ \A d \in Calls \ {c} : call'[d] = call[d]
      /\ call' \in [Calls -> CallRecord]
  BY <1>1, <1>2, <1>3
<1>5. call'[c].req = r /\ call'[c].pc = "init" /\ call'[c].labelled = call[c].labelled
      /\ call'[c].items = call[c].items /\ call'[c].todo = call[c].todo
      /\ call'[c].accessible = call[c].accessible
  BY <1>2, <1>4 DEF CallRecord
<1>6. TypeOK'
  BY <1>2, <1>4, <1>5 DEF TypeOK
<1>7. Shape(c)' /\ Cover(c)'
  BY <1>5 DEF PipelineInv, Shape, Cover, Answered
<1> QED
  BY <1>4, <1>6, <1>7, CallStep DEF PipelineInv, TypeOK

\* ensureGuardInitialized keeps the invariant.
LEMMA EnsureGuardInitializedPreserves ==
  ASSUME PipelineInv, NEW c \in Calls, EnsureGuardInitialized(c)
  PROVE  PipelineInv'
<1> USE DEF EnsureGuardInitialized, At
<1>1. TypeOK /\ Shape(c)
  BY DEF PipelineInv
<1>2. PICK pc \in {"label", "limit"} : Goto(c, pc) /\ (pc = "label" => call[c].req.server \in Guarded)
  OBVIOUS
<1>3. pc \in PCs
  BY DEF PCs
<1>4. /\ call' \in [Calls -> CallRecord]
      /\ call'[c].pc = pc /\ call'[c].req = call[c].req
      /\ call'[c].labelled = call[c].labelled /\ call'[c].items = call[c].items
      /\ call'[c].todo = call[c].todo /\ call'[c].accessible = call[c].accessible
      /\ \A d \in Calls \ {c} : call'[d] = call[d]
  BY <1>1, <1>2, <1>3, GotoFacts
<1>5. TypeOK'
  BY <1>1, <1>4, InFlight DEF TypeOK
<1>6. Shape(c)' /\ Cover(c)'
  BY <1>1, <1>2, <1>4 DEF Shape, Cover, Answered
<1> QED
  BY <1>1, <1>4, <1>5, <1>6, CallStep DEF TypeOK

\* label_agent's secrecy tags are in the label before the state is stored.
LEMMA AddSecrecyTagsPreserves ==
  ASSUME PipelineInv, NEW c \in Calls, AddSecrecyTags(c)
  PROVE  PipelineInv'
<1> USE DEF AddSecrecyTags, At
<1>1. TypeOK /\ Shape(c) /\ call[c].req.server \in Guarded
  BY DEF PipelineInv, Shape
<1>2. LabelAgent[call[c].req.server].labels \in Label
  BY <1>1, PipelineAssumption DEF PipelineAssumption
<1>3. /\ labels' \in Label
      /\ labels'.secrecy = labels.secrecy \union LabelAgent[call[c].req.server].labels.secrecy
  BY <1>1, <1>2 DEF TypeOK, Label
<1>4. /\ call' \in [Calls -> CallRecord]
      /\ call'[c].pc = "labelIntegrity" /\ call'[c].req = call[c].req
      /\ call'[c].labelled = call[c].labelled /\ call'[c].items = call[c].items
      /\ call'[c].todo = call[c].todo /\ call'[c].accessible = call[c].accessible
      /\ \A d \in Calls \ {c} : call'[d] = call[d]
  BY <1>1, GotoFacts DEF PCs
<1>5. TypeOK'
  BY <1>1, <1>3, <1>4, InFlight DEF TypeOK
<1>6. Shape(c)' /\ Cover(c)'
  BY <1>1, <1>3, <1>4 DEF Shape, Cover, Answered
<1> QED
  BY <1>3, <1>4, <1>5, <1>6, CallStep

\* The agent's tags of the guard's answer are added.
LEMMA AddIntegrityTagsPreserves ==
  ASSUME PipelineInv, NEW c \in Calls, AddIntegrityTags(c)
  PROVE  PipelineInv'
<1> USE DEF AddIntegrityTags, At
<1>1. TypeOK /\ Shape(c) /\ Cover(c) /\ call[c].req.server \in Guarded
  BY DEF PipelineInv, Shape
<1>2. LabelAgent[call[c].req.server].labels \in Label
  BY <1>1, PipelineAssumption DEF PipelineAssumption
<1>3. labels' \in Label /\ labels'.secrecy = labels.secrecy
  BY <1>1, <1>2 DEF TypeOK, Label
<1>4. /\ call' \in [Calls -> CallRecord]
      /\ call'[c].pc = "store" /\ call'[c].req = call[c].req
      /\ call'[c].labelled = call[c].labelled /\ call'[c].items = call[c].items
      /\ call'[c].todo = call[c].todo /\ call'[c].accessible = call[c].accessible
      /\ \A d \in Calls \ {c} : call'[d] = call[d]
  BY <1>1, GotoFacts DEF PCs
<1>5. TypeOK'
  BY <1>1, <1>3, <1>4, InFlight DEF TypeOK
<1>6. Shape(c)' /\ Cover(c)'
  BY <1>1, <1>3, <1>4 DEF Shape, Cover, Answered
<1> QED
  BY <1>3, <1>4, <1>5, <1>6, CallStep

\* The session state of the guard is published.
LEMMA StoreGuardStatePreserves ==
  ASSUME PipelineInv, NEW c \in Calls, StoreGuardState(c)
  PROVE  PipelineInv'
<1> USE DEF StoreGuardState, At
<1>1. TypeOK /\ Shape(c) /\ Cover(c) /\ call[c].req.server \in Guarded
  BY DEF PipelineInv, Shape
<1>2. call[c].req.server \in Servers
  BY <1>1, PipelineAssumption DEF PipelineAssumption
<1>3. /\ call' \in [Calls -> CallRecord]
      /\ call'[c].pc = "limit" /\ call'[c].req = call[c].req
      /\ call'[c].labelled = call[c].labelled /\ call'[c].items = call[c].items
      /\ call'[c].todo = call[c].todo /\ call'[c].accessible = call[c].accessible
      /\ \A d \in Calls \ {c} : call'[d] = call[d]
  BY <1>1, GotoFacts DEF PCs
<1>4. guardInit' \in [Servers -> Calls \union {None}] /\ stored' \in [Servers -> SUBSET Calls]
  BY <1>1, <1>2 DEF TypeOK
<1>5. TypeOK'
  BY <1>1, <1>3, <1>4, InFlight DEF TypeOK
<1>6. Shape(c)' /\ Cover(c)'
  BY <1>1, <1>3 DEF Shape, Cover, Answered
<1>7. \A d \in Calls : Shape(d)' /\ Cover(d)'
  BY <1>3, <1>6, OthersKeep DEF PipelineInv
<1>8. CachedGuardIsApplied'
  <2> SUFFICES ASSUME NEW s \in Guarded, guardInit'[s] # None
               PROVE  LabelAgent[s].labels.secrecy \subseteq labels.secrecy
    BY DEF CachedGuardIsApplied
  <2>1. CASE s = call[c].req.server
    BY <1>1, <2>1 DEF Cover
  <2>2. CASE s # call[c].req.server
    BY <1>1, <2>2 DEF PipelineInv, CachedGuardIsApplied, TypeOK
  <2> QED
    BY <2>1, <2>2
<1>9. SecrecyCarried' /\ BlockedNeverDelivered'
  BY DEF PipelineInv, SecrecyCarried, BlockedNeverDelivered
<1> QED
  BY <1>5, <1>7, <1>8, <1>9 DEF PipelineInv

\* A call replaced as a whole.
LEMMA MoveFacts ==
  ASSUME TypeOK, NEW c \in Calls, NEW rec \in CallRecord, call' = [call EXCEPT ![c] = rec]
  PROVE  /\ call' \in [Calls -> CallRecord] /\ call'[c] = rec
         /\ \A d \in Calls \ {c} : call'[d] = call[d]
BY DEF TypeOK

\* A call reads the state another one has published.
LEMMA ReadGuardStatePreserves ==
  ASSUME PipelineInv, NEW c \in Calls, ReadGuardState(c)
  PROVE  PipelineInv'
<1> USE DEF ReadGuardState, At
<1> DEFINE rec == [call[c] EXCEPT !.pc = "count", !.state = guardInit[call[c].req.server]]
<1>1. TypeOK /\ Shape(c) /\ call[c] \in CallRecord /\ call[c].req \in Requests
  BY DEF PipelineInv, TypeOK
<1>2. guardInit[call[c].req.server] \in Calls \union {None}
  BY <1>1, PipelineAssumption DEF PipelineAssumption, Request, TypeOK
<1>3. /\ rec \in CallRecord /\ rec.pc = "count" /\ rec.req = call[c].req
      /\ rec.labelled = call[c].labelled /\ rec.items = call[c].items
      /\ rec.todo = call[c].todo /\ rec.accessible = call[c].accessible
  BY <1>1, <1>2 DEF CallRecord, PCs
<1>4. call' = [call EXCEPT ![c] = rec]
  OBVIOUS
<1> HIDE DEF rec
<1>5. /\ call' \in [Calls -> CallRecord] /\ call'[c] = rec
      /\ \A d \in Calls \ {c} : call'[d] = call[d]
  BY <1>1, <1>3, <1>4, MoveFacts
<1>6. TypeOK'
  BY <1>1, <1>3, <1>5, InFlight DEF TypeOK
<1>7. Shape(c)' /\ Cover(c)'
  BY <1>1, <1>3, <1>5 DEF Shape, Cover, Answered
<1> QED
  BY <1>5, <1>6, <1>7, CallStep

\* The call is counted against its budget.
LEMMA CountCallPreserves ==
  ASSUME PipelineInv, NEW c \in Calls, CountCall(c)
  PROVE  PipelineInv'
<1> USE DEF CountCall, At
<1> DEFINE rec == [call[c] EXCEPT !.pc = "check", !.state = None]
<1>1. TypeOK /\ Shape(c) /\ call[c] \in CallRecord /\ call[c].req \in Requests
  BY DEF PipelineInv, TypeOK
<1>2. call[c].req.server \in Servers /\ call[c].req.tool \in Tools
  BY <1>1, PipelineAssumption DEF PipelineAssumption, Request
<1>3. /\ rec \in CallRecord /\ rec.pc = "check" /\ rec.req = call[c].req
      /\ rec.labelled = call[c].labelled /\ rec.items = call[c].items
      /\ rec.todo = call[c].todo /\ rec.accessible = call[c].accessible
  BY <1>1 DEF CallRecord, PCs
<1>4. call' = [call EXCEPT ![c] = rec]
  OBVIOUS
<1> HIDE DEF rec
<1>5. /\ call' \in [Calls -> CallRecord] /\ call'[c] = rec
      /\ \A d \in Calls \ {c} : call'[d] = call[d]
  BY <1>1, <1>3, <1>4, MoveFacts
<1>6. counts' \in [Calls -> [Tools -> Nat]] /\ admitted' \in [Servers -> [Tools -> Nat]]
  <2>1. CASE IsLimited(c)
    <3>1. call[c].state \in Calls
      BY <1>1, <2>1 DEF IsLimited, CallRecord
    <3>2. counts' = [counts EXCEPT ![call[c].state][call[c].req.tool] = @ + 1]
          /\ admitted' = [admitted EXCEPT ![call[c].req.server][call[c].req.tool] = @ + 1]
      BY <2>1
    <3> QED
      BY <1>1, <1>2, <3>1, <3>2 DEF TypeOK
  <2>2. CASE ~IsLimited(c)
    BY <1>1, <2>2 DEF TypeOK
  <2> QED
    BY <2>1, <2>2
<1>7. TypeOK'
  BY <1>1, <1>3, <1>5, <1>6, InFlight DEF TypeOK
<1>8. Shape(c)' /\ Cover(c)'
  BY <1>1, <1>3, <1>5 DEF Shape, Cover, Answered
<1> QED
  BY <1>5, <1>7, <1>8, CallStep

\* A read that Phase 2 allows is of a resource the agent may see now.
LEMMA CheckAccessPreserves ==
  ASSUME PipelineInv, NEW c \in Calls, CheckAccess(c)
  PROVE  PipelineInv'
<1> USE DEF CheckAccess, At
<1> DEFINE r     == call[c].req
           ok    == Evaluate(labels, r.labels, r.op, Mode(r.server))
           rec   == [call[c] EXCEPT !.pc = "backend", !.allowed = ok]
<1>1. TypeOK /\ Shape(c) /\ call[c] \in CallRecord /\ call[c].req \in Requests
  BY DEF PipelineInv, TypeOK
<1>2. ok \in BOOLEAN
  BY DEF Evaluate
<1>3. /\ rec \in CallRecord /\ rec.pc = "backend" /\ rec.req = call[c].req /\ rec.allowed = ok
      /\ rec.labelled = call[c].labelled /\ rec.items = call[c].items
      /\ rec.todo = call[c].todo /\ rec.accessible = call[c].accessible
  <2> HIDE DEF ok
  <2> QED
    BY <1>1, <1>2 DEF CallRecord, PCs
<1>4. call' = [call EXCEPT ![c] = rec]
  OBVIOUS
<1>5. ok /\ r.op # "write"
        => /\ BlockedTag \notin r.labels.integrity
           /\ ~Propagates(c) => SecrecyFlows(r.labels.secrecy, labels.secrecy)
  BY DEF Evaluate, ReadAllowed, Propagates
<1> HIDE DEF rec, ok
<1>6. /\ call' \in [Calls -> CallRecord] /\ call'[c] = rec
      /\ \A d \in Calls \ {c} : call'[d] = call[d]
  BY <1>1, <1>3, <1>4, MoveFacts
<1>7. TypeOK'
  BY <1>1, <1>3, <1>6, InFlight DEF TypeOK
<1>8. Shape(c)'
  BY <1>1, <1>3, <1>6 DEF Shape, Answered
<1>9. Cover(c)'
  BY <1>3, <1>5, <1>6 DEF Cover, Answered, Propagates
<1> QED
  BY <1>6, <1>7, <1>8, <1>9, CallStep

\* The backend's answer brings labelled items.
LEMMA BackendAnswersPreserves ==
  ASSUME PipelineInv, NEW c \in Calls, BackendAnswers(c)
  PROVE  PipelineInv'
<1> USE DEF BackendAnswers, At
<1>1. TypeOK /\ Shape(c) /\ Cover(c) /\ call[c] \in CallRecord /\ call[c].req \in Requests
  BY DEF PipelineInv, TypeOK
<1>2. PICK rec \in CallRecord :
        /\ call' = [call EXCEPT ![c] = rec]
        /\ rec.pc = "filter" /\ rec.req = call[c].req /\ rec.accessible = {}
        /\ rec.todo \subseteq rec.items
        /\ ~rec.labelled => rec.items = {}
        /\ rec.allowed => call[c].allowed
  <2>1. ~call[c].labelled /\ call[c].items = {} /\ call[c].todo = {} /\ call[c].accessible = {}
    BY <1>1 DEF Shape, Answered
  <2>2. CASE call' = [call EXCEPT ![c].pc = "filter"]
    <3> DEFINE rec == [call[c] EXCEPT !.pc = "filter"]
    <3>1. rec \in CallRecord /\ call' = [call EXCEPT ![c] = rec]
      BY <1>1, <2>2 DEF CallRecord, PCs
    <3>2. /\ rec.pc = "filter" /\ rec.req = call[c].req /\ rec.accessible = {}
          /\ rec.todo \subseteq rec.items /\ rec.items = {} /\ rec.allowed = call[c].allowed
      BY <1>1, <2>1 DEF CallRecord
    <3> QED
      BY <3>1, <3>2
  <2>3. CASE \E items \in Labelled :
               call' = [call EXCEPT ![c].pc = "filter", ![c].labelled = TRUE,
                                    ![c].allowed = FALSE, ![c].items = items, ![c].todo = items]
    <3>1. PICK items \in Labelled :
               call' = [call EXCEPT ![c].pc = "filter", ![c].labelled = TRUE,
                                    ![c].allowed = FALSE, ![c].items = items, ![c].todo = items]
      BY <2>3
    <3> DEFINE rec == [call[c] EXCEPT !.pc = "filter", !.labelled = TRUE, !.allowed = FALSE,
                                      !.items = items, !.todo = items]
    <3>2. items \in SUBSET Label
      BY PipelineAssumption DEF PipelineAssumption
    <3>3. rec \in CallRecord
      BY <1>1, <3>2 DEF CallRecord, PCs
    <3>4. /\ rec.pc = "filter" /\ rec.req = call[c].req /\ rec.accessible = {}
          /\ rec.todo = rec.items /\ rec.labelled = TRUE /\ rec.allowed = FALSE
      BY <1>1, <2>1 DEF CallRecord
    <3>5. call' = [call EXCEPT ![c] = rec]
      BY <3>1
    <3> HIDE DEF rec
    <3> QED
      BY <3>3, <3>4, <3>5
  <2> QED
    BY <2>2, <2>3
<1>3. /\ call' \in [Calls -> CallRecord] /\ call'[c] = rec
      /\ \A d \in Calls \ {c} : call'[d] = call[d]
  BY <1>1, <1>2, MoveFacts
<1>4. TypeOK'
  BY <1>1, <1>2, <1>3, InFlight DEF TypeOK
<1>5. Shape(c)' /\ Cover(c)'
  BY <1>1, <1>2, <1>3 DEF Shape, Cover, Answered, Propagates
<1> QED
  BY <1>3, <1>4, <1>5, CallStep

\* An item that passes Phase 5 is one the agent's present label covers, unless
\* Phase 6 is still to come.
LEMMA FilterItemPreserves ==
  ASSUME PipelineInv, NEW c \in Calls, FilterItem(c)
  PROVE  PipelineInv'
<1> USE DEF FilterItem, At
<1> DEFINE r == call[c].req
<1>1. TypeOK /\ Shape(c) /\ Cover(c) /\ call[c] \in CallRecord /\ call[c].req \in Requests
  BY DEF PipelineInv, TypeOK
<1>2. PICK item \in call[c].todo :
        call' = [call EXCEPT
          ![c].todo = @ \ {item},
          ![c].accessible = IF Evaluate(labels, item, r.op, Mode(r.server))
                            THEN @ \union {item} ELSE @]
  OBVIOUS
<1> DEFINE acc == IF Evaluate(labels, item, r.op, Mode(r.server))
                  THEN call[c].accessible \union {item} ELSE call[c].accessible
           rec == [call[c] EXCEPT !.todo = @ \ {item}, !.accessible = acc]
<1>3. item \in Label /\ item \in call[c].items /\ call[c].accessible \subseteq call[c].items
  BY <1>1 DEF Shape, CallRecord
<1>4. acc \subseteq call[c].items /\ acc \in SUBSET Label
  BY <1>1, <1>3 DEF CallRecord
<1>5. \A i \in acc : i \in call[c].accessible
                     \/ (i = item /\ Evaluate(labels, item, r.op, Mode(r.server)))
  OBVIOUS
<1>6. Evaluate(labels, item, r.op, Mode(r.server)) /\ r.op # "write"
        => /\ BlockedTag \notin item.integrity
           /\ ~Propagates(c) => SecrecyFlows(item.secrecy, labels.secrecy)
  BY DEF Evaluate, ReadAllowed, Propagates
<1>7. call' = [call EXCEPT ![c] = rec]
  BY <1>2
<1> HIDE DEF acc
<1>8. /\ rec \in CallRecord /\ rec.pc = "filter" /\ rec.req = call[c].req
      /\ rec.allowed = call[c].allowed /\ rec.labelled = call[c].labelled
      /\ rec.items = call[c].items /\ rec.todo = call[c].todo \ {item} /\ rec.accessible = acc
  BY <1>1, <1>4 DEF CallRecord
<1> HIDE DEF rec
<1>9. /\ call' \in [Calls -> CallRecord] /\ call'[c] = rec
      /\ \A d \in Calls \ {c} : call'[d] = call[d]
  BY <1>1, <1>7, <1>8, MoveFacts
<1>10. TypeOK'
  BY <1>1, <1>8, <1>9, InFlight DEF TypeOK
<1>11. Shape(c)'
  BY <1>1, <1>4, <1>8, <1>9 DEF Shape, Answered
<1>12. Cover(c)'
  BY <1>1, <1>5, <1>6, <1>8, <1>9 DEF Cover, Answered, Propagates
<1> QED
  BY <1>9, <1>10, <1>11, <1>12, CallStep

\* Without item labels the response passes on the strength of Phase 2.
LEMMA FilterPassesPreserves ==
  ASSUME PipelineInv, NEW c \in Calls, FilterPasses(c)
  PROVE  PipelineInv'
<1> USE DEF FilterPasses, At
<1> DEFINE acc == IF call[c].labelled THEN call[c].accessible ELSE {call[c].req.labels}
           rec == [call[c] EXCEPT !.pc = "accumulate", !.accessible = acc]
<1>1. TypeOK /\ Shape(c) /\ Cover(c) /\ call[c] \in CallRecord /\ call[c].req \in Requests
  BY DEF PipelineInv, TypeOK
<1>2. call[c].req.labels \in Label
  BY <1>1, PipelineAssumption DEF PipelineAssumption, Request
<1>3. acc \in SUBSET Label
  BY <1>1, <1>2 DEF CallRecord
<1>4. acc \subseteq IF call[c].labelled THEN call[c].items ELSE {call[c].req.labels}
  BY <1>1 DEF Shape
<1>5. ~call[c].labelled => call[c].allowed
  BY DEF ResponseWithheld
<1>6. call[c].req.op # "write"
        => \A i \in acc : /\ BlockedTag \notin i.integrity
                          /\ ~Propagates(c) => SecrecyFlows(i.secrecy, labels.secrecy)
  BY <1>1, <1>5 DEF Cover, Answered
<1>7. call' = [call EXCEPT ![c] = rec]
  OBVIOUS
<1> HIDE DEF acc
<1>8. /\ rec \in CallRecord /\ rec.pc = "accumulate" /\ rec.req = call[c].req
      /\ rec.labelled = call[c].labelled /\ rec.items = call[c].items
      /\ rec.todo = call[c].todo /\ rec.accessible = acc
  BY <1>1, <1>3 DEF CallRecord, PCs
<1> HIDE DEF rec
<1>9. /\ call' \in [Calls -> CallRecord] /\ call'[c] = rec
      /\ \A d \in Calls \ {c} : call'[d] = call[d]
  BY <1>1, <1>7, <1>8, MoveFacts
<1>10. TypeOK'
  BY <1>1, <1>8, <1>9, InFlight DEF TypeOK
<1>11. Shape(c)'
  BY <1>1, <1>4, <1>8, <1>9 DEF Shape, Answered
<1>12. Cover(c)'
  BY <1>6, <1>8, <1>9 DEF Cover, Answered, Propagates
<1> QED
  BY <1>9, <1>10, <1>11, <1>12, CallStep

\* What a call lets through is part of what it accumulates.
LEMMA OverallCovers ==
  ASSUME TypeOK, NEW c \in Calls, Shape(c), call[c].pc = "accumulate",
         NEW i \in call[c].accessible
  PROVE  i.secrecy \subseteq Overall(c).secrecy
<1>1. CASE call[c].labelled
  <2>1. i \in call[c].items
    BY <1>1 DEF Shape, Answered
  <2>2. Overall(c).secrecy = UNION {j.secrecy : j \in call[c].items}
    BY <1>1 DEF Overall, AggregateLabels
  <2> QED
    BY <2>1, <2>2
<1>2. CASE ~call[c].labelled
  BY <1>2 DEF Shape, Answered, Overall
<1> QED
  BY <1>1, <1>2

\* The label of an answer is made of secrecy tags.
LEMMA OverallType ==
  ASSUME TypeOK, NEW c \in Calls, call[c].pc \in Answered
  PROVE  Overall(c).secrecy \subseteq SecrecyTags
<1>1. call[c].items \subseteq Label /\ call[c].req \in Requests
  BY DEF TypeOK, CallRecord, Answered
<1>2. CASE call[c].labelled
  BY <1>1, <1>2 DEF Overall, AggregateLabels, Label
<1>3. CASE ~call[c].labelled
  BY <1>1, <1>3, PipelineAssumption DEF Overall, PipelineAssumption, Request, Label
<1> QED
  BY <1>2, <1>3

\* Phase 6 covers in propagate mode what Phase 5 covered in the others.
LEMMA AccumulateSecrecyPreserves ==
  ASSUME PipelineInv, NEW c \in Calls, AccumulateSecrecy(c)
  PROVE  PipelineInv'
<1> USE DEF AccumulateSecrecy, At
<1>1. TypeOK /\ Shape(c) /\ Cover(c) /\ call[c].pc = "accumulate"
  BY DEF PipelineInv
<1>2. Overall(c).secrecy \subseteq SecrecyTags
  BY <1>1, OverallType DEF Answered
<1>3. /\ labels' \in Label
      /\ labels.secrecy \subseteq labels'.secrecy
      /\ Accumulates(c) => Overall(c).secrecy \subseteq labels'.secrecy
  <2>1. CASE Accumulates(c)
    BY <1>1, <1>2, <2>1 DEF TypeOK, Label
  <2>2. CASE ~Accumulates(c)
    BY <1>1, <2>2 DEF TypeOK
  <2> QED
    BY <2>1, <2>2
<1>4. /\ call' \in [Calls -> CallRecord]
      /\ call'[c].pc = "accumulateIntegrity" /\ call'[c].req = call[c].req
      /\ call'[c].labelled = call[c].labelled /\ call'[c].items = call[c].items
      /\ call'[c].todo = call[c].todo /\ call'[c].accessible = call[c].accessible
      /\ \A d \in Calls \ {c} : call'[d] = call[d]
  BY <1>1, GotoFacts DEF PCs
<1>5. ASSUME call[c].req.op # "write", NEW i \in call[c].accessible
      PROVE  BlockedTag \notin i.integrity /\ SecrecyFlows(i.secrecy, labels'.secrecy)
  <2>1. BlockedTag \notin i.integrity
    BY <1>1, <1>5 DEF Cover, Answered
  <2>2. CASE Propagates(c)
    <3>1. Accumulates(c)
      BY <1>5, <2>2 DEF Accumulates, ShouldAccumulateReadLabels, Propagates
    <3>2. i.secrecy \subseteq labels'.secrecy
      BY <1>1, <1>3, <3>1, OverallCovers
    <3> QED
      BY <2>1, <3>2 DEF SecrecyFlows
  <2>3. CASE ~Propagates(c)
    <3>1. SecrecyFlows(i.secrecy, labels.secrecy)
      BY <1>1, <1>5, <2>3 DEF Cover, Answered
    <3> QED
      BY <1>3, <2>1, <3>1, FlowGrows
  <2> QED
    BY <2>2, <2>3
<1>6. TypeOK'
  BY <1>1, <1>3, <1>4, InFlight DEF TypeOK
<1>7. Shape(c)'
  BY <1>1, <1>4 DEF Shape, Answered
<1>8. Cover(c)'
  BY <1>4, <1>5 DEF Cover, Answered
<1> QED
  BY <1>3, <1>4, <1>6, <1>7, <1>8, CallStep

\* The agent's integrity drops to what it has read.
LEMMA AccumulateIntegrityPreserves ==
  ASSUME PipelineInv, NEW c \in Calls, AccumulateIntegrity(c)
  PROVE  PipelineInv'
<1> USE DEF AccumulateIntegrity, At
<1>1. TypeOK /\ Shape(c) /\ Cover(c) /\ call[c].pc = "accumulateIntegrity"
  BY DEF PipelineInv
<1>2. labels' \in Label /\ labels'.secrecy = labels.secrecy
  BY <1>1 DEF TypeOK, Label
<1>3. /\ call' \in [Calls -> CallRecord]
      /\ call'[c].pc = "return" /\ call'[c].req = call[c].req
      /\ call'[c].labelled = call[c].labelled /\ call'[c].items = call[c].items
      /\ call'[c].todo = call[c].todo /\ call'[c].accessible = call[c].accessible
      /\ \A d \in Calls \ {c} : call'[d] = call[d]
  BY <1>1, GotoFacts DEF PCs
<1>4. TypeOK'
  BY <1>1, <1>2, <1>3, InFlight DEF TypeOK
<1>5. Shape(c)' /\ Cover(c)'
  BY <1>1, <1>2, <1>3 DEF Shape, Cover, Answered
<1> QED
  BY <1>2, <1>3, <1>4, <1>5, CallStep

\* What the caller gets is covered by now.
LEMMA ReturnPreserves ==
  ASSUME PipelineInv, NEW c \in Calls, Return(c)
  PROVE  PipelineInv'
<1> USE DEF Return, At
<1>1. TypeOK /\ Cover(c) /\ call[c] \in CallRecord /\ call[c].pc = "return"
  BY DEF PipelineInv, TypeOK
<1>2. Returned \in CallRecord /\ Returned.pc = "done"
  BY DEF Returned, NewCall, CallRecord, PCs
<1>3. /\ call' \in [Calls -> CallRecord] /\ call'[c] = Returned
      /\ \A d \in Calls \ {c} : call'[d] = call[d]
  BY <1>1, <1>2, MoveFacts
<1>4. delivered' \subseteq Label
  BY <1>1 DEF TypeOK, CallRecord
<1>5. TypeOK'
  BY <1>1, <1>2, <1>3, <1>4 DEF TypeOK
<1>6. Shape(c)' /\ Cover(c)'
  BY <1>3 DEF Shape, Cover, Answered, Returned, NewCall
<1>7. \A d \in Calls : Shape(d)' /\ Cover(d)'
  BY <1>3, <1>6, OthersKeep DEF PipelineInv
<1>8. \A d \in delivered' :
        BlockedTag \notin d.integrity /\ SecrecyFlows(d.secrecy, labels.secrecy)
  <2> TAKE d \in delivered'
  <2>1. CASE d \in delivered
    BY <2>1 DEF PipelineInv, SecrecyCarried, BlockedNeverDelivered
  <2>2. CASE d \notin delivered
    <3>1. d \in call[c].accessible /\ call[c].req.op # "write"
      BY <2>2
    <3> QED
      BY <1>1, <3>1 DEF Cover, Answered
  <2> QED
    BY <2>1, <2>2
<1>9. SecrecyCarried' /\ BlockedNeverDelivered' /\ CachedGuardIsApplied'
  BY <1>8 DEF PipelineInv, SecrecyCarried, BlockedNeverDelivered, CachedGuardIsApplied
<1> QED
  BY <1>5, <1>7, <1>9 DEF PipelineInv

\* No call and no session: the invariant holds.
LEMMA InitEstablishes == Init => PipelineInv
<1> SUFFICES ASSUME Init PROVE PipelineInv
  OBVIOUS
<1> USE DEF Init
<1>1. NewCall \in CallRecord /\ NewCall.pc = "new"
  BY DEF NewCall, CallRecord, PCs
<1>2. TypeOK
  BY <1>1, PipelineAssumption DEF TypeOK, PipelineAssumption
<1>3. \A c \in Calls : Shape(c) /\ Cover(c)
  BY DEF Shape, Cover, Answered, NewCall
<1>4. SecrecyCarried /\ BlockedNeverDelivered /\ CachedGuardIsApplied
  BY PipelineAssumption
     DEF SecrecyCarried, BlockedNeverDelivered, CachedGuardIsApplied, PipelineAssumption
<1> QED
  BY <1>2, <1>3, <1>4 DEF PipelineInv

\* Every step of every call keeps it.
LEMMA StepPreserves == PipelineInv /\ [Next]_vars => PipelineInv'
<1> SUFFICES ASSUME PipelineInv, [Next]_vars PROVE PipelineInv'
  OBVIOUS
<1>1. ASSUME NEW c \in Calls, Step(c) PROVE PipelineInv'
  <2>1. CASE \/ Refuse(c) \/ LabelAgentFails(c) \/ RejectOverLimit(c) \/ LabelResourceFails(c)
             \/ DenyAccess(c) \/ BackendFails(c) \/ FilterBlocks(c) \/ ConversionFails(c)
    BY <2>1, FailsPreserves
       DEF Refuse, LabelAgentFails, RejectOverLimit, LabelResourceFails, DenyAccess,
           BackendFails, FilterBlocks, ConversionFails
  <2>2. CASE Begin(c) \/ EnsureGuardInitialized(c)
    BY <2>2, BeginPreserves, EnsureGuardInitializedPreserves
  <2>3. CASE AddSecrecyTags(c) \/ AddIntegrityTags(c) \/ StoreGuardState(c)
    BY <2>3, AddSecrecyTagsPreserves, AddIntegrityTagsPreserves, StoreGuardStatePreserves
  <2>4. CASE ReadGuardState(c) \/ CountCall(c)
    BY <2>4, ReadGuardStatePreserves, CountCallPreserves
  <2>5. CASE CheckAccess(c) \/ BackendAnswers(c)
    BY <2>5, CheckAccessPreserves, BackendAnswersPreserves
  <2>6. CASE FilterItem(c) \/ FilterPasses(c)
    BY <2>6, FilterItemPreserves, FilterPassesPreserves
  <2>7. CASE AccumulateSecrecy(c) \/ AccumulateIntegrity(c) \/ Return(c)
    BY <2>7, AccumulateSecrecyPreserves, AccumulateIntegrityPreserves, ReturnPreserves
  <2> QED
    BY <1>1, <2>1, <2>2, <2>3, <2>4, <2>5, <2>6, <2>7 DEF Step
<1>2. ASSUME UNCHANGED vars PROVE PipelineInv'
  <2>1. /\ labels' = labels /\ guardInit' = guardInit /\ counts' = counts /\ call' = call
        /\ stored' = stored /\ admitted' = admitted /\ delivered' = delivered
    BY <1>2 DEF vars
  <2>2. TypeOK'
    BY <2>1 DEF PipelineInv, TypeOK
  <2>3. \A c \in Calls : Shape(c)' /\ Cover(c)'
    BY <2>1, OthersKeep DEF PipelineInv
  <2>4. (SecrecyCarried /\ BlockedNeverDelivered /\ CachedGuardIsApplied)'
    BY <2>1, ReturnedKeep DEF PipelineInv
  <2> QED
    BY <2>2, <2>3, <2>4 DEF PipelineInv
<1> QED
  BY <1>1, <1>2 DEF Next

\* The inductive invariant holds throughout.
THEOREM PipelineInvariant == Spec => []PipelineInv
BY InitEstablishes, StepPreserves, PTL DEF Spec

\* callBackendTool keeps the types of all it touches, for every configuration.
THEOREM PipelineTypeCorrect == Spec => []TypeOK
<1>1. PipelineInv => TypeOK
  BY DEF PipelineInv
<1> QED
  BY <1>1, PipelineInvariant, PTL

\* Whatever the servers' modes and however calls interleave, the agent's secrecy
\* label covers everything its reads have returned (Phases 5 and 6 together).
THEOREM SecrecyCarriedAlways == Spec => []SecrecyCarried
<1>1. PipelineInv => SecrecyCarried
  BY DEF PipelineInv
<1> QED
  BY <1>1, PipelineInvariant, PTL

\* Data marked as blocked reaches no caller (the hard denial of evaluateRead).
THEOREM BlockedNeverDeliveredAlways == Spec => []BlockedNeverDelivered
<1>1. PipelineInv => BlockedNeverDelivered
  BY DEF PipelineInv
<1> QED
  BY <1>1, PipelineInvariant, PTL

\* A cached guard state implies that its label_agent tags are applied
\* (ensureGuardInitialized), also when first calls overlap.
THEOREM CachedGuardIsAppliedAlways == Spec => []CachedGuardIsApplied
<1>1. PipelineInv => CachedGuardIsApplied
  BY DEF PipelineInv
<1> QED
  BY <1>1, PipelineInvariant, PTL

\* The step that takes a call from Phase 2 to the backend is CheckAccess.
LEMMA OnlyCheckReachesBackend ==
  ASSUME TypeOK, [Next]_vars, NEW c \in Calls, At(c, "check"), call'[c].pc = "backend"
  PROVE  CheckAccess(c)
<1>1. call[c].pc = "check" /\ call' # call
  BY DEF At
<1>2. PICK d \in Calls : Step(d)
  BY <1>1 DEF Next, vars
<1>3. d = c
  <2> SUFFICES ASSUME d # c PROVE call'[c] = call[c]
    BY <1>1
  <2>1. CASE Fails(d)
    BY <2>1 DEF Fails, TypeOK
  <2>2. CASE \E pc \in PCs : Goto(d, pc)
    BY <2>2 DEF Goto, TypeOK
  <2>3. CASE Begin(d) \/ ReadGuardState(d) \/ CountCall(d) \/ CheckAccess(d)
    BY <2>3 DEF Begin, ReadGuardState, CountCall, CheckAccess, TypeOK
  <2>4. CASE BackendAnswers(d) \/ FilterItem(d) \/ FilterPasses(d) \/ Return(d)
    BY <2>4 DEF BackendAnswers, FilterItem, FilterPasses, Return, TypeOK
  <2>5. EnsureGuardInitialized(d) \/ AddSecrecyTags(d) \/ AddIntegrityTags(d)
        \/ StoreGuardState(d) \/ AccumulateSecrecy(d) \/ AccumulateIntegrity(d)
        => \E pc \in PCs : Goto(d, pc)
    BY DEF EnsureGuardInitialized, AddSecrecyTags, AddIntegrityTags, StoreGuardState,
           AccumulateSecrecy, AccumulateIntegrity, PCs
  <2>6. \/ Refuse(d) \/ LabelAgentFails(d) \/ RejectOverLimit(d) \/ LabelResourceFails(d)
        \/ DenyAccess(d) \/ BackendFails(d) \/ FilterBlocks(d) \/ ConversionFails(d)
        => Fails(d)
    BY DEF Refuse, LabelAgentFails, RejectOverLimit, LabelResourceFails, DenyAccess,
           BackendFails, FilterBlocks, ConversionFails
  <2> QED
    BY <1>2, <2>1, <2>2, <2>3, <2>4, <2>5, <2>6 DEF Step
<1>4. ~Fails(c)
  BY <1>1 DEF Fails, Returned, NewCall, TypeOK
<1>5. CheckAccess(c) \/ LabelResourceFails(c) \/ DenyAccess(c)
  BY <1>1, <1>2, <1>3
     DEF Step, At, Begin, Refuse, EnsureGuardInitialized, LabelAgentFails, AddSecrecyTags,
         AddIntegrityTags, StoreGuardState, ReadGuardState, CountCall, RejectOverLimit,
         BackendFails, BackendAnswers, FilterItem, FilterBlocks, FilterPasses,
         AccumulateSecrecy, AccumulateIntegrity, ConversionFails, Return
<1> QED
  BY <1>4, <1>5 DEF LabelResourceFails, DenyAccess

\* A write that Phase 2 lets through may receive all the agent has been given:
\* the data flows to the agent's label, and that label to the resource.
THEOREM WritesCoverDeliveredAlways == Spec => WritesCoverDelivered
<1>1. ASSUME PipelineInv, [Next]_vars, NEW c \in Calls, At(c, "check"),
             call'[c].pc = "backend", call[c].req.op # "read", NEW d \in delivered
      PROVE  SecrecyFlows(d.secrecy, call[c].req.labels.secrecy)
  <2>1. CheckAccess(c)
    BY <1>1, OnlyCheckReachesBackend DEF PipelineInv
  <2>2. Evaluate(labels, call[c].req.labels, call[c].req.op, Mode(call[c].req.server))
    BY <1>1, <2>1 DEF CheckAccess, CoarseAllows, CoarseDenied
  <2>3. SecrecyFlows(labels.secrecy, call[c].req.labels.secrecy)
    BY <1>1, <2>2 DEF Evaluate, WriteAllowed
  <2>4. SecrecyFlows(d.secrecy, labels.secrecy)
    BY <1>1 DEF PipelineInv, SecrecyCarried
  <2> QED
    BY <2>3, <2>4, FlowTransitive
<1>2. PipelineInv /\ [Next]_vars
        => [\A c \in Calls :
              At(c, "check") /\ call'[c].pc = "backend" /\ call[c].req.op # "read"
                => \A d \in delivered : SecrecyFlows(d.secrecy, call[c].req.labels.secrecy)]_vars
  BY <1>1
<1> QED
  BY <1>2, PipelineInvariant, PTL DEF Spec, WritesCoverDelivered

(***************************************************************************)
(* The budget of a session.                                                *)
(*                                                                         *)
(* Each GuardSessionState has a count of its own, and the calls let        *)
(* through are the slots used up in any of them.  BudgetInv counts these   *)
(* slots as a set, which has at most the limit of each state; a call       *)
(* stores one state at most, so no slot belongs to two servers.            *)
(***************************************************************************)

\* Where a call has stored its state, if it ever does.
AfterStore == PCs \ {"new", "init", "label", "labelIntegrity", "store"}

\* The slots used up for a tool of a server, state by state.
Slots(s, t) == {p \in stored[s] \X Nat : p[2] \in 1..counts[p[1]][t]}

\* What is known of the state that a call has stored, and of the one it holds.
StateInv(c) ==
  /\ \A s \in Servers : c \in stored[s] =>
       /\ call[c].pc \in AfterStore
       /\ \A u \in Servers \ {s} : c \notin stored[u]
       /\ \A t \in Tools : ToolCallLimits[s][t] # 0 => counts[c][t] <= ToolCallLimits[s][t]
  /\ (\A s \in Servers : c \notin stored[s]) => \A t \in Tools : counts[c][t] = 0
  /\ call[c].state # None => call[c].pc = "count" /\ call[c].state \in stored[call[c].req.server]

\* What is known of a server's states.
ServerInv(s) ==
  /\ IsFiniteSet(stored[s])
  /\ guardInit[s] # None => guardInit[s] \in stored[s]
  /\ \A t \in Tools : ToolCallLimits[s][t] # 0 =>
       IsFiniteSet(Slots(s, t)) /\ Cardinality(Slots(s, t)) = admitted[s][t]

BudgetInv == (\A c \in Calls : StateInv(c)) /\ (\A s \in Servers : ServerInv(s))

\* Before any call no slot is used.
LEMMA BudgetInit ==
  ASSUME Init
  PROVE  BudgetInv
<1> USE DEF Init
<1>1. ASSUME NEW s \in Servers, NEW t \in Tools PROVE Slots(s, t) = {} /\ admitted[s][t] = 0
  BY DEF Slots
<1>2. \A s \in Servers : ServerInv(s)
  BY <1>1, FS_EmptySet DEF ServerInv
<1>3. \A c \in Calls : StateInv(c)
  BY DEF StateInv, NewCall
<1> QED
  BY <1>2, <1>3 DEF BudgetInv

\* A step of one call that neither stores a state nor counts in one.
LEMMA BudgetKeeps ==
  ASSUME TypeOK, BudgetInv, NEW c \in Calls,
         stored' = stored, guardInit' = guardInit, counts' = counts, admitted' = admitted,
         \A d \in Calls \ {c} : call'[d] = call[d],
         call[c].pc \in AfterStore => call'[c].pc \in AfterStore,
         \/ call'[c].state = None
         \/ call'[c].pc = "count" /\ call'[c].state \in stored[call'[c].req.server]
  PROVE  BudgetInv'
<1>1. \A s \in Servers : ServerInv(s)'
  BY DEF BudgetInv, ServerInv, Slots
<1>2. ASSUME NEW d \in Calls PROVE StateInv(d)'
  <2>1. StateInv(d)
    BY DEF BudgetInv
  <2>2. CASE d = c
    BY <2>1, <2>2 DEF StateInv
  <2>3. CASE d # c
    BY <2>1, <2>3 DEF StateInv
  <2> QED
    BY <2>2, <2>3
<1> QED
  BY <1>1, <1>2 DEF BudgetInv

\* A call that is not about to count holds no state.
LEMMA HoldsNothing ==
  ASSUME BudgetInv, NEW c \in Calls, call[c].pc # "count"
  PROVE  call[c].state = None
BY DEF BudgetInv, StateInv

\* A failing call gives up what it holds.
LEMMA BudgetFails ==
  ASSUME TypeOK, BudgetInv, NEW c \in Calls, Fails(c)
  PROVE  BudgetInv'
<1>1. call'[c] = Returned /\ \A d \in Calls \ {c} : call'[d] = call[d]
  BY DEF Fails, TypeOK
<1>2. Returned.pc = "done" /\ Returned.state = None /\ "done" \in AfterStore
  BY DEF Returned, NewCall, AfterStore, PCs
<1> QED
  BY <1>1, <1>2, BudgetKeeps DEF Fails

\* The steps that leave the states alone.
LEMMA BudgetMoves ==
  ASSUME TypeOK, BudgetInv, NEW c \in Calls,
         \/ Begin(c) \/ EnsureGuardInitialized(c) \/ AddSecrecyTags(c) \/ AddIntegrityTags(c)
         \/ CheckAccess(c) \/ BackendAnswers(c) \/ FilterItem(c) \/ FilterPasses(c)
         \/ AccumulateSecrecy(c) \/ AccumulateIntegrity(c) \/ Return(c)
  PROVE  BudgetInv'
<1>1. call \in [Calls -> CallRecord] /\ call[c] \in CallRecord
  BY DEF TypeOK
<1>2. stored' = stored /\ guardInit' = guardInit /\ counts' = counts /\ admitted' = admitted
  BY DEF Begin, EnsureGuardInitialized, AddSecrecyTags, AddIntegrityTags, CheckAccess,
         BackendAnswers, FilterItem, FilterPasses, AccumulateSecrecy, AccumulateIntegrity, Return
<1>3. call[c].pc # "count"
  BY DEF Begin, EnsureGuardInitialized, AddSecrecyTags, AddIntegrityTags, CheckAccess, At,
         BackendAnswers, FilterItem, FilterPasses, AccumulateSecrecy, AccumulateIntegrity, Return
<1>4. call[c].state = None
  BY <1>3, HoldsNothing
<1>5. CASE Return(c)
  <2>1. call'[c] = Returned /\ \A d \in Calls \ {c} : call'[d] = call[d]
    BY <1>1, <1>5 DEF Return
  <2>2. Returned.pc = "done" /\ Returned.state = None /\ "done" \in AfterStore
    BY DEF Returned, NewCall, AfterStore, PCs
  <2> QED
    BY <1>2, <2>1, <2>2, BudgetKeeps
<1>6. CASE \/ EnsureGuardInitialized(c) \/ AddSecrecyTags(c) \/ AddIntegrityTags(c)
           \/ AccumulateSecrecy(c) \/ AccumulateIntegrity(c)
  <2>1. PICK pc \in PCs : Goto(c, pc) /\ (call[c].pc \in AfterStore => pc \in AfterStore)
    BY <1>6 DEF EnsureGuardInitialized, AddSecrecyTags, AddIntegrityTags, AccumulateSecrecy,
                AccumulateIntegrity, At, AfterStore, PCs
  <2>2. /\ call'[c].pc = pc /\ call'[c].state = call[c].state
        /\ \A d \in Calls \ {c} : call'[d] = call[d]
    BY <1>1, <2>1 DEF Goto, CallRecord
  <2> QED
    BY <1>2, <1>4, <2>1, <2>2, BudgetKeeps
<1>7. CASE Begin(c) \/ CheckAccess(c) \/ BackendAnswers(c) \/ FilterItem(c) \/ FilterPasses(c)
  <2>1. \A d \in Calls \ {c} : call'[d] = call[d]
    BY <1>1, <1>7 DEF Begin, CheckAccess, BackendAnswers, FilterItem, FilterPasses
  <2>2. CASE Begin(c)
    <3>1. PICK r \in Requests : call' = [call EXCEPT ![c].pc = "init", ![c].req = r]
      BY <2>2 DEF Begin
    <3>2. call'[c].state = call[c].state
      BY <1>1, <3>1 DEF CallRecord
    <3>3. call[c].pc = "new" /\ "new" \notin AfterStore
      BY <2>2 DEF Begin, At, AfterStore
    <3> QED
      BY <1>2, <1>4, <2>1, <3>2, <3>3, BudgetKeeps
  <2>3. CASE CheckAccess(c)
    <3>1. call'[c].state = call[c].state /\ call'[c].pc = "backend" /\ "backend" \in AfterStore
      BY <1>1, <2>3 DEF CheckAccess, At, CallRecord, AfterStore, PCs
    <3> QED
      BY <1>2, <1>4, <2>1, <3>1, BudgetKeeps
  <2>4. CASE BackendAnswers(c)
    <3>1. "filter" \in AfterStore
      BY DEF AfterStore, PCs
    <3>2. CASE call' = [call EXCEPT ![c].pc = "filter"]
      <4>1. call'[c].state = call[c].state /\ call'[c].pc = "filter"
        BY <1>1, <3>2 DEF CallRecord
      <4> QED
        BY <1>2, <1>4, <2>1, <3>1, <4>1, BudgetKeeps
    <3>3. CASE \E items \in Labelled :
                 call' = [call EXCEPT ![c].pc = "filter", ![c].labelled = TRUE,
                                      ![c].allowed = FALSE, ![c].items = items, ![c].todo = items]
      <4>1. call'[c].state = call[c].state /\ call'[c].pc = "filter"
        BY <1>1, <3>3 DEF CallRecord
      <4> QED
        BY <1>2, <1>4, <2>1, <3>1, <4>1, BudgetKeeps
    <3> QED
      BY <2>4, <3>2, <3>3 DEF BackendAnswers
  <2>5. CASE FilterItem(c)
    <3>1. PICK item, accessible :
            call' = [call EXCEPT ![c].todo = @ \ {item}, ![c].accessible = accessible]
      BY <2>5 DEF FilterItem
    <3>2. call'[c].state = call[c].state /\ call'[c].pc = call[c].pc
      BY <1>1, <3>1 DEF CallRecord
    <3> QED
      BY <1>2, <1>4, <2>1, <3>2, BudgetKeeps
  <2>6. CASE FilterPasses(c)
    <3>1. call'[c].state = call[c].state /\ call'[c].pc = "accumulate" /\ "accumulate" \in AfterStore
      BY <1>1, <2>6 DEF FilterPasses, At, CallRecord, AfterStore, PCs
    <3> QED
      BY <1>2, <1>4, <2>1, <3>1, BudgetKeeps
  <2> QED
    BY <1>7, <2>2, <2>3, <2>4, <2>5, <2>6
<1> QED
  BY <1>5, <1>6, <1>7

\* A call that is to count takes the state that is published.
LEMMA BudgetRead ==
  ASSUME TypeOK, BudgetInv, NEW c \in Calls, ReadGuardState(c)
  PROVE  BudgetInv'
<1>1. call[c] \in CallRecord /\ call[c].pc = "limit" /\ call[c].req \in Requests
  BY DEF TypeOK, ReadGuardState, At
<1>2. /\ call'[c].pc = "count" /\ call'[c].state = guardInit[call[c].req.server]
      /\ call'[c].req = call[c].req /\ \A d \in Calls \ {c} : call'[d] = call[d]
  BY <1>1 DEF ReadGuardState, CallRecord, TypeOK
<1>3. call[c].req.server \in Servers
  BY <1>1, PipelineAssumption DEF PipelineAssumption, Request
<1>4. call'[c].state = None \/ call'[c].state \in stored[call'[c].req.server]
  BY <1>2, <1>3 DEF BudgetInv, ServerInv
<1>5. "count" \in AfterStore
  BY DEF AfterStore, PCs
<1> QED
  BY <1>2, <1>4, <1>5, BudgetKeeps DEF ReadGuardState

\* The state that is stored is new, and nothing has been counted in it.
LEMMA BudgetStore ==
  ASSUME TypeOK, BudgetInv, NEW c \in Calls, StoreGuardState(c)
  PROVE  BudgetInv'
<1> DEFINE s == call[c].req.server
<1>1. call[c].pc = "store" /\ call[c].req \in Requests
  BY DEF TypeOK, StoreGuardState, At
<1>2. s \in Servers
  BY <1>1, PipelineAssumption DEF PipelineAssumption, Request
<1>3. /\ call'[c].pc = "limit" /\ call'[c].state = call[c].state
      /\ \A d \in Calls \ {c} : call'[d] = call[d]
  <2>1. Goto(c, "limit")
    BY DEF StoreGuardState
  <2>2. "limit" \in PCs
    BY DEF PCs
  <2>3. call'[c].pc = "limit" /\ \A d \in Calls \ {c} : call'[d] = call[d]
    BY <2>1, <2>2, GotoFacts
  <2>4. call[c] \in CallRecord /\ call' = [call EXCEPT ![c] = [call[c] EXCEPT !.pc = "limit"]]
    BY <2>1 DEF TypeOK, Goto
  <2>5. call'[c].state = call[c].state
    BY <2>4 DEF TypeOK, CallRecord
  <2> QED
    BY <2>3, <2>5
<1>4. /\ stored' = [stored EXCEPT ![s] = @ \union {c}] /\ guardInit' = [guardInit EXCEPT ![s] = c]
      /\ counts' = counts /\ admitted' = admitted
  BY DEF StoreGuardState
<1> HIDE DEF s
<1>5. /\ stored'[s] = stored[s] \union {c} /\ guardInit'[s] = c
      /\ \A u \in Servers \ {s} : stored'[u] = stored[u] /\ guardInit'[u] = guardInit[u]
  BY <1>2, <1>4 DEF TypeOK
<1>6. \A u \in Servers : c \notin stored[u]
  BY <1>1 DEF BudgetInv, StateInv, AfterStore
<1>7. \A t \in Tools : counts[c][t] = 0
  BY <1>6 DEF BudgetInv, StateInv
<1>8. ASSUME NEW u \in Servers, NEW t \in Tools PROVE Slots(u, t)' = Slots(u, t)
  <2>1. ASSUME NEW p PROVE p \in Slots(u, t)' <=> p \in Slots(u, t)
    <3>1. p \in Slots(u, t)' <=> p \in stored'[u] \X Nat /\ p[2] \in 1..counts[p[1]][t]
      BY <1>4 DEF Slots
    <3>2. CASE p[1] = c
      BY <1>6, <1>7, <3>1, <3>2 DEF Slots
    <3>3. CASE p[1] # c
      BY <1>5, <3>1, <3>3 DEF Slots
    <3> QED
      BY <3>2, <3>3
  <2> QED
    BY <2>1
<1>9. ASSUME NEW u \in Servers PROVE ServerInv(u)'
  <2>1. ServerInv(u)
    BY DEF BudgetInv
  <2>2. IsFiniteSet(stored'[u])
    <3>1. IsFiniteSet(stored[u])
      BY <2>1 DEF ServerInv
    <3>2. IsFiniteSet(stored[u] \union {c})
      BY <3>1, FS_AddElement
    <3> QED
      BY <1>5, <3>1, <3>2
  <2>3. guardInit'[u] # None => guardInit'[u] \in stored'[u]
    BY <1>5, <2>1 DEF ServerInv
  <2>4. \A t \in Tools : ToolCallLimits[u][t] # 0 =>
          IsFiniteSet(Slots(u, t)') /\ Cardinality(Slots(u, t)') = admitted'[u][t]
    BY <1>4, <1>8, <2>1 DEF ServerInv
  <2> QED
    BY <2>2, <2>3, <2>4 DEF ServerInv
<1>10. ASSUME NEW d \in Calls PROVE StateInv(d)'
  <2>1. StateInv(d)
    BY DEF BudgetInv
  <2>2. CASE d = c
    <3>1. call'[c].state = None
      BY <1>1, <1>3, HoldsNothing
    <3>2. "limit" \in AfterStore
      BY DEF AfterStore, PCs
    <3>3. \A t \in Tools : ToolCallLimits[s][t] # 0 => counts[c][t] <= ToolCallLimits[s][t]
      BY <1>2, <1>7, PipelineAssumption DEF PipelineAssumption
    <3> QED
      BY <1>2, <1>3, <1>4, <1>5, <1>6, <2>2, <3>1, <3>2, <3>3 DEF StateInv
  <2>3. CASE d # c
    <3>1. \A u \in Servers : d \in stored'[u] <=> d \in stored[u]
      BY <1>5, <2>3
    <3>2. call'[d] = call[d]
      BY <1>3, <2>3
    <3>3. call[d].state # None => call[d].state \in stored'[call[d].req.server]
      <4>1. ASSUME call[d].state # None PROVE call[d].req.server \in Servers
        <5>1. call[d].pc = "count"
          BY <2>1, <4>1 DEF StateInv
        <5> QED
          BY <5>1, PipelineAssumption DEF PipelineAssumption, Request, TypeOK
      <4> QED
        BY <1>5, <2>1, <4>1 DEF StateInv
    <3> QED
      BY <1>4, <2>1, <3>1, <3>2, <3>3 DEF StateInv
  <2> QED
    BY <2>2, <2>3
<1> QED
  BY <1>9, <1>10 DEF BudgetInv

\* A call that is counted uses one slot of the state it holds, and one only.
LEMMA BudgetCount ==
  ASSUME TypeOK, BudgetInv, NEW c \in Calls, CountCall(c)
  PROVE  BudgetInv'
<1> DEFINE s  == call[c].req.server
           t  == call[c].req.tool
           st == call[c].state
           k  == counts[st][t]
<1>1. call[c] \in CallRecord /\ call[c].pc = "count" /\ call[c].req \in Requests
  BY DEF TypeOK, CountCall, At
<1>2. s \in Servers /\ t \in Tools
  BY <1>1, PipelineAssumption DEF PipelineAssumption, Request
<1>3. /\ call'[c].pc = "check" /\ call'[c].state = None
      /\ \A d \in Calls \ {c} : call'[d] = call[d]
  BY <1>1 DEF CountCall, CallRecord, TypeOK
<1>4. stored' = stored /\ guardInit' = guardInit /\ "check" \in AfterStore
  BY DEF CountCall, AfterStore, PCs
<1>5. CASE ~IsLimited(c)
  BY <1>3, <1>4, <1>5, BudgetKeeps DEF CountCall
<1>6. CASE IsLimited(c)
  <2>1. /\ counts' = [counts EXCEPT ![st][t] = @ + 1]
        /\ admitted' = [admitted EXCEPT ![s][t] = @ + 1]
    BY <1>6 DEF CountCall
  <2>2. st # None /\ ToolCallLimits[s][t] # 0 /\ ~(k >= ToolCallLimits[s][t])
    BY <1>6 DEF CountCall, IsLimited, LimitReached
  <2>3. st \in stored[s] /\ st \in Calls
    BY <1>2, <2>2 DEF BudgetInv, StateInv, TypeOK
  <2>4. k \in Nat /\ k < ToolCallLimits[s][t] /\ ToolCallLimits[s][t] \in Nat
    BY <1>2, <2>2, <2>3, PipelineAssumption DEF TypeOK, PipelineAssumption
  <2>5. /\ counts'[st][t] = k + 1
        /\ \A d \in Calls, q \in Tools : d # st \/ q # t => counts'[d][q] = counts[d][q]
    BY <1>2, <2>1, <2>3 DEF TypeOK
  <2>6. /\ admitted'[s][t] = admitted[s][t] + 1
        /\ \A u \in Servers, q \in Tools : u # s \/ q # t => admitted'[u][q] = admitted[u][q]
    BY <1>2, <2>1 DEF TypeOK
  <2>7. \A u \in Servers \ {s} : st \notin stored[u]
    BY <1>2, <2>3 DEF BudgetInv, StateInv
  <2> HIDE DEF s, t, st, k
  <2>8. ASSUME NEW u \in Servers, NEW q \in Tools, u # s \/ q # t
        PROVE  Slots(u, q)' = Slots(u, q)
    <3>1. \A d \in stored[u] : counts'[d][q] = counts[d][q]
      BY <2>5, <2>7, <2>8 DEF TypeOK
    <3>2. \A p : p \in Slots(u, q)' <=> p \in Slots(u, q)
      BY <1>4, <3>1 DEF Slots
    <3> QED
      BY <3>2
  <2>9. ASSUME NEW u \in Servers, NEW q \in Tools, u = s, q = t
        PROVE  Slots(u, q)' = Slots(u, q) \union {<<st, k + 1>>} /\ <<st, k + 1>> \notin Slots(u, q)
    <3>1. ASSUME NEW p PROVE p \in Slots(u, q)' <=> p \in Slots(u, q) \/ p = <<st, k + 1>>
      <4>1. p \in Slots(u, q)' <=> p \in stored[u] \X Nat /\ p[2] \in 1..counts'[p[1]][q]
        BY <1>4 DEF Slots
      <4>2. CASE p[1] = st
        BY <2>3, <2>4, <2>5, <2>9, <4>1, <4>2 DEF Slots, k
      <4>3. CASE p[1] # st
        <5>1. ASSUME p \in stored[u] \X Nat PROVE counts'[p[1]][q] = counts[p[1]][q]
          BY <1>2, <2>5, <2>9, <4>3, <5>1 DEF TypeOK
        <5> QED
          BY <4>1, <4>3, <5>1 DEF Slots
      <4> QED
        BY <4>2, <4>3
    <3>2. <<st, k + 1>> \notin Slots(u, q)
      BY <2>4, <2>9 DEF Slots, k
    <3> QED
      BY <3>1, <3>2
  <2>10. ASSUME NEW u \in Servers PROVE ServerInv(u)'
    <3>1. ServerInv(u)
      BY DEF BudgetInv
    <3>2. ASSUME NEW q \in Tools, ToolCallLimits[u][q] # 0
          PROVE  IsFiniteSet(Slots(u, q)') /\ Cardinality(Slots(u, q)') = admitted'[u][q]
      <4>1. IsFiniteSet(Slots(u, q)) /\ Cardinality(Slots(u, q)) = admitted[u][q]
        BY <3>1, <3>2 DEF ServerInv
      <4>2. CASE u # s \/ q # t
        BY <2>6, <2>8, <4>1, <4>2
      <4>3. CASE u = s /\ q = t
        <5> DEFINE S == Slots(u, q)
                   x == <<st, k + 1>>
        <5>1. IsFiniteSet(S) /\ Cardinality(S) = admitted[s][t] /\ x \notin S
          BY <2>9, <4>1, <4>3
        <5>2. Slots(u, q)' = S \union {x}
          BY <2>9, <4>3
        <5> HIDE DEF S, x
        <5>3. IsFiniteSet(S \union {x}) /\ Cardinality(S \union {x}) = Cardinality(S) + 1
          BY <5>1, FS_AddElement
        <5> QED
          BY <2>6, <4>3, <5>1, <5>2, <5>3
      <4> QED
        BY <4>2, <4>3
    <3> QED
      BY <1>4, <3>1, <3>2 DEF ServerInv
  <2>11. ASSUME NEW d \in Calls PROVE StateInv(d)'
    <3>1. StateInv(d)
      BY DEF BudgetInv
    <3>2. ASSUME NEW u \in Servers, d \in stored[u], NEW q \in Tools, ToolCallLimits[u][q] # 0
          PROVE  counts'[d][q] <= ToolCallLimits[u][q]
      <4>1. counts[d][q] <= ToolCallLimits[u][q]
        BY <3>1, <3>2 DEF StateInv
      <4>2. CASE d = st /\ q = t
        <5>1. u = s
          BY <2>7, <3>2, <4>2
        <5> QED
          BY <2>4, <2>5, <4>2, <5>1
      <4>3. CASE d # st \/ q # t
        BY <2>5, <4>1, <4>3
      <4> QED
        BY <4>2, <4>3
    <3>3. (\A u \in Servers : d \notin stored[u]) => \A q \in Tools : counts'[d][q] = 0
      <4>1. (\A u \in Servers : d \notin stored[u]) => d # st
        BY <1>2, <2>3
      <4> QED
        BY <2>5, <3>1, <4>1 DEF StateInv
    <3>4. /\ call[d].pc \in AfterStore => call'[d].pc \in AfterStore
          /\ call'[d].state # None =>
               call'[d].pc = "count" /\ call'[d].state \in stored[call'[d].req.server]
      BY <1>3, <1>4, <3>1 DEF StateInv
    <3> QED
      BY <1>4, <3>1, <3>2, <3>3, <3>4 DEF StateInv
  <2> QED
    BY <2>10, <2>11 DEF BudgetInv
<1> QED
  BY <1>5, <1>6

\* Every step of every call keeps the budgets.
LEMMA BudgetPreserves ==
  ASSUME TypeOK, BudgetInv, [Next]_vars
  PROVE  BudgetInv'
<1>1. ASSUME NEW c \in Calls, Step(c) PROVE BudgetInv'
  <2>1. CASE \/ Refuse(c) \/ LabelAgentFails(c) \/ RejectOverLimit(c) \/ LabelResourceFails(c)
             \/ DenyAccess(c) \/ BackendFails(c) \/ FilterBlocks(c) \/ ConversionFails(c)
    BY <2>1, BudgetFails
       DEF Refuse, LabelAgentFails, RejectOverLimit, LabelResourceFails, DenyAccess,
           BackendFails, FilterBlocks, ConversionFails
  <2>2. CASE ReadGuardState(c)
    BY <2>2, BudgetRead
  <2>3. CASE StoreGuardState(c)
    BY <2>3, BudgetStore
  <2>4. CASE CountCall(c)
    BY <2>4, BudgetCount
  <2>5. CASE \/ Begin(c) \/ EnsureGuardInitialized(c) \/ AddSecrecyTags(c) \/ AddIntegrityTags(c)
             \/ CheckAccess(c) \/ BackendAnswers(c) \/ FilterItem(c) \/ FilterPasses(c)
             \/ AccumulateSecrecy(c) \/ AccumulateIntegrity(c) \/ Return(c)
    BY <2>5, BudgetMoves
  <2> QED
    BY <1>1, <2>1, <2>2, <2>3, <2>4, <2>5 DEF Step
<1>2. ASSUME UNCHANGED vars PROVE BudgetInv'
  <2>1. /\ guardInit' = guardInit /\ counts' = counts /\ call' = call /\ stored' = stored
        /\ admitted' = admitted
    BY <1>2 DEF vars
  <2> QED
    BY <2>1 DEF BudgetInv, StateInv, ServerInv, Slots
<1> QED
  BY <1>1, <1>2 DEF Next

\* However first calls overlap (ensureGuardInitialized, enforceToolCallLimit), the calls let
\* through are at most the limit for every state that was published: a session in which two
\* first calls overlap has two states, and as many budgets.
THEOREM BudgetPerInitialisationAlways == Spec => []BudgetPerInitialisation
<1>1. TypeOK /\ BudgetInv => BudgetPerInitialisation
  <2> SUFFICES ASSUME TypeOK, BudgetInv, NEW s \in Servers, NEW t \in Tools,
                      ToolCallLimits[s][t] # 0
               PROVE  admitted[s][t] <= ToolCallLimits[s][t] * Cardinality(stored[s])
    BY DEF BudgetPerInitialisation
  <2> DEFINE limit == ToolCallLimits[s][t]
             all   == stored[s] \X (1..limit)
  <2>1. limit \in Nat
    BY PipelineAssumption DEF PipelineAssumption
  <2>2. /\ IsFiniteSet(stored[s]) /\ IsFiniteSet(Slots(s, t))
        /\ Cardinality(Slots(s, t)) = admitted[s][t]
    BY DEF BudgetInv, ServerInv
  <2>3. IsFiniteSet(1..limit) /\ Cardinality(1..limit) = limit
    <3>1. ASSUME NEW n \in Nat PROVE IsFiniteSet(1..n) /\ Cardinality(1..n) = n
      BY FS_Interval
    <3> QED
      BY <2>1, <3>1
  <2>4. IsFiniteSet(all) /\ Cardinality(all) = Cardinality(stored[s]) * Cardinality(1..limit)
    BY <2>2, <2>3, FS_Product
  <2>5. Slots(s, t) \subseteq all
    <3>1. ASSUME NEW p \in Slots(s, t) PROVE p \in all
      <4>1. p \in stored[s] \X Nat /\ p[2] \in 1..counts[p[1]][t] /\ p[1] \in Calls
        BY DEF Slots, TypeOK
      <4>2. counts[p[1]][t] <= limit /\ counts[p[1]][t] \in Nat
        BY <4>1 DEF BudgetInv, StateInv, TypeOK
      <4> QED
        BY <2>1, <4>1, <4>2
    <3> QED
      BY <3>1
  <2> HIDE DEF limit, all
  <2>6. Cardinality(Slots(s, t)) <= Cardinality(all)
    BY <2>4, <2>5, FS_Subset
  <2>7. Cardinality(stored[s]) \in Nat
    BY <2>2, FS_CardinalityType
  <2>8. Cardinality(stored[s]) * limit = limit * Cardinality(stored[s])
    BY <2>1, <2>7
  <2> QED
    BY <2>2, <2>3, <2>4, <2>6, <2>8 DEF limit
<1>2. Init => BudgetInv
  BY BudgetInit
<1>3. TypeOK /\ BudgetInv /\ [Next]_vars => BudgetInv'
  BY BudgetPreserves
<1> QED
  BY <1>1, <1>2, <1>3, PipelineTypeCorrect, PTL DEF Spec

(***************************************************************************)
(* The circuit breaker that Phase 3 asks before it calls the backend, for  *)
(* every number of calls, threshold, cooldown, stranded-probe timeout and  *)
(* set of reset delays.  Its invariants are inductive only together: that  *)
(* the streak is full while the circuit is not closed needs the bound on   *)
(* the counter, and that the slot is held by a probe needs that no slot is *)
(* taken while CLOSED or OPEN.                                             *)
(***************************************************************************)

BreakerInv == BreakerTypeOK /\ TrippedHasStreak /\ SlotOnlyHalfOpen /\ SlotHeldByProbe

\* A call that passes Allow in CLOSED finds no probe slot to disturb.
LEMMA AllowClosedPreserves ==
  ASSUME BreakerInv, NEW c \in ToolCalls, AllowClosed(c)
  PROVE  BreakerInv'
<1> USE BreakerAssumption DEF BreakerAssumption, BreakerInv, AllowClosed, breaker
<1>1. BreakerTypeOK'
  BY DEF BreakerTypeOK, Age, Unset
<1>2. TrippedHasStreak' /\ SlotOnlyHalfOpen'
  BY DEF TrippedHasStreak, SlotOnlyHalfOpen
<1>3. ~probeInFlight
  BY DEF SlotOnlyHalfOpen
<1>4. SlotHeldByProbe'
  BY <1>3 DEF SlotHeldByProbe
<1> QED
  BY <1>1, <1>2, <1>4

\* A call that is given the probe slot holds it.
LEMMA TakeProbeSlotPreserves ==
  ASSUME BreakerInv, NEW c \in ToolCalls, AllowOpen(c) \/ AllowHalfOpen(c)
  PROVE  BreakerInv'
<1> USE BreakerAssumption DEF BreakerAssumption, BreakerInv, AllowOpen, AllowHalfOpen, TakeProbeSlot
<1>1. BreakerTypeOK'
  <2>1. /\ state' = "HALF-OPEN" /\ sinceOpen' = sinceOpen /\ failures' = failures
        /\ resetKnown' = resetKnown /\ resetIn' = resetIn /\ healthy' = healthy
    OBVIOUS
  <2>2. toolCall' \in [ToolCalls -> {"idle", "normal", "probe"}]
    BY DEF BreakerTypeOK
  <2>3. probeInFlight' = TRUE /\ sinceProbe' = 0 /\ sinceHolder' = 0 /\ holder' = c
    OBVIOUS
  <2>4. 0 \in Age
    BY DEF Age
  <2> QED
    BY <2>1, <2>2, <2>3, <2>4 DEF BreakerTypeOK
<1>2. TrippedHasStreak'
  BY DEF TrippedHasStreak
<1>3. SlotOnlyHalfOpen'
  BY DEF SlotOnlyHalfOpen, Unset
<1>4. SlotHeldByProbe'
  BY DEF SlotHeldByProbe, BreakerTypeOK
<1> QED
  BY <1>1, <1>2, <1>3, <1>4

\* Every outcome leaves the slot free, so who holds it no longer matters.
LEMMA RecordSuccessPreserves ==
  ASSUME BreakerInv, NEW c \in ToolCalls, RecordSuccess(c)
  PROVE  BreakerInv'
<1> USE BreakerAssumption DEF BreakerAssumption, BreakerInv, RecordSuccess, Finish, FreeProbeSlot
<1>1. BreakerTypeOK'
  <2>1. state' \in {"CLOSED", "OPEN", "HALF-OPEN"} /\ failures' \in 0..Threshold
    OBVIOUS
  <2>2. resetKnown' \in BOOLEAN
    BY DEF BreakerTypeOK
  <2>3. toolCall' \in [ToolCalls -> {"idle", "normal", "probe"}]
    BY DEF BreakerTypeOK
  <2> QED
    BY <2>1, <2>2, <2>3 DEF BreakerTypeOK
<1>2. TrippedHasStreak' /\ SlotOnlyHalfOpen' /\ SlotHeldByProbe'
  BY DEF TrippedHasStreak, SlotOnlyHalfOpen, SlotHeldByProbe
<1> QED
  BY <1>1, <1>2

\* A call the backend failed gives its probe slot back.
LEMMA RecordProbeReleasedPreserves ==
  ASSUME BreakerInv, NEW c \in ToolCalls, RecordProbeReleased(c)
  PROVE  BreakerInv'
<1> USE BreakerAssumption DEF BreakerAssumption, BreakerInv, RecordProbeReleased, Finish, FreeProbeSlot
<1>1. BreakerTypeOK'
  BY DEF BreakerTypeOK, Age, Unset
<1>2. TrippedHasStreak' /\ SlotOnlyHalfOpen' /\ SlotHeldByProbe'
  BY DEF TrippedHasStreak, SlotOnlyHalfOpen, SlotHeldByProbe
<1> QED
  BY <1>1, <1>2

\* A rate limit opens the circuit only with a full streak: from HALF-OPEN the
\* streak was full already, from CLOSED the test against Threshold says so.
LEMMA RecordRateLimitPreserves ==
  ASSUME BreakerInv, NEW c \in ToolCalls, NEW known \in BOOLEAN, NEW delay \in ResetDelays,
         RecordRateLimit(c, known, delay)
  PROVE  BreakerInv'
<1> USE BreakerAssumption DEF BreakerAssumption, BreakerInv, RecordRateLimit, Finish, FreeProbeSlot, OneMore
<1>1. BreakerTypeOK'
  <2>1. failures' \in 0..Threshold
    BY DEF BreakerTypeOK
  <2>2. resetIn' \in (-Horizon)..Horizon
    BY DEF BreakerTypeOK
  <2>3. state' \in {"CLOSED", "OPEN", "HALF-OPEN"} /\ sinceOpen' \in Age
    BY DEF BreakerTypeOK, Age
  <2>4. resetKnown' \in BOOLEAN /\ toolCall' \in [ToolCalls -> {"idle", "normal", "probe"}]
    BY DEF BreakerTypeOK
  <2> QED
    BY <2>1, <2>2, <2>3, <2>4 DEF BreakerTypeOK, Age, Unset
<1>2. TrippedHasStreak'
  BY DEF TrippedHasStreak, BreakerTypeOK
<1>3. SlotOnlyHalfOpen' /\ SlotHeldByProbe'
  BY DEF SlotOnlyHalfOpen, SlotHeldByProbe
<1> QED
  BY <1>1, <1>2, <1>3

\* Time, upstream answers and cancellations keep the invariant.
LEMMA EnvironmentPreserves ==
  ASSUME BreakerInv, Tick \/ Heal
  PROVE  BreakerInv'
<1> USE BreakerAssumption DEF BreakerAssumption, BreakerInv
<1>1. CASE Tick
  <2> USE <1>1 DEF Tick, Older
  <2>1. BreakerTypeOK'
    BY DEF BreakerTypeOK, Age, Unset
  <2>2. SlotOnlyHalfOpen'
    BY DEF SlotOnlyHalfOpen, BreakerTypeOK, Age, Unset
  <2>3. TrippedHasStreak' /\ SlotHeldByProbe'
    BY DEF TrippedHasStreak, SlotHeldByProbe
  <2> QED
    BY <2>1, <2>2, <2>3
<1>2. CASE Heal
  BY <1>2 DEF Heal, breaker, BreakerTypeOK, TrippedHasStreak, SlotOnlyHalfOpen, SlotHeldByProbe
<1> QED
  BY <1>1, <1>2

\* Every step keeps the invariant.
LEMMA BreakerInvInductive == BreakerInv /\ [BreakerNext]_breakerVars => BreakerInv'
<1> SUFFICES ASSUME BreakerInv, [BreakerNext]_breakerVars PROVE BreakerInv'
  OBVIOUS
<1>1. CASE UNCHANGED breakerVars
  BY <1>1 DEF breakerVars, breaker, BreakerInv, BreakerTypeOK, TrippedHasStreak, SlotOnlyHalfOpen,
              SlotHeldByProbe
<1>2. ASSUME NEW c \in ToolCalls, Allow(c) PROVE BreakerInv'
  BY <1>2, AllowClosedPreserves, TakeProbeSlotPreserves DEF Allow
<1>3. ASSUME NEW c \in ToolCalls, Outcome(c) PROVE BreakerInv'
  BY <1>3, RecordSuccessPreserves, RecordProbeReleasedPreserves, RecordRateLimitPreserves
     DEF Outcome
<1>4. CASE Tick \/ Heal
  BY <1>4, EnvironmentPreserves
<1> QED
  BY <1>1, <1>2, <1>3, <1>4 DEF BreakerNext

\* A new breaker is closed and counts nothing.
LEMMA BreakerInvInit == BreakerInit => BreakerInv
<1> SUFFICES ASSUME BreakerInit PROVE BreakerInv
  OBVIOUS
<1> USE BreakerAssumption DEF BreakerAssumption, BreakerInit
<1>1. BreakerTypeOK
  <2>1. toolCall \in [ToolCalls -> {"idle", "normal", "probe"}]
    OBVIOUS
  <2>2. sinceOpen \in Age /\ sinceHolder \in Age /\ sinceProbe \in Age \union {Unset}
    BY DEF Age
  <2>3. failures \in 0..Threshold /\ resetIn \in (-Horizon)..Horizon
    OBVIOUS
  <2> QED
    BY <2>1, <2>2, <2>3 DEF BreakerTypeOK
<1>2. TrippedHasStreak /\ SlotOnlyHalfOpen /\ SlotHeldByProbe
  BY DEF TrippedHasStreak, SlotOnlyHalfOpen, SlotHeldByProbe
<1> QED
  BY <1>1, <1>2 DEF BreakerInv

\* The variables of the breaker keep their types: ages stay within Horizon
\* and the failure counter within Threshold, through every outcome.
THEOREM BreakerTypeCorrect == BreakerSpec => []BreakerTypeOK
<1>1. BreakerInv => BreakerTypeOK
  BY DEF BreakerInv
<1> QED
  BY <1>1, BreakerInvInit, BreakerInvInductive, PTL DEF BreakerSpec

\* The circuit is never open or half-open without a full streak of rate
\* limits, whatever the interleaving of Allow and the Record calls.
THEOREM TrippedHasStreakAlways == BreakerSpec => []TrippedHasStreak
<1>1. BreakerInv => TrippedHasStreak
  BY DEF BreakerInv
<1> QED
  BY <1>1, BreakerInvInit, BreakerInvInductive, PTL DEF BreakerSpec

\* The probe slot of Allow is taken only in HALF-OPEN and always has a start
\* time, so the stranded-probe timeout can always free it.
THEOREM SlotOnlyHalfOpenAlways == BreakerSpec => []SlotOnlyHalfOpen
<1>1. BreakerInv => SlotOnlyHalfOpen
  BY DEF BreakerInv
<1> QED
  BY <1>1, BreakerInvInit, BreakerInvInductive, PTL DEF BreakerSpec

\* A taken slot always belongs to a call that is still at the backend.
THEOREM SlotHeldByProbeAlways == BreakerSpec => []SlotHeldByProbe
<1>1. BreakerInv => SlotHeldByProbe
  BY DEF BreakerInv
<1> QED
  BY <1>1, BreakerInvInit, BreakerInvInductive, PTL DEF BreakerSpec

===============================================================================
