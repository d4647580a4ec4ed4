----------------------------- MODULE CallPipeline -----------------------------
(***************************************************************************)
(* A tool call through the gateway (callBackendTool in internal/server),   *)
(* for the concurrent calls of one agent's session: the guard of the       *)
(* server is initialised on first use, the call is charged to its budget,  *)
(* the reference monitor checks the request (Phases 0-2), the backend is   *)
(* called (Phase 3), the guard labels the response (Phase 4), which is     *)
(* filtered item by item (Phase 5) and, in propagate mode, accumulated     *)
(* into the agent's label (Phase 6) before the caller gets it.             *)
(*                                                                         *)
(* The agent's label is one object shared by all calls of the session and  *)
(* by all its servers.  Every check reads it afresh, not under             *)
(* AgentLabels.mu but under the locks of the two tag sets, so the two      *)
(* halves of an update are separate steps here, between which other calls  *)
(* read but do not write.  The guard (a WASM module), the backend, the     *)
(* circuit breaker and the conversion of results only choose among         *)
(* outcomes.                                                               *)
(***************************************************************************)
EXTENDS Naturals, FiniteSets, DIFCLabels

CONSTANTS
  Calls,          \* tool calls of the session; each is made once
  Servers,        \* backend servers
  Guarded,        \* servers with a guard policy
  SecrecyTags,    \* tags that may occur in a secrecy label
  IntegrityTags,  \* tags that may occur in an integrity label
  Tools,          \* tool names
  SingularTools,  \* tools of the singular-read kind (get_*, *_read)
  ArtifactTool,   \* issue_artifact_write, whose response is always labelled
  Requests,       \* [server, tool, op, labels]: what LabelResource answers for a call
  Refused,        \* requests outside the delegation, agent policy or allowed tools
  Labelled,       \* sets of item labels that LabelResponse may answer with
  AgentDefault,   \* default labels of a new agent
  LabelAgent,     \* per guarded server: the labels and mode label_agent returns
  DefaultMode,    \* the gateway's enforcement mode
  ToolCallLimits, \* per server and tool, 0 for no limit
  None            \* absence

Label   == [secrecy : SUBSET SecrecyTags, integrity : SUBSET IntegrityTags]
Request == [server : Servers, tool : Tools, op : OperationTypes, labels : Label]

ASSUME PipelineAssumption ==
  /\ Guarded \subseteq Servers /\ SingularTools \subseteq Tools
  /\ Requests \subseteq Request /\ Refused \subseteq Requests
  /\ Labelled \subseteq SUBSET Label
  /\ AgentDefault \in Label
  /\ LabelAgent \in [Guarded -> [labels : Label, mode : EnforcementModes]]
  /\ DefaultMode \in EnforcementModes
  /\ ToolCallLimits \in [Servers -> [Tools -> Nat]]
  /\ None \notin Calls

\* The mode a call runs under, once its server's guard is initialised.
Mode(server) == IF server \in Guarded THEN LabelAgent[server].mode ELSE DefaultMode

VARIABLES
  labels,     \* AgentLabels of the session's agent
  guardInit,  \* Session.GuardInit: the call whose GuardSessionState is current
  counts,     \* GuardSessionState.ToolCallCounts, by the call that stored it
  call,       \* where each call is
  stored,     \* history: the calls that stored a GuardSessionState, per server
  admitted,   \* history: limited calls let through, per server and tool
  delivered   \* history: labels of the data that reads have returned

vars == <<labels, guardInit, counts, call, stored, admitted, delivered>>

\* A call's local variables, reset once they are dead.  state is the
\* GuardSessionState it holds, allowed the result of its Phase 2 check, labelled whether LabelResponse gave labels,
\* items the labels of the response, todo those not yet filtered, accessible
\* those that passed.
NewCall  == [pc |-> "new", req |-> None, state |-> None, allowed |-> FALSE,
             labelled |-> FALSE, items |-> {}, todo |-> {}, accessible |-> {}]
Returned == [NewCall EXCEPT !.pc = "done"]

\* The session has been created by requireSession; its agent by GetOrCreate.
Init ==
  /\ labels = AgentDefault
  /\ guardInit = [s \in Servers |-> None]
  /\ counts = [c \in Calls |-> [t \in Tools |-> 0]]
  /\ call = [c \in Calls |-> NewCall]
  /\ stored = [s \in Servers |-> {}]
  /\ admitted = [s \in Servers |-> [t \in Tools |-> 0]]
  /\ delivered = {}

At(c, pc) == call[c].pc = pc
Goto(c, pc) == call' = [call EXCEPT ![c].pc = pc]

\* An error result ends the call; nothing else changes.
Fails(c) ==
  /\ call' = [call EXCEPT ![c] = Returned]
  /\ UNCHANGED <<labels, guardInit, counts, stored, admitted, delivered>>

\* Phase 6 has something to do.
Accumulates(c) == ShouldAccumulateReadLabels(call[c].req.op, Mode(call[c].req.server))

\* AgentLabels.mu is free: no call is in the middle of AccumulateFromRead.
LabelsUnlocked == \A c \in Calls : At(c, "accumulateIntegrity") => ~Accumulates(c)

-----------------------------------------------------------------------------
(* Admission: authorisation, guard initialisation, the tool-call budget.   *)

\* authorizeDelegatedToolCall, agentCanUseTool and isToolAllowed change no
\* state: a refused request ends there.
Begin(c) ==
  /\ At(c, "new")
  /\ \E r \in Requests \ Refused :
       call' = [call EXCEPT ![c].pc = "init", ![c].req = r]
  /\ UNCHANGED <<labels, guardInit, counts, stored, admitted, delivered>>

Refuse(c) == At(c, "new") /\ Refused # {} /\ Fails(c)

\* Mutant: the state is published before label_agent has run.
EnsureGuardPublishesFirst(c) ==
  /\ At(c, "init")
  /\ LET s == call[c].req.server IN
     /\ Goto(c, IF s \in Guarded /\ guardInit[s] = None THEN "label" ELSE "limit")
     /\ guardInit' = IF s \in Guarded /\ guardInit[s] = None
                     THEN [guardInit EXCEPT ![s] = c] ELSE guardInit
  /\ UNCHANGED <<labels, counts, stored, admitted, delivered>>

\* ensureGuardInitialized up to the cache lookup.  The policy, and with it the
\* hash the cache compares, is fixed by the configuration.
EnsureGuardInitialized(c) ==
  /\ At(c, "init")
  /\ LET s == call[c].req.server IN
     Goto(c, IF s \in Guarded /\ guardInit[s] = None THEN "label" ELSE "limit")
  /\ UNCHANGED <<labels, guardInit, counts, stored, admitted, delivered>>

\* Mutant: the error is only logged, and the call goes on without its context.
LabelAgentFailsOpen(c) ==
  /\ At(c, "label")
  /\ call' = [call EXCEPT ![c] = [Returned EXCEPT !.pc = "limit"]]
  /\ UNCHANGED <<labels, guardInit, counts, stored, admitted, delivered>>

LabelAgentFails(c) == At(c, "label") /\ Fails(c)

\* ApplyLabelAgentResult: secrecy tags first ...
AddSecrecyTags(c) ==
  /\ At(c, "label") /\ LabelsUnlocked
  /\ labels' = [labels EXCEPT !.secrecy = @ \union LabelAgent[call[c].req.server].labels.secrecy]
  /\ Goto(c, "labelIntegrity")
  /\ UNCHANGED <<guardInit, counts, stored, admitted, delivered>>

\* ... then integrity tags.
AddIntegrityTags(c) ==
  /\ At(c, "labelIntegrity") /\ LabelsUnlocked
  /\ labels' = [labels EXCEPT !.integrity = @ \union LabelAgent[call[c].req.server].labels.integrity]
  /\ Goto(c, "store")
  /\ UNCHANGED <<guardInit, counts, stored, admitted, delivered>>

\* The new GuardSessionState, with no calls counted, replaces whatever is there.
StoreGuardState(c) ==
  /\ At(c, "store")
  /\ LET s == call[c].req.server IN
     /\ guardInit' = [guardInit EXCEPT ![s] = c]
     /\ stored' = [stored EXCEPT ![s] = @ \union {c}]
  /\ Goto(c, "limit")
  /\ UNCHANGED <<labels, counts, admitted, delivered>>

\* enforceToolCallLimit reads the state under sessionMu ...
ReadGuardState(c) ==
  /\ At(c, "limit")
  /\ call' = [call EXCEPT ![c].pc = "count", ![c].state = guardInit[call[c].req.server]]
  /\ UNCHANGED <<labels, guardInit, counts, stored, admitted, delivered>>

\* Mutant: the budget allows one call more than the limit.
OverLimitByOne(c) ==
  LET r == call[c].req  limit == ToolCallLimits[r.server][r.tool] IN
  /\ call[c].state # None /\ limit # 0
  /\ counts[call[c].state][r.tool] > limit

IsLimited(c) ==
  call[c].state # None /\ ToolCallLimits[call[c].req.server][call[c].req.tool] # 0

\* No budget is left in the state this call holds.
LimitReached(c) ==
  LET r == call[c].req  limit == ToolCallLimits[r.server][r.tool] IN
  /\ call[c].state # None /\ limit # 0
  /\ counts[call[c].state][r.tool] >= limit

\* ... and counts in it under its CallCountMu.
CountCall(c) ==
  /\ At(c, "count") /\ ~LimitReached(c)
  /\ LET r == call[c].req IN
     IF IsLimited(c)
     THEN /\ counts' = [counts EXCEPT ![call[c].state][r.tool] = @ + 1]
          /\ admitted' = [admitted EXCEPT ![r.server][r.tool] = @ + 1]
     ELSE UNCHANGED <<counts, admitted>>
  /\ call' = [call EXCEPT ![c].pc = "check", ![c].state = None]
  /\ UNCHANGED <<labels, guardInit, stored, delivered>>

RejectOverLimit(c) == At(c, "count") /\ LimitReached(c) /\ Fails(c)

-----------------------------------------------------------------------------
(* Phases 0 to 6 of the reference monitor.                                 *)

LabelResourceFails(c) == At(c, "check") /\ Fails(c)

CoarseAllows(c) ==
  LET r == call[c].req IN ~CoarseDenied(labels, r.labels, r.op, Mode(r.server))

\* RunPipelinePrePhases.
CheckAccess(c) ==
  /\ At(c, "check") /\ CoarseAllows(c)
  /\ LET r == call[c].req IN
     call' = [call EXCEPT ![c].pc = "backend",
                          ![c].allowed = Evaluate(labels, r.labels, r.op, Mode(r.server))]
  /\ UNCHANGED <<labels, guardInit, counts, stored, admitted, delivered>>

DenyAccess(c) == At(c, "check") /\ ~CoarseAllows(c) /\ Fails(c)

\* The breaker is open, the call fails, the result is a rate limit, or the
\* response cannot be labelled.
BackendFails(c) == At(c, "backend") /\ Fails(c)

\* Phases 3 and 4: a response, with item labels when the guard gives any.
BackendAnswers(c) ==
  /\ At(c, "backend")
  /\ LET r == call[c].req IN
     \/ call' = [call EXCEPT ![c].pc = "filter"]
     \/ /\ ShouldCallLabelResponse(r.op, Mode(r.server)) \/ r.tool = ArtifactTool
        /\ \E items \in Labelled :
             call' = [call EXCEPT ![c].pc = "filter", ![c].labelled = TRUE,
                                  ![c].allowed = FALSE, ![c].items = items, ![c].todo = items]
  /\ UNCHANGED <<labels, guardInit, counts, stored, admitted, delivered>>

\* FilterCollection evaluates each item against the label of that moment.
FilterItem(c) ==
  /\ At(c, "filter")
  /\ LET r == call[c].req IN
     \E item \in call[c].todo :
       call' = [call EXCEPT
         ![c].todo = @ \ {item},
         ![c].accessible = IF Evaluate(labels, item, r.op, Mode(r.server))
                           THEN @ \union {item} ELSE @]
  /\ UNCHANGED <<labels, guardInit, counts, stored, admitted, delivered>>

FilteredItems(c) == call[c].items \ call[c].accessible

\* Phase 5 ends in an error: strict mode blocks the whole response, a singular
\* read whose one item was filtered is an error, and without item labels the
\* Phase 2 result stands.
ResponseWithheld(c) ==
  IF call[c].labelled
  THEN \/ Mode(call[c].req.server) = "strict" /\ FilteredItems(c) # {}
       \/ /\ call[c].req.tool \in SingularTools
          /\ call[c].accessible = {} /\ Cardinality(FilteredItems(c)) = 1
  ELSE ~call[c].allowed

FilterBlocks(c) ==
  At(c, "filter") /\ call[c].todo = {} /\ ResponseWithheld(c) /\ Fails(c)

\* Without item labels the response carries the label of the resource.
FilterPasses(c) ==
  /\ At(c, "filter") /\ call[c].todo = {} /\ ~ResponseWithheld(c)
  /\ call' = [call EXCEPT
       ![c].pc = "accumulate",
       ![c].accessible = IF call[c].labelled THEN @ ELSE {call[c].req.labels}]
  /\ UNCHANGED <<labels, guardInit, counts, stored, admitted, delivered>>

\* What RunPipelinePhase6 accumulates: the whole response, filtered items too.
Overall(c) == IF call[c].labelled THEN AggregateLabels(call[c].items) ELSE call[c].req.labels

\* Mutant: the result is returned without waiting for Phase 6.
AccumulateNothing(c) ==
  /\ At(c, "accumulate")
  /\ Goto(c, "accumulateIntegrity")
  /\ UNCHANGED <<labels, guardInit, counts, stored, admitted, delivered>>

\* AccumulateFromRead: the secrecy of the data is added ...
AccumulateSecrecy(c) ==
  /\ At(c, "accumulate") /\ (Accumulates(c) => LabelsUnlocked)
  /\ labels' = IF Accumulates(c)
               THEN [labels EXCEPT !.secrecy = @ \union Overall(c).secrecy] ELSE labels
  /\ Goto(c, "accumulateIntegrity")
  /\ UNCHANGED <<guardInit, counts, stored, admitted, delivered>>

\* ... and integrity the data does not have is dropped.
AccumulateIntegrity(c) ==
  /\ At(c, "accumulateIntegrity")
  /\ labels' = IF Accumulates(c)
               THEN [labels EXCEPT !.integrity = @ \intersect Overall(c).integrity] ELSE labels
  /\ Goto(c, "return")
  /\ UNCHANGED <<guardInit, counts, stored, admitted, delivered>>

ConversionFails(c) == At(c, "return") /\ Fails(c)

\* The caller gets what Phase 5 left.  The answer to a pure write is a
\* confirmation, not data that was read.
Return(c) ==
  /\ At(c, "return")
  /\ delivered' = IF call[c].req.op = "write" THEN delivered
                  ELSE delivered \union call[c].accessible
  /\ call' = [call EXCEPT ![c] = Returned]
  /\ UNCHANGED <<labels, guardInit, counts, stored, admitted>>

-----------------------------------------------------------------------------
Step(c) ==
  \/ Begin(c) \/ Refuse(c)
  \/ EnsureGuardInitialized(c) \/ LabelAgentFails(c)
  \/ AddSecrecyTags(c) \/ AddIntegrityTags(c) \/ StoreGuardState(c)
  \/ ReadGuardState(c) \/ CountCall(c) \/ RejectOverLimit(c)
  \/ LabelResourceFails(c) \/ CheckAccess(c) \/ DenyAccess(c)
  \/ BackendFails(c) \/ BackendAnswers(c)
  \/ FilterItem(c) \/ FilterBlocks(c) \/ FilterPasses(c)
  \/ AccumulateSecrecy(c) \/ AccumulateIntegrity(c)
  \/ ConversionFails(c) \/ Return(c)

Next == \E c \in Calls : Step(c)

Spec == Init /\ [][Next]_vars

-----------------------------------------------------------------------------
(* Properties                                                              *)

PCs == {"new", "init", "label", "labelIntegrity", "store", "limit", "count", "check",
        "backend", "filter", "accumulate", "accumulateIntegrity", "return", "done"}

CallRecord == [pc : PCs, req : Requests \union {None}, state : Calls \union {None},
               allowed : BOOLEAN, labelled : BOOLEAN,
               items : SUBSET Label, todo : SUBSET Label, accessible : SUBSET Label]

\* Type invariant: every variable of the pipeline keeps the type of the Go
\* value it models; in particular, a call in flight has a request, and labels
\* stay within the tags that requests, responses and guards mention.
TypeOK ==
  /\ labels \in Label
  /\ guardInit \in [Servers -> Calls \union {None}]
  /\ counts \in [Calls -> [Tools -> Nat]]
  /\ call \in [Calls -> CallRecord]
  /\ \A c \in Calls : call[c].pc \notin {"new", "done"} => call[c].req \in Requests
  /\ stored \in [Servers -> SUBSET Calls]
  /\ admitted \in [Servers -> [Tools -> Nat]]
  /\ delivered \subseteq Label

\* The agent's label covers everything it has been given: whatever the mode of
\* the server it came from, and whatever other calls were doing meanwhile, data
\* that a read has returned may flow to the agent's present secrecy label.  It
\* rests on Phase 6 coming before the return, on Phase 6 accumulating every item
\* Phase 5 lets through, and on nothing ever taking a secrecy tag away.
SecrecyCarried == \A d \in delivered : SecrecyFlows(d.secrecy, labels.secrecy)

\* A request that writes passes Phase 2 only if all the data returned to the
\* agent so far, by any call, may flow to the resource it writes to.
WritesCoverDelivered ==
  [][\A c \in Calls :
       At(c, "check") /\ call'[c].pc = "backend" /\ call[c].req.op # "read"
         => \A d \in delivered : SecrecyFlows(d.secrecy, call[c].req.labels.secrecy)]_vars

\* A call that finds the guard initialised finds its labels applied: a
\* GuardSessionState is published only after label_agent's secrecy tags are in
\* the agent's label, and they stay there.
CachedGuardIsApplied ==
  \A s \in Guarded :
    guardInit[s] # None => LabelAgent[s].labels.secrecy \subseteq labels.secrecy

\* Data marked as blocked is returned to no caller, in no mode, with or without
\* item labels.
BlockedNeverDelivered == \A d \in delivered : BlockedTag \notin d.integrity

\* Every GuardSessionState admits at most the limit, so the calls let through are
\* bounded by the limit times the number of initialisations (which is one unless
\* first calls overlap).
BudgetPerInitialisation ==
  \A s \in Servers, t \in Tools :
    ToolCallLimits[s][t] # 0
      => admitted[s][t] <= ToolCallLimits[s][t] * Cardinality(stored[s])

\* "Positive values hard-limit that tool for the session" (README.md:194): a
\* session gets at most the limit through, however its calls overlap.
BudgetPerSession ==
  \A s \in Servers, t \in Tools :
    ToolCallLimits[s][t] # 0 => admitted[s][t] <= ToolCallLimits[s][t]

\* "For each item in the response, the Reference Monitor ... sets the agent's
\* integrity label to the intersection of the agent's current integrity label and
\* the item's" (docs/GUARD_RESPONSE_LABELING.md:85): after Phase 6 of a propagating
\* read the agent has no integrity that an item of the response lacks.
IntegrityIsIntersected ==
  [][\A c \in Calls :
       At(c, "accumulateIntegrity") /\ call'[c].pc = "return" /\ Accumulates(c)
         => \A i \in call[c].items : labels'.integrity \subseteq i.integrity]_vars

=============================================================================
