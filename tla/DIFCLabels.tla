------------------------------ MODULE DIFCLabels ------------------------------
(***************************************************************************)
(* The label algebra of the reference monitor (internal/difc).  A label is *)
(* a pair of tag sets: secrecy, which data carries along, and integrity,   *)
(* which data vouches for.  Tags are opaque except for the wildcard and    *)
(* the tag that marks a resource as blocked.                               *)
(***************************************************************************)

WildcardTag == "*"
BlockedTag  == "blocked"

EnforcementModes == {"strict", "filter", "propagate"}
OperationTypes   == {"read", "write", "read-write"}

NoLabel == [secrecy |-> {}, integrity |-> {}]

\* CanFlowTo: the side that must be the larger set may hold the wildcard.
SecrecyFlows(src, target)   == WildcardTag \in target \/ src \subseteq target
IntegrityFlows(src, target) == WildcardTag \in src \/ target \subseteq src

\* Mutant: propagate mode is decided before the blocked tag is looked at.
ReadPropagatesBlocked(agent, resource, mode) ==
  \/ mode = "propagate"
  \/ /\ BlockedTag \notin resource.integrity
     /\ IntegrityFlows(resource.integrity, agent.integrity)
     /\ SecrecyFlows(resource.secrecy, agent.secrecy)

\* evaluateRead: a blocked resource is never read; in propagate mode any other
\* one is, because the agent's label follows the data.
ReadAllowed(agent, resource, mode) ==
  /\ BlockedTag \notin resource.integrity
  /\ \/ mode = "propagate"
     \/ /\ IntegrityFlows(resource.integrity, agent.integrity)
        /\ SecrecyFlows(resource.secrecy, agent.secrecy)

\* evaluateWrite, the same in every mode.
WriteAllowed(agent, resource) ==
  /\ IntegrityFlows(agent.integrity, resource.integrity)
  /\ SecrecyFlows(agent.secrecy, resource.secrecy)

\* Mutant: a read-write is held to the read rule only.
EvaluateReadOrWrite(agent, resource, op, mode) ==
  IF op = "write" THEN WriteAllowed(agent, resource) ELSE ReadAllowed(agent, resource, mode)

\* Evaluate: a read-write satisfies both rules.
Evaluate(agent, resource, op, mode) ==
  /\ op # "write" => ReadAllowed(agent, resource, mode)
  /\ op # "read"  => WriteAllowed(agent, resource)

\* EvaluationResult.MustDeny, the denial that no later phase may lift.
MustDeny(resource, op) == op # "write" /\ BlockedTag \in resource.integrity

\* EvaluateCoarseAccess: a read that is denied softly goes on, for Phase 5 to
\* decide item by item.
CoarseDenied(agent, resource, op, mode) ==
  /\ ~Evaluate(agent, resource, op, mode)
  /\ MustDeny(resource, op) \/ op # "read"

ShouldCallLabelResponse(op, mode) ==
  op # "write" /\ (op # "read-write" \/ mode # "strict")

ShouldAccumulateReadLabels(op, mode) == op # "write" /\ mode = "propagate"

\* Mutant: the secrecy of a collection is what its items have in common.
AggregateCommon(items) ==
  [secrecy   |-> {t \in UNION {i.secrecy : i \in items} : \A i \in items : t \in i.secrecy},
   integrity |-> UNION {i.integrity : i \in items}]

\* aggregateLabels: both tag sets of a collection are unions over its items.
AggregateLabels(items) ==
  [secrecy   |-> UNION {i.secrecy : i \in items},
   integrity |-> UNION {i.integrity : i \in items}]

===============================================================================
