--------------------------- MODULE GraphQLSelection ---------------------------
(***************************************************************************)
(* selectReadOnlyGraphQLOperation (internal/proxy/read_only.go): of a      *)
(* GraphQL document only the one selected query goes upstream, with the    *)
(* fragments it refers to.  A document is a sequence of operations, each   *)
(* [name, kind, spreads], a sequence of fragments [name, spreads] and the  *)
(* operationName of the request; its text, variables and tokens are left   *)
(* out, and a body that does not parse is the document Malformed.          *)
(***************************************************************************)
EXTENDS Naturals, Sequences, FiniteSets, Functions

CONSTANT FragmentNames   \* names of fragments; "" is the name of an anonymous operation

OperationKinds == {"query", "mutation", "subscription"}

NoSelection == [op |-> [name |-> "", kind |-> "none", spreads |-> {}], fragments |-> {}]
Malformed   == [operations |-> <<>>, fragments |-> <<>>, operationName |-> ""]

\* The operations that operationName may mean: without it there must be only
\* one, and with it the name must not be ambiguous.
Candidates(doc) ==
  IF doc.operationName = ""
  THEN {i \in DOMAIN doc.operations : Len(doc.operations) = 1}
  ELSE {i \in DOMAIN doc.operations : doc.operations[i].name = doc.operationName}

DefinedFragments(doc) == {doc.fragments[i].name : i \in DOMAIN doc.fragments}

\* Duplicate fragment names are refused.
FragmentNamesUnique(doc) == IsInjective([i \in DOMAIN doc.fragments |-> doc.fragments[i].name])

SpreadsOf(doc, name) ==
  LET i == CHOOSE j \in DOMAIN doc.fragments : doc.fragments[j].name = name
  IN  doc.fragments[i].spreads

\* includeFragment: depth first, refusing a fragment that is being visited (a
\* cycle) and one that is not defined; referenced collects the others.
IncludeFragment(doc) ==
  LET include[visiting \in SUBSET FragmentNames, name \in FragmentNames] ==
        IF name \in visiting \/ name \notin DefinedFragments(doc)
        THEN [ok |-> FALSE, referenced |-> {}]
        ELSE LET below == {include[visiting \union {name}, s] : s \in SpreadsOf(doc, name)}
             IN  [ok |-> \A b \in below : b.ok,
                  referenced |-> {name} \union UNION {b.referenced : b \in below}]
  IN include

\* The body that is sent instead of the client's, or NoSelection.
Select(doc) ==
  LET chosen == Candidates(doc) IN
  IF Cardinality(chosen) # 1 \/ ~FragmentNamesUnique(doc) THEN NoSelection
  ELSE LET op    == doc.operations[CHOOSE i \in chosen : TRUE]
           below == {IncludeFragment(doc)[{}, s] : s \in op.spreads}
       IN  IF op.kind # "query" \/ \E b \in below : ~b.ok THEN NoSelection
           ELSE [op |-> op, fragments |-> UNION {b.referenced : b \in below}]

-----------------------------------------------------------------------------
(* Reference definition, over the graph of fragment spreads.               *)

\* <<f, g>>: fragment f spreads g.
Spreads(doc) ==
  UNION {{<<doc.fragments[i].name, s>> : s \in doc.fragments[i].spreads} : i \in DOMAIN doc.fragments}

\* Names reached from a set of names: the least set closed under Spreads.
Closed(doc, set) == \A e \in Spreads(doc) : e[1] \in set => e[2] \in set
ReachedFrom(doc, from) ==
  {n \in FragmentNames : \A set \in SUBSET FragmentNames :
                           from \subseteq set /\ Closed(doc, set) => n \in set}

\* A selection is made exactly of an unambiguous query whose fragments are all
\* defined, once, and of which none reaches itself.
SelectionIsSound(doc) ==
  LET chosen   == Candidates(doc)
      op       == doc.operations[CHOOSE i \in chosen : TRUE]
      reached  == ReachedFrom(doc, op.spreads)
      closed   == reached \subseteq DefinedFragments(doc)
      acyclic  == \A n \in reached : n \notin ReachedFrom(doc, SpreadsOf(doc, n))
      sendable == /\ Cardinality(chosen) = 1 /\ FragmentNamesUnique(doc)
                  /\ op.kind = "query" /\ closed /\ acyclic
  IN  Select(doc) = IF sendable THEN [op |-> op, fragments |-> reached] ELSE NoSelection

===============================================================================
