------------------------------ MODULE PathLabels ------------------------------
(***************************************************************************)
(* Labels on paths of a response (internal/difc/path_labels.go and         *)
(* path_collections.go).  A guard answers with JSON Pointers and labels;   *)
(* the gateway turns them into labelled items, and the items the agent may *)
(* not read are taken out of the response.                                 *)
(*                                                                         *)
(* A document is a function from the paths of its nodes, sequences of      *)
(* tokens, to what is there: "object", "array", "value" or "null".  A node *)
(* keeps its path when elements before it are removed: paths name nodes,   *)
(* not positions.  A guard's answer is                                     *)
(*   [multi, paths, itemsPath, labelled, default]                          *)
(* where multi tells items_paths from items_path, and a pointer as written *)
(* is [tokens, canonical]; canonical is FALSE for another spelling.        *)
(***************************************************************************)
EXTENDS DIFCLabels, Integers, SequencesExt

NoDefault == [secrecy |-> {"no default"}, integrity |-> {}]

\* strconv.Atoi on a token.
Numerals  == [t \in {"0", "00", "1", "2"} |-> CASE t = "1" -> 1 [] t = "2" -> 2 [] OTHER -> 0]
Canonical == DOMAIN Numerals \ {"00"}

\* A document holds the nodes above each of its nodes; elements of an array have
\* canonical numerals, and no object an empty key.
IsDocument(doc) ==
  /\ DOMAIN doc \subseteq Seq(STRING) /\ <<>> \in DOMAIN doc
  /\ \A p \in DOMAIN doc : "" \notin Range(p)
  /\ \A p \in DOMAIN doc : \A n \in 0 .. Len(p) : SubSeq(p, 1, n) \in DOMAIN doc
  /\ \A p \in DOMAIN doc \ {<<>>} : doc[Front(p)] = "array" => Last(p) \in Canonical

\* Mutant: a numeral spelled in another way is taken for the element it names.
ExtractValueLenient(doc, tokens, strict) ==
  {n \in DOMAIN doc :
     /\ Len(n) = Len(tokens)
     /\ \A i \in DOMAIN n :
          IF doc[SubSeq(n, 1, i - 1)] = "array"
          THEN tokens[i] \in DOMAIN Numerals /\ Numerals[n[i]] = Numerals[tokens[i]]
          ELSE n[i] = tokens[i]}

\* extractValueAtPath: the node a pointer leads to, none or one; strict demands
\* the canonical numeral of an array index.
ExtractValueAtPath(doc, tokens, strict) ==
  {n \in DOMAIN doc :
     /\ Len(n) = Len(tokens)
     /\ \A i \in DOMAIN n :
          IF doc[SubSeq(n, 1, i - 1)] = "array"
          THEN /\ tokens[i] \in DOMAIN Numerals /\ Numerals[n[i]] = Numerals[tokens[i]]
               /\ strict => n[i] = tokens[i]
          ELSE n[i] = tokens[i]}

\* extractItemsAtPath: the elements of the arrays at the node.
Elements(doc, nodes) == {n \in DOMAIN doc : n # <<>> /\ Front(n) \in {a \in nodes : doc[a] = "array"}}
ArrayAt(doc, tokens, strict) == \E n \in ExtractValueAtPath(doc, tokens, strict) : doc[n] = "array"

\* A guard's answer, as it is parsed.
Pointer == [tokens : Seq(STRING), canonical : BOOLEAN]
IsAnswer(g) ==
  /\ g.multi \in BOOLEAN
  /\ g.paths \in Seq(Pointer) /\ g.itemsPath \in Seq(STRING)
  /\ DOMAIN g.labelled = 1 .. Len(g.labelled)
  /\ \A i \in DOMAIN g.labelled : g.labelled[i].tokens \in Seq(STRING) /\ g.labelled[i].label # NoDefault

Item(path, label) == [path |-> path, label |-> label]
Unresolved        == {Item(<<>>, NoDefault)}

-----------------------------------------------------------------------------
(* items_paths: several collections in an enclosing structure.             *)

Tokens(pointers) == [i \in DOMAIN pointers |-> pointers[i].tokens]
WellFormed(pointers) == IsInjective(Tokens(pointers)) /\ \A i \in DOMAIN pointers : pointers[i].canonical

\* resolveCollections: labels and collections are spelled canonically and once;
\* no collection lies within another; every pointer leads somewhere; every
\* element has a label, its own or the default.  What is left of the labels
\* gates the nodes it is written for.
ResolveCollections(doc, g) ==
  LET own(p)   == {i \in DOMAIN g.labelled : g.labelled[i].tokens = p}
      nodes    == UNION {ExtractValueAtPath(doc, g.paths[i].tokens, TRUE) : i \in DOMAIN g.paths}
      elements == Elements(doc, nodes)
      label(p) == IF own(p) # {} THEN g.labelled[CHOOSE i \in own(p) : TRUE].label ELSE g.default
  IN  IF /\ WellFormed(g.labelled) /\ WellFormed(g.paths)
         /\ \A i \in DOMAIN g.paths : g.paths[i].tokens # <<>> /\ ArrayAt(doc, g.paths[i].tokens, TRUE)
         /\ \A i, j \in DOMAIN g.paths : ~IsStrictPrefix(g.paths[i].tokens, g.paths[j].tokens)
         /\ \A p \in elements : label(p) # NoDefault
         /\ \A i \in DOMAIN g.labelled : ExtractValueAtPath(doc, g.labelled[i].tokens, TRUE) # {}
      THEN {Item(p, label(p)) : p \in elements \union Range(Tokens(g.labelled))}
      ELSE Unresolved

\* pruneJSONPaths: a denied element leaves its array, any other denied node
\* becomes null.
PruneJSONPaths(doc, denied) ==
  LET kept == {p \in DOMAIN doc :
                 /\ ~\E d \in denied : IsStrictPrefix(d, p)
                 /\ p \in denied => p = <<>> \/ doc[Front(p)] = "object"}
  IN  [p \in kept |-> IF p \in denied THEN "null" ELSE doc[p]]

-----------------------------------------------------------------------------
(* items_path: one collection.                                             *)

\* extractValueAtPath skips empty tokens here: "/" is the root.  With any other
\* empty token replaceCollectionAtPath fails, as a path that leads nowhere does.
CollectionPath(g) == IF g.itemsPath = <<"">> THEN <<>> ELSE g.itemsPath

\* An item without a label is unlabelled.
DefaultLabel(g) == IF g.default = NoDefault THEN NoLabel ELSE g.default

\* extractIndexFromPath: the token after the collection's path as it is written;
\* what follows it is not looked at.
IndexFromPath(pointer, itemsPath) ==
  IF IsStrictPrefix(itemsPath, pointer.tokens) /\ pointer.tokens[Len(itemsPath) + 1] \in DOMAIN Numerals
  THEN Numerals[pointer.tokens[Len(itemsPath) + 1]] ELSE -1

\* resolve: labels with other paths are skipped, the last one for an element
\* counts, and an element without any is unlabelled.  A document that is no
\* array is a single item.
Resolve(doc, g) ==
  LET for(p)   == {i \in DOMAIN g.labelled : IndexFromPath(g.labelled[i], g.itemsPath) = Numerals[Last(p)]}
      last(S)  == CHOOSE i \in S : \A j \in S : j <= i
      label(p) == IF for(p) # {} THEN g.labelled[last(for(p))].label ELSE DefaultLabel(g)
  IN  IF ArrayAt(doc, CollectionPath(g), FALSE)
      THEN {Item(p, label(p)) : p \in Elements(doc, ExtractValueAtPath(doc, CollectionPath(g), FALSE))}
      ELSE IF g.itemsPath = <<>> THEN {Item(<<>>, DefaultLabel(g))}
      ELSE Unresolved

\* ToResult, replaceCollectionAtPath: the collection with the accessible
\* elements, in its document.
KeepElements(doc, denied) == Restrict(doc, {p \in DOMAIN doc : ~\E d \in denied : IsPrefix(d, p)})

-----------------------------------------------------------------------------
\* NewPathLabeledData, ToCollectionLabeledData.
ResolvedItems(doc, g) == IF g.multi THEN ResolveCollections(doc, g) ELSE Resolve(doc, g)

\* FilterCollection, by the rules for the call's operation.
Denied(agent, items, op, mode) == {i.path : i \in {i \in items : ~Evaluate(agent, i.label, op, mode)}}

\* FilterAndConvertLabeledData, rebuildCollections.
Filtered(doc, g, denied) == IF g.multi THEN PruneJSONPaths(doc, denied) ELSE KeepElements(doc, denied)

===============================================================================
