---------------------------- MODULE ResponsesProofs ----------------------------
(***************************************************************************)
(* The invariants of Responses, for every document, guard answer, filter   *)
(* and number of calls.  The first half is about PathLabels: what the      *)
(* guard's pointers lead to, however they are spelled, is what is taken    *)
(* away.  The second half follows the copies of the document through the   *)
(* handler, the filter and the payload file.                               *)
(***************************************************************************)
EXTENDS Responses, SequenceTheorems, NaturalsInduction, WellFoundedInduction, TLAPS

(***************************************************************************)
(* Paths.                                                                  *)
(***************************************************************************)

\* The first n tokens of a path.
LEMMA FirstTokens ==
  ASSUME NEW s \in Seq(STRING), NEW n \in 0 .. Len(s)
  PROVE  /\ SubSeq(s, 1, n) \in Seq(STRING) /\ Len(SubSeq(s, 1, n)) = n
         /\ \A i \in 1 .. n : SubSeq(s, 1, n)[i] = s[i]
OBVIOUS

\* Prefixes, token by token.
LEMMA PrefixByTokens ==
  ASSUME NEW s \in Seq(STRING), NEW t \in Seq(STRING)
  PROVE  IsPrefix(s, t) <=> Len(s) <= Len(t) /\ \A i \in 1 .. Len(s) : s[i] = t[i]
<1>1. Len(s) \in Nat /\ Len(t) \in Nat
  BY LenProperties
<1>2. SubSeq(s, 1, Len(s)) = s
  BY SubSeqFull
<1>3. CASE Len(s) <= Len(t)
  <2>1. /\ SubSeq(t, 1, Len(s)) \in Seq(STRING) /\ Len(SubSeq(t, 1, Len(s))) = Len(s)
        /\ \A i \in 1 .. Len(s) : SubSeq(t, 1, Len(s))[i] = t[i]
    BY <1>1, <1>3, FirstTokens
  <2>2. (\A i \in 1 .. Len(s) : s[i] = SubSeq(t, 1, Len(s))[i]) => s = SubSeq(t, 1, Len(s))
    BY <2>1, SeqEqual
  <2> QED
    BY <1>2, <1>3, <2>1, <2>2 DEF IsPrefix
<1>4. CASE ~(Len(s) <= Len(t))
  BY <1>4 DEF IsPrefix
<1> QED
  BY <1>3, <1>4

\* A path and the paths above it.
LEMMA FirstOfFirst ==
  ASSUME NEW s \in Seq(STRING), NEW n \in 0 .. Len(s), NEW m \in 0 .. n
  PROVE  SubSeq(SubSeq(s, 1, n), 1, m) = SubSeq(s, 1, m)
<1>1. Len(s) \in Nat /\ m \in 0 .. Len(s)
  BY LenProperties
<1>2. /\ SubSeq(s, 1, n) \in Seq(STRING) /\ Len(SubSeq(s, 1, n)) = n
      /\ \A i \in 1 .. n : SubSeq(s, 1, n)[i] = s[i]
  BY FirstTokens
<1>3. /\ SubSeq(s, 1, m) \in Seq(STRING) /\ Len(SubSeq(s, 1, m)) = m
      /\ \A i \in 1 .. m : SubSeq(s, 1, m)[i] = s[i]
  BY <1>1, FirstTokens
<1> DEFINE u == SubSeq(s, 1, n)
<1>4. u \in Seq(STRING) /\ m \in 0 .. Len(u)
  BY <1>2
<1> HIDE DEF u
<1>5. /\ SubSeq(u, 1, m) \in Seq(STRING) /\ Len(SubSeq(u, 1, m)) = m
      /\ \A i \in 1 .. m : SubSeq(u, 1, m)[i] = u[i]
  BY <1>4, FirstTokens
<1>6. \A i \in 1 .. m : SubSeq(u, 1, m)[i] = SubSeq(s, 1, m)[i]
  BY <1>1, <1>2, <1>3, <1>5 DEF u
<1>7. SubSeq(u, 1, m) = SubSeq(s, 1, m)
  BY <1>3, <1>5, <1>6, SeqEqual
<1> QED
  BY <1>7 DEF u

\* Two paths of the same length that differ part at a first token.
LEMMA FirstDifference ==
  ASSUME NEW s \in Seq(STRING), NEW t \in Seq(STRING), Len(s) = Len(t), s # t
  PROVE  \E i \in 1 .. Len(s) : s[i] # t[i] /\ SubSeq(s, 1, i - 1) = SubSeq(t, 1, i - 1)
<1> DEFINE D == {i \in 1 .. Len(s) : s[i] # t[i]}
<1>1. Len(s) \in Nat
  BY LenProperties
<1>2. D # {} /\ D \in SUBSET Nat
  BY <1>1, SeqEqual
<1>3. PICK m \in D : \A k \in D : <<k, m>> \notin OpToRel(<, Nat)
  <2> HIDE DEF D
  <2> QED
    BY <1>2, WFMin, NatLessThanWellFounded, Zenon
<1>4. \A k \in D : ~(k < m)
  <2> HIDE DEF D
  <2> QED
    BY <1>2, <1>3, Zenon DEF OpToRel
<1>5. m \in 1 .. Len(s) /\ m - 1 \in 0 .. Len(s)
  BY <1>1
<1>6. \A i \in 1 .. m - 1 : s[i] = t[i]
  BY <1>1, <1>4, <1>5
<1>7. SubSeq(s, 1, m - 1) = SubSeq(t, 1, m - 1)
  <2> DEFINE n == m - 1
  <2>1. n \in 0 .. Len(s) /\ n \in 0 .. Len(t) /\ \A i \in 1 .. n : s[i] = t[i]
    BY <1>5, <1>6
  <2> HIDE DEF n
  <2>2. /\ SubSeq(s, 1, n) \in Seq(STRING) /\ Len(SubSeq(s, 1, n)) = n
        /\ \A i \in 1 .. n : SubSeq(s, 1, n)[i] = s[i]
    BY <2>1, FirstTokens
  <2>3. /\ SubSeq(t, 1, n) \in Seq(STRING) /\ Len(SubSeq(t, 1, n)) = n
        /\ \A i \in 1 .. n : SubSeq(t, 1, n)[i] = t[i]
    BY <2>1, FirstTokens
  <2>4. SubSeq(s, 1, n) = SubSeq(t, 1, n)
    BY <2>1, <2>2, <2>3, SeqEqual
  <2> QED
    BY <2>4 DEF n
<1> QED
  BY <1>5, <1>7

\* The node above the nth token of a path, and that token.
LEMMA StepOfPath ==
  ASSUME NEW s \in Seq(STRING), NEW n \in 1 .. Len(s)
  PROVE  /\ SubSeq(s, 1, n) \in Seq(STRING) \ {<<>>}
         /\ Front(SubSeq(s, 1, n)) = SubSeq(s, 1, n - 1)
         /\ Last(SubSeq(s, 1, n)) = s[n]
<1>1. Len(s) \in Nat /\ n \in 0 .. Len(s) /\ n - 1 \in 0 .. n
  BY LenProperties
<1>2. /\ SubSeq(s, 1, n) \in Seq(STRING) /\ Len(SubSeq(s, 1, n)) = n
      /\ \A i \in 1 .. n : SubSeq(s, 1, n)[i] = s[i]
  BY <1>1, FirstTokens
<1>3. SubSeq(SubSeq(s, 1, n), 1, n - 1) = SubSeq(s, 1, n - 1)
  BY <1>1, FirstOfFirst
<1>4. SubSeq(s, 1, n) # <<>>
  BY <1>2, EmptySeq
<1> QED
  BY <1>2, <1>3, <1>4 DEF Front, Last

(***************************************************************************)
(* Pointers.                                                               *)
(***************************************************************************)

\* The token that leads from a node of a document to one below it.
LEMMA StepOfDocument ==
  ASSUME NEW doc, IsDocument(doc), NEW p \in DOMAIN doc, NEW i \in 1 .. Len(p)
  PROVE  /\ SubSeq(p, 1, i - 1) \in DOMAIN doc
         /\ doc[SubSeq(p, 1, i - 1)] = "array" => p[i] \in Canonical
<1>1. p \in Seq(STRING) /\ Len(p) \in Nat
  BY LenProperties DEF IsDocument
<1>2. SubSeq(p, 1, i) \in DOMAIN doc /\ SubSeq(p, 1, i - 1) \in DOMAIN doc
  <2>1. \A q \in DOMAIN doc : \A n \in 0 .. Len(q) : SubSeq(q, 1, n) \in DOMAIN doc
    BY Zenon DEF IsDocument
  <2> QED
    BY <1>1, <2>1
<1>3. SubSeq(p, 1, i) # <<>> /\ Front(SubSeq(p, 1, i)) = SubSeq(p, 1, i - 1) /\ Last(SubSeq(p, 1, i)) = p[i]
  BY <1>1, StepOfPath
<1> QED
  BY <1>2, <1>3 DEF IsDocument

\* A canonical numeral is the only one of its number.
LEMMA CanonicalNumerals ==
  /\ Canonical \subseteq DOMAIN Numerals
  /\ \A s, t \in Canonical : Numerals[s] = Numerals[t] => s = t
<1>1. DOMAIN Numerals = {"0", "00", "1", "2"}
  BY DEF Numerals
<1>2. Numerals["0"] = 0 /\ Numerals["1"] = 1 /\ Numerals["2"] = 2
  BY DEF Numerals
<1> QED
  BY <1>1, <1>2 DEF Canonical

\* A pointer that is the path of a node leads to it, and to nothing else.
LEMMA PathLeadsToItself ==
  ASSUME NEW doc, IsDocument(doc), NEW p \in DOMAIN doc, NEW strict \in BOOLEAN
  PROVE  p \in ExtractValueAtPath(doc, p, strict)
<1>1. p \in Seq(STRING) /\ DOMAIN p = 1 .. Len(p)
  BY LenProperties DEF IsDocument
<1> QED
  BY <1>1, StepOfDocument, CanonicalNumerals DEF ExtractValueAtPath

LEMMA OnePathPerNode ==
  ASSUME NEW doc, IsDocument(doc), NEW q \in DOMAIN doc, NEW p \in ExtractValueAtPath(doc, q, FALSE)
  PROVE  p = q
<1>1. p \in DOMAIN doc /\ Len(p) = Len(q) /\ p \in Seq(STRING) /\ q \in Seq(STRING)
      /\ DOMAIN p = 1 .. Len(p)
  BY LenProperties DEF ExtractValueAtPath, IsDocument
<1>2. SUFFICES ASSUME p # q PROVE FALSE
  OBVIOUS
<1>3. PICK i \in 1 .. Len(p) : p[i] # q[i] /\ SubSeq(p, 1, i - 1) = SubSeq(q, 1, i - 1)
  BY <1>1, <1>2, FirstDifference
<1>4. IF doc[SubSeq(p, 1, i - 1)] = "array" THEN Numerals[p[i]] = Numerals[q[i]] ELSE p[i] = q[i]
  BY <1>1 DEF ExtractValueAtPath
<1>5. doc[SubSeq(p, 1, i - 1)] = "array" => p[i] \in Canonical /\ q[i] \in Canonical
  BY <1>1, <1>3, StepOfDocument
<1> QED
  BY <1>3, <1>4, <1>5, CanonicalNumerals

\* A strict pointer leads to the node whose path it is.
LEMMA StrictIsExact ==
  ASSUME NEW doc, IsDocument(doc), NEW t \in Seq(STRING), NEW p \in ExtractValueAtPath(doc, t, TRUE)
  PROVE  p = t /\ t \in DOMAIN doc
<1>1. p \in DOMAIN doc /\ Len(p) = Len(t) /\ p \in Seq(STRING) /\ DOMAIN p = 1 .. Len(p)
  BY LenProperties DEF ExtractValueAtPath, IsDocument
<1>2. \A i \in 1 .. Len(p) : p[i] = t[i]
  BY <1>1 DEF ExtractValueAtPath
<1> QED
  BY <1>1, <1>2, SeqEqual

\* Of some pointers the last one.
LEMMA LastExists ==
  ASSUME NEW n \in Nat, NEW S \in SUBSET (1 .. n), S # {}
  PROVE  \E i \in S : \A j \in S : j <= i
<1> DEFINE D == {n - i : i \in S}
<1>1. D # {} /\ D \in SUBSET Nat
  <2>1. PICK i \in S : TRUE
    OBVIOUS
  <2>2. n - i \in D
    OBVIOUS
  <2>3. \A j \in S : n - j \in Nat
    OBVIOUS
  <2> QED
    BY <2>2, <2>3
<1>2. PICK m \in D : \A k \in D : <<k, m>> \notin OpToRel(<, Nat)
  <2> HIDE DEF D
  <2> QED
    BY <1>1, WFMin, NatLessThanWellFounded, Zenon
<1>3. \A k \in D : ~(k < m)
  <2> HIDE DEF D
  <2> QED
    BY <1>1, <1>2, Zenon DEF OpToRel
<1>4. PICK i \in S : m = n - i
  OBVIOUS
<1>5. \A j \in S : n - j \in D
  OBVIOUS
<1>6. \A j \in S : ~(n - j < n - i)
  BY <1>3, <1>4, <1>5
<1> QED
  BY <1>6

(***************************************************************************)
(* What is denied, against what must go and what may go.                   *)
(***************************************************************************)

Answered(k) == IsDocument(k.doc) /\ IsAnswer(k.guard)

\* A pointer that is a node's path leads to that node only.
LEMMA ExactPointers ==
  ASSUME NEW doc, IsDocument(doc), NEW t \in DOMAIN doc, NEW strict \in BOOLEAN
  PROVE  ExtractValueAtPath(doc, t, strict) = {t}
<1>1. t \in ExtractValueAtPath(doc, t, strict)
  BY PathLeadsToItself
<1>2. ExtractValueAtPath(doc, t, strict) \subseteq ExtractValueAtPath(doc, t, FALSE)
  BY DEF ExtractValueAtPath
<1>3. \A p \in ExtractValueAtPath(doc, t, FALSE) : p = t
  BY OnePathPerNode
<1> QED
  BY <1>1, <1>2, <1>3

\* The pointers of an answer are sequences of tokens.
LEMMA AnswerTokens ==
  ASSUME NEW g, IsAnswer(g)
  PROVE  /\ g.itemsPath \in Seq(STRING)
         /\ \A i \in DOMAIN g.paths : g.paths[i].tokens \in Seq(STRING)
         /\ \A i \in DOMAIN g.labelled : g.labelled[i].tokens \in Seq(STRING) /\ g.labelled[i].label # NoDefault
<1>1. \A i \in DOMAIN g.paths : g.paths[i] \in Pointer
  BY LenProperties, ElementOfSeq DEF IsAnswer
<1> QED
  BY <1>1 DEF IsAnswer, Pointer

\* Several collections: a label's own node, and the label of an item.
Own(k, p)       == {i \in DOMAIN k.guard.labelled : k.guard.labelled[i].tokens = p}
OwnLabel(k, p)  == IF Own(k, p) # {} THEN k.guard.labelled[CHOOSE i \in Own(k, p) : TRUE].label
                   ELSE k.guard.default
Named(k)        == {k.guard.labelled[i].tokens : i \in DOMAIN k.guard.labelled}
StrictNodes(k)  == UNION {ExtractValueAtPath(k.doc, k.guard.paths[i].tokens, TRUE) : i \in DOMAIN k.guard.paths}

\* An answer that can be resolved labels each node at most once, by its path.
LEMMA ResolvedCollections ==
  ASSUME NEW k, Answered(k), k.guard.multi = TRUE, ResolvedItems(k.doc, k.guard) # Unresolved
  PROVE  /\ ResolvedItems(k.doc, k.guard) = {Item(p, OwnLabel(k, p)) : p \in Collection(k) \union Named(k)}
         /\ Named(k) \subseteq DOMAIN k.doc
         /\ \A p \in Collection(k) : OwnLabel(k, p) # NoDefault
         /\ \A p : \A i \in Own(k, p) : OwnLabel(k, p) = k.guard.labelled[i].label
         /\ \A p \in DOMAIN k.doc : Leading(k, p) = Own(k, p)
<1>1. /\ WellFormed(k.guard.labelled)
      /\ \A i \in DOMAIN k.guard.paths : ArrayAt(k.doc, k.guard.paths[i].tokens, TRUE)
      /\ \A p \in Elements(k.doc, StrictNodes(k)) : OwnLabel(k, p) # NoDefault
      /\ \A i \in DOMAIN k.guard.labelled : ExtractValueAtPath(k.doc, k.guard.labelled[i].tokens, TRUE) # {}
      /\ ResolvedItems(k.doc, k.guard) =
           {Item(p, OwnLabel(k, p)) : p \in Elements(k.doc, StrictNodes(k)) \union Range(Tokens(k.guard.labelled))}
  BY Zenon DEF ResolvedItems, ResolveCollections, Own, OwnLabel, StrictNodes
<1>2. ASSUME NEW i \in DOMAIN k.guard.labelled PROVE k.guard.labelled[i].tokens \in DOMAIN k.doc
  <2>1. k.guard.labelled[i].tokens \in Seq(STRING)
    BY AnswerTokens DEF Answered
  <2>2. PICK p \in ExtractValueAtPath(k.doc, k.guard.labelled[i].tokens, TRUE) : TRUE
    BY <1>1
  <2> QED
    BY <2>1, <2>2, StrictIsExact DEF Answered
<1>3. ASSUME NEW i \in DOMAIN k.guard.paths
      PROVE  /\ ExtractValueAtPath(k.doc, k.guard.paths[i].tokens, TRUE) = {k.guard.paths[i].tokens}
             /\ ExtractValueAtPath(k.doc, k.guard.paths[i].tokens, FALSE) = {k.guard.paths[i].tokens}
  <2>1. k.guard.paths[i].tokens \in Seq(STRING)
    BY AnswerTokens DEF Answered
  <2>2. PICK p \in ExtractValueAtPath(k.doc, k.guard.paths[i].tokens, TRUE) : TRUE
    BY <1>1 DEF ArrayAt
  <2>3. k.guard.paths[i].tokens \in DOMAIN k.doc
    BY <2>1, <2>2, StrictIsExact DEF Answered
  <2> QED
    BY <2>3, ExactPointers DEF Answered
<1>4. Collection(k) = Elements(k.doc, StrictNodes(k))
  <2>1. Range(Tokens(k.guard.paths)) = {k.guard.paths[i].tokens : i \in DOMAIN k.guard.paths}
    BY Zenon DEF Range, Tokens
  <2>2. UNION {ExtractValueAtPath(k.doc, t, FALSE) : t \in Range(Tokens(k.guard.paths))} = StrictNodes(k)
    <3>1. \A i \in DOMAIN k.guard.paths : ExtractValueAtPath(k.doc, k.guard.paths[i].tokens, FALSE)
                                            = ExtractValueAtPath(k.doc, k.guard.paths[i].tokens, TRUE)
      BY <1>3
    <3>2. \A t \in Range(Tokens(k.guard.paths)) : ExtractValueAtPath(k.doc, t, FALSE) \subseteq StrictNodes(k)
      BY <2>1, <3>1 DEF StrictNodes
    <3>3. \A i \in DOMAIN k.guard.paths : ExtractValueAtPath(k.doc, k.guard.paths[i].tokens, TRUE)
                \subseteq UNION {ExtractValueAtPath(k.doc, t, FALSE) : t \in Range(Tokens(k.guard.paths))}
      BY <2>1, <3>1
    <3> QED
      BY <3>2, <3>3 DEF StrictNodes
  <2> QED
    BY <2>2 DEF Collection
<1>5. ASSUME NEW p \in DOMAIN k.doc PROVE Leading(k, p) = Own(k, p)
  <2>1. \A i \in DOMAIN k.guard.labelled :
          ExtractValueAtPath(k.doc, k.guard.labelled[i].tokens, FALSE) = {k.guard.labelled[i].tokens}
    BY <1>2, ExactPointers DEF Answered
  <2>2. Pointers(k) = DOMAIN k.guard.labelled /\ \A i : Target(k, i) = k.guard.labelled[i].tokens
    BY DEF Pointers, Target
  <2> QED
    BY <2>1, <2>2 DEF Leading, Own
<1>6. Range(Tokens(k.guard.labelled)) = Named(k)
  BY Zenon DEF Range, Tokens, Named
<1>7. \A i, j \in DOMAIN k.guard.labelled : k.guard.labelled[i].tokens = k.guard.labelled[j].tokens => i = j
  BY <1>1, Zenon DEF WellFormed, IsInjective, Tokens
<1>8. ASSUME NEW p, NEW i \in Own(k, p) PROVE OwnLabel(k, p) = k.guard.labelled[i].label
  <2>1. (CHOOSE j \in Own(k, p) : TRUE) \in Own(k, p)
    BY Zenon
  <2>2. (CHOOSE j \in Own(k, p) : TRUE) = i
    BY <1>7, <2>1 DEF Own
  <2> QED
    BY <2>2 DEF OwnLabel
<1>9. Named(k) \subseteq DOMAIN k.doc
  BY <1>2 DEF Named
<1> QED
  BY <1>1, <1>4, <1>5, <1>6, <1>8, <1>9

\* Several collections: what must go is denied, and what is denied may go.
LEMMA CollectionsDenied ==
  ASSUME NEW k, Answered(k), k.guard.multi = TRUE, ResolvedItems(k.doc, k.guard) # Unresolved
  PROVE  /\ MustGo(k) \subseteq Denied(k.agent, ResolvedItems(k.doc, k.guard), k.op, k.mode)
         /\ Denied(k.agent, ResolvedItems(k.doc, k.guard), k.op, k.mode) \subseteq MayGo(k)
<1> DEFINE denied == Denied(k.agent, ResolvedItems(k.doc, k.guard), k.op, k.mode)
<1>1. /\ ResolvedItems(k.doc, k.guard) = {Item(p, OwnLabel(k, p)) : p \in Collection(k) \union Named(k)}
      /\ Named(k) \subseteq DOMAIN k.doc
      /\ \A p \in Collection(k) : OwnLabel(k, p) # NoDefault
      /\ \A p : \A i \in Own(k, p) : OwnLabel(k, p) = k.guard.labelled[i].label
      /\ \A p \in DOMAIN k.doc : Leading(k, p) = Own(k, p)
  BY ResolvedCollections
<1>2. denied = {p \in Collection(k) \union Named(k) : Hidden(k, OwnLabel(k, p))}
  <2>1. ASSUME NEW p \in denied PROVE p \in Collection(k) \union Named(k) /\ Hidden(k, OwnLabel(k, p))
    <3>1. PICK it \in ResolvedItems(k.doc, k.guard) : it.path = p /\ ~Evaluate(k.agent, it.label, k.op, k.mode)
      BY DEF Denied
    <3>2. PICK q \in Collection(k) \union Named(k) : it = Item(q, OwnLabel(k, q))
      BY <1>1, <3>1
    <3>3. it.path = q /\ it.label = OwnLabel(k, q)
      BY <3>2 DEF Item
    <3> QED
      BY <3>1, <3>3 DEF Hidden
  <2>2. ASSUME NEW p \in Collection(k) \union Named(k), Hidden(k, OwnLabel(k, p)) PROVE p \in denied
    <3> DEFINE it == Item(p, OwnLabel(k, p))
    <3>1. it \in ResolvedItems(k.doc, k.guard)
      BY <1>1
    <3>2. it.path = p /\ it.label = OwnLabel(k, p)
      BY DEF Item
    <3> HIDE DEF it
    <3> QED
      BY <2>2, <3>1, <3>2 DEF Denied, Hidden
  <2> QED
    BY <2>1, <2>2
<1>3. Collection(k) \subseteq DOMAIN k.doc
  BY DEF Collection, Elements
<1>4. \A p : Own(k, p) # {} <=> p \in Named(k)
  BY DEF Own, Named
<1>5. \A p \in Collection(k) : Own(k, p) = {} => OwnLabel(k, p) = DefaultLabel(k.guard)
  BY <1>1 DEF OwnLabel, DefaultLabel
<1>8. ~IsItem(k)
  BY DEF IsItem
<1>6. ASSUME NEW p \in MustGo(k) PROVE p \in denied
  <2>1. /\ p \in DOMAIN k.doc
        /\ IF Own(k, p) # {} THEN \A i \in Own(k, p) : Hidden(k, k.guard.labelled[i].label)
           ELSE p \in Collection(k) /\ Hidden(k, DefaultLabel(k.guard))
    BY <1>1, <1>8 DEF MustGo
  <2> QED
    BY <1>1, <1>2, <1>4, <1>5, <2>1
<1>7. ASSUME NEW p \in denied PROVE p \in MayGo(k)
  <2>1. p \in DOMAIN k.doc /\ p \in Collection(k) \union Named(k) /\ Hidden(k, OwnLabel(k, p))
    BY <1>1, <1>2, <1>3
  <2>2. CASE Own(k, p) # {}
    <3>1. PICK i \in Own(k, p) : TRUE
      BY <2>2
    <3>2. i \in Leading(k, p) /\ Hidden(k, k.guard.labelled[i].label)
      BY <1>1, <2>1, <3>1
    <3> QED
      BY <2>1, <3>2 DEF MayGo
  <2>3. CASE Own(k, p) = {}
    <3>1. p \in Collection(k) /\ Hidden(k, DefaultLabel(k.guard)) /\ Leading(k, p) = {}
      BY <1>1, <1>4, <1>5, <2>1, <2>3
    <3> QED
      BY <2>1, <3>1 DEF MayGo
  <2> QED
    BY <2>2, <2>3
<1> QED
  BY <1>6, <1>7

\* The token after a path is an element's number, and it leads to the element.
TokenIs(path, t, p) ==
  /\ IsStrictPrefix(path, t)
  /\ t[Len(path) + 1] \in DOMAIN Numerals /\ Numerals[t[Len(path) + 1]] = Numerals[Last(p)]
TokenLeads(doc, path, t, p) ==
  /\ IsPrefix(path, t) /\ Len(path) + 1 <= Len(t)
  /\ p \in ExtractValueAtPath(doc, SubSeq(t, 1, Len(path) + 1), FALSE)

\* Of a pointer below an array at a path, the next token selects an element, in
\* whatever way the path is spelled.
LEMMA TokenFindsElement ==
  ASSUME NEW doc, IsDocument(doc), NEW path \in Seq(STRING), NEW t \in Seq(STRING),
         NEW p \in Elements(doc, ExtractValueAtPath(doc, path, FALSE))
  PROVE  /\ p \in Seq(STRING) /\ Len(p) = Len(path) + 1 /\ Numerals[Last(p)] \in Nat
         /\ TokenIs(path, t, p) <=> TokenLeads(doc, path, t, p)
<1> DEFINE n == Len(path)
<1>1. Len(t) \in Nat /\ n \in Nat /\ n = Len(path)
  BY LenProperties
<1> HIDE DEF n
<1>2. /\ p \in DOMAIN doc /\ p # <<>> /\ doc[Front(p)] = "array"
      /\ Front(p) \in ExtractValueAtPath(doc, path, FALSE)
  BY DEF Elements
<1>3. p \in Seq(STRING) /\ Len(p) \in Nat \ {0} /\ DOMAIN p = 1 .. Len(p)
  BY <1>2, LenProperties, EmptySeq DEF IsDocument
<1>4. /\ Front(p) \in Seq(STRING) /\ Len(Front(p)) = Len(p) - 1 /\ DOMAIN Front(p) = 1 .. Len(p) - 1
      /\ \A j \in 1 .. Len(p) - 1 : Front(p)[j] = p[j]
  BY <1>3, FirstTokens, LenProperties DEF Front
<1>5. Len(p) = n + 1 /\ Last(p) = p[n + 1] /\ Front(p) = SubSeq(p, 1, n)
  <2>1. Len(Front(p)) = n
    BY <1>1, <1>2 DEF ExtractValueAtPath
  <2>0. Len(Front(p)) = Len(p) - 1 /\ Len(p) \in Nat /\ n \in Nat
    BY <1>1, <1>3, <1>4
  <2>2. Len(p) = n + 1
    BY <2>0, <2>1
  <2>3. Len(p) - 1 = n
    BY <1>1, <2>2
  <2> QED
    BY <2>2, <2>3 DEF Front, Last
<1>6. \A j \in 1 .. n : SubSeq(Front(p), 1, j - 1) = SubSeq(p, 1, j - 1)
  <2> SUFFICES ASSUME NEW j \in 1 .. n PROVE SubSeq(Front(p), 1, j - 1) = SubSeq(p, 1, j - 1)
    OBVIOUS
  <2>1. n \in 0 .. Len(p) /\ j - 1 \in 0 .. n
    BY <1>1, <1>5
  <2> QED
    BY <1>3, <1>5, <2>1, FirstOfFirst
<1>7. Last(p) \in Canonical /\ Last(p) \in DOMAIN Numerals /\ Numerals[Last(p)] \in Nat
  <2>1. Last(p) \in Canonical
    BY <1>2 DEF IsDocument
  <2>2. \A s \in DOMAIN Numerals : Numerals[s] \in Nat
    BY DEF Numerals
  <2> QED
    BY <2>1, <2>2, CanonicalNumerals
<1> DEFINE Leads(u, j) == IF doc[SubSeq(p, 1, j - 1)] = "array"
                          THEN u[j] \in DOMAIN Numerals /\ Numerals[p[j]] = Numerals[u[j]] ELSE p[j] = u[j]
<1>8. \A j \in 1 .. n : Leads(path, j)
  <2> SUFFICES ASSUME NEW j \in 1 .. n PROVE Leads(path, j)
    OBVIOUS
  <2>1. j \in DOMAIN Front(p) /\ Front(p)[j] = p[j] /\ SubSeq(Front(p), 1, j - 1) = SubSeq(p, 1, j - 1)
    BY <1>4, <1>5, <1>6
  <2> QED
    BY <1>2, <2>1 DEF ExtractValueAtPath
<1>9. \A m \in Nat : m = n + 1 => SubSeq(p, 1, m - 1) = Front(p)
  <2>1. \A m \in Nat : m = n + 1 => m - 1 = n
    BY <1>1
  <2> QED
    BY <1>5, <2>1
<1>10. \A u : p \in ExtractValueAtPath(doc, u, FALSE) <=> Len(u) = n + 1 /\ \A j \in 1 .. n + 1 : Leads(u, j)
  BY <1>2, <1>3, <1>5 DEF ExtractValueAtPath
<1>11. IsPrefix(path, t) <=> n <= Len(t) /\ \A j \in 1 .. n : path[j] = t[j]
  BY <1>1, PrefixByTokens
<1>12. IsPrefix(path, t) => (IsStrictPrefix(path, t) <=> n + 1 <= Len(t))
  <2>1. path = t => Len(path) = Len(t)
    OBVIOUS
  <2>2. ASSUME IsPrefix(path, t), Len(t) = n PROVE path = t
    BY <1>1, <1>11, <2>2, SeqEqual
  <2> QED
    BY <1>1, <1>11, <2>1, <2>2 DEF IsStrictPrefix
<1>15. ASSUME IsPrefix(path, t), n + 1 <= Len(t)
       PROVE  p \in ExtractValueAtPath(doc, SubSeq(t, 1, n + 1), FALSE)
                <=> t[n + 1] \in DOMAIN Numerals /\ Numerals[t[n + 1]] = Numerals[p[n + 1]]
  <2> DEFINE u == SubSeq(t, 1, n + 1)
  <2>1. Len(u) = n + 1 /\ \A j \in 1 .. n + 1 : u[j] = t[j]
    <3>1. n + 1 \in 0 .. Len(t)
      BY <1>1, <1>15
    <3> QED
      BY <1>1, <3>1, FirstTokens
  <2>2. \A j \in 1 .. n : u[j] = path[j]
    BY <1>1, <1>11, <1>15, <2>1
  <2> HIDE DEF u
  <2>3. \A j \in 1 .. n : Leads(u, j)
    BY <1>8, <2>2
  <2>4. Leads(u, n + 1) <=> t[n + 1] \in DOMAIN Numerals /\ Numerals[t[n + 1]] = Numerals[p[n + 1]]
    <3>1. n + 1 \in 1 .. n + 1
      BY <1>1
    <3>2. u[n + 1] = t[n + 1]
      BY <2>1, <3>1
    <3> DEFINE m == n + 1
    <3>0. m \in Nat /\ m = n + 1
      BY <1>1
    <3> HIDE DEF m
    <3>3. doc[SubSeq(p, 1, m - 1)] = "array"
      BY <1>2, <1>9, <3>0
    <3>4. Leads(u, m) <=> u[m] \in DOMAIN Numerals /\ Numerals[p[m]] = Numerals[u[m]]
      BY <3>3, Zenon
    <3> USE DEF m
    <3> HIDE DEF Leads
    <3> QED
      BY <3>2, <3>4
  <2>5. (\A j \in 1 .. n + 1 : Leads(u, j)) <=> Leads(u, n + 1)
    <3> HIDE DEF Leads
    <3> QED
      BY <1>1, <2>3
  <2> QED
    BY <1>10, <2>1, <2>4, <2>5 DEF u
<1>16. Last(p) = p[n + 1]
  BY <1>5
<1> HIDE DEF Leads
<1> QED
  BY <1>1, <1>3, <1>5, <1>7, <1>12, <1>15, <1>16 DEF IsStrictPrefix, TokenIs, TokenLeads

\* The pointers that lead to a node or below it.
LEMMA LeadingOrBelow ==
  ASSUME NEW k, NEW p \in Seq(STRING), NEW i \in Pointers(k), Target(k, i) \in Seq(STRING)
  PROVE  i \in Leading(k, p) \union Below(k, p)
           <=> /\ Len(p) <= Len(Target(k, i))
               /\ p \in ExtractValueAtPath(k.doc, SubSeq(Target(k, i), 1, Len(p)), FALSE)
<1> DEFINE t == Target(k, i)
<1>1. Len(p) \in Nat /\ Len(t) \in Nat
  BY LenProperties
<1>2. i \in Leading(k, p) <=> p \in ExtractValueAtPath(k.doc, t, FALSE)
  BY DEF Leading
<1>3. i \in Below(k, p) <=> Len(p) < Len(t) /\ p \in ExtractValueAtPath(k.doc, SubSeq(t, 1, Len(p)), FALSE)
  BY DEF Below
<1>4. p \in ExtractValueAtPath(k.doc, t, FALSE) => Len(t) = Len(p)
  BY DEF ExtractValueAtPath
<1>5. Len(t) = Len(p) => SubSeq(t, 1, Len(p)) = t
  BY SubSeqFull
<1> HIDE DEF t
<1>6. CASE Len(t) = Len(p)
  <2>1. Len(p) <= Len(t) /\ ~(Len(p) < Len(t))
    BY <1>1, <1>6
  <2> QED
    BY <1>2, <1>3, <1>5, <1>6, <2>1, Zenon DEF t
<1>7. CASE Len(t) # Len(p)
  <2>1. Len(p) <= Len(t) <=> Len(p) < Len(t)
    BY <1>1, <1>7
  <2> QED
    BY <1>2, <1>3, <1>4, <1>7, <2>1, Zenon DEF t
<1> QED
  BY <1>6, <1>7

\* One collection: the labels an element gets are those whose pointers lead to
\* it or below it.
LEMMA IndexFindsElement ==
  ASSUME NEW k, Answered(k), k.guard.multi = FALSE, NEW p \in Collection(k), NEW i \in DOMAIN k.guard.labelled
  PROVE  IndexFromPath(k.guard.labelled[i], k.guard.itemsPath) = Numerals[Last(p)]
           <=> i \in Leading(k, p) \union Below(k, p)
<1> DEFINE path == k.guard.itemsPath
           t    == k.guard.labelled[i].tokens
<1>1. path \in Seq(STRING) /\ t \in Seq(STRING) /\ Len(t) \in Nat
  BY AnswerTokens, LenProperties DEF Answered
<1>2. p \in Elements(k.doc, ExtractValueAtPath(k.doc, CollectionPath(k.guard), FALSE))
  BY DEF Collection
<1>3. CollectionPath(k.guard) \in Seq(STRING) /\ IsDocument(k.doc)
  BY <1>1, EmptySeq DEF CollectionPath, Answered
<1>4. p \in Seq(STRING) /\ Numerals[Last(p)] \in Nat
  BY <1>1, <1>2, <1>3, TokenFindsElement
<1>5. IndexFromPath(k.guard.labelled[i], path) = Numerals[Last(p)] <=> TokenIs(path, t, p)
  <2>1. IndexFromPath(k.guard.labelled[i], path)
          = IF IsStrictPrefix(path, t) /\ t[Len(path) + 1] \in DOMAIN Numerals THEN Numerals[t[Len(path) + 1]] ELSE -1
    BY DEF IndexFromPath
  <2>2. Numerals[Last(p)] # -1
    BY <1>4
  <2> QED
    BY <2>1, <2>2 DEF TokenIs
<1>6. i \in Pointers(k) <=> IsPrefix(path, t)
  BY DEF Pointers
<1>7. i \in Leading(k, p) \union Below(k, p) => i \in Pointers(k)
  BY DEF Leading, Below
<1>8. IsStrictPrefix(path, t) => IsPrefix(path, t)
  BY DEF IsStrictPrefix
<1>9. CASE path # <<"">>
  <2>1. CollectionPath(k.guard) = path /\ Target(k, i) = t
    BY <1>9 DEF CollectionPath, Target
  <2>2. p \in Elements(k.doc, ExtractValueAtPath(k.doc, path, FALSE))
    BY <1>2, <2>1
  <2> HIDE DEF path, t
  <2>3. Len(p) = Len(path) + 1 /\ (TokenIs(path, t, p) <=> TokenLeads(k.doc, path, t, p))
    BY <1>1, <1>3, <2>2, TokenFindsElement
  <2>4. i \in Pointers(k) => (i \in Leading(k, p) \union Below(k, p)
           <=> Len(p) <= Len(t) /\ p \in ExtractValueAtPath(k.doc, SubSeq(t, 1, Len(p)), FALSE))
    BY <1>1, <1>4, <2>1, LeadingOrBelow
  <2>5. TokenLeads(k.doc, path, t, p)
          <=> /\ IsPrefix(path, t)
              /\ Len(p) <= Len(t) /\ p \in ExtractValueAtPath(k.doc, SubSeq(t, 1, Len(p)), FALSE)
    BY <2>3, Zenon DEF TokenLeads
  <2> QED
    BY <1>5, <1>6, <1>7, <2>3, <2>4, <2>5, Zenon DEF path, t
<1>10. CASE path = <<"">>
  <2> DEFINE u    == Tail(t)
             root == CollectionPath(k.guard)
  <2>1. root = <<>> /\ Target(k, i) = u
    BY <1>10 DEF CollectionPath, Target
  <2>2. SUFFICES ASSUME IsPrefix(path, t)
                 PROVE  TokenIs(path, t, p) <=> i \in Leading(k, p) \union Below(k, p)
    BY <1>5, <1>6, <1>7, <1>8 DEF TokenIs
  <2>3. Len(path) = 1 /\ Len(t) >= 1 /\ Len(root) = 0
    <3>1. Len(<<"">>) = 1 /\ Len(<<>>) = 0
      OBVIOUS
    <3>2. Len(path) = 1 /\ Len(root) = 0
      BY <1>10, <2>1, <3>1, Zenon
    <3> HIDE DEF path, t
    <3> QED
      BY <1>1, <2>2, <3>2, PrefixByTokens
  <2>4. u \in Seq(STRING) /\ Len(u) = Len(t) - 1 /\ \A j \in 1 .. Len(u) : u[j] = t[j + 1]
    <3>1. t # <<>>
      BY <1>1, <2>3, EmptySeq
    <3> QED
      BY <1>1, <3>1, HeadTailProperties
  <2> HIDE DEF u, root, path, t
  <2>5. IsPrefix(root, u) /\ (IsStrictPrefix(root, u) <=> 1 <= Len(u))
    <3>1. root \in Seq(STRING) /\ Len(u) \in Nat
      BY <2>1, <2>4, EmptySeq, LenProperties
    <3>2. IsPrefix(root, u) <=> Len(root) <= Len(u) /\ \A j \in 1 .. Len(root) : root[j] = u[j]
      BY <2>4, <3>1, PrefixByTokens
    <3>3. IsPrefix(root, u)
      BY <2>3, <3>1, <3>2
    <3>4. u = root <=> Len(u) = 0
      BY <2>1, <2>4, EmptySeq
    <3> QED
      BY <3>1, <3>3, <3>4 DEF IsStrictPrefix
  <2>6. IsStrictPrefix(path, t) <=> 1 <= Len(u)
    <3>1. path = t <=> Len(t) = 1
      <4>1. Len(t) = 1 => path = t
        BY <1>1, <2>2, <2>3, PrefixByTokens, SeqEqual
      <4> QED
        BY <2>3, <4>1
    <3> QED
      BY <1>1, <2>2, <2>3, <2>4, <3>1 DEF IsStrictPrefix
  <2>7. 1 <= Len(u) => u[Len(root) + 1] = t[Len(path) + 1]
    <3>1. Len(path) + 1 = 2 /\ Len(root) + 1 = 1
      BY <2>3
    <3>2. 1 <= Len(u) => u[1] = t[2]
      BY <1>1, <2>4
    <3> QED
      BY <3>1, <3>2, Zenon
  <2>8. Len(p) = Len(root) + 1 /\ (TokenIs(root, u, p) <=> TokenLeads(k.doc, root, u, p))
    <3>1. root \in Seq(STRING) /\ p \in Elements(k.doc, ExtractValueAtPath(k.doc, root, FALSE))
      BY <1>2, <1>3 DEF root
    <3> QED
      BY <1>3, <2>4, <3>1, TokenFindsElement
  <2>9. i \in Leading(k, p) \union Below(k, p)
           <=> Len(p) <= Len(u) /\ p \in ExtractValueAtPath(k.doc, SubSeq(u, 1, Len(p)), FALSE)
    BY <1>4, <1>6, <2>1, <2>2, <2>4, LeadingOrBelow
  <2>10. TokenLeads(k.doc, root, u, p)
           <=> Len(p) <= Len(u) /\ p \in ExtractValueAtPath(k.doc, SubSeq(u, 1, Len(p)), FALSE)
    BY <2>5, <2>8, Zenon DEF TokenLeads
  <2>11. TokenIs(path, t, p) <=> TokenIs(root, u, p)
    BY <2>5, <2>6, <2>7, Zenon DEF TokenIs
  <2> QED
    BY <2>8, <2>9, <2>10, <2>11, Zenon
<1> QED
  BY <1>9, <1>10

\* One collection: what must go is denied, and what is denied may go.
LEMMA CollectionDenied ==
  ASSUME NEW k, Answered(k), k.guard.multi = FALSE, ResolvedItems(k.doc, k.guard) # Unresolved
  PROVE  /\ MustGo(k) \subseteq Denied(k.agent, ResolvedItems(k.doc, k.guard), k.op, k.mode)
         /\ Denied(k.agent, ResolvedItems(k.doc, k.guard), k.op, k.mode) \subseteq MayGo(k)
<1> DEFINE items == ResolvedItems(k.doc, k.guard)
           denied == Denied(k.agent, items, k.op, k.mode)
           default == DefaultLabel(k.guard)
           for(p)   == {i \in DOMAIN k.guard.labelled :
                          IndexFromPath(k.guard.labelled[i], k.guard.itemsPath) = Numerals[Last(p)]}
           last(S)  == CHOOSE i \in S : \A j \in S : j <= i
           label(p) == IF for(p) # {} THEN k.guard.labelled[last(for(p))].label ELSE default
           nodes    == ExtractValueAtPath(k.doc, CollectionPath(k.guard), FALSE)
<1>1. <<>> \in DOMAIN k.doc /\ ExtractValueAtPath(k.doc, <<>>, FALSE) = {<<>>}
  BY ExactPointers DEF Answered, IsDocument
<1>2. Collection(k) = Elements(k.doc, nodes)
  BY DEF Collection
<1>3. IsItem(k) => k.guard.itemsPath = <<>> /\ ~ArrayAt(k.doc, CollectionPath(k.guard), FALSE)
  <2>1. k.guard.itemsPath = <<>> => CollectionPath(k.guard) = <<>>
    BY DEF CollectionPath
  <2> QED
    BY <1>1, <2>1 DEF IsItem, ArrayAt
<1>4. CASE ArrayAt(k.doc, CollectionPath(k.guard), FALSE)
  <2>0. \A p \in MustGo(k) :
          /\ p \in Collection(k) /\ Below(k, p) = {}
          /\ IF Leading(k, p) # {} THEN \A i \in Leading(k, p) : Hidden(k, k.guard.labelled[i].label)
             ELSE Hidden(k, default)
    BY <1>3, <1>4 DEF MustGo
  <2>1. items = {Item(p, label(p)) : p \in Collection(k)}
    BY <1>2, <1>4, Zenon DEF ResolvedItems, Resolve
  <2>2. ASSUME NEW p \in Collection(k)
        PROVE  /\ for(p) = Leading(k, p) \union Below(k, p)
               /\ for(p) # {} => last(for(p)) \in for(p)
    <3>1. Leading(k, p) \union Below(k, p) \subseteq DOMAIN k.guard.labelled
      BY DEF Leading, Below, Pointers
    <3>2. for(p) = Leading(k, p) \union Below(k, p)
      BY <3>1, IndexFindsElement
    <3>3. DOMAIN k.guard.labelled \subseteq 1 .. Len(k.guard.labelled) /\ Len(k.guard.labelled) \in Nat
      BY DEF Answered, IsAnswer
    <3> DEFINE S == for(p)
    <3>4. S \in SUBSET (1 .. Len(k.guard.labelled))
      BY <3>3
    <3> HIDE DEF S
    <3>5. S # {} => \E i \in S : \A j \in S : j <= i
      BY <3>3, <3>4, LastExists
    <3>6. S # {} => last(S) \in S
      BY <3>5, Zenon
    <3> QED
      BY <3>2, <3>6 DEF S
  <2> HIDE DEF for, last
  <2>3. denied = {p \in Collection(k) : Hidden(k, label(p))}
    <3>1. ASSUME NEW p \in denied PROVE p \in Collection(k) /\ Hidden(k, label(p))
      <4>1. PICK it \in items : it.path = p /\ ~Evaluate(k.agent, it.label, k.op, k.mode)
        BY DEF Denied
      <4>2. PICK q \in Collection(k) : it = Item(q, label(q))
        BY <2>1, <4>1
      <4>3. it.path = q /\ it.label = label(q)
        BY <4>2 DEF Item
      <4> HIDE DEF label
      <4> QED
        BY <4>1, <4>3 DEF Hidden
    <3>2. ASSUME NEW p \in Collection(k), Hidden(k, label(p)) PROVE p \in denied
      <4> DEFINE it == Item(p, label(p))
      <4>1. it \in items
        BY <2>1
      <4>2. it.path = p /\ it.label = label(p)
        BY DEF Item
      <4> HIDE DEF it, label, items
      <4> QED
        BY <3>2, <4>1, <4>2 DEF Denied, Hidden
    <3> QED
      BY <3>1, <3>2
  <2> HIDE DEF denied, items
  <2>4. ASSUME NEW p \in MustGo(k) PROVE p \in denied
    <3>1. p \in Collection(k) /\ Below(k, p) = {}
      BY <2>0
    <3>2. CASE Leading(k, p) # {}
      <4>1. for(p) # {} /\ last(for(p)) \in Leading(k, p) /\ label(p) = k.guard.labelled[last(for(p))].label
        BY <2>2, <3>1, <3>2
      <4>2. \A i \in Leading(k, p) : Hidden(k, k.guard.labelled[i].label)
        BY <2>0, <3>2
      <4> QED
        BY <2>3, <3>1, <4>1, <4>2
    <3>3. CASE Leading(k, p) = {}
      <4>1. for(p) = {} /\ label(p) = default
        BY <2>2, <3>1, <3>3
      <4>2. Hidden(k, default)
        BY <2>0, <3>3
      <4> QED
        BY <2>3, <3>1, <4>1, <4>2
    <3> QED
      BY <3>2, <3>3
  <2>5. ASSUME NEW p \in denied PROVE p \in MayGo(k)
    <3>1. p \in Collection(k) /\ Hidden(k, label(p)) /\ p \in DOMAIN k.doc
      BY <2>3 DEF Collection, Elements
    <3>2. CASE for(p) # {}
      <4>1. /\ last(for(p)) \in Leading(k, p) \union Below(k, p)
            /\ Hidden(k, k.guard.labelled[last(for(p))].label)
        BY <2>2, <3>1, <3>2
      <4> QED
        BY <3>1, <4>1 DEF MayGo
    <3>3. CASE for(p) = {}
      <4>1. Hidden(k, default) /\ Leading(k, p) \union Below(k, p) = {}
        BY <2>2, <3>1, <3>3
      <4> QED
        BY <3>1, <4>1 DEF MayGo
    <3> QED
      BY <3>2, <3>3
  <2> QED
    BY <2>4, <2>5 DEF denied, items
<1>5. CASE ~ArrayAt(k.doc, CollectionPath(k.guard), FALSE)
  <2>1. k.guard.itemsPath = <<>> /\ items = {Item(<<>>, default)}
    BY <1>5, Zenon DEF ResolvedItems, Resolve
  <2>2. Collection(k) = {}
    BY <1>2, <1>5 DEF Elements, ArrayAt
  <2>3. IsItem(k)
    <3>1. CollectionPath(k.guard) = <<>>
      BY <2>1 DEF CollectionPath
    <3> QED
      BY <1>1, <1>5, <2>1, <3>1 DEF IsItem, ArrayAt
  <2>4. denied = IF Hidden(k, default) THEN {<<>>} ELSE {}
    <3> DEFINE it == Item(<<>>, default)
    <3>1. it.path = <<>> /\ it.label = default
      BY DEF Item
    <3>2. items = {it}
      BY <2>1
    <3> HIDE DEF it, default, items
    <3> QED
      BY <3>1, <3>2 DEF Denied, Hidden
  <2> HIDE DEF denied, default
  <2>5. MustGo(k) \subseteq denied
    BY <2>2, <2>4 DEF MustGo, default
  <2>6. denied \subseteq MayGo(k)
    BY <1>1, <2>3, <2>4 DEF MayGo, default
  <2> QED
    BY <2>5, <2>6 DEF denied
<1> QED
  BY <1>4, <1>5

(***************************************************************************)
(* Copies of the document.                                                 *)
(***************************************************************************)

\* A copy shows nothing of what must go and, without a jq filter, all that is kept.
Clean(k, doc) == \A p \in DOMAIN doc : doc[p] # "null" => ~\E n \in MustGo(k) : IsPrefix(n, p)
Fit(k, doc)   == /\ Labelled(k) => Clean(k, doc)
                 /\ k.filter = NoFilter => Kept(k) \subseteq DOMAIN doc
Fits(k, copies) == \A n \in DOMAIN copies : Fit(k, copies[n])

\* The filtered document is fit.
LEMMA FilteredIsFit ==
  ASSUME NEW k, Labelled(k), Answered(k), ResolvedItems(k.doc, k.guard) # Unresolved
  PROVE  Fit(k, Filtered(k.doc, k.guard, Denied(k.agent, ResolvedItems(k.doc, k.guard), k.op, k.mode)))
<1> DEFINE denied == Denied(k.agent, ResolvedItems(k.doc, k.guard), k.op, k.mode)
           doc == Filtered(k.doc, k.guard, denied)
<1>1. k.guard.multi \in BOOLEAN
  BY DEF Answered, IsAnswer
<1>2. MustGo(k) \subseteq denied /\ denied \subseteq MayGo(k)
  BY <1>1, CollectionsDenied, CollectionDenied
<1>3. \A p \in DOMAIN k.doc : IsPrefix(p, p)
  <2>1. DOMAIN k.doc \subseteq Seq(STRING)
    BY Zenon DEF Answered, IsDocument
  <2> QED
    BY <2>1, PrefixByTokens, LenProperties
<1>4. Kept(k) = {p \in DOMAIN k.doc : ~\E n \in MayGo(k) : IsPrefix(n, p)}
  BY DEF Kept
<1> HIDE DEF denied
<1>5. CASE k.guard.multi = TRUE
  <2>1. doc = PruneJSONPaths(k.doc, denied)
    BY <1>5 DEF Filtered
  <2>2. \A p : p \in DOMAIN doc <=> /\ p \in DOMAIN k.doc /\ ~\E d \in denied : IsStrictPrefix(d, p)
                                    /\ p \in denied => p = <<>> \/ k.doc[Front(p)] = "object"
    BY <2>1 DEF PruneJSONPaths
  <2>3. \A p \in DOMAIN doc : p \in denied => doc[p] = "null"
    BY <2>1 DEF PruneJSONPaths
  <2> HIDE DEF doc
  <2>4. ASSUME NEW p \in DOMAIN doc, doc[p] # "null", NEW n \in MustGo(k), IsPrefix(n, p) PROVE FALSE
    BY <1>2, <2>2, <2>3, <2>4 DEF IsStrictPrefix
  <2>5. ASSUME NEW p \in Kept(k) PROVE p \in DOMAIN doc
    BY <1>2, <1>3, <1>4, <2>2, <2>5 DEF IsStrictPrefix
  <2> QED
    BY <2>4, <2>5 DEF Fit, Clean, doc, denied
<1>6. CASE k.guard.multi = FALSE
  <2>1. doc = KeepElements(k.doc, denied)
    BY <1>6 DEF Filtered
  <2>2. DOMAIN doc = {p \in DOMAIN k.doc : ~\E d \in denied : IsPrefix(d, p)}
    BY <2>1 DEF KeepElements, Restrict
  <2> HIDE DEF doc
  <2>3. Clean(k, doc)
    BY <1>2, <2>2 DEF Clean
  <2>4. Kept(k) \subseteq DOMAIN doc
    BY <1>2, <1>4, <2>2
  <2> QED
    BY <2>3, <2>4 DEF Fit, doc, denied
<1> QED
  BY <1>1, <1>5, <1>6

\* What a jq filter leaves of a fit copy is fit.
LEMMA AppliedIsFit ==
  ASSUME NEW k, NEW doc, Fit(k, doc), k.filter # NoFilter
  PROVE  Fit(k, Applied(k.filter, doc))
<1>1. \A p \in DOMAIN Applied(k.filter, doc) : p \in DOMAIN doc /\ Applied(k.filter, doc)[p] = doc[p]
  BY DEF Applied, Restrict
<1> QED
  BY <1>1 DEF Fit, Clean

(***************************************************************************)
(* The inductive invariant.                                                *)
(***************************************************************************)

Fields == {"phase", "case", "data", "result", "envelope", "denied", "id", "reply"}
Working == {"handled", "filtered", "saving", "writing", "written"}

\* An answer that came without content and goes without.
Emptied(k, copies) == NoContent(k) /\ copies = Nothing

\* One call: what it holds is fit, its result is made from its data until the
\* filter has been applied, and it draws an id when it starts to save.
CallInv(c, r) ==
  /\ DOMAIN r = Fields
  /\ r.phase \in {"idle", "done"} \union Working
  /\ r.phase # "idle" =>
       r.case \in Cases[c] /\ Fits(r.case, r.data) /\ Fits(r.case, r.result) /\ Fits(r.case, r.reply.copies)
  /\ r.phase \in Working => DOMAIN r.data # {} /\ (DOMAIN r.result # {} \/ Emptied(r.case, r.result))
  /\ r.phase = "handled" => "text" \in DOMAIN r.result \/ "more" \in DOMAIN r.data \/ "structured" \in DOMAIN r.data
  /\ r.id \in QueryIDs \union {""}
  /\ r.phase \in {"idle", "handled", "filtered"} => r.id = ""
  /\ r.phase \in {"saving", "writing", "written"} => r.id # ""
  /\ r.id # "" => DOMAIN r.data # {}
  /\ r.phase # "done" => r.reply = NoReply
  /\ r.reply.kind = "inline" => DOMAIN r.reply.copies # {} \/ Emptied(r.case, r.reply.copies)
  /\ r.reply.path # NoPath => r.id # ""

OwnIDs == \A c, d \in Calls : c # d /\ call[c].id # "" => call[c].id # call[d].id

\* A file belongs to the one call that writes it.
FileInv(c) ==
  LET path == PayloadPath(c) IN
  /\ call[c].id # "" /\ path \in DOMAIN files => files[path].data = call[c].data
  /\ call[c].reply.path \in {NoPath, path}
  /\ call[c].phase = "written" \/ call[c].reply.path # NoPath => path \in DOMAIN files /\ files[path].whole

OwnedFiles == \A p \in DOMAIN files : \E c \in Calls : call[c].id # "" /\ p = PayloadPath(c)

ResponsesInv ==
  /\ DOMAIN call = Calls /\ \A c \in Calls : CallInv(c, call[c])
  /\ OwnIDs /\ OwnedFiles /\ \A c \in Calls : FileInv(c)

LEMMA InitInv == Init => ResponsesInv
<1> SUFFICES ASSUME Init PROVE ResponsesInv
  OBVIOUS
<1>1. DOMAIN call = Calls /\ (\A c \in Calls : call[c] = Idle) /\ DOMAIN files = {}
  BY DEF Init
<1>2. \A c : CallInv(c, Idle)
  BY DEF CallInv, Idle, Fields, Working, NoReply, Reply, NoPath
<1>3. Idle.id = "" /\ Idle.phase = "idle" /\ Idle.reply.path = NoPath
  BY DEF Idle, NoReply, Reply
<1> QED
  BY <1>1, <1>2, <1>3, Zenon DEF ResponsesInv, OwnIDs, OwnedFiles, FileInv

\* The paths of two files differ when their calls' ids do.
LEMMA PathsDiffer ==
  \A c, d \in Calls : PayloadPath(c) = PayloadPath(d) => call[c].id = call[d].id
BY DEF PayloadPath

\* A step of one call that leaves the files alone and draws no id.
LEMMA OneCall ==
  ASSUME ResponsesInv, NEW c \in Calls, NEW r, call' = [call EXCEPT ![c] = r], UNCHANGED files,
         CallInv(c, r), r.id = call[c].id, r.id = "" \/ r.data = call[c].data,
         r.reply.path = NoPath \/ (call[c].phase = "written" /\ r.reply.path = PayloadPath(c)),
         r.phase # "written"
  PROVE  ResponsesInv'
<1>1. DOMAIN call' = Calls /\ call'[c] = r /\ \A d \in Calls : d # c => call'[d] = call[d]
  BY DEF ResponsesInv
<1>2. \A d \in Calls : call'[d].id = call[d].id
  BY <1>1
<1>3. \A d \in Calls : PayloadPath(d)' = PayloadPath(d)
  BY <1>2 DEF PayloadPath
<1>4. \A d \in Calls : CallInv(d, call'[d])
  BY <1>1 DEF ResponsesInv
<1>5. OwnIDs'
  <2> SUFFICES ASSUME NEW d \in Calls, NEW e \in Calls, d # e, call'[d].id # "" PROVE call'[d].id # call'[e].id
    BY DEF OwnIDs
  <2>1. call'[d].id = call[d].id /\ call'[e].id = call[e].id
    BY <1>2
  <2>2. call[d].id # "" => call[d].id # call[e].id
    BY DEF ResponsesInv, OwnIDs
  <2> QED
    BY <2>1, <2>2
<1>6. OwnedFiles'
  <2> SUFFICES ASSUME NEW p \in DOMAIN files PROVE \E d \in Calls : call'[d].id # "" /\ p = PayloadPath(d)'
    BY DEF OwnedFiles
  <2>1. PICK d \in Calls : call[d].id # "" /\ p = PayloadPath(d)
    BY DEF ResponsesInv, OwnedFiles
  <2> QED
    BY <1>2, <1>3, <2>1
<1>7. ASSUME NEW d \in Calls PROVE FileInv(d)'
  <2>1. FileInv(d)
    BY DEF ResponsesInv
  <2>2. CASE d = c
    <3>1. call[c].id # "" /\ PayloadPath(c) \in DOMAIN files => files[PayloadPath(c)].data = call[c].data
      BY <2>1, <2>2 DEF FileInv
    <3>2. call[c].phase = "written" => PayloadPath(c) \in DOMAIN files /\ files[PayloadPath(c)].whole
      BY <2>1, <2>2 DEF FileInv
    <3> QED
      BY <1>1, <1>3, <2>2, <3>1, <3>2 DEF FileInv
  <2>3. CASE d # c
    BY <1>1, <1>3, <2>1, <2>3 DEF FileInv
  <2> QED
    BY <2>2, <2>3
<1> QED
  BY <1>1, <1>4, <1>5, <1>6, <1>7 DEF ResponsesInv

\* What the cases are assumed to be.
LEMMA CaseFacts ==
  ASSUME NEW c \in Calls, NEW k \in Cases[c]
  PROVE  /\ k.guard # NoGuard => Answered(k)
         /\ k.copies \subseteq {"text", "structured", "more"} /\ k.copies # {}
         /\ k.content = "items" <=> HasContent(k.copies)
BY ResponsesAssumption DEF Answered

\* A converted result is made of its data's copies, or empty.
LEMMA ConvertedFits ==
  ASSUME NEW k, NEW data, Fits(k, data), DOMAIN data # {}, DOMAIN data \subseteq {"text", "structured", "more"},
         NEW empty \in BOOLEAN
  PROVE  /\ Fits(k, Converted(data, empty))
         /\ DOMAIN Converted(data, empty) # {} \/ (empty /\ Converted(data, empty) = Nothing)
         /\ "text" \in DOMAIN Converted(data, empty) \/ "more" \in DOMAIN data \/ "structured" \in DOMAIN data
<1>1. CASE HasContent(DOMAIN data)
  <2>1. /\ DOMAIN Converted(data, empty) = DOMAIN data \ {"structured"}
        /\ \A n \in DOMAIN data \ {"structured"} : Converted(data, empty)[n] = data[n]
    BY <1>1 DEF Converted, Restrict
  <2>2. DOMAIN data \intersect {"text", "more"} # {}
    BY <1>1 DEF HasContent
  <2> QED
    BY <2>1, <2>2 DEF Fits
<1>2. CASE ~HasContent(DOMAIN data) /\ ~empty
  <2>1. DOMAIN Converted(data, empty) = {"text"} /\ Converted(data, empty)["text"] = data[CHOOSE n \in DOMAIN data : TRUE]
    BY <1>2 DEF Converted, Copies
  <2>2. (CHOOSE n \in DOMAIN data : TRUE) \in DOMAIN data
    BY Zenon
  <2> QED
    BY <2>1, <2>2 DEF Fits
<1>3. CASE ~HasContent(DOMAIN data) /\ empty
  <2>1. Converted(data, empty) = Nothing
    BY <1>3 DEF Converted
  <2>2. DOMAIN Nothing = {}
    BY DEF Nothing
  <2>3. "structured" \in DOMAIN data
    BY <1>3 DEF HasContent
  <2> QED
    BY <1>3, <2>1, <2>2, <2>3 DEF Fits
<1> QED
  BY <1>1, <1>2, <1>3

\* An idle call that has passed the handler, or that has failed.
LEMMA PassedInv ==
  ASSUME ResponsesInv, NEW c \in Calls, call[c].phase = "idle",
         NEW k \in Cases[c], NEW data, NEW empty \in BOOLEAN, NEW envelope, NEW denied, empty => NoContent(k),
         Fits(k, data), DOMAIN data # {}, DOMAIN data \subseteq {"text", "structured", "more"},
         Passes(c, k, data, empty, envelope, denied), UNCHANGED files
  PROVE  ResponsesInv'
<1> DEFINE r == [Idle EXCEPT !.phase = "handled", !.case = k, !.data = data, !.result = Converted(data, empty),
                             !.envelope = envelope, !.denied = denied]
<1>1. call' = [call EXCEPT ![c] = r]
  BY DEF Passes
<1>2. /\ DOMAIN r = Fields /\ r.phase = "handled" /\ r.case = k /\ r.data = data
      /\ r.result = Converted(data, empty) /\ r.id = "" /\ r.reply = NoReply
  BY DEF Idle, Fields
<1>3. /\ Fits(k, Converted(data, empty))
      /\ DOMAIN Converted(data, empty) # {} \/ Emptied(k, Converted(data, empty))
      /\ "text" \in DOMAIN Converted(data, empty) \/ "more" \in DOMAIN data \/ "structured" \in DOMAIN data
  BY ConvertedFits DEF Emptied
<1>4. NoReply.copies = Nothing /\ NoReply.kind = "none" /\ NoReply.path = NoPath /\ DOMAIN Nothing = {}
  BY DEF NoReply, Reply, Nothing
<1>5. call[c].id = ""
  BY DEF ResponsesInv, CallInv
<1> HIDE DEF r
<1>6. Fits(k, Nothing)
  BY <1>4 DEF Fits
<1>7. CallInv(c, r)
  BY <1>2, <1>3, <1>4, <1>6 DEF CallInv, Working
<1> QED
  BY <1>1, <1>2, <1>4, <1>5, <1>7, OneCall

LEMMA FailedInv ==
  ASSUME ResponsesInv, NEW c \in Calls, call[c].phase = "idle", NEW k \in Cases[c], Fails(c, k), UNCHANGED files
  PROVE  ResponsesInv'
<1> DEFINE r == [Idle EXCEPT !.phase = "done", !.case = k, !.reply.kind = "error"]
<1>1. call' = [call EXCEPT ![c] = r]
  BY DEF Fails
<1>2. /\ DOMAIN r = Fields /\ r.phase = "done" /\ r.case = k /\ r.data = Nothing /\ r.result = Nothing
      /\ r.id = "" /\ r.reply.kind = "error" /\ r.reply.copies = Nothing /\ r.reply.path = NoPath
  BY DEF Idle, Fields, NoReply, Reply
<1>3. DOMAIN Nothing = {}
  BY DEF Nothing
<1>4. call[c].id = ""
  BY DEF ResponsesInv, CallInv
<1> HIDE DEF r
<1>5. Fits(k, Nothing)
  BY <1>3 DEF Fits
<1>6. CallInv(c, r)
  BY <1>2, <1>5 DEF CallInv, Working
<1> QED
  BY <1>1, <1>2, <1>4, <1>6, OneCall

LEMMA HandleUnlabelledInv ==
  ASSUME ResponsesInv, NEW c \in Calls, HandleUnlabelled(c) PROVE ResponsesInv'
<1>1. PICK k \in Cases[c] :
        ~Labelled(k) /\ Passes(c, k, Copies(k.copies, k.doc), k.content = "empty", k.content = "items", {})
  BY DEF HandleUnlabelled
<1>2. Fit(k, k.doc)
  BY <1>1 DEF Fit, Kept
<1>3. /\ DOMAIN Copies(k.copies, k.doc) # {} /\ Fits(k, Copies(k.copies, k.doc))
      /\ DOMAIN Copies(k.copies, k.doc) \subseteq {"text", "structured", "more"}
  BY <1>2, CaseFacts DEF Copies, Fits
<1> DEFINE empty == k.content = "empty"
<1>4. empty \in BOOLEAN /\ (empty => NoContent(k))
  BY <1>1 DEF NoContent
<1>5. Passes(c, k, Copies(k.copies, k.doc), empty, k.content = "items", {})
  BY <1>1
<1> HIDE DEF empty
<1> QED
  BY <1>3, <1>4, <1>5, PassedInv DEF HandleUnlabelled

LEMMA HandleLabelledInv ==
  ASSUME ResponsesInv, NEW c \in Calls, HandleLabelled(c) PROVE ResponsesInv'
<1>1. call[c].phase = "idle" /\ UNCHANGED files
  BY DEF HandleLabelled
<1>2. PICK k \in {k \in Cases[c] : Labelled(k)} :
        LET items  == ResolvedItems(k.doc, k.guard)
            denied == Denied(k.agent, items, k.op, k.mode)
        IN  IF items = Unresolved \/ (k.mode = "strict" /\ denied # {}) THEN Fails(c, k)
            ELSE \/ denied # {} /\ Cardinality(items) = 1 /\ Fails(c, k)
                 \/ Passes(c, k, LabelledData(k, denied), FALSE, k.guard.multi /\ k.content # "absent", denied)
  BY DEF HandleLabelled
<1> DEFINE denied == Denied(k.agent, ResolvedItems(k.doc, k.guard), k.op, k.mode)
<1>3. CASE Fails(c, k)
  BY <1>1, <1>3, FailedInv
<1>4. CASE /\ ResolvedItems(k.doc, k.guard) # Unresolved
           /\ Passes(c, k, LabelledData(k, denied), FALSE, k.guard.multi /\ k.content # "absent", denied)
  <2>1. /\ Labelled(k) /\ k.guard # NoGuard
        /\ Answered(k) /\ k.guard.multi \in BOOLEAN
        /\ k.copies \subseteq {"text", "structured", "more"} /\ k.copies # {}
        /\ k.content = "items" <=> HasContent(k.copies)
    BY CaseFacts DEF Labelled, Answered, IsAnswer
  <2>2. Fit(k, Filtered(k.doc, k.guard, denied))
    BY <1>4, <2>1, FilteredIsFit
  <2> DEFINE names == IF k.guard.multi
                      THEN (k.copies \intersect {"structured"})
                             \union (IF k.content = "absent" THEN {} ELSE {"text"})
                      ELSE {"text"}
  <2>3. LabelledData(k, denied) = [n \in names |-> Filtered(k.doc, k.guard, denied)]
    BY <2>1 DEF LabelledData, Copies
  <2>4. names # {} /\ names \subseteq {"text", "structured", "more"}
    BY <2>1 DEF HasContent
  <2> HIDE DEF names, denied
  <2>5. /\ DOMAIN LabelledData(k, denied) # {} /\ Fits(k, LabelledData(k, denied))
        /\ DOMAIN LabelledData(k, denied) \subseteq {"text", "structured", "more"}
    BY <2>2, <2>3, <2>4 DEF Fits
  <2> QED
    BY <1>1, <1>4, <2>5, PassedInv DEF denied
<1> QED
  BY <1>2, <1>3, <1>4

\* The filter changes the copies of a call and nothing else.
LEMMA FilteredCall ==
  ASSUME ResponsesInv, NEW c \in Calls, call[c].phase = "handled", NEW r,
         call' = [call EXCEPT ![c] = r], UNCHANGED files,
         DOMAIN r = Fields, r.phase = "filtered", r.case = call[c].case,
         r.id = call[c].id, r.reply = call[c].reply,
         Fits(r.case, r.data), Fits(r.case, r.result), DOMAIN r.data # {},
         DOMAIN r.result # {} \/ Emptied(r.case, r.result)
  PROVE  ResponsesInv'
<1>1. CallInv(c, call[c])
  BY DEF ResponsesInv
<1>2. call[c].id = "" /\ call[c].reply = NoReply /\ NoReply.path = NoPath /\ NoReply.kind = "none"
  BY <1>1 DEF CallInv, NoReply, Reply
<1>3. CallInv(c, r)
  BY <1>1, <1>2 DEF CallInv, Working
<1> QED
  BY <1>2, <1>3, OneCall

LEMMA ApplyFilterInv ==
  ASSUME ResponsesInv, NEW c \in Calls, ApplyFilter(c) PROVE ResponsesInv'
<1> DEFINE it == [call[c] EXCEPT !.phase = "filtered"]
           filter == call[c].case.filter
           text == Applied(filter, call[c].result["text"])
           name == IF "more" \in DOMAIN call[c].data THEN "more" ELSE "structured"
           more == Applied(filter, call[c].data[name])
           anew == [it EXCEPT !.result = Copies({"text"}, more), !.data = Copies({"text"}, more),
                              !.envelope = FALSE]
<1>1. CallInv(c, call[c]) /\ call[c].phase = "handled"
  BY DEF ResponsesInv, ApplyFilter
<1>2. /\ DOMAIN call[c] = Fields /\ Fits(call[c].case, call[c].data) /\ Fits(call[c].case, call[c].result)
      /\ DOMAIN call[c].data # {} /\ (DOMAIN call[c].result # {} \/ Emptied(call[c].case, call[c].result))
      /\ "text" \in DOMAIN call[c].result \/ name \in DOMAIN call[c].data
  BY <1>1 DEF CallInv, Working
<1>3. /\ DOMAIN it = Fields /\ it.phase = "filtered" /\ it.case = call[c].case /\ it.id = call[c].id
      /\ it.reply = call[c].reply /\ it.data = call[c].data /\ it.result = call[c].result
      /\ it.envelope = call[c].envelope
  BY <1>2 DEF Fields
<1>4. UNCHANGED files /\ \/ call' = [call EXCEPT ![c] = it]
                         \/ /\ filter # NoFilter /\ "text" \in DOMAIN call[c].result
                            /\ call' = [call EXCEPT ![c] = Rewritten(it, text)]
                         \/ /\ filter # NoFilter /\ "text" \notin DOMAIN call[c].result
                            /\ call' = [call EXCEPT ![c] = anew]
  <2>1. PICK ok \in BOOLEAN :
       call' = [call EXCEPT ![c] =
         IF it.case.filter = NoFilter \/ ~ok THEN it
         ELSE IF "text" \in DOMAIN it.result THEN Rewritten(it, Applied(it.case.filter, it.result["text"]))
         ELSE LET doc == Applied(it.case.filter, it.data[IF "more" \in DOMAIN it.data THEN "more" ELSE "structured"])
              IN  [it EXCEPT !.result = Copies({"text"}, doc), !.data = Copies({"text"}, doc), !.envelope = FALSE]]
    BY Zenon DEF ApplyFilter
  <2>2. UNCHANGED files
    BY DEF ApplyFilter
  <2>3. it.case.filter = filter /\ it.result = call[c].result /\ it.data = call[c].data
    BY <1>3
  <2> HIDE DEF it, filter
  <2>4. \/ call' = [call EXCEPT ![c] = it]
        \/ /\ filter # NoFilter /\ "text" \in DOMAIN call[c].result
           /\ call' = [call EXCEPT ![c] = Rewritten(it, text)]
        \/ /\ filter # NoFilter /\ "text" \notin DOMAIN call[c].result
           /\ call' = [call EXCEPT ![c] = anew]
    BY <2>1, <2>3, Zenon
  <2> QED
    BY <2>2, <2>4
<1> HIDE DEF it
<1>5. CASE call' = [call EXCEPT ![c] = it]
  BY <1>1, <1>2, <1>3, <1>4, <1>5, FilteredCall
<1>6. CASE /\ filter # NoFilter /\ "text" \in DOMAIN call[c].result
           /\ call' = [call EXCEPT ![c] = Rewritten(it, text)]
  <2>1. Fit(call[c].case, text)
    BY <1>2, <1>6, AppliedIsFit DEF Fits
  <2> DEFINE r == Rewritten(it, text)
             data == IF it.envelope /\ "text" \in DOMAIN it.data THEN [it.data EXCEPT !["text"] = text]
                     ELSE Copies({"text"}, text)
             result == [it.result EXCEPT !["text"] = text]
  <2> HIDE DEF text
  <2>2. /\ DOMAIN r = Fields /\ r.phase = "filtered" /\ r.case = call[c].case /\ r.id = call[c].id
        /\ r.reply = call[c].reply /\ r.data = data /\ r.result = result
    BY <1>3 DEF Rewritten, Fields
  <2>3. Fits(call[c].case, data) /\ DOMAIN data # {}
    <3>1. CASE it.envelope /\ "text" \in DOMAIN it.data
      <4>1. /\ DOMAIN data = DOMAIN it.data
            /\ \A n \in DOMAIN it.data : data[n] = IF n = "text" THEN text ELSE it.data[n]
        BY <3>1
      <4> QED
        BY <1>2, <1>3, <2>1, <4>1 DEF Fits
    <3>2. CASE ~(it.envelope /\ "text" \in DOMAIN it.data)
      <4>1. data = [n \in {"text"} |-> text]
        BY <3>2 DEF Copies
      <4> QED
        BY <2>1, <4>1 DEF Fits
    <3> QED
      BY <3>1, <3>2
  <2>4. Fits(call[c].case, result) /\ DOMAIN result # {}
    <3>1. /\ DOMAIN result = DOMAIN it.result
          /\ \A n \in DOMAIN it.result : result[n] = IF n = "text" THEN text ELSE it.result[n]
      OBVIOUS
    <3> QED
      BY <1>2, <1>3, <1>6, <2>1, <3>1 DEF Fits
  <2> HIDE DEF data, result
  <2>5. call' = [call EXCEPT ![c] = r]
    BY <1>6
  <2> HIDE DEF r
  <2> QED
    BY <1>1, <1>4, <2>2, <2>3, <2>4, <2>5, FilteredCall
<1>7. CASE /\ filter # NoFilter /\ "text" \notin DOMAIN call[c].result
           /\ call' = [call EXCEPT ![c] = anew]
  <2>1. Fit(call[c].case, more)
    BY <1>2, <1>7, AppliedIsFit DEF Fits
  <2> HIDE DEF more
  <2>2. /\ DOMAIN anew = Fields /\ anew.phase = "filtered" /\ anew.case = call[c].case /\ anew.id = call[c].id
        /\ anew.reply = call[c].reply
        /\ anew.data = [n \in {"text"} |-> more] /\ anew.result = [n \in {"text"} |-> more]
    BY <1>3 DEF Copies, Fields
  <2> HIDE DEF anew
  <2>3. Fits(call[c].case, [n \in {"text"} |-> more]) /\ DOMAIN [n \in {"text"} |-> more] # {}
    BY <2>1 DEF Fits
  <2> QED
    BY <1>1, <1>4, <1>7, <2>2, <2>3, FilteredCall
<1> QED
  BY <1>4, <1>5, <1>6, <1>7

\* A call that has filtered its data answers with all of it.
LEMMA AnsweredInv ==
  ASSUME ResponsesInv, NEW c \in Calls, call[c].phase \in Working, NEW reply, Finish(c, reply), UNCHANGED files,
         Fits(call[c].case, reply.copies),
         reply.kind = "inline" => DOMAIN reply.copies # {} \/ Emptied(call[c].case, reply.copies),
         reply.path = NoPath \/ (call[c].phase = "written" /\ reply.path = PayloadPath(c))
  PROVE  ResponsesInv'
<1> DEFINE r == [call[c] EXCEPT !.phase = "done", !.reply = reply]
<1>1. CallInv(c, call[c])
  BY DEF ResponsesInv
<1>2. DOMAIN call[c] = Fields
  BY <1>1 DEF CallInv
<1>3. call' = [call EXCEPT ![c] = r]
  BY <1>2 DEF Finish, ResponsesInv, Fields
<1>4. /\ DOMAIN r = Fields /\ r.phase = "done" /\ r.case = call[c].case /\ r.id = call[c].id /\ r.reply = reply
      /\ r.data = call[c].data /\ r.result = call[c].result
  BY <1>2 DEF Fields
<1> HIDE DEF r
<1>5. CallInv(c, r)
  BY <1>1, <1>4 DEF CallInv, Working
<1> QED
  BY <1>3, <1>4, <1>5, OneCall

LEMMA AnswerInv ==
  ASSUME ResponsesInv, NEW c \in Calls, call[c].phase \in Working, UNCHANGED files,
         NEW path, path = NoPath \/ (call[c].phase = "written" /\ path = PayloadPath(c)),
         Finish(c, Inline(c)) \/ Finish(c, Reply("reference", Nothing, path, FALSE))
  PROVE  ResponsesInv'
<1>1. /\ Fits(call[c].case, call[c].result)
      /\ DOMAIN call[c].result # {} \/ Emptied(call[c].case, call[c].result)
  BY DEF ResponsesInv, CallInv, Working
<1>2. Inline(c).copies = call[c].result /\ Inline(c).kind = "inline" /\ Inline(c).path = NoPath
  BY DEF Inline, Reply
<1> DEFINE reference == Reply("reference", Nothing, path, FALSE)
<1>3. reference.copies = Nothing /\ reference.kind = "reference" /\ reference.path = path
  BY DEF Reply
<1>4. Fits(call[c].case, Nothing)
  BY DEF Fits, Nothing
<1> HIDE DEF reference
<1>5. CASE Finish(c, Inline(c))
  BY <1>1, <1>2, <1>5, AnsweredInv
<1>6. CASE Finish(c, reference)
  BY <1>3, <1>4, <1>6, AnsweredInv
<1> QED
  BY <1>5, <1>6 DEF reference

\* A new id names a path where nobody has written.
LEMMA StartSaveInv ==
  ASSUME ResponsesInv, NEW c \in Calls, StartSave(c) PROVE ResponsesInv'
<1>1. PICK id \in QueryIDs \ {call[d].id : d \in Calls} :
        call' = [call EXCEPT ![c].phase = "saving", ![c].id = id]
  BY DEF StartSave
<1>2. call[c].phase = "filtered" /\ UNCHANGED files /\ id # "" /\ \A d \in Calls : call[d].id # id
  BY <1>1, ResponsesAssumption DEF StartSave
<1> DEFINE r == [call[c] EXCEPT !.phase = "saving", !.id = id]
<1>3. CallInv(c, call[c]) /\ DOMAIN call[c] = Fields
  BY DEF ResponsesInv, CallInv
<1>4. /\ DOMAIN r = Fields /\ r.phase = "saving" /\ r.case = call[c].case /\ r.id = id
      /\ r.reply = call[c].reply /\ r.data = call[c].data /\ r.result = call[c].result
  BY <1>3 DEF Fields
<1>5. DOMAIN call' = Calls /\ call'[c] = r /\ \A d \in Calls : d # c => call'[d] = call[d]
  BY <1>1, <1>3 DEF ResponsesInv, Fields
<1> HIDE DEF r
<1>6. CallInv(c, r)
  BY <1>1, <1>2, <1>3, <1>4 DEF CallInv, Working
<1>7. \A d \in Calls : CallInv(d, call'[d])
  BY <1>5, <1>6 DEF ResponsesInv
<1>8. call[c].id = "" /\ call'[c].id = id /\ \A d \in Calls : d # c => call'[d].id = call[d].id
  BY <1>2, <1>3, <1>4, <1>5 DEF CallInv
<1>9. OwnIDs'
  <2> SUFFICES ASSUME NEW d \in Calls, NEW e \in Calls, d # e, call'[d].id # "" PROVE call'[d].id # call'[e].id
    BY DEF OwnIDs
  <2>1. d # c /\ e # c /\ call[d].id # "" => call[d].id # call[e].id
    BY DEF ResponsesInv, OwnIDs
  <2> QED
    BY <1>2, <1>8, <2>1
<1>10. \A d \in Calls : d # c => PayloadPath(d)' = PayloadPath(d)
  BY <1>8 DEF PayloadPath
<1>11. OwnedFiles'
  <2> SUFFICES ASSUME NEW p \in DOMAIN files PROVE \E d \in Calls : call'[d].id # "" /\ p = PayloadPath(d)'
    BY <1>2 DEF OwnedFiles
  <2>1. PICK d \in Calls : call[d].id # "" /\ p = PayloadPath(d)
    BY DEF ResponsesInv, OwnedFiles
  <2> QED
    BY <1>8, <1>10, <2>1
<1>12. PayloadPath(c)' \notin DOMAIN files
  <2> SUFFICES ASSUME PayloadPath(c)' \in DOMAIN files PROVE FALSE
    OBVIOUS
  <2>1. PICK d \in Calls : PayloadPath(c)' = PayloadPath(d)
    BY DEF ResponsesInv, OwnedFiles
  <2>2. id = call[d].id
    BY <1>8, <2>1 DEF PayloadPath
  <2> QED
    BY <1>2, <2>2
<1>13. ASSUME NEW d \in Calls PROVE FileInv(d)'
  <2>1. FileInv(d)
    BY DEF ResponsesInv
  <2>2. CASE d = c
    <3>1. NoReply.path = NoPath /\ call[c].reply = NoReply
      BY <1>2, <1>3 DEF NoReply, Reply, CallInv
    <3> QED
      BY <1>2, <1>4, <1>5, <1>12, <2>2, <3>1 DEF FileInv
  <2>3. CASE d # c
    BY <1>2, <1>5, <1>10, <2>1, <2>3 DEF FileInv
  <2> QED
    BY <2>2, <2>3
<1> QED
  BY <1>5, <1>7, <1>9, <1>11, <1>13 DEF ResponsesInv

\* A write to the path of a call that has drawn an id.
LEMMA WriteInv ==
  ASSUME ResponsesInv, NEW c \in Calls, NEW phase \in {"writing", "written"}, NEW whole \in BOOLEAN,
         call[c].phase \in {"saving", "writing"}, phase = "written" => whole = TRUE,
         call' = [call EXCEPT ![c].phase = phase],
         files' = Put(files, PayloadPath(c), [data |-> call[c].data, whole |-> whole])
  PROVE  ResponsesInv'
<1> DEFINE r == [call[c] EXCEPT !.phase = phase]
<1>1. CallInv(c, call[c]) /\ DOMAIN call[c] = Fields
  BY DEF ResponsesInv, CallInv
<1>2. /\ DOMAIN r = Fields /\ r.phase = phase /\ r.case = call[c].case /\ r.id = call[c].id
      /\ r.reply = call[c].reply /\ r.data = call[c].data /\ r.result = call[c].result
  BY <1>1 DEF Fields
<1>3. DOMAIN call' = Calls /\ call'[c] = r /\ \A d \in Calls : d # c => call'[d] = call[d]
  BY <1>1 DEF ResponsesInv, Fields
<1> HIDE DEF r
<1>4. CallInv(c, r)
  BY <1>1, <1>2 DEF CallInv, Working
<1>5. \A d \in Calls : CallInv(d, call'[d])
  BY <1>3, <1>4 DEF ResponsesInv
<1>6. call[c].id # "" /\ \A d \in Calls : call'[d].id = call[d].id
  BY <1>1, <1>2, <1>3 DEF CallInv
<1>7. \A d \in Calls : PayloadPath(d)' = PayloadPath(d)
  BY <1>6 DEF PayloadPath
<1>8. OwnIDs'
  <2> SUFFICES ASSUME NEW d \in Calls, NEW e \in Calls, d # e, call'[d].id # "" PROVE call'[d].id # call'[e].id
    BY DEF OwnIDs
  <2>1. call'[d].id = call[d].id /\ call'[e].id = call[e].id
    BY <1>6
  <2>2. call[d].id # "" => call[d].id # call[e].id
    BY DEF ResponsesInv, OwnIDs
  <2> QED
    BY <2>1, <2>2
<1> DEFINE file == [data |-> call[c].data, whole |-> whole]
<1>9. /\ DOMAIN files' = DOMAIN files \union {PayloadPath(c)} /\ files'[PayloadPath(c)] = file
      /\ \A p \in DOMAIN files : p # PayloadPath(c) => files'[p] = files[p]
  BY DEF Put
<1>10. file.data = call[c].data /\ file.whole = whole
  OBVIOUS
<1> HIDE DEF file
<1>11. OwnedFiles'
  <2> SUFFICES ASSUME NEW p \in DOMAIN files' PROVE \E d \in Calls : call'[d].id # "" /\ p = PayloadPath(d)'
    BY DEF OwnedFiles
  <2>1. \E d \in Calls : call[d].id # "" /\ p = PayloadPath(d)
    BY <1>6, <1>9 DEF ResponsesInv, OwnedFiles
  <2> QED
    BY <1>6, <1>7, <2>1
<1>12. ASSUME NEW d \in Calls PROVE FileInv(d)'
  <2>1. FileInv(d)
    BY DEF ResponsesInv
  <2>2. CASE d = c
    <3>1. call[c].reply = NoReply /\ NoReply.path = NoPath
      BY <1>1 DEF CallInv, NoReply, Reply
    <3>2. call'[c].reply.path = NoPath /\ call'[c].data = call[c].data /\ call'[c].phase = phase
      BY <1>2, <1>3, <3>1
    <3>3. /\ files'[PayloadPath(c)].data = call[c].data /\ files'[PayloadPath(c)].whole = whole
          /\ PayloadPath(c) \in DOMAIN files'
      BY <1>9, <1>10
    <3> QED
      BY <1>7, <2>2, <3>2, <3>3 DEF FileInv
  <2>3. CASE d # c
    <3>1. call[d].id # "" => PayloadPath(d) # PayloadPath(c)
      <4>1. call[d].id # "" => call[d].id # call[c].id
        BY <2>3 DEF ResponsesInv, OwnIDs
      <4> QED
        BY <4>1, PathsDiffer
    <3>2. call[d].phase = "written" \/ call[d].reply.path # NoPath => call[d].id # ""
      BY DEF ResponsesInv, CallInv
    <3>3. /\ call[d].id # "" /\ PayloadPath(d) \in DOMAIN files' => files'[PayloadPath(d)].data = call[d].data
          /\ call[d].phase = "written" \/ call[d].reply.path # NoPath
               => PayloadPath(d) \in DOMAIN files' /\ files'[PayloadPath(d)].whole
      BY <1>9, <2>1, <3>1, <3>2 DEF FileInv
    <3> QED
      BY <1>3, <1>7, <2>1, <2>3, <3>3 DEF FileInv
  <2> QED
    BY <2>2, <2>3
<1> QED
  BY <1>3, <1>5, <1>8, <1>11, <1>12 DEF ResponsesInv

LEMMA StepInv ==
  ASSUME ResponsesInv, NEW c \in Calls, Step(c) PROVE ResponsesInv'
<1>1. CASE HandleUnlabelled(c)
  BY <1>1, HandleUnlabelledInv
<1>2. CASE HandlerFails(c)
  <2>1. PICK k \in Cases[c] : Fails(c, k)
    BY <1>2 DEF HandlerFails
  <2> QED
    BY <1>2, <2>1, FailedInv DEF HandlerFails
<1>3. CASE HandleLabelled(c)
  BY <1>3, HandleLabelledInv
<1>4. CASE ApplyFilter(c)
  BY <1>4, ApplyFilterInv
<1>5. CASE AnswerInline(c)
  BY <1>5, AnswerInv DEF AnswerInline, Working
<1>6. CASE StartSave(c)
  BY <1>6, StartSaveInv
<1>7. CASE StartWrite(c)
  <2>1. /\ call[c].phase = "saving" /\ call' = [call EXCEPT ![c].phase = "writing"]
        /\ files' = Put(files, PayloadPath(c), [data |-> call[c].data, whole |-> FALSE])
    BY <1>7 DEF StartWrite
  <2> QED
    BY <2>1, WriteInv
<1>8. CASE EndWrite(c)
  <2>1. /\ call[c].phase = "writing" /\ call' = [call EXCEPT ![c].phase = "written"]
        /\ files' = Put(files, PayloadPath(c), [data |-> call[c].data, whole |-> TRUE])
    BY <1>8 DEF EndWrite
  <2> QED
    BY <2>1, WriteInv
<1>9. CASE SaveFails(c)
  BY <1>9, AnswerInv DEF SaveFails, Answer, Working
<1>10. CASE Saved(c)
  BY <1>10, AnswerInv DEF Saved, Answer, Working
<1> QED
  BY <1>1, <1>2, <1>3, <1>4, <1>5, <1>6, <1>7, <1>8, <1>9, <1>10 DEF Step

\* The invariant: every copy of every response is fit for the agent, and a file
\* belongs to one call.
THEOREM ResponsesInvariant == Spec => []ResponsesInv
<1>1. ResponsesInv /\ [Next]_vars => ResponsesInv'
  <2> SUFFICES ASSUME ResponsesInv, [Next]_vars PROVE ResponsesInv'
    OBVIOUS
  <2>1. CASE UNCHANGED vars
    BY <2>1, Zenon DEF vars, ResponsesInv, OwnIDs, OwnedFiles, FileInv, PayloadPath
  <2>2. CASE \E c \in Calls : Step(c)
    BY <2>2, StepInv
  <2> QED
    BY <2>1, <2>2 DEF Next, AllDone
<1> QED
  BY <1>1, InitInv, PTL DEF Spec

\* NothingDeniedSurvives: whatever the agent is shown, in an answer or in a
\* file, holds nothing its labels hide (path_labels.go, path_collections.go,
\* jqschema.go).
THEOREM DeniedNodesAreGone == Spec => []NothingDeniedSurvives
<1>1. ResponsesInv => NothingDeniedSurvives
  <2> SUFFICES ASSUME ResponsesInv, NEW c \in Calls, call[c].phase = "done", Labelled(call[c].case),
                      NEW doc \in Shown(c)
               PROVE  Clean(call[c].case, doc)
    BY DEF NothingDeniedSurvives, Clean
  <2>1. Fits(call[c].case, call[c].data) /\ Fits(call[c].case, call[c].reply.copies)
    BY DEF ResponsesInv, CallInv
  <2>2. CASE doc \in Range(call[c].reply.copies)
    BY <2>1, <2>2 DEF Range, Fits, Fit
  <2>3. CASE doc \in UNION {Range(files[p].data) : p \in WrittenBy(c)}
    <3>1. PICK p \in WrittenBy(c) : doc \in Range(files[p].data)
      BY <2>3
    <3>2. files[p].data = call[c].data
      BY DEF WrittenBy, ResponsesInv, FileInv
    <3> QED
      BY <2>1, <3>1, <3>2 DEF Range, Fits, Fit
  <2> QED
    BY <2>2, <2>3 DEF Shown
<1> QED
  BY <1>1, ResponsesInvariant, PTL

\* AnswerIsComplete: without a jq filter nothing else is lost, except beside an
\* empty list of content items (ConvertToCallToolResult), and a reference leads
\* to a whole file with the call's own data (savePayload).
THEOREM AnswersAreComplete == Spec => []AnswerIsComplete
<1>1. ResponsesInv => AnswerIsComplete
  <2> SUFFICES ASSUME ResponsesInv, NEW c \in Calls, call[c].phase = "done", call[c].case.filter = NoFilter
               PROVE  /\ call[c].reply.kind = "inline" => \/ WholeCopies(call[c].case, call[c].reply.copies)
                                                         \/ Emptied(call[c].case, call[c].reply.copies)
                      /\ call[c].reply.path # NoPath =>
                           /\ files[call[c].reply.path].whole
                           /\ WholeCopies(call[c].case, files[call[c].reply.path].data)
                           /\ files[call[c].reply.path].data = call[c].data
    BY DEF AnswerIsComplete, Emptied
  <2>1. Fits(call[c].case, call[c].data) /\ Fits(call[c].case, call[c].reply.copies)
    BY DEF ResponsesInv, CallInv
  <2>2. ASSUME NEW copies, Fits(call[c].case, copies), DOMAIN copies # {} PROVE WholeCopies(call[c].case, copies)
    BY <2>2 DEF WholeCopies, Fits, Fit, Range, Nothing
  <2>3. call[c].reply.kind = "inline" =>
          DOMAIN call[c].reply.copies # {} \/ Emptied(call[c].case, call[c].reply.copies)
    BY DEF ResponsesInv, CallInv
  <2>4. call[c].reply.path # NoPath =>
          /\ call[c].reply.path = PayloadPath(c) /\ PayloadPath(c) \in DOMAIN files /\ files[PayloadPath(c)].whole
          /\ files[PayloadPath(c)].data = call[c].data /\ DOMAIN call[c].data # {}
    BY DEF ResponsesInv, CallInv, FileInv
  <2> QED
    BY <2>1, <2>2, <2>3, <2>4
<1> QED
  BY <1>1, ResponsesInvariant, PTL

================================================================================
