----------------------------- MODULE MCResponses ------------------------------
(* One call meets every guard answer below; a second call in the same          *)
(* directory (no session, and a session named "default") brings other data.    *)
EXTENDS Responses, TLC

\* {"items": [{"body": .}, .], "notes": [.], "meta": .} and a root array.
Nested ==
  (<<>> :> "object") @@ (<<"items">> :> "array") @@ (<<"items", "0">> :> "object")
  @@ (<<"items", "0", "body">> :> "value") @@ (<<"items", "1">> :> "value")
  @@ (<<"notes">> :> "array") @@ (<<"notes", "0">> :> "value") @@ (<<"meta">> :> "value")
Grid == (<<>> :> "array") @@ (<<"0">> :> "array") @@ (<<"0", "0">> :> "value") @@ (<<"0", "1">> :> "value")
List == (<<>> :> "array") @@ (<<"0">> :> "value") @@ (<<"1">> :> "value")

Open    == NoLabel
Secret  == [secrecy |-> {"private"}, integrity |-> {}]
Blocked == [secrecy |-> {}, integrity |-> {BlockedTag}]

P(tokens)        == [tokens |-> tokens, canonical |-> TRUE]
L(tokens, label) == [tokens |-> tokens, canonical |-> TRUE, label |-> label]
Odd(pointer)     == [pointer EXCEPT !.canonical = FALSE]

Multi(paths, labelled, default) ==
  [multi |-> TRUE, paths |-> paths, itemsPath |-> <<>>, labelled |-> labelled, default |-> default]
Single(path, labelled, default) ==
  [multi |-> FALSE, paths |-> <<>>, itemsPath |-> path, labelled |-> labelled, default |-> default]

Items == P(<<"items">>)
Notes == P(<<"notes">>)
First == <<"items", "0">>

\* Labels in either form: spelled oddly, twice, too deep, leading nowhere.
Labels ==
  { <<>>, <<L(First, Secret)>>, <<L(First, Blocked), L(<<"items", "1">>, Open)>>, <<L(<<"items", "00">>, Secret)>>,
    <<Odd(L(First, Secret))>>, <<L(First, Open), L(First, Secret)>>, <<L(<<"items", "0", "body">>, Secret)>>,
    <<L(First, Secret), L(<<"items", "0", "body">>, Open)>>, <<L(<<"items", "00", "body">>, Open)>>,
    <<L(<<"meta">>, Secret)>>, <<L(<<>>, Secret)>>,
    <<L(<<"items">>, Secret)>>, <<L(<<"items", "2">>, Secret)>>, <<L(<<"gone">>, Open)>> }
Defaults == {Open, Secret, NoDefault}

NestedGuards ==
  {Multi(paths, l, d) : paths \in {<<Items>>, <<Items, Notes>>}, l \in Labels, d \in Defaults}
  \union {Single(<<"items">>, l, d) : l \in Labels, d \in Defaults}
  \union {Multi(paths, <<>>, Open) : paths \in {<<>>, <<Items, Items>>, <<Odd(Items)>>, <<P(<<"meta">>)>>, <<P(<<>>)>>,
                                                <<P(<<"items">>), P(<<"items", "0", "body">>)>>}}
  \union {Single(path, <<>>, Open) : path \in {<<"meta">>, <<"gone">>}}
GridGuards == {Single(path, <<L(<<first, "1">>, Secret)>>, d) : path \in {<<"0">>, <<"00">>}, first \in {"0", "00"}, d \in Defaults}
ListGuards == {Single(<<>>, l, d) : l \in {<<>>, <<L(<<"1">>, Secret)>>, <<L(<<"00">>, Secret)>>}, d \in Defaults}

SlashGuards == {Single(<<"">>, <<L(t, Secret)>>, d) : t \in {<<"", "1">>, <<"1">>, <<"">>}, d \in Defaults}

Case(doc, copies, guard, mode, filter) ==
  [doc |-> doc, copies |-> copies, content |-> IF HasContent(copies) THEN "items" ELSE "absent",
   guard |-> guard, agent |-> NoLabel, op |-> "read", mode |-> mode, filter |-> filter]

\* An agent that has read secrets, and one that is vouched for.
Insider == [secrecy |-> {"private"}, integrity |-> {}]
Vouched == [secrecy |-> {}, integrity |-> {"approved"}]

\* Every operation, for guards that answer in either form; and answers whose
\* list of content items is empty or null.
FirstIsSecret ==
  {Multi(<<Items>>, <<L(First, Secret)>>, Open), Single(<<"items">>, <<L(First, Secret)>>, NoDefault),
   Single(<<>>, <<>>, NoDefault)}
OperationCases ==
  {[Case(Nested, {"text"}, g, m, NoFilter) EXCEPT !.agent = a, !.op = o] :
     g \in FirstIsSecret, a \in {Insider, Vouched}, o \in OperationTypes, m \in EnforcementModes}
ContentCases ==
  {[Case(Nested, {"structured"}, g, "filter", f) EXCEPT !.content = x] :
     g \in FirstIsSecret \union {NoGuard}, x \in {"empty", "null"}, f \in {NoFilter, {<<>>, <<"items">>}}}
Keep == {<<>>, <<"items">>, <<"items", "0">>}

MCCases ==
  "a" :> ( {Case(Nested, {"text", "structured", "more"}, g, "filter", NoFilter) : g \in NestedGuards}
           \union {Case(List, {"text"}, g, m, NoFilter) : g \in ListGuards, m \in {"strict", "filter", "propagate"}}
           \union {Case(Grid, {"text"}, g, "filter", NoFilter) : g \in GridGuards}
           \union {Case(doc, {"text"}, g, "filter", NoFilter) : doc \in {List, Nested}, g \in SlashGuards}
           \union OperationCases \union ContentCases
           \union {Case(Nested, copies, Multi(<<Items>>, <<L(First, Secret)>>, Open), m, f) :
                     copies \in {{"text"}, {"structured"}, {"text", "structured"}, {"more", "structured"}},
                     m \in {"strict", "filter", "propagate"}, f \in {NoFilter, Keep}}
           \union {Case(Nested, copies, NoGuard, "filter", f) :
                     copies \in {{"text"}, {"structured"}, {"more"}, {"text", "more"}}, f \in {NoFilter, Keep}} )
  @@ "b" :> {Case(List, {"text"}, NoGuard, "filter", NoFilter)}

MCCalls    == {"a", "b"}
MCSessions == "a" :> "" @@ "b" :> "default"
===============================================================================
