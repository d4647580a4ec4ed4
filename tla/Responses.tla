------------------------------ MODULE Responses -------------------------------
(***************************************************************************)
(* What becomes of a backend's response on its way to the agent: the       *)
(* guard's path labels are applied (PathLabels), the tool's jq filter, and *)
(* the payload middleware (internal/middleware/jqschema.go), which keeps   *)
(* large data in a file and answers with its path and schema.              *)
(*                                                                         *)
(* Calls run side by side and may share a session.  A response holds its   *)
(* document in up to three copies: text, structured content, and further   *)
(* content items.  Of a jq filter only the nodes it keeps are modelled, of *)
(* sizes only how they compare with the threshold.                         *)
(***************************************************************************)
EXTENDS PathLabels, FiniteSets

CONSTANTS
  Calls,
  Cases,      \* call -> what may come its way: [doc, copies, content, guard, agent, op, mode, filter]
  Sessions,   \* call -> its session, "" when there is none
  QueryIDs    \* 16 random bytes: no two calls draw the same

NoGuard  == [multi |-> "none"]

Copies(names, doc) == [n \in names |-> doc]
HasContent(names)  == names \intersect {"text", "more"} # {}

\* A response has at least one copy of its document, which is no envelope itself;
\* its list of content items may be missing or empty.  "" is no query's id.
ASSUME ResponsesAssumption ==
  /\ DOMAIN Cases = Calls /\ DOMAIN Sessions = Calls /\ "" \notin QueryIDs
  /\ \A c \in Calls : \A k \in Cases[c] :
       /\ IsDocument(k.doc) /\ (k.guard # NoGuard => IsAnswer(k.guard))
       /\ <<"content">> \in DOMAIN k.doc => k.doc[<<"content">>] # "array"
       /\ k.copies \subseteq {"text", "structured", "more"} /\ k.copies # {}
       /\ k.content \in {"items", "empty", "null", "absent"}
       /\ k.content = "items" <=> HasContent(k.copies)

NoFilter == {<<"no filter">>}
NoPath   == <<>>
Nothing  == [x \in {} |-> <<>>]

\* The map f with v at k.
Put(f, k, v) == [x \in DOMAIN f \union {k} |-> IF x = k THEN v ELSE f[x]]

VARIABLES
  call,   \* per call: [phase, case, data, result, envelope, denied, id, reply]
  files   \* path -> [data, whole]: a file is written in two steps

vars == <<call, files>>

Reply(kind, copies, path, notice) == [kind |-> kind, copies |-> copies, path |-> path, notice |-> notice]
NoReply == Reply("none", Nothing, NoPath, FALSE)

Idle == [phase |-> "idle", case |-> {}, data |-> Nothing, result |-> Nothing, envelope |-> FALSE,
         denied |-> {}, id |-> "", reply |-> NoReply]

Init == call = [c \in Calls |-> Idle] /\ files = [p \in {} |-> Nothing]

-----------------------------------------------------------------------------
(* The handler: callBackendTool, from the backend's answer on.             *)

\* Phase 4: the guard is asked for labels, and has some.
Labelled(k) == k.guard # NoGuard /\ ShouldCallLabelResponse(k.op, k.mode)

\* The data that goes on: in the several-collections form every copy is
\* replaced, a list without items too; in the other form the bare document is left.
LabelledData(k, denied) ==
  LET doc == Filtered(k.doc, k.guard, denied) IN
  IF k.guard.multi
  THEN Copies((k.copies \intersect {"structured"}) \union (IF k.content = "absent" THEN {} ELSE {"text"}), doc)
  ELSE Copies({"text"}, doc)

\* ConvertToCallToolResult: without content the data becomes the text; an empty
\* list of content items stays empty, and what is beside it is dropped.
Converted(data, empty) ==
  IF HasContent(DOMAIN data) THEN Restrict(data, DOMAIN data \ {"structured"})
  ELSE IF empty THEN Nothing
  ELSE Copies({"text"}, data[CHOOSE n \in DOMAIN data : TRUE])

\* A call that fails, an error result or one without data passes unchanged; so
\* do labels that cannot be applied, and blocked responses, as errors.
Fails(c, k) == call' = [call EXCEPT ![c] = [Idle EXCEPT !.phase = "done", !.case = k, !.reply.kind = "error"]]

Passes(c, k, data, empty, envelope, denied) ==
  call' = [call EXCEPT ![c] = [Idle EXCEPT !.phase = "handled", !.case = k, !.data = data,
             !.result = Converted(data, empty), !.envelope = envelope, !.denied = denied]]

\* The guard gives no labels: the coarse decision let the response through.
HandleUnlabelled(c) ==
  /\ call[c].phase = "idle"
  /\ \E k \in Cases[c] :
       /\ ~Labelled(k)
       /\ Passes(c, k, Copies(k.copies, k.doc), k.content = "empty", k.content = "items", {})
  /\ UNCHANGED files

HandlerFails(c) == call[c].phase = "idle" /\ (\E k \in Cases[c] : Fails(c, k)) /\ UNCHANGED files

\* A single item that is filtered is an error for a tool that reads one thing.
HandleLabelled(c) ==
  /\ call[c].phase = "idle"
  /\ \E k \in {k \in Cases[c] : Labelled(k)} :
       LET items  == ResolvedItems(k.doc, k.guard)
           denied == Denied(k.agent, items, k.op, k.mode)
       IN  IF items = Unresolved \/ (k.mode = "strict" /\ denied # {}) THEN Fails(c, k)
           ELSE \/ denied # {} /\ Cardinality(items) = 1 /\ Fails(c, k)
                \/ Passes(c, k, LabelledData(k, denied), FALSE, k.guard.multi /\ k.content # "absent", denied)
  /\ UNCHANGED files

-----------------------------------------------------------------------------
(* tryApplyToolResponseFilter                                              *)

Applied(filter, doc) == Restrict(doc, filter \intersect DOMAIN doc)

\* rewriteFilteredTextPayload: a leading text becomes the filtered one, and so
\* does the text of the data's envelope, whose other copies stay; data that is
\* no envelope becomes the filtered document.
Rewritten(it, doc) ==
  [it EXCEPT !.result = [@ EXCEPT !["text"] = doc],
             !.data   = IF it.envelope /\ "text" \in DOMAIN @ THEN [@ EXCEPT !["text"] = doc]
                        ELSE Copies({"text"}, doc),
             !.envelope = @ /\ "text" \in DOMAIN it.data]

\* Without a leading text the data is filtered and converted anew, as no envelope.
\* Any failure leaves everything as it was.
ApplyFilter(c) ==
  LET it == [call[c] EXCEPT !.phase = "filtered"]  filter == it.case.filter IN
  /\ call[c].phase = "handled"
  /\ \E ok \in BOOLEAN :
       call' = [call EXCEPT ![c] =
         IF filter = NoFilter \/ ~ok THEN it
         ELSE IF "text" \in DOMAIN it.result THEN Rewritten(it, Applied(filter, it.result["text"]))
         ELSE LET doc == Applied(filter, it.data[IF "more" \in DOMAIN it.data THEN "more" ELSE "structured"])
              IN  [it EXCEPT !.result = Copies({"text"}, doc), !.data = Copies({"text"}, doc), !.envelope = FALSE]]
  /\ UNCHANGED files

-----------------------------------------------------------------------------
(* wrapToolHandler, from the sizes on.                                     *)

\* How the data compares with the threshold: "escaping" is a text well below
\* it that marshals to more than the threshold.
Sizes == {"small", "escaping", "large"}

\* The fast path: the data is an envelope with one text, and the text is short.
FastPath(c, size) ==
  call[c].envelope /\ DOMAIN call[c].data = {"text"} /\ size # "large"

Inline(c) == Reply("inline", call[c].result, NoPath, call[c].denied # {})
Finish(c, reply) == call' = [call EXCEPT ![c].phase = "done", ![c].reply = reply]

\* Data that cannot be marshalled is answered inline, too.
AnswerInline(c) ==
  /\ call[c].phase = "filtered"
  /\ \E size \in Sizes, marshals \in BOOLEAN : FastPath(c, size) \/ ~marshals \/ size = "small"
  /\ Finish(c, Inline(c)) /\ UNCHANGED files

\* Mutant: one directory per session.
PayloadPathPerSession(c) == <<IF Sessions[c] = "" THEN "default" ELSE Sessions[c]>>

\* savePayload: {baseDir}/{session}/{queryID}/payload.json.
PayloadPath(c) == <<IF Sessions[c] = "" THEN "default" ELSE Sessions[c], call[c].id>>

StartSave(c) ==
  /\ call[c].phase = "filtered"
  /\ \E size \in Sizes \ {"small"} : ~FastPath(c, size)
  /\ \E id \in QueryIDs \ {call[d].id : d \in Calls} : call' = [call EXCEPT ![c].phase = "saving", ![c].id = id]
  /\ UNCHANGED files

StartWrite(c) ==
  /\ call[c].phase = "saving"
  /\ files' = Put(files, PayloadPath(c), [data |-> call[c].data, whole |-> FALSE])
  /\ call' = [call EXCEPT ![c].phase = "writing"]

EndWrite(c) ==
  /\ call[c].phase = "writing"
  /\ files' = Put(files, PayloadPath(c), [data |-> call[c].data, whole |-> TRUE])
  /\ call' = [call EXCEPT ![c].phase = "written"]

\* The schema is inferred unless the caller has gone; what could not be saved
\* has no path.
Answer(c, path) ==
  \/ Finish(c, Inline(c))
  \/ Finish(c, Reply("reference", Nothing, path, FALSE))

SaveFails(c) == call[c].phase \in {"saving", "writing", "written"} /\ Answer(c, NoPath) /\ UNCHANGED files
Saved(c)     == call[c].phase = "written" /\ Answer(c, PayloadPath(c)) /\ UNCHANGED files

AllDone == (\A c \in Calls : call[c].phase = "done") /\ UNCHANGED vars

Step(c) ==
  \/ HandleUnlabelled(c) \/ HandlerFails(c) \/ HandleLabelled(c) \/ ApplyFilter(c)
  \/ AnswerInline(c) \/ StartSave(c) \/ StartWrite(c) \/ EndWrite(c) \/ SaveFails(c) \/ Saved(c)

Next == AllDone \/ \E c \in Calls : Step(c)
Spec == Init /\ [][Next]_vars

-----------------------------------------------------------------------------
(* Properties                                                              *)

\* The nodes the guard's answer speaks about, by the meaning of its pointers.
Collection(k) ==
  LET paths == IF k.guard.multi THEN Range(Tokens(k.guard.paths)) ELSE {CollectionPath(k.guard)}
  IN  Elements(k.doc, UNION {ExtractValueAtPath(k.doc, t, FALSE) : t \in paths})

\* A document that is no array, and its own single item.
IsItem(k) == ~k.guard.multi /\ k.guard.itemsPath = <<>> /\ k.doc[<<>>] # "array"

\* The labels written for a node and for what is below it.  In the form with a
\* single collection their pointers begin with the collection's, as written.
Pointers(k)  == {i \in DOMAIN k.guard.labelled :
                   k.guard.multi \/ IsPrefix(k.guard.itemsPath, k.guard.labelled[i].tokens)}
Target(k, i) == LET t == k.guard.labelled[i].tokens IN
                IF ~k.guard.multi /\ k.guard.itemsPath = <<"">> THEN Tail(t) ELSE t
Leading(k, p) == {i \in Pointers(k) : p \in ExtractValueAtPath(k.doc, Target(k, i), FALSE)}
Below(k, p)   == {i \in Pointers(k) :
                    LET t == Target(k, i) IN
                    Len(p) < Len(t) /\ p \in ExtractValueAtPath(k.doc, SubSeq(t, 1, Len(p)), FALSE)}

\* The call's operation may not touch what has this label.
Hidden(k, l) == ~Evaluate(k.agent, l, k.op, k.mode)

\* A node the agent must not see: all labels written for it, or the default of
\* an element without one, are beyond the agent.  In the form with a single
\* collection that holds for elements, and if no pointer goes below them, and
\* for a document that is the only item.
MustGo(k) ==
  LET collection == Collection(k) IN
  {p \in DOMAIN k.doc :
     LET own == Leading(k, p) IN
     \/ p = <<>> /\ IsItem(k) /\ Hidden(k, DefaultLabel(k.guard))
     \/ /\ k.guard.multi \/ (p \in collection /\ Below(k, p) = {})
        /\ IF own # {} THEN \A i \in own : Hidden(k, k.guard.labelled[i].label)
           ELSE p \in collection /\ Hidden(k, DefaultLabel(k.guard))}

\* A node that may be taken away: some label for it is beyond the agent, or it
\* has none and the default is.
MayGo(k) ==
  LET collection == Collection(k) IN
  {p \in DOMAIN k.doc :
     LET labels == Leading(k, p) \union (IF k.guard.multi THEN {} ELSE Below(k, p)) IN
     \/ \E i \in labels : Hidden(k, k.guard.labelled[i].label)
     \/ /\ (p \in collection /\ labels = {}) \/ (p = <<>> /\ IsItem(k))
        /\ Hidden(k, DefaultLabel(k.guard))}

WrittenBy(c) == {p \in DOMAIN files : call[c].id # "" /\ p = PayloadPath(c)}
Shown(c)     == Range(call[c].reply.copies) \union UNION {Range(files[p].data) : p \in WrittenBy(c)}

\* Whatever the agent gets or can read from its files, in whichever copy, holds
\* nothing of a node its labels hide, however the guard spelled the pointers.
NothingDeniedSurvives ==
  \A c \in Calls : call[c].phase = "done" /\ Labelled(call[c].case) =>
    LET must == MustGo(call[c].case) IN
    \A doc \in Shown(c) : \A p \in DOMAIN doc : doc[p] # "null" => ~\E n \in must : IsPrefix(n, p)

\* What is kept for sure.
Kept(k) == IF ~Labelled(k) THEN DOMAIN k.doc
           ELSE LET may == MayGo(k) IN {p \in DOMAIN k.doc : ~\E n \in may : IsPrefix(n, p)}

\* Copies of the document, at least one, that all hold what is kept.
WholeCopies(k, copies) ==
  LET kept == Kept(k) IN copies # Nothing /\ \A doc \in Range(copies) : kept \subseteq DOMAIN doc

\* The backend sent an empty list of content items beside its structured content,
\* and no labels put a text in its place.
NoContent(k) == ~Labelled(k) /\ k.content = "empty"

\* Without a jq filter the agent gets everything the labels do not hide: in the
\* answer, or in a file that is whole and its own while calls of the session
\* run side by side.  Two exceptions: data that could not be saved, and an answer
\* without content, which stays one ("empty content array is valid and should be
\* preserved", tool_result.go:92).
AnswerIsComplete ==
  \A c \in Calls :
    LET k == call[c].case  reply == call[c].reply IN
    call[c].phase = "done" /\ k.filter = NoFilter =>
      /\ reply.kind = "inline" => WholeCopies(k, reply.copies) \/ (NoContent(k) /\ reply.copies = Nothing)
      /\ reply.path # NoPath =>
           /\ files[reply.path].whole
           /\ WholeCopies(k, files[reply.path].data)
           /\ files[reply.path].data = call[c].data

\* callBackendTool: a notice is appended "so the agent knows items exist but
\* were withheld".
WithheldIsTold ==
  \A c \in Calls : call[c].phase = "done" /\ call[c].denied # {} => call[c].reply.notice

===============================================================================
