---------------------------- MODULE MCPConnection ----------------------------
(***************************************************************************)
(* One connection to a backend MCP server (mcp/connection*.go,             *)
(* http_transport*.go, pagination.go): how its transport is chosen, how    *)
(* concurrent requests share one session, how an expired session is        *)
(* replaced and the request retried once, how lists are read page by page, *)
(* and how the connection is closed meanwhile.                             *)
(*                                                                         *)
(* A session is a number.  For the SDK transports (stdio, streamable, SSE) *)
(* it is an sdk.ClientSession the gateway opens and closes; for plain      *)
(* JSON-RPC it is the Mcp-Session-Id that the backend handed out, and 0 is *)
(* the empty id of a backend without sessions.  sessionMu's write lock is  *)
(* held across a whole reconnect; its read lock only around one read.      *)
(***************************************************************************)
EXTENDS OIDCProvider, FiniteSets

CONSTANTS
  MaxSessions,    \* bound: sessions the backend opens
  MaxPages,       \* paginateAllMaxPages
  Cursors,        \* page cursors the backend may return
  Listers,        \* callers that ask for lists too
  Free            \* no holder of the lock

ASSUME ConnectionAssumption ==
  /\ MaxSessions \in Nat /\ MaxPages \in Nat \ {0}
  /\ Free \notin Callers

VARIABLES
  conn,       \* state, transport, session, cancelled ctx, use of OIDC
  session,    \* session[s]: unused, open, expired at the backend, or closed
  lock,       \* holder of sessionMu's write lock
  call,       \* call[c]: the request of c and where it is
  closing     \* Close: "no", "cancelled" (ctx), "waiting" on a session, "done"

vars == <<conn, session, lock, call, closing, cache, tok>>

SDK == {"stdio", "streamable", "sse"}
HTTP == {"streamable", "sse", "plain"}
Sessions == 1 .. MaxSessions
Foreign == MaxSessions + 1       \* the client's own session id, from the request context
Methods == {"call", "list"}
InFlightPcs == {"wire", "await"}

IdleCall == [pc |-> "idle", method |-> "call", ctxID |-> FALSE, sess |-> 0, attempt |-> 1,
             execs |-> 0, text |-> FALSE, page |-> 0, seen |-> {}, result |-> "none"]

Request ==
  [pc : {"idle", "snapshot", "issue", "lock", "close_old", "connect", "done"} \cup InFlightPcs,
   method : Methods, ctxID : BOOLEAN, sess : 0 .. Foreign, attempt : 1 .. 2, execs : 0 .. 2,
   text : BOOLEAN, page : 0 .. MaxPages - 1, seen : SUBSET Cursors,
   result : {"none", "ok", "error", "closed", "notfound"}]

TypeOK ==
  /\ OIDCTypeOK
  /\ conn \in [state : {"connecting", "up", "failed"}, transport : SDK \cup HTTP,
               session : 0 .. MaxSessions, cancelled : BOOLEAN, oidc : BOOLEAN]
  /\ session \in [Sessions -> {"unused", "open", "expired", "closed"}]
  /\ lock \in Callers \cup {Free}
  /\ call \in [Callers -> Request]
  /\ closing \in {"no", "cancelled", "waiting", "done"}

Init ==
  /\ OIDCInit
  /\ \E t \in {"stdio", "streamable"}, o \in BOOLEAN :
       /\ o => t # "stdio"
       /\ conn = [state |-> "connecting", transport |-> t, session |-> 0,
                  cancelled |-> FALSE, oidc |-> o]
  /\ session = [s \in Sessions |-> "unused"]
  /\ lock = Free
  /\ call = [c \in Callers |-> IdleCall]
  /\ closing = "no"

Unused == {s \in Sessions : session[s] = "unused"}
NextSession == CHOOSE s \in Unused : \A r \in Unused : s <= r

(***************************************************************************)
(* Establishing the connection.                                            *)
(***************************************************************************)

\* client.Connect: a session on the current transport.
OpenFirstSession ==
  /\ conn.state = "connecting" /\ Unused # {}
  /\ session' = [session EXCEPT ![NextSession] = "open"]
  /\ conn' = [conn EXCEPT !.state = "up", !.session = NextSession]
  /\ UNCHANGED <<lock, call, closing, cache, tok>>

\* NewConnection: the command is started and the handshake made.
ConnectStdio == conn.transport = "stdio" /\ OpenFirstSession

\* trySDKTransport for streamable HTTP, then for SSE.
ConnectSDK == conn.transport \in {"streamable", "sse"} /\ OpenFirstSession

\* tryPlainJSONTransport: the backend may hand out a session id or none.
ConnectPlain ==
  /\ conn.transport = "plain"
  /\ \/ OpenFirstSession
     \/ /\ conn.state = "connecting"
        /\ conn' = [conn EXCEPT !.state = "up"]
        /\ UNCHANGED <<session, lock, call, closing, cache, tok>>

\* The next transport in the order streamable, SSE, plain JSON-RPC is tried; when
\* none is left (stdio has only one) the context is cancelled.
Fallback == [t \in {"streamable", "sse"} |-> IF t = "streamable" THEN "sse" ELSE "plain"]

ConnectFails ==
  /\ conn.state = "connecting"
  /\ conn' = IF conn.transport \in DOMAIN Fallback
             THEN [conn EXCEPT !.transport = Fallback[conn.transport]]
             ELSE [conn EXCEPT !.state = "failed", !.cancelled = TRUE]
  /\ UNCHANGED <<session, lock, call, closing, cache, tok>>

\* loadServerCARoots: a CA file that is not all CA certificates ends it before a try.
BadCARoots ==
  /\ conn.state = "connecting" /\ conn.transport = "streamable"
  /\ conn' = [conn EXCEPT !.state = "failed"]
  /\ UNCHANGED <<session, lock, call, closing, cache, tok>>

(***************************************************************************)
(* Sending a request.                                                      *)
(***************************************************************************)

InFlight(c) == call[c].pc \in InFlightPcs

\* How c's request ends: its locals and its token go with it.
End(c, result) ==
  /\ call' = [call EXCEPT ![c] = [IdleCall EXCEPT !.pc = "done", !.result = result,
                                    !.execs = call[c].execs, !.text = call[c].text]]
  /\ tok' = [tok EXCEPT ![c] = NoToken]

\* SendRequestWithServerID and the dispatch by method and transport.
SendRequest(c) ==
  /\ conn.state = "up" /\ call[c].pc = "idle"
  /\ \E m \in Methods, id \in BOOLEAN :
       /\ m = "list" => c \in Listers
       /\ id => conn.transport = "plain"
       /\ call' = [call EXCEPT ![c] = [IdleCall EXCEPT !.pc = "snapshot", !.method = m, !.ctxID = id]]
  /\ UNCHANGED <<conn, session, lock, closing, cache, tok>>

\* callParamMethod: parameters that do not decode are refused before they are sent.
BadParams(c) ==
  /\ call[c].pc = "snapshot" /\ call[c].method = "call" /\ conn.transport \in SDK
  /\ End(c, "error")
  /\ UNCHANGED <<conn, session, lock, closing, cache>>

\* The header modifier: the client's own session id comes before the stored one.
SessionHeader(c) == IF call[c].ctxID THEN Foreign ELSE conn.session

\* getSDKSession and getHTTPSessionID read under the read lock.
Snapshot(c) ==
  /\ call[c].pc = "snapshot" /\ lock = Free
  /\ call' = [call EXCEPT ![c].pc = "issue", ![c].sess = SessionHeader(c)]
  /\ UNCHANGED <<conn, session, lock, closing, cache, tok>>

SDKClosed(s) == conn.transport \in SDK /\ session[s] = "closed"

\* The request starts on the session it read; one closed in between refuses it.
RefusedByClosed(c) ==
  /\ call[c].pc = "issue" /\ SDKClosed(call[c].sess)
  /\ End(c, "closed")
  /\ UNCHANGED <<conn, session, lock, closing, cache>>

\* The round trippers set the headers; OIDC's comes last and replaces Authorization.
Issue(c) ==
  /\ call[c].pc = "issue" /\ ~ SDKClosed(call[c].sess)
  /\ IF conn.oidc THEN TokenCached(c) \/ FetchToken(c) ELSE UNCHANGED <<cache, tok>>
  /\ call' = [call EXCEPT ![c].pc = "wire"]
  /\ UNCHANGED <<conn, session, lock, closing>>

\* A request without a token is not sent.
IssueWithoutToken(c) ==
  /\ call[c].pc = "issue" /\ ~ SDKClosed(call[c].sess) /\ conn.oidc
  /\ ~ IsValid(cache)
  /\ End(c, "error")
  /\ UNCHANGED <<conn, session, lock, closing, cache>>

\* The backend knows the session, or does not use sessions (external).
Known(s) == IF s = Foreign THEN conn.session = 0 ELSE s = 0 \/ session[s] = "open"

\* A "session not found" answer leads to one reconnect, on an HTTP transport only.
NotFound(c) ==
  IF conn.transport \in HTTP /\ call[c].attempt = 1
  THEN /\ call' = [call EXCEPT ![c].pc = "lock"]
       /\ tok' = [tok EXCEPT ![c] = NoToken]
  ELSE End(c, "notfound")

\* The backend executes the request, or refuses it because of its session.
Arrive(c) ==
  /\ call[c].pc = "wire"
  /\ IF Known(call[c].sess)
     THEN /\ call' = [call EXCEPT ![c].pc = "await",
                       ![c].execs = IF call[c].method = "call" THEN @ + 1 ELSE @]
          /\ tok' = [tok EXCEPT ![c] = NoToken]
     ELSE NotFound(c)
  /\ UNCHANGED <<conn, session, lock, closing, cache>>

\* Mutant: any failed answer is retried.
ReplyToCallRetries(c, result) ==
  /\ call[c].pc = "await" /\ call[c].method = "call" /\ result \in {"ok", "error"}
  /\ IF result = "error" THEN NotFound(c) ELSE End(c, result)
  /\ UNCHANGED <<conn, session, lock, closing, cache>>

\* The answer of a call; an error of the backend, or a response that is no JSON-RPC.
\* parseHTTPResult turns every status but 200 into an error.
ReplyToCall(c, result) ==
  /\ call[c].pc = "await" /\ call[c].method = "call" /\ result \in {"ok", "error"}
  /\ End(c, result)
  /\ UNCHANGED <<conn, session, lock, closing, cache>>

\* An SDK error whose text says "session not found" counts as an expired session,
\* although the request was executed.
ReplyMentionsSession(c) ==
  /\ call[c].pc = "await" /\ call[c].method = "call" /\ conn.transport \in SDK
  /\ ~ call[c].text
  /\ IF conn.transport \in HTTP /\ call[c].attempt = 1
     THEN call' = [call EXCEPT ![c].pc = "lock", ![c].text = TRUE] /\ UNCHANGED tok
     ELSE End(c, "notfound")
  /\ UNCHANGED <<conn, session, lock, closing, cache>>

\* Mutant: neither the page limit nor the cursors are checked.
ReplyToListUnbounded(c) ==
  /\ call[c].pc = "await" /\ call[c].method = "list"
  /\ \/ \E r \in {"ok", "error"} : End(c, r)
     \/ /\ \E n \in Cursors : call' = [call EXCEPT ![c].pc = "snapshot", ![c].seen = @ \cup {n}]
        /\ UNCHANGED tok
  /\ UNCHANGED <<conn, session, lock, closing, cache>>

\* PaginateAll: the last page ends the list, a cursor seen before or too many pages
\* fail it, another one is fetched.  Plain JSON-RPC asks for one page only.
ReplyToList(c) ==
  /\ call[c].pc = "await" /\ call[c].method = "list"
  /\ \/ \E r \in {"ok", "error"} : End(c, r)
     \/ /\ conn.transport = "plain" /\ \E n \in Cursors : End(c, "ok")
     \/ /\ conn.transport \in SDK
        /\ \E n \in Cursors :
             IF n \in call[c].seen \/ call[c].page + 1 >= MaxPages THEN End(c, "error")
             ELSE /\ call' = [call EXCEPT ![c].pc = "snapshot", ![c].page = @ + 1,
                                          ![c].seen = @ \cup {n}]
                  /\ UNCHANGED tok
  /\ UNCHANGED <<conn, session, lock, closing, cache>>

\* The request's own deadline, or the transport fails: no retry.
RequestFails(c) ==
  /\ call[c].pc \in {"wire", "await"}
  /\ End(c, "error")
  /\ UNCHANGED <<conn, session, lock, closing, cache>>

(***************************************************************************)
(* Reconnecting: withReconnectLock, reconnectSDKTransport and              *)
(* reconnectPlainJSON.                                                     *)
(***************************************************************************)

TakeReconnectLock(c) ==
  /\ call[c].pc = "lock" /\ lock = Free
  /\ lock' = c
  /\ call' = [call EXCEPT ![c].pc = IF conn.transport = "plain" THEN "connect" ELSE "close_old"]
  /\ UNCHANGED <<conn, session, closing, cache, tok>>

NothingInFlight(s) == \A d \in Callers : InFlight(d) => call[d].sess # s

\* The SDK's Close waits for the requests in flight on the session (external).
CloseOldSession(c) ==
  /\ call[c].pc = "close_old" /\ NothingInFlight(conn.session)
  /\ session' = [session EXCEPT ![conn.session] = "closed"]
  /\ call' = [call EXCEPT ![c].pc = "connect"]
  /\ UNCHANGED <<conn, lock, closing, cache, tok>>

\* A list starts again from its first page.
Retry(c) == [call EXCEPT ![c].pc = "snapshot", ![c].attempt = 2, ![c].page = 0, ![c].seen = {}]

\* The connect context derives from the connection's: it fails once Close cancelled it.
Reconnected(c) ==
  /\ call[c].pc = "connect" /\ ~ conn.cancelled
  /\ \/ /\ Unused # {}
        /\ session' = [session EXCEPT ![NextSession] = "open"]
        /\ conn' = [conn EXCEPT !.session = NextSession]
     \/ /\ conn.transport = "plain"
        /\ conn' = [conn EXCEPT !.session = 0] /\ UNCHANGED session
  /\ call' = Retry(c)
  /\ lock' = Free
  /\ UNCHANGED <<closing, cache, tok>>

\* The first error is returned.
ReconnectFails(c) ==
  /\ call[c].pc = "connect"
  /\ End(c, "notfound")
  /\ lock' = Free
  /\ UNCHANGED <<conn, session, closing, cache>>

(***************************************************************************)
(* Close, and what the backend does by itself.                             *)
(***************************************************************************)

\* Mutant: Close leaves the context alone.
CancelNothing ==
  /\ closing = "no" /\ conn.state = "up"
  /\ closing' = "cancelled"
  /\ UNCHANGED <<conn, session, lock, call, cache, tok>>

\* Close: the context first, so that no reconnect can succeed any more.
CancelContext ==
  /\ closing = "no" /\ conn.state = "up"
  /\ conn' = [conn EXCEPT !.cancelled = TRUE]
  /\ closing' = "cancelled"
  /\ UNCHANGED <<session, lock, call, cache, tok>>

ReadSessionToClose ==
  /\ closing = "cancelled" /\ lock = Free
  /\ closing' = IF conn.transport \in SDK THEN "waiting" ELSE "done"
  /\ UNCHANGED <<conn, session, lock, call, cache, tok>>

CloseSession ==
  /\ closing = "waiting" /\ NothingInFlight(conn.session)
  /\ session' = [session EXCEPT ![conn.session] = "closed"]
  /\ closing' = "done"
  /\ UNCHANGED <<conn, lock, call, cache, tok>>

\* The backend forgets a session: idle timeout or restart.
Expire ==
  /\ conn.transport \in HTTP
  /\ \E s \in Sessions : session[s] = "open" /\ session' = [session EXCEPT ![s] = "expired"]
  /\ UNCHANGED <<conn, lock, call, closing, cache, tok>>

TimePasses == conn.oidc /\ Tick /\ UNCHANGED <<conn, session, lock, call, closing>>

Connect == ConnectStdio \/ ConnectSDK \/ ConnectPlain \/ ConnectFails \/ BadCARoots

CallStep(c) ==
  \/ BadParams(c) \/ Snapshot(c) \/ RefusedByClosed(c) \/ Issue(c) \/ IssueWithoutToken(c) \/ Arrive(c)
  \/ ReplyToCall(c, "ok") \/ ReplyToCall(c, "error") \/ ReplyMentionsSession(c)
  \/ ReplyToList(c) \/ RequestFails(c)
  \/ TakeReconnectLock(c) \/ CloseOldSession(c) \/ Reconnected(c) \/ ReconnectFails(c)

CloseStep == ReadSessionToClose \/ CloseSession

Next ==
  \/ Connect
  \/ \E c \in Callers : SendRequest(c) \/ CallStep(c)
  \/ CancelContext \/ CloseStep
  \/ Expire \/ TimePasses

Spec == Init /\ [][Next]_vars

\* Goroutines run; the backend answers or the request's deadline passes (RequestFails
\* and ReconnectFails stand for both deadlines); nobody has to send or to close.
FairSpec ==
  /\ Spec
  /\ \A c \in Callers : WF_vars(CallStep(c))
  /\ WF_vars(CloseStep)

(***************************************************************************)
(* Properties.                                                             *)
(***************************************************************************)

\* No SDK session is lost: an open one is the connection's own, however many callers
\* reconnect, and none is open once Close is done, even when a reconnect was under
\* way (the context is cancelled before the session to close is read).
NoSessionLeaked ==
  conn.transport \in SDK =>
    \A s \in Sessions : session[s] = "open" => s = conn.session /\ closing # "done"

\* A tool call that the backend executed is sent again only if the answer said
\* "session not found"; lost answers and other errors are not retried.
ExecutedOnce == \A c \in Callers : call[c].execs > 1 => call[c].text

\* Every request returns: no caller waits for ever on a reconnect, on Close or on
\* pages, whatever the backend answers.
RequestsReturn ==
  \A c \in Callers : call[c].pc = "snapshot" ~> call[c].pc = "done"

\* connection_transport.go:45: reconnecting is safe for concurrent callers.  A request
\* fails on a closed session only after Close.
ReconnectIsSafe == \A c \in Callers : call[c].result = "closed" => closing # "no"
=============================================================================
