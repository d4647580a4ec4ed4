------------------------ MODULE MCPConnectionProofs ------------------------
(***************************************************************************)
(* What a connection guarantees, for any number of callers, sessions,      *)
(* pages and cursors, and any token lifetimes.                             *)
(*                                                                         *)
(* NoSessionLeaked is not inductive: it needs that a caller about to       *)
(* connect has left no session open, that only the holder of the lock is   *)
(* there, and that Close has cancelled the context before it reads the     *)
(* session to close.  ExecutedOnce needs the number of times a request may *)
(* have been executed at each point of it.  TokenValidOnArrival needs that *)
(* a token has lost no more of its lifetime than the time since Token()    *)
(* returned it, which is at most the margin.                               *)
(***************************************************************************)
EXTENDS MCPConnection, WellFoundedInduction, TLAPS

Locked == {"close_old", "connect"}

\* How often a request that is at x may have been executed.
Counted(x) ==
  /\ x.pc # "idle" => conn.state = "up"
  /\ x.method = "list" \/ x.pc = "idle" => x.execs = 0
  /\ x.pc \in {"snapshot", "issue", "wire"} => x.execs < x.attempt /\ (x.execs > 0 => x.text)
  /\ x.pc = "await" => x.execs <= x.attempt
  /\ x.pc \in {"lock"} \cup Locked
       => x.attempt = 1 /\ x.execs <= 1 /\ (x.execs > 0 => x.text)
  /\ x.execs > 1 => x.text

\* The caller that reconnects is the one that holds the lock.
LockInv == \A c \in Callers : lock = c <=> call[c].pc \in Locked

\* What the sessions are before the connection is up, while a caller connects
\* anew, and once Close has begun.
SessionInv ==
  /\ conn.state # "up" => closing = "no" /\ \A s \in Sessions : session[s] = "unused"
  /\ conn.state = "up" /\ conn.transport \in SDK => conn.session \in Sessions
  /\ closing # "no" => conn.cancelled
  /\ \A c \in Callers : call[c].pc = "connect" /\ conn.transport \in SDK
       => \A s \in Sessions : session[s] # "open"
  /\ NoSessionLeaked

\* A token has lost no more than the time since it was handed out.
TokenInv ==
  \A r \in Callers : tok[r].st = "sound" => tok[r].left + tok[r].age > Margin

ConnectionInv ==
  /\ TypeOK
  /\ \A c \in Callers : Counted(call[c])
  /\ LockInv /\ SessionInv /\ TokenInv

(***************************************************************************)
(* Operators.                                                              *)
(***************************************************************************)

\* A set of naturals that is not empty has a least element.
LEMMA MinExists ==
  ASSUME NEW S \in SUBSET Nat, S # {}
  PROVE  \E s \in S : \A r \in S : s <= r
<1>1. PICK m \in S : \A k \in S : <<k, m>> \notin OpToRel(<, Nat)
  BY WFMin, NatLessThanWellFounded, Zenon
<1>2. \A k \in S : ~(k < m)
  BY <1>1, Zenon DEF OpToRel
<1> QED
  BY <1>2

\* The session opened next is one that was never used.
LEMMA NextSessionUnused ==
  ASSUME Unused # {}
  PROVE  NextSession \in Sessions /\ session[NextSession] = "unused"
<1>1. Unused \in SUBSET Nat
  BY ConnectionAssumption DEF Unused, Sessions
<1>2. \E s \in Unused : \A r \in Unused : s <= r
  BY <1>1, MinExists
<1>3. NextSession \in Unused
  BY <1>2 DEF NextSession
<1> QED
  BY <1>3 DEF Unused

(***************************************************************************)
(* Tokens.                                                                 *)
(***************************************************************************)

TokensFine == OIDCTypeOK /\ TokenInv

\* A request that ends takes its token with it.
LEMMA TokenDropped ==
  ASSUME TokensFine, NEW c \in Callers, tok' = [tok EXCEPT ![c] = NoToken], cache' = cache
  PROVE  TokensFine'
<1>1. NoToken \in [st : {"none", "sound", "unknown"}, left : 0 .. Life, age : 0 .. Margin]
  BY OIDCAssumption DEF NoToken
<1> QED
  BY <1>1 DEF TokensFine, OIDCTypeOK, TokenInv, NoToken

\* A token that is handed out as sound has more than the margin left.
LEMMA HandedFine ==
  ASSUME NEW left \in 0 .. Life, NEW sound \in BOOLEAN, sound => left > Margin
  PROVE  /\ Handed(left, sound)
              \in [st : {"none", "sound", "unknown"}, left : 0 .. Life, age : 0 .. Margin]
         /\ Handed(left, sound).st = "sound"
              => Handed(left, sound).left + Handed(left, sound).age > Margin
BY OIDCAssumption DEF Handed, NoToken

\* Token() hands out a sound token, cached or new, or one it knows nothing of.
LEMMA TokenAttached ==
  ASSUME TokensFine, NEW c \in Callers, TokenCached(c) \/ FetchToken(c)
  PROVE  TokensFine'
<1>1. CASE TokenCached(c)
  <2>1. cache.left \in 0 .. Life /\ cache.readable \in BOOLEAN /\ cache.left > Margin
    BY <1>1 DEF TokenCached, IsValid, TokensFine, OIDCTypeOK
  <2>2. tok' = [tok EXCEPT ![c] = Handed(cache.left, cache.readable)] /\ cache' = cache
    BY <1>1 DEF TokenCached
  <2> QED
    BY <2>1, <2>2, HandedFine DEF TokensFine, OIDCTypeOK, TokenInv
<1>2. CASE FetchToken(c)
  <2>1. PICK left \in 1 .. Life, readable \in BOOLEAN :
          /\ cache' = [left |-> Expiry(left, readable), readable |-> readable]
          /\ tok' = [tok EXCEPT ![c] = Handed(left, readable /\ left > Margin)]
    BY <1>2 DEF FetchToken
  <2>2. cache' \in [left : 0 .. Life, readable : BOOLEAN]
    BY <2>1, OIDCAssumption DEF Expiry
  <2>3. left \in 0 .. Life
    BY OIDCAssumption
  <2> DEFINE known == readable /\ left > Margin
  <2>4. known \in BOOLEAN /\ (known => left > Margin)
    OBVIOUS
  <2> HIDE DEF known
  <2>5. tok' = [tok EXCEPT ![c] = Handed(left, known)]
    BY <2>1 DEF known
  <2> QED
    BY <2>2, <2>3, <2>4, <2>5, HandedFine DEF TokensFine, OIDCTypeOK, TokenInv
<1> QED
  BY <1>1, <1>2

\* Time takes as much from a token's lifetime as it adds to its age.
LEMMA TokensAge ==
  ASSUME TokensFine, Tick
  PROVE  TokensFine'
<1> DEFINE Tok == [st : {"none", "sound", "unknown"}, left : 0 .. Life, age : 0 .. Margin]
<1>1. cache' \in [left : 0 .. Life, readable : BOOLEAN]
  <2>1. cache \in [left : 0 .. Life, readable : BOOLEAN]
    BY DEF TokensFine, OIDCTypeOK
  <2>2. Older(cache.left) \in 0 .. Life
    BY <2>1, OIDCAssumption DEF Older
  <2> QED
    BY <2>1, <2>2 DEF Tick
<1>2. ASSUME NEW r \in Callers
      PROVE  tok'[r] \in Tok /\ (tok'[r].st = "sound" => tok'[r].left + tok'[r].age > Margin)
  <2>1. tok[r] \in Tok
    BY DEF TokensFine, OIDCTypeOK
  <2>2. CASE tok[r].st = "sound"
    <3>1. tok'[r] = [tok[r] EXCEPT !.left = Older(@), !.age = @ + 1]
      BY <2>2 DEF Tick
    <3>2. tok[r].age < Margin /\ tok[r].left + tok[r].age > Margin
      BY <2>2 DEF Tick, TokensFine, TokenInv
    <3>3. Older(tok[r].left) = tok[r].left - 1 /\ tok[r].left - 1 \in 0 .. Life
      BY <2>1, <3>2, OIDCAssumption DEF Older
    <3>4. tok[r].age + 1 \in 0 .. Margin
      BY <2>1, <3>2, OIDCAssumption
    <3>5. tok'[r] = [tok[r] EXCEPT !.left = tok[r].left - 1, !.age = tok[r].age + 1]
      BY <2>1, <3>1, <3>3
    <3>6. tok'[r].left = tok[r].left - 1 /\ tok'[r].age = tok[r].age + 1
      BY <2>1, <3>5
    <3>7. tok'[r].left + tok'[r].age = tok[r].left + tok[r].age
      BY <2>1, <3>6, OIDCAssumption
    <3> QED
      BY <2>1, <3>2, <3>3, <3>4, <3>5, <3>7
  <2>3. CASE tok[r].st # "sound"
    BY <2>1, <2>3 DEF Tick
  <2> QED
    BY <2>2, <2>3
<1>3. tok' \in [Callers -> Tok]
  BY <1>2 DEF Tick
<1> QED
  BY <1>1, <1>2, <1>3 DEF TokensFine, OIDCTypeOK, TokenInv

(***************************************************************************)
(* Requests.                                                               *)
(***************************************************************************)

\* One request moves, and with it perhaps the lock; sessions and connection stay.
LEMMA MoveKeeps ==
  ASSUME ConnectionInv, NEW c \in Callers, NEW x \in Request, Counted(x),
         call' = [call EXCEPT ![c] = x], UNCHANGED <<conn, session, closing>>,
         \/ lock' = lock /\ (x.pc \in Locked <=> call[c].pc \in Locked)
         \/ lock = Free /\ lock' = c /\ x.pc \in Locked
         \/ lock = c /\ lock' = Free /\ x.pc \notin Locked,
         x.pc = "connect" => call[c].pc = "connect" \/ conn.transport \notin SDK,
         TokensFine'
  PROVE  ConnectionInv'
<1>1. TypeOK'
  BY DEF ConnectionInv, TypeOK, TokensFine
<1>2. ASSUME NEW d \in Callers PROVE Counted(call[d])'
  <2>1. Counted(call'[d])
    BY DEF ConnectionInv, TypeOK
  <2> QED
    BY <2>1 DEF Counted
<1>3. LockInv'
  BY ConnectionAssumption DEF ConnectionInv, TypeOK, LockInv
<1>4. SessionInv'
  BY DEF ConnectionInv, TypeOK, SessionInv, NoSessionLeaked
<1> QED
  BY <1>1, <1>2, <1>3, <1>4 DEF ConnectionInv, TokensFine

\* The cached token is sound, and stays so while nobody touches it.
LEMMA TokensNow ==
  ASSUME ConnectionInv
  PROVE  TokensFine /\ (UNCHANGED <<cache, tok>> => TokensFine')
BY DEF ConnectionInv, TypeOK, TokensFine, OIDCTypeOK, TokenInv

\* The record of a caller with no request is well-typed.
LEMMA IdleIsRequest == IdleCall \in Request
<1>1. 0 \in 0 .. Foreign /\ 0 \in 0 .. MaxPages - 1
  BY ConnectionAssumption DEF Foreign
<1> QED
  BY <1>1 DEF IdleCall, Request, Methods

\* A request that is under way returns, whatever the result.
LEMMA EndKeeps ==
  ASSUME ConnectionInv, NEW c \in Callers, NEW result, End(c, result),
         result \in {"none", "ok", "error", "closed", "notfound"},
         call[c].pc # "idle", UNCHANGED <<conn, session, closing, cache>>,
         \/ lock' = lock /\ call[c].pc \notin Locked
         \/ lock' = Free /\ call[c].pc \in Locked
  PROVE  ConnectionInv'
<1> DEFINE x == [IdleCall EXCEPT !.pc = "done", !.result = result,
                                 !.execs = call[c].execs, !.text = call[c].text]
<1>1. call[c] \in Request /\ Counted(call[c])
  BY DEF ConnectionInv, TypeOK
<1>2. x \in Request
  BY <1>1, IdleIsRequest DEF Request
<1>3. x.pc = "done" /\ x.execs = call[c].execs /\ x.text = call[c].text /\ x.method = "call"
  BY DEF IdleCall
<1>4. Counted(x)
  BY <1>1, <1>3 DEF Counted, Locked, Request
<1>5. TokensFine'
  BY TokensNow, TokenDropped DEF End
<1>6. call' = [call EXCEPT ![c] = x]
  BY DEF End
<1>7. \/ lock' = lock /\ (x.pc \in Locked <=> call[c].pc \in Locked)
      \/ lock = c /\ lock' = Free /\ x.pc \notin Locked
  BY <1>3 DEF Locked, ConnectionInv, LockInv
<1> HIDE DEF x
<1> QED
  BY <1>2, <1>3, <1>4, <1>5, <1>6, <1>7, MoveKeeps

\* A caller takes up a request.
LEMMA SendRequestKeeps ==
  ASSUME ConnectionInv, NEW c \in Callers, SendRequest(c)
  PROVE  ConnectionInv'
<1>1. PICK m \in Methods, id \in BOOLEAN :
        call' = [call EXCEPT ![c] = [IdleCall EXCEPT !.pc = "snapshot", !.method = m, !.ctxID = id]]
  BY DEF SendRequest
<1> DEFINE x == [IdleCall EXCEPT !.pc = "snapshot", !.method = m, !.ctxID = id]
<1>2. x \in Request
  BY IdleIsRequest DEF Request
<1>3. x.pc = "snapshot" /\ x.execs = 0 /\ x.attempt = 1
  BY DEF IdleCall
<1>4. Counted(x)
  BY <1>3 DEF Counted, Locked, SendRequest
<1>5. call[c].pc \notin Locked /\ UNCHANGED <<conn, session, closing, lock, cache, tok>>
  BY DEF SendRequest, Locked
<1>6. call' = [call EXCEPT ![c] = x]
  BY <1>1
<1> HIDE DEF x
<1> QED
  BY <1>2, <1>3, <1>4, <1>5, <1>6, MoveKeeps, TokensNow DEF Locked

\* A request that only goes to another place keeps its counts: nothing it is
\* judged by there is stronger than where it was.
LEMMA GoKeeps ==
  ASSUME ConnectionInv, NEW c \in Callers, NEW x \in Request,
         call' = [call EXCEPT ![c] = x], UNCHANGED <<conn, session, closing, lock>>,
         call[c].pc \notin {"idle"} \cup Locked, x.pc \notin {"idle"} \cup Locked,
         Counted(call[c]) => Counted(x), TokensFine'
  PROVE  ConnectionInv'
<1>1. Counted(x)
  BY DEF ConnectionInv
<1> QED
  BY <1>1, MoveKeeps DEF Locked

\* It reads the session it will send.
LEMMA SnapshotKeeps ==
  ASSUME ConnectionInv, NEW c \in Callers, Snapshot(c)
  PROVE  ConnectionInv'
<1> DEFINE x == [call[c] EXCEPT !.pc = "issue", !.sess = SessionHeader(c)]
<1>1. call[c] \in Request /\ conn.session \in 0 .. MaxSessions
  BY DEF ConnectionInv, TypeOK
<1>2. SessionHeader(c) \in 0 .. Foreign
  BY <1>1, ConnectionAssumption DEF SessionHeader, Foreign
<1>3. x \in Request
  BY <1>1, <1>2 DEF Request
<1>4. call' = [call EXCEPT ![c] = x]
  BY DEF Snapshot, ConnectionInv, TypeOK
<1>5. /\ x.pc = "issue" /\ call[c].pc = "snapshot"
      /\ x.execs = call[c].execs /\ x.attempt = call[c].attempt
      /\ x.text = call[c].text /\ x.method = call[c].method
  BY <1>1 DEF Snapshot, Request
<1>6. Counted(call[c]) => Counted(x)
  BY <1>5 DEF Counted, Locked
<1> HIDE DEF x
<1> QED
  BY <1>3, <1>4, <1>5, <1>6, GoKeeps, TokensNow DEF Locked, Snapshot

\* It sends the request with the token it holds.
LEMMA IssueKeeps ==
  ASSUME ConnectionInv, NEW c \in Callers, Issue(c)
  PROVE  ConnectionInv'
<1> DEFINE x == [call[c] EXCEPT !.pc = "wire"]
<1>1. call[c] \in Request
  BY DEF ConnectionInv, TypeOK
<1>2. x \in Request
  BY <1>1 DEF Request, InFlightPcs
<1>3. call' = [call EXCEPT ![c] = x]
  BY DEF Issue, ConnectionInv, TypeOK
<1>4. /\ x.pc = "wire" /\ call[c].pc = "issue"
      /\ x.execs = call[c].execs /\ x.attempt = call[c].attempt
      /\ x.text = call[c].text /\ x.method = call[c].method
  BY <1>1 DEF Issue, Request
<1>5. Counted(call[c]) => Counted(x)
  BY <1>4 DEF Counted, Locked
<1>6. TokensFine'
  BY TokensNow, TokenAttached DEF Issue
<1> HIDE DEF x
<1> QED
  BY <1>2, <1>3, <1>4, <1>5, <1>6, GoKeeps DEF Locked, Issue

\* "session not found": the request reconnects if it has not yet, and returns else.
LEMMA NotFoundKeeps ==
  ASSUME ConnectionInv, NEW c \in Callers, NotFound(c), call[c].pc = "wire",
         UNCHANGED <<conn, session, lock, closing, cache>>
  PROVE  ConnectionInv'
<1>1. CASE conn.transport \in HTTP /\ call[c].attempt = 1
  <2> DEFINE x == [call[c] EXCEPT !.pc = "lock"]
  <2>1. call[c] \in Request
    BY DEF ConnectionInv, TypeOK
  <2>2. x \in Request
    BY <2>1 DEF Request
  <2>3. call' = [call EXCEPT ![c] = x]
    BY <1>1 DEF NotFound, ConnectionInv, TypeOK
  <2>4. /\ x.pc = "lock" /\ x.execs = call[c].execs /\ x.attempt = call[c].attempt
        /\ x.text = call[c].text /\ x.method = call[c].method
    BY <2>1 DEF Request
  <2>5. Counted(call[c]) => Counted(x)
    BY <1>1, <2>1, <2>4 DEF Counted, Locked, Request
  <2>6. TokensFine'
    BY <1>1, TokensNow, TokenDropped DEF NotFound
  <2> HIDE DEF x
  <2> QED
    BY <2>2, <2>3, <2>4, <2>5, <2>6, GoKeeps DEF Locked
<1>2. CASE ~(conn.transport \in HTTP /\ call[c].attempt = 1)
  BY <1>2, EndKeeps DEF NotFound, Locked
<1> QED
  BY <1>1, <1>2

\* The backend receives the request.
LEMMA ArriveKeeps ==
  ASSUME ConnectionInv, NEW c \in Callers, Arrive(c)
  PROVE  ConnectionInv'
<1>1. CASE Known(call[c].sess)
  <2> DEFINE n == IF call[c].method = "call" THEN call[c].execs + 1 ELSE call[c].execs
  <2> DEFINE x == [call[c] EXCEPT !.pc = "await", !.execs = n]
  <2>1. call[c] \in Request /\ Counted(call[c]) /\ call[c].pc = "wire"
    BY DEF ConnectionInv, TypeOK, Arrive
  <2>2. n \in 0 .. 2 /\ n <= call[c].attempt /\ (n > 1 => call[c].text)
        /\ (call[c].method = "list" => n = 0)
    BY <2>1 DEF Counted, Request
  <2>3. call' = [call EXCEPT ![c] = x]
    BY <1>1 DEF Arrive, ConnectionInv, TypeOK
  <2> HIDE DEF n
  <2>4. x \in Request
    BY <2>1, <2>2 DEF Request, InFlightPcs
  <2>5. /\ x.pc = "await" /\ x.execs = n /\ x.attempt = call[c].attempt
        /\ x.text = call[c].text /\ x.method = call[c].method
    BY <2>1 DEF Request
  <2>6. Counted(x)
    BY <2>1, <2>2, <2>5 DEF Counted, Locked
  <2>7. TokensFine'
    BY <1>1, TokensNow, TokenDropped DEF Arrive
  <2> HIDE DEF x
  <2> QED
    BY <2>1, <2>3, <2>4, <2>5, <2>6, <2>7, GoKeeps DEF Locked, Arrive
<1>2. CASE ~Known(call[c].sess)
  BY <1>2, NotFoundKeeps DEF Arrive
<1> QED
  BY <1>1, <1>2

\* An executed request is answered by an error that mentions its session.
LEMMA ReplyMentionsSessionKeeps ==
  ASSUME ConnectionInv, NEW c \in Callers, ReplyMentionsSession(c)
  PROVE  ConnectionInv'
<1>1. CASE conn.transport \in HTTP /\ call[c].attempt = 1
  <2> DEFINE x == [call[c] EXCEPT !.pc = "lock", !.text = TRUE]
  <2>1. call[c] \in Request /\ Counted(call[c])
    BY DEF ConnectionInv, TypeOK
  <2>2. x \in Request
    BY <2>1 DEF Request
  <2>3. call' = [call EXCEPT ![c] = x]
    BY <1>1 DEF ReplyMentionsSession, ConnectionInv, TypeOK
  <2>4. /\ x.pc = "lock" /\ x.execs = call[c].execs /\ x.attempt = call[c].attempt
        /\ x.text /\ x.method = "call" /\ call[c].pc = "await"
    BY <2>1 DEF Request, ReplyMentionsSession
  <2>5. Counted(x)
    BY <1>1, <2>1, <2>4 DEF Counted, Locked, Request
  <2> HIDE DEF x
  <2> QED
    BY <1>1, <2>2, <2>3, <2>4, <2>5, GoKeeps, TokensNow DEF Locked, ReplyMentionsSession
<1>2. CASE ~(conn.transport \in HTTP /\ call[c].attempt = 1)
  BY <1>2, EndKeeps DEF ReplyMentionsSession, Locked
<1> QED
  BY <1>1, <1>2

\* The backend answers a list request.
LEMMA ReplyToListKeeps ==
  ASSUME ConnectionInv, NEW c \in Callers, ReplyToList(c)
  PROVE  ConnectionInv'
<1>1. ASSUME NEW result \in {"ok", "error"}, End(c, result) PROVE ConnectionInv'
  BY <1>1, EndKeeps DEF ReplyToList, Locked
<1>2. ASSUME NEW n \in Cursors, call[c].page + 1 < MaxPages, UNCHANGED tok,
             call' = [call EXCEPT ![c].pc = "snapshot", ![c].page = @ + 1, ![c].seen = @ \cup {n}]
      PROVE  ConnectionInv'
  <2> DEFINE x == [call[c] EXCEPT !.pc = "snapshot", !.page = call[c].page + 1,
                                  !.seen = call[c].seen \cup {n}]
  <2>1. call[c] \in Request /\ Counted(call[c])
    BY DEF ConnectionInv, TypeOK
  <2>2. call[c].page + 1 \in 0 .. MaxPages - 1
    BY <1>2, <2>1, ConnectionAssumption DEF Request
  <2>3. x \in Request
    BY <2>1, <2>2 DEF Request
  <2>4. call' = [call EXCEPT ![c] = x]
    BY <1>2 DEF ConnectionInv, TypeOK
  <2>5. /\ x.pc = "snapshot" /\ x.execs = call[c].execs /\ x.attempt = call[c].attempt
        /\ x.method = "list" /\ call[c].method = "list" /\ call[c].pc = "await"
    BY <2>1 DEF Request, ReplyToList
  <2>6. Counted(x)
    BY <2>1, <2>5 DEF Counted, Locked, Request
  <2> HIDE DEF x
  <2> QED
    BY <1>2, <2>3, <2>4, <2>5, <2>6, GoKeeps, TokensNow DEF Locked, ReplyToList
<1>3. \A n \in Cursors : ~(call[c].page + 1 >= MaxPages) => call[c].page + 1 < MaxPages
  BY ConnectionAssumption DEF ConnectionInv, TypeOK, Request
<1> QED
  BY <1>1, <1>2, <1>3 DEF ReplyToList

\* The lock is free when it is taken: no other caller is between close and connect.
LEMMA TakeReconnectLockKeeps ==
  ASSUME ConnectionInv, NEW c \in Callers, TakeReconnectLock(c)
  PROVE  ConnectionInv'
<1> DEFINE to == IF conn.transport = "plain" THEN "connect" ELSE "close_old"
<1> DEFINE x == [call[c] EXCEPT !.pc = to]
<1>1. call[c] \in Request /\ Counted(call[c])
  BY DEF ConnectionInv, TypeOK
<1>2. x \in Request
  BY <1>1 DEF Request
<1>3. call' = [call EXCEPT ![c] = x]
  BY DEF TakeReconnectLock, ConnectionInv, TypeOK
<1>4. /\ x.pc \in Locked /\ call[c].pc = "lock"
      /\ x.execs = call[c].execs /\ x.attempt = call[c].attempt
      /\ x.text = call[c].text /\ x.method = call[c].method
      /\ x.pc = "connect" => conn.transport = "plain"
  BY <1>1 DEF Request, TakeReconnectLock, Locked
<1>5. Counted(x)
  BY <1>1, <1>4 DEF Counted, Locked, Request
<1>6. x.pc = "connect" => conn.transport \notin SDK
  BY <1>4 DEF SDK
<1>7. lock = Free /\ lock' = c /\ UNCHANGED <<conn, session, closing, cache, tok>>
  BY DEF TakeReconnectLock
<1> HIDE DEF x
<1> QED
  BY <1>2, <1>3, <1>4, <1>5, <1>6, <1>7, MoveKeeps, TokensNow

(***************************************************************************)
(* Sessions.                                                               *)
(***************************************************************************)

\* The session closed before the reconnect is the only one that could be open.
LEMMA CloseOldSessionKeeps ==
  ASSUME ConnectionInv, NEW c \in Callers, CloseOldSession(c)
  PROVE  ConnectionInv'
<1> DEFINE x == [call[c] EXCEPT !.pc = "connect"]
<1>1. call[c] \in Request /\ Counted(call[c]) /\ call[c].pc = "close_old"
  BY DEF ConnectionInv, TypeOK, CloseOldSession
<1>2. x \in Request
  BY <1>1 DEF Request
<1>3. call' = [call EXCEPT ![c] = x]
  BY DEF CloseOldSession, ConnectionInv, TypeOK
<1>4. /\ x.pc = "connect"
      /\ x.execs = call[c].execs /\ x.attempt = call[c].attempt
      /\ x.text = call[c].text /\ x.method = call[c].method
  BY <1>1 DEF Request
<1>5. Counted(x)
  BY <1>1, <1>4 DEF Counted, Locked, Request
<1>6. conn.transport \in SDK => \A s \in Sessions : session'[s] # "open"
  BY <1>1 DEF CloseOldSession, ConnectionInv, TypeOK, SessionInv, NoSessionLeaked, Counted
<1> HIDE DEF x
<1>7. TypeOK'
  <2>1. call' \in [Callers -> Request]
    BY <1>2, <1>3 DEF ConnectionInv, TypeOK
  <2> QED
    BY <2>1, TokensNow DEF CloseOldSession, ConnectionInv, TypeOK, TokensFine
<1>8. ASSUME NEW d \in Callers PROVE Counted(call[d])'
  <2>1. Counted(call'[d])
    BY <1>3, <1>5 DEF ConnectionInv, TypeOK
  <2> QED
    BY <2>1 DEF CloseOldSession, Counted
<1>9. LockInv'
  BY <1>1, <1>3, <1>4 DEF CloseOldSession, ConnectionInv, TypeOK, LockInv, Locked
<1>10. SessionInv'
  BY <1>1, <1>6 DEF CloseOldSession, ConnectionInv, TypeOK, SessionInv, NoSessionLeaked, Counted
<1>11. TokenInv'
  BY DEF CloseOldSession, ConnectionInv, TokenInv
<1> QED
  BY <1>7, <1>8, <1>9, <1>10, <1>11 DEF ConnectionInv

\* A new session is the connection's own, and the only one that is open: Close has
\* not begun, as its first step would have made the connect attempt fail.
LEMMA ReconnectedKeeps ==
  ASSUME ConnectionInv, NEW c \in Callers, Reconnected(c)
  PROVE  ConnectionInv'
<1> DEFINE x == [call[c] EXCEPT !.pc = "snapshot", !.attempt = 2, !.page = 0, !.seen = {}]
<1>1. call[c] \in Request /\ Counted(call[c]) /\ call[c].pc = "connect" /\ lock = c
  BY DEF ConnectionInv, TypeOK, Reconnected, LockInv, Locked
<1>2. x \in Request
  <2>1. 0 \in 0 .. MaxPages - 1 /\ 2 \in 1 .. 2 /\ {} \in SUBSET Cursors
    BY ConnectionAssumption
  <2>2. "snapshot" \in {"idle", "snapshot", "issue", "lock", "close_old", "connect", "done"}
    OBVIOUS
  <2> QED
    BY <1>1, <2>1, <2>2 DEF Request
<1>3. call' = [call EXCEPT ![c] = x]
  BY DEF Reconnected, Retry, ConnectionInv, TypeOK
<1>4. /\ x.pc = "snapshot" /\ x.attempt = 2
      /\ x.execs = call[c].execs /\ x.text = call[c].text /\ x.method = call[c].method
  BY <1>1 DEF Request
<1>5. Counted(x)
  BY <1>1, <1>4 DEF Counted, Locked, Request
<1> HIDE DEF x
<1>6. closing = "no" /\ closing' = "no"
  BY DEF Reconnected, ConnectionInv, SessionInv
<1>7. \/ /\ Unused # {}
         /\ session' = [session EXCEPT ![NextSession] = "open"]
         /\ conn' = [conn EXCEPT !.session = NextSession]
      \/ /\ conn.transport = "plain"
         /\ conn' = [conn EXCEPT !.session = 0] /\ session' = session
  BY DEF Reconnected
<1>8. conn.state = "up" /\ conn'.state = "up" /\ conn'.transport = conn.transport
  BY <1>1, <1>7 DEF Counted, ConnectionInv, TypeOK
<1>9. TypeOK'
  <2>1. call' \in [Callers -> Request]
    BY <1>2, <1>3 DEF ConnectionInv, TypeOK
  <2>2. Unused # {} => NextSession \in 0 .. MaxSessions
    BY NextSessionUnused, ConnectionAssumption DEF Sessions
  <2>3. 0 \in 0 .. MaxSessions
    BY ConnectionAssumption
  <2>4. conn' \in [state : {"connecting", "up", "failed"}, transport : SDK \cup HTTP,
                    session : 0 .. MaxSessions, cancelled : BOOLEAN, oidc : BOOLEAN]
    BY <1>7, <2>2, <2>3 DEF ConnectionInv, TypeOK
  <2>5. session' \in [Sessions -> {"unused", "open", "expired", "closed"}]
    BY <1>7 DEF ConnectionInv, TypeOK
  <2> QED
    BY <2>1, <2>4, <2>5, TokensNow DEF Reconnected, ConnectionInv, TypeOK, TokensFine
<1>10. ASSUME NEW d \in Callers PROVE Counted(call[d])'
  <2>1. Counted(call'[d])
    BY <1>3, <1>5 DEF ConnectionInv, TypeOK
  <2> QED
    BY <1>8, <2>1 DEF Counted
<1>11. LockInv'
  BY <1>1, <1>3, <1>4, ConnectionAssumption DEF Reconnected, ConnectionInv, TypeOK, LockInv, Locked
<1>12. SessionInv'
  <2>1. \A d \in Callers : call'[d].pc # "connect"
    BY <1>1, <1>3, <1>4 DEF ConnectionInv, TypeOK, LockInv, Locked
  <2>2. CASE conn.transport \in SDK
    <3>1. /\ NextSession \in Sessions /\ conn'.session = NextSession
          /\ session' = [session EXCEPT ![NextSession] = "open"]
      BY <1>7, <2>2, NextSessionUnused DEF SDK, ConnectionInv, TypeOK
    <3>2. \A s \in Sessions : session[s] # "open"
      BY <1>1, <2>2 DEF ConnectionInv, SessionInv
    <3>3. \A s \in Sessions : session'[s] = "open" => s = conn'.session
      BY <3>1, <3>2 DEF ConnectionInv, TypeOK
    <3> QED
      BY <1>6, <1>8, <2>1, <3>1, <3>3 DEF SessionInv, NoSessionLeaked
  <2>3. CASE conn.transport \notin SDK
    BY <1>6, <1>8, <2>1, <2>3 DEF SessionInv, NoSessionLeaked
  <2> QED
    BY <2>2, <2>3
<1>13. TokenInv'
  BY DEF Reconnected, ConnectionInv, TokenInv
<1> QED
  BY <1>9, <1>10, <1>11, <1>12, <1>13 DEF ConnectionInv

\* The calls are left alone; the state of the connection does not leave "up".
LEMMA CallsKeep ==
  ASSUME ConnectionInv, UNCHANGED <<call, lock>>, conn.state = "up" => conn'.state = "up"
  PROVE  (\A d \in Callers : Counted(call[d])') /\ LockInv'
<1>1. ASSUME NEW d \in Callers PROVE Counted(call[d])'
  BY DEF ConnectionInv, Counted
<1> QED
  BY <1>1 DEF ConnectionInv, LockInv

\* The first session of a connection; no request is under way yet.
LEMMA OpenFirstSessionKeeps ==
  ASSUME ConnectionInv, OpenFirstSession
  PROVE  ConnectionInv'
<1>1. NextSession \in Sessions /\ NextSession \in 0 .. MaxSessions
  BY NextSessionUnused, ConnectionAssumption DEF OpenFirstSession, Sessions
<1>2. TypeOK'
  BY <1>1, TokensNow DEF OpenFirstSession, ConnectionInv, TypeOK, TokensFine
<1>3. /\ conn.state = "connecting" /\ conn'.state = "up"
      /\ conn'.transport = conn.transport /\ conn'.session = NextSession
  BY DEF OpenFirstSession, ConnectionInv, TypeOK
<1>4. \A s \in Sessions : session'[s] = "open" => s = NextSession
  BY <1>3 DEF OpenFirstSession, ConnectionInv, TypeOK, SessionInv
<1>5. closing' = "no" /\ \A c \in Callers : call'[c].pc = "idle"
  BY <1>3 DEF OpenFirstSession, ConnectionInv, SessionInv, Counted
<1>6. SessionInv'
  BY <1>1, <1>3, <1>4, <1>5 DEF SessionInv, NoSessionLeaked
<1> QED
  BY <1>2, <1>3, <1>6, CallsKeep, TokensNow DEF OpenFirstSession, ConnectionInv, TokensFine

\* A connection that is not up yet stays without sessions when nothing opens one.
LEMMA StillDownKeeps ==
  ASSUME ConnectionInv, conn.state = "connecting", TypeOK', conn'.state # "up",
         UNCHANGED <<session, lock, call, closing, cache, tok>>
  PROVE  ConnectionInv'
<1>1. SessionInv'
  BY DEF ConnectionInv, TypeOK, SessionInv, NoSessionLeaked, Counted
<1> QED
  BY <1>1, CallsKeep, TokensNow DEF ConnectionInv, TokensFine

\* The first connection, by any of the transports.
LEMMA ConnectKeeps ==
  ASSUME ConnectionInv, Connect
  PROVE  ConnectionInv'
<1>1. CASE ConnectStdio \/ ConnectSDK
  BY <1>1, OpenFirstSessionKeeps DEF ConnectStdio, ConnectSDK
<1>2. CASE ConnectPlain
  <2>1. CASE OpenFirstSession
    BY <2>1, OpenFirstSessionKeeps
  <2>2. CASE /\ conn.state = "connecting" /\ conn' = [conn EXCEPT !.state = "up"]
             /\ UNCHANGED <<session, lock, call, closing, cache, tok>>
    <3>1. TypeOK'
      BY <2>2, TokensNow DEF ConnectionInv, TypeOK, TokensFine
    <3>2. conn'.state = "up" /\ conn'.transport \notin SDK
      BY <1>2, <2>2 DEF ConnectPlain, ConnectionInv, TypeOK, SDK
    <3>3. closing' = "no"
      BY <2>2 DEF ConnectionInv, SessionInv
    <3>4. SessionInv'
      BY <3>2, <3>3 DEF SessionInv, NoSessionLeaked
    <3> QED
      BY <2>2, <3>1, <3>2, <3>4, CallsKeep, TokensNow DEF ConnectionInv, TokensFine
  <2> QED
    BY <1>2, <2>1, <2>2 DEF ConnectPlain
<1>3. CASE ConnectFails
  <2>1. conn' \in [state : {"connecting", "failed"}, transport : SDK \cup HTTP,
                   session : 0 .. MaxSessions, cancelled : BOOLEAN, oidc : BOOLEAN]
    BY <1>3 DEF ConnectFails, Fallback, ConnectionInv, TypeOK, SDK, HTTP
  <2>2. TypeOK' /\ conn'.state # "up"
    BY <1>3, <2>1, TokensNow DEF ConnectFails, ConnectionInv, TypeOK, TokensFine
  <2> QED
    BY <1>3, <2>2, StillDownKeeps DEF ConnectFails
<1>4. CASE BadCARoots
  <2>1. TypeOK' /\ conn'.state # "up"
    BY <1>4, TokensNow DEF BadCARoots, ConnectionInv, TypeOK, TokensFine
  <2> QED
    BY <1>4, <2>1, StillDownKeeps DEF BadCARoots
<1> QED
  BY <1>1, <1>2, <1>3, <1>4 DEF Connect

\* Close: the context is cancelled, the lock waited for, the session closed.
LEMMA CloseKeeps ==
  ASSUME ConnectionInv, CancelContext \/ CloseStep
  PROVE  ConnectionInv'
<1>1. CASE CancelContext
  <2>1. TypeOK'
    BY <1>1, TokensNow DEF CancelContext, ConnectionInv, TypeOK, TokensFine
  <2>2. SessionInv'
    BY <1>1 DEF CancelContext, ConnectionInv, TypeOK, SessionInv, NoSessionLeaked
  <2>3. conn'.state = "up"
    BY <1>1 DEF CancelContext, ConnectionInv, TypeOK
  <2> QED
    BY <1>1, <2>1, <2>2, <2>3, CallsKeep, TokensNow DEF CancelContext, ConnectionInv, TokensFine
<1>2. CASE ReadSessionToClose
  <2>1. TypeOK'
    BY <1>2, TokensNow DEF ReadSessionToClose, ConnectionInv, TypeOK, TokensFine
  <2>2. SessionInv'
    BY <1>2 DEF ReadSessionToClose, ConnectionInv, TypeOK, SessionInv, NoSessionLeaked
  <2> QED
    BY <1>2, <2>1, <2>2, CallsKeep, TokensNow DEF ReadSessionToClose, ConnectionInv, TokensFine
<1>3. CASE CloseSession
  <2>1. TypeOK'
    BY <1>3, TokensNow DEF CloseSession, ConnectionInv, TypeOK, TokensFine
  <2>2. SessionInv'
    BY <1>3 DEF CloseSession, ConnectionInv, TypeOK, SessionInv, NoSessionLeaked
  <2> QED
    BY <1>3, <2>1, <2>2, CallsKeep, TokensNow DEF CloseSession, ConnectionInv, TokensFine
<1> QED
  BY <1>1, <1>2, <1>3 DEF CloseStep

\* Expiring sessions and the clock keep the invariant.
LEMMA EnvironmentKeeps ==
  ASSUME ConnectionInv, Expire \/ TimePasses
  PROVE  ConnectionInv'
<1>1. CASE Expire
  <2>1. TypeOK'
    BY <1>1, TokensNow DEF Expire, ConnectionInv, TypeOK, TokensFine
  <2>2. SessionInv'
    BY <1>1 DEF Expire, ConnectionInv, TypeOK, SessionInv, NoSessionLeaked
  <2> QED
    BY <1>1, <2>1, <2>2, CallsKeep, TokensNow DEF Expire, ConnectionInv, TokensFine
<1>2. CASE TimePasses
  <2>1. TokensFine'
    BY <1>2, TokensNow, TokensAge DEF TimePasses
  <2>2. TypeOK' /\ SessionInv'
    BY <1>2, <2>1 DEF TimePasses, ConnectionInv, TypeOK, TokensFine, SessionInv, NoSessionLeaked
  <2> QED
    BY <1>2, <2>1, <2>2, CallsKeep DEF TimePasses, ConnectionInv, TokensFine
<1> QED
  BY <1>1, <1>2

\* Every step of a request.
LEMMA CallStepKeeps ==
  ASSUME ConnectionInv, NEW c \in Callers, CallStep(c)
  PROVE  ConnectionInv'
<1>1. CASE BadParams(c) \/ RefusedByClosed(c) \/ IssueWithoutToken(c) \/ RequestFails(c)
  BY <1>1, EndKeeps DEF BadParams, RefusedByClosed, IssueWithoutToken, RequestFails, Locked
<1>2. CASE ReplyToCall(c, "ok") \/ ReplyToCall(c, "error")
  BY <1>2, EndKeeps DEF ReplyToCall, Locked
<1>3. CASE ReconnectFails(c)
  BY <1>3, EndKeeps DEF ReconnectFails, Locked
<1> QED
  BY <1>1, <1>2, <1>3, SnapshotKeeps, IssueKeeps, ArriveKeeps, ReplyMentionsSessionKeeps,
     ReplyToListKeeps, TakeReconnectLockKeeps, CloseOldSessionKeeps, ReconnectedKeeps
  DEF CallStep

\* A connection without a session: the invariant holds.
LEMMA InitHolds == Init => ConnectionInv
<1> SUFFICES ASSUME Init PROVE ConnectionInv
  OBVIOUS
<1>1. PICK t \in {"stdio", "streamable"}, o \in BOOLEAN :
        conn = [state |-> "connecting", transport |-> t, session |-> 0,
                cancelled |-> FALSE, oidc |-> o]
  BY DEF Init
<1>2. OIDCTypeOK
  BY OIDCAssumption DEF Init, OIDCInit, OIDCTypeOK, NoCache, NoToken
<1>3. TypeOK
  BY <1>1, <1>2, IdleIsRequest, ConnectionAssumption DEF Init, TypeOK, SDK, HTTP
<1>4. \A c \in Callers : Counted(call[c])
  <2>1. IdleCall.pc = "idle" /\ IdleCall.execs = 0
    BY DEF IdleCall
  <2>2. Counted(IdleCall)
    BY <2>1 DEF Counted, Locked
  <2> QED
    BY <2>2 DEF Init
<1>5. LockInv
  BY ConnectionAssumption DEF Init, LockInv, IdleCall, Locked
<1>6. SessionInv
  BY <1>1 DEF Init, SessionInv, NoSessionLeaked, IdleCall
<1>7. TokenInv
  BY DEF Init, OIDCInit, TokenInv, NoToken
<1> QED
  BY <1>3, <1>4, <1>5, <1>6, <1>7 DEF ConnectionInv

\* ConnectionInv is an invariant of the specification.
THEOREM ConnectionInvariant == Spec => []ConnectionInv
<1>1. ConnectionInv /\ [Next]_vars => ConnectionInv'
  <2> SUFFICES ASSUME ConnectionInv, [Next]_vars PROVE ConnectionInv'
    OBVIOUS
  <2>1. CASE UNCHANGED vars
    <3>1. TypeOK' /\ SessionInv'
      BY <2>1, TokensNow
      DEF vars, ConnectionInv, TypeOK, TokensFine, SessionInv, NoSessionLeaked
    <3> QED
      BY <2>1, <3>1, CallsKeep, TokensNow DEF vars, ConnectionInv, TokensFine
  <2>2. CASE Next
    BY <2>2, ConnectKeeps, SendRequestKeeps, CallStepKeeps, CloseKeeps, EnvironmentKeeps DEF Next
  <2> QED
    BY <2>1, <2>2
<1> QED
  BY <1>1, InitHolds, PTL DEF Spec

\* The variables of a connection have their types: a request is executed at most
\* twice, and never asks for more than MaxPages pages (mcp/connection*.go).
THEOREM TypeCorrect == Spec => []TypeOK
<1>1. ConnectionInv => TypeOK
  BY DEF ConnectionInv
<1> QED
  BY <1>1, ConnectionInvariant, PTL

\* However many callers reconnect at once, and whenever Close comes, no session is
\* left open that nobody will close (reconnectSDKTransport, Close).
THEOREM NoLeak == Spec => []NoSessionLeaked
<1>1. ConnectionInv => NoSessionLeaked
  BY DEF ConnectionInv, SessionInv
<1> QED
  BY <1>1, ConnectionInvariant, PTL

\* A call is executed a second time only after an answer that said "session not
\* found" (callSDKMethodWithReconnect, sendHTTPRequest).
THEOREM NoBlindRetry == Spec => []ExecutedOnce
<1>1. ConnectionInv => ExecutedOnce
  BY DEF ConnectionInv, ExecutedOnce, Counted
<1> QED
  BY <1>1, ConnectionInvariant, PTL

\* The refresh margin of Token() suffices for every request that leaves within it,
\* for all lifetimes and margins (oidc/provider.go).
THEOREM TokensArriveValid == Spec => []TokenValidOnArrival
<1>1. ConnectionInv => TokenValidOnArrival
  <2> SUFFICES ASSUME ConnectionInv, NEW r \in Callers, tok[r].st = "sound"
               PROVE  tok[r].left > 0
    BY DEF TokenValidOnArrival
  <2>1. tok[r].left \in 0 .. Life /\ tok[r].age \in 0 .. Margin
    BY DEF ConnectionInv, TypeOK, OIDCTypeOK
  <2> QED
    BY <2>1, OIDCAssumption DEF ConnectionInv, TokenInv
<1> QED
  BY <1>1, ConnectionInvariant, PTL
=============================================================================
