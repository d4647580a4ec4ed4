---------------------------- MODULE OIDCProvider ----------------------------
(***************************************************************************)
(* The token provider of OIDC-authenticated backends (oidc/provider.go):   *)
(* one cached token per audience, refreshed under one mutex, attached by   *)
(* the round tripper to every HTTP request.  One audience is modelled: a   *)
(* connection has one.  A token is the time it has left, as the provider   *)
(* knows it: when the expiry claim cannot be read a default is assumed and *)
(* nothing is said of the token.  Token() holds the mutex from the lookup  *)
(* to the store, over the request to the issuer too: it is one step.       *)
(***************************************************************************)
EXTENDS Naturals

CONSTANTS
  Callers,      \* goroutines that send requests
  Margin,       \* tokenRefreshMargin
  DefaultTTL,   \* the lifetime assumed when the expiry cannot be read
  Life          \* bound: longest lifetime of a token

ASSUME OIDCAssumption ==
  /\ Margin \in Nat \ {0}
  /\ Life \in Nat
  /\ DefaultTTL \in Margin + 1 .. Life

VARIABLES
  cache,        \* Provider.cache[audience]
  tok           \* tok[r]: the token of r's request, and its age since Token()

NoToken == [st |-> "none", left |-> 0, age |-> 0]
NoCache == [left |-> 0, readable |-> FALSE]

\* A token is handed out; "sound": its expiry is known and more than the margin away.
Handed(left, sound) ==
  IF sound THEN [st |-> "sound", left |-> left, age |-> 0] ELSE [NoToken EXCEPT !.st = "unknown"]

OIDCTypeOK ==
  /\ cache \in [left : 0 .. Life, readable : BOOLEAN]
  /\ tok \in [Callers -> [st : {"none", "sound", "unknown"},
                          left : 0 .. Life, age : 0 .. Margin]]

OIDCInit ==
  /\ cache = NoCache
  /\ tok = [r \in Callers |-> NoToken]

\* Mutant: the margin is forgotten.
IsValidToTheEnd(t) == t.left > 0

IsValid(t) == t.left > Margin

\* Token: a cached token with more than the margin left is returned at once.
TokenCached(r) ==
  /\ tok[r].st = "none" /\ IsValid(cache)
  /\ tok' = [tok EXCEPT ![r] = Handed(cache.left, cache.readable)]
  /\ UNCHANGED cache

\* extractJWTExpiry reads the expiry, or the conservative default is taken.
Expiry(left, readable) == IF readable THEN left ELSE DefaultTTL

\* Otherwise a new one is fetched, inside the same critical section.
FetchToken(r) ==
  /\ tok[r].st = "none" /\ ~ IsValid(cache)
  /\ \E left \in 1 .. Life, readable \in BOOLEAN :
       /\ cache' = [left |-> Expiry(left, readable), readable |-> readable]
       /\ tok' = [tok EXCEPT ![r] = Handed(left, readable /\ left > Margin)]

Older(n) == IF n = 0 THEN 0 ELSE n - 1

\* Time passes; a request leaves within the margin after its token was handed out.
Tick ==
  /\ cache.left > 0 \/ \E r \in Callers : tok[r].st = "sound"
  /\ \A r \in Callers : tok[r].st = "sound" => tok[r].age < Margin
  /\ cache' = [cache EXCEPT !.left = Older(@)]
  /\ tok' = [r \in Callers |-> IF tok[r].st = "sound"
                               THEN [tok[r] EXCEPT !.left = Older(@), !.age = @ + 1]
                               ELSE tok[r]]

\* A request whose token's expiry the provider could read reaches the wire, within
\* the refresh margin, with a token that has not expired: the check in Token looks
\* at a moment before the request is sent, and other callers refresh meanwhile.
TokenValidOnArrival ==
  \A r \in Callers : tok[r].st = "sound" => tok[r].left > 0
=============================================================================
