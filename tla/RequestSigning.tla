---------------------------- MODULE RequestSigning ----------------------------
(* Signed requests of the gateway (internal/server/hmac.go): the freshness     *)
(* window of a timestamp and the cache of nonces already used.  A client signs *)
(* a message once; the network, a retry or another copy of it may deliver the  *)
(* same message again.  Time is a number of ticks of one clock.                *)
EXTENDS Integers, FiniteSets

CONSTANTS
  Messages,      \* signed messages a client made: records [nonce, ts]
  MaxAge,        \* hmacMaxAgeSecs, in ticks
  MaxTime        \* bound: the clock stops here

ASSUME SigningAssumption ==
  /\ MaxAge \in Nat /\ MaxTime \in Nat
  /\ \A m \in Messages : m.ts \in Int

VARIABLES
  now,           \* time.Now()
  nonces         \* nonceCache.entries: nonce -> eviction deadline

NonceTTL == 2 * MaxAge

NoNonces == [n \in {} |-> 0]

\* The timestamp lies within MaxAge of the server's clock, on either side.
Fresh(m) == now - m.ts \in -MaxAge .. MaxAge

\* A cache whose entries expire a tick too early.
EvictExpiredEarly(c) ==
  LET kept == {n \in DOMAIN c : now < c[n]} IN [n \in kept |-> c[n]]

\* A deadline equal to the present is kept: only a later clock evicts it.
EvictExpired(c) ==
  LET kept == {n \in DOMAIN c : now <= c[n]} IN [n \in kept |-> c[n]]

Seen(m) == m.nonce \in DOMAIN EvictExpired(nonces)

\* seenNonce: the check made before the body is read.
SeenNonce == nonces' = EvictExpired(nonces)

\* The cache with the nonce of m recorded.
Recorded(c, m) ==
  [n \in DOMAIN c \cup {m.nonce} |-> IF n = m.nonce THEN now + NonceTTL ELSE c[n]]

\* checkAndSet: one critical section; a nonce not seen is recorded.
CheckAndSet(m) ==
  nonces' = IF Seen(m) THEN EvictExpired(nonces) ELSE Recorded(EvictExpired(nonces), m)

SigningInit == now = 0 /\ nonces = NoNonces

Tick == now < MaxTime /\ now' = now + 1

===============================================================================
