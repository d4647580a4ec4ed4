---------------------------- MODULE SharedBackends ----------------------------
(***************************************************************************)
(* What the launcher promises those who ask it for a connection, however   *)
(* many ask at once: a server, or a server and a session, has one          *)
(* connection at a time; a connection serves what it was launched for and  *)
(* nothing else, so no session is given another's; one that was withdrawn  *)
(* does not come back; and after the stop nothing serves.  Launches, locks *)
(* and the health monitor do not exist here.  What is given may have been  *)
(* withdrawn since it began to serve.                                      *)
(***************************************************************************)
CONSTANTS
  Users,  \* who asks for connections
  Keys,   \* what a connection serves
  Conns

VARIABLES
  serving,  \* [key, conn] now
  served,   \* and ever
  held,     \* user -> what it was given, one [key, conn] or none
  stopped

vars == <<serving, served, held, stopped>>

Init == serving = {} /\ served = {} /\ held = [u \in Users |-> {}] /\ stopped = FALSE

\* A connection that never served begins to, where nothing does.
Start ==
  /\ ~stopped
  /\ \E k \in Keys, n \in Conns :
       /\ \A b \in serving : b.key # k
       /\ \A b \in served : b.conn # n
       /\ serving' = serving \union {[key |-> k, conn |-> n]}
       /\ served' = served \union {[key |-> k, conn |-> n]}
  /\ UNCHANGED <<held, stopped>>

\* Restart, cleanup.
Withdraw == serving' \in SUBSET serving /\ UNCHANGED <<served, held, stopped>>

\* Those who share a launch are given its connection together.
Give ==
  /\ \E U \in SUBSET Users, b \in served :
       /\ \A u \in U : held[u] = {}
       /\ held' = [u \in Users |-> IF u \in U THEN {b} ELSE held[u]]
  /\ UNCHANGED <<serving, served, stopped>>

Release ==
  /\ \E u \in Users : held' = [held EXCEPT ![u] = {}]
  /\ UNCHANGED <<serving, served, stopped>>

Stop == stopped' = TRUE /\ serving' = {} /\ UNCHANGED <<served, held>>

Next == Start \/ Withdraw \/ Give \/ Release \/ Stop
Spec == Init /\ [][Next]_vars

===============================================================================
