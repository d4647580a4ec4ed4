--------------------------- MODULE DelegatedBearer ----------------------------
(***************************************************************************)
(* What the delegation controller promises about executor bearers, whoever *)
(* serves the requests and however often the process dies: a bearer is     *)
(* accepted from its admission to its end; while the process lives nothing *)
(* brings an ended one back; a new process takes back only bearers whose   *)
(* end was not acknowledged; and an invocation is told of one bearer.      *)
(* Handlers, locks, snapshots and the state file do not exist here.        *)
(***************************************************************************)
EXTENDS FiniteSets

CONSTANTS
  Tokens,      \* executor bearers
  Invocations  \* invocation scope keys

VARIABLES
  up,         \* the gateway runs
  live,       \* bearers the data plane accepts
  seen,       \* bearers ever drawn
  told,       \* [key, token]: what create-or-confirm answered
  ended,      \* bearers whose end was acknowledged
  overridden  \* an operator has reconciled a failed recovery away

vars == <<up, live, seen, told, ended, overridden>>

Init == up = TRUE /\ live = {} /\ seen = {} /\ told = {} /\ ended = {} /\ overridden = FALSE

\* A fresh bearer; it may have expired by the time it is stored.
Admit ==
  /\ up
  /\ \E t \in Tokens \ seen : seen' = seen \union {t} /\ live' \in {live, live \union {t}}
  /\ UNCHANGED <<up, told, ended, overridden>>

\* The answer to create-or-confirm.
Tell ==
  /\ \E k \in Invocations, t \in seen :
       /\ overridden \/ \A d \in told : d.key = k => d.token = t
       /\ told' = told \union {[key |-> k, token |-> t]}
  /\ UNCHANGED <<up, live, seen, ended, overridden>>

\* Revocation, a binding mismatch, expiry.
End ==
  /\ live' \in SUBSET live
  /\ UNCHANGED <<up, seen, told, ended, overridden>>

\* The process dies.
Die ==
  /\ up
  /\ up' = FALSE /\ live' = {}
  /\ UNCHANGED <<seen, told, ended, overridden>>

\* An answer that says a bearer has ended.
Acknowledge ==
  /\ \E T \in SUBSET (seen \ live) : ended' = ended \union T
  /\ UNCHANGED <<up, live, seen, told, overridden>>

\* A new process.
Recover ==
  /\ ~up
  /\ up' = TRUE /\ live' \in SUBSET (seen \ ended)
  /\ UNCHANGED <<seen, told, ended, overridden>>

Override ==
  /\ live = {}
  /\ overridden' = TRUE
  /\ UNCHANGED <<up, live, seen, told, ended>>

Next == Admit \/ Tell \/ End \/ Die \/ Acknowledge \/ Recover \/ Override
Spec == Init /\ [][Next]_vars

===============================================================================
