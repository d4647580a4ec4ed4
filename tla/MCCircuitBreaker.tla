--------------------------- MODULE MCCircuitBreaker ---------------------------
(***************************************************************************)
(* CircuitBreaker on a small instance: three calls, one of which may hang, *)
(* a threshold of two and resets that lie ahead, now or in the past.       *)
(***************************************************************************)
EXTENDS CircuitBreaker

MCResetDelays == {-1, 2}
=============================================================================
