-------------------------- MODULE MCDelegationStore --------------------------
(***************************************************************************)
(* DelegationStore on a small instance: two invocations of one enclave     *)
(* entry, one dynamic schema slot, and a request that is outside the       *)
(* envelope.                                                               *)
(***************************************************************************)
EXTENDS DelegationStore, TLC

\* The request every other is a variant of.
Base == [run |-> "run", backend |-> "enclave", entry |-> "entry", inv |-> "i1",
         idem |-> "k1", repo |-> "o/a", policy |-> "read-v1", schema |-> "s1",
         ttl |-> 2, deadline |-> 0]

MCRequests ==
  {Base,
   \* another binding for the same invocation
   [Base EXCEPT !.repo = "o/b", !.schema = "s2", !.idem = "k2"],
   \* a second invocation, with a deadline
   [Base EXCEPT !.inv = "i2", !.deadline = 1],
   \* outside the envelope
   [Base EXCEPT !.repo = "x/c"]}

MCEnvelope ==
  [run |-> "run", backend |-> "enclave", repos |-> {"o/a"}, owned |-> {"o/a", "o/b"},
   canonical |-> {"o/a", "o/b", "x/c"}, policy |-> "read-v1", schemas |-> {},
   maxDynamic |-> 1, maxTTL |-> 2, expiresAt |-> 2]

Symmetry == Permutations(Handlers) \union Permutations(Tokens)
=============================================================================
