------------------------------- MODULE MCGateway ------------------------------
EXTENDS Gateway, TLC

MCMessages == {[nonce |-> 1, ts |-> 1]}
MCSymmetry == Permutations(Requests)
MCProcesses == Requests \cup Backends
MCAllowed == [b \in Backends |-> Tools]
MCAdvertised ==
  [b \in Backends |-> IF b \in HTTPBackends THEN {{"t1", "t2"}, {"t2"}} ELSE {{"t1"}}]
\* Two agents, one of them restricted, the other shut out, that sign their requests;
\* a single one without policies or signatures.
MCPolicies ==
  [a \in Agents |->
     CASE a = "a1" -> [servers |-> {"github", "local"}, tools |-> [b \in {"github"} |-> {"t1"}]]
       [] a = "a2" -> [servers |-> {}, tools |-> [b \in {} |-> {}]]]
MCConfigs ==
  {[agents |-> Agents, policies |-> MCPolicies, signed |-> TRUE],
   [agents |-> {"a1"}, policies |-> [a \in {} |-> {}], signed |-> FALSE]}
===============================================================================
