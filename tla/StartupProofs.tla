---------------------------- MODULE StartupProofs -----------------------------
(***************************************************************************)
(* What the start of the gateway guarantees, for any configurations,       *)
(* flags and environment, any servers in any order, and whatever GitHub    *)
(* and the guards' files answer.                                           *)
(*                                                                         *)
(* A server that is registered is scoped only as long as nobody undoes it: *)
(* the global policy is forced again with every server, and the policy of  *)
(* one server stands beside those of the others.  ConfigInv therefore      *)
(* relates the Config at every moment to what was configured, and ScopeInv *)
(* says that what is forced stays forced.                                  *)
(***************************************************************************)
EXTENDS Startup, FiniteSetTheorems, TLAPS

(***************************************************************************)
(* The invariant.                                                          *)
(***************************************************************************)

\* What a loader makes, and what overrides keep of it.
IsConfig(c) ==
  /\ c = [ok |-> TRUE, servers |-> c.servers, guards |-> c.guards, agents |-> c.agents,
          agentPolicies |-> c.agentPolicies, forcePublic |-> c.forcePublic, exempt |-> c.exempt,
          global |-> c.global]
  /\ \A s \in DOMAIN c.servers :
       LET v == c.servers[s] IN
       v = [type |-> v.type, command |-> v.command, containerized |-> v.containerized,
            guard |-> v.guard, policies |-> v.policies]

\* The policy written for a server itself.
Own(c, s) == ParseServerGuardPolicy(s, c.servers[s].policies)

\* The policies of a configuration as they were written.
WellWritten(c) ==
  /\ \A s \in DOMAIN c.servers : IsFiniteSet(DOMAIN c.servers[s].policies) /\ IsPolicy(Own(c, s))
  /\ IsPolicy(c.global)

Authenticated(c) ==
  /\ c.agents # {} /\ c.agents \intersect {"", Unset} = {}
  /\ Cardinality(c.agents) > 1 => c.agents = DOMAIN c.agentPolicies

\* The agents' own allow-only policies can be used as they are.
AgentsValid(c) == \A a \in DOMAIN c.agentPolicies :
  c.agentPolicies[a].allowOnly # NoPolicy => ValidGuardPolicy(c.agentPolicies[a].allowOnly)

\* Forcing changes policies only.
SameButPolicies(b, c) ==
  /\ c.guards = b.guards /\ c.agents = b.agents /\ c.agentPolicies = b.agentPolicies
  /\ c.forcePublic = b.forcePublic /\ c.exempt = b.exempt
  /\ DOMAIN c.servers = DOMAIN b.servers
  /\ \A s \in DOMAIN b.servers : c.servers[s].guard = b.servers[s].guard

\* What forcing may have made of the policies written for a server.
MaybeForced(b, c, s) ==
  \/ c.servers[s].policies = b.servers[s].policies
  \/ /\ Own(b, s).kind = "allow-only"
     /\ c.servers[s].policies = Put(Empty, "allow-only", PublicScope(Own(b, s)))
  \/ /\ Own(b, s) = NoPolicy
     /\ c.servers[s].policies = Put(b.servers[s].policies, "allow-only", PublicScope(NoPolicy))

\* cfg is what was configured, with some of its policies forced: none of a server that is
\* not registered yet.
ForcedFrom(b, c, registered) ==
  /\ SameButPolicies(b, c)
  /\ c.global = b.global \/ (b.global # NoPolicy /\ c.global = PublicScope(b.global))
  /\ \A s \in DOMAIN b.servers :
       /\ MaybeForced(b, c, s)
       /\ s \notin registered => c.servers[s].policies = b.servers[s].policies

Configured == phase \in {"registering", "serving"}

ConfigInv ==
  /\ actual \in {"public", "private"}
  /\ phase = "start" => guards = Empty /\ compiled = {}
  /\ phase = "loaded" => /\ IsConfig(cfg) /\ WellWritten(cfg) /\ Authenticated(cfg) /\ AgentsValid(cfg)
                         /\ guards = Empty /\ compiled = {}
  /\ Configured => /\ IsConfig(before) /\ WellWritten(before) /\ Authenticated(before) /\ AgentsValid(before)
                   /\ IsConfig(cfg) /\ ForcedFrom(before, cfg, DOMAIN guards)
                   /\ DOMAIN guards \subseteq DOMAIN cfg.servers /\ compiled \subseteq DOMAIN guards

\* A policy that grants no more than public repositories, or one that is refused.
Scoped(p) ==
  /\ p # NoPolicy
  /\ ValidGuardPolicy(p) => p.kind = "write-sink" \/ (p.kind = "allow-only" /\ p.repos = "public")
  /\ ~ValidGuardPolicy(p) => p = Invalid

\* A registered server of a workflow whose repository is known to be public.
ServerScoped(c, s) ==
  /\ Scoped(ResolveGuardPolicy(c, s))
  /\ s \in compiled => guards[s] = Wasm
  /\ guards[s] = Wasm => ResolveGuardPolicy(c, s) # Invalid
  /\ guards[s].name = "write-sink" => guards[s].visibility = "public" \/ Exempt(c, s)
  /\ c.global # NoPolicy \/ DOMAIN c.servers[s].policies # {}

ScopeInv ==
  Configured =>
    /\ DOMAIN guards # {} /\ ~ForcingDisabled => visibility # "unasked"
    /\ DOMAIN guards # {} /\ Forced(visibility) =>
         /\ cfg.global # NoPolicy => PublicScope(cfg.global) = cfg.global
         /\ \A s \in DOMAIN guards : ServerScoped(cfg, s)

ServingInv == phase = "serving" => DOMAIN guards = DOMAIN cfg.servers /\ difc = EnableDIFC

StartupInv == ConfigInv /\ ScopeInv /\ ServingInv

(***************************************************************************)
(* Policies.                                                               *)
(***************************************************************************)

\* The kinds of policy are told apart.
LEMMA Kinds ==
  /\ NoPolicy.kind = "none" /\ Invalid.kind = "invalid" /\ NoPolicy # Invalid
  /\ ~ValidGuardPolicy(NoPolicy) /\ ~ValidGuardPolicy(Invalid)
  /\ IsPolicy(NoPolicy) /\ IsPolicy(Invalid)
<1>1. NoPolicy.kind = "none" /\ Invalid.kind = "invalid"
  BY DEF NoPolicy, Invalid
<1> QED
  BY <1>1 DEF ValidGuardPolicy, IsPolicy

\* Forcing to public scope: an allow-only policy keeps its kind and its minimum integrity,
\* a missing one is made, any other stays; forcing again changes nothing.
LEMMA PublicScopeFacts ==
  ASSUME NEW p, IsPolicy(p)
  PROVE  /\ IsPolicy(PublicScope(p)) /\ PublicScope(p) # NoPolicy
         /\ PublicScope(PublicScope(p)) = PublicScope(p)
         /\ p.kind = "allow-only" => /\ PublicScope(p) = [p EXCEPT !.repos = "public"]
                                     /\ PublicScope(p) = AllowOnly("public", p.level)
         /\ p = NoPolicy => PublicScope(p) = AllowOnly("public", 0)
         /\ p.kind \notin {"allow-only", "none"} => PublicScope(p) = p
<1>1. CASE p.kind = "allow-only"
  <2>1. p = AllowOnly(p.repos, p.level)
    BY <1>1, Kinds DEF IsPolicy
  <2>2. PublicScope(p) = [p EXCEPT !.repos = "public"]
    BY <1>1 DEF PublicScope
  <2>3. PublicScope(p) = AllowOnly("public", p.level)
    BY <2>1, <2>2 DEF AllowOnly
  <2>4. /\ AllowOnly("public", p.level).kind = "allow-only"
        /\ AllowOnly("public", p.level).repos = "public" /\ AllowOnly("public", p.level).level = p.level
    BY DEF AllowOnly
  <2>5. PublicScope(AllowOnly("public", p.level)) = AllowOnly("public", p.level)
    BY <2>4 DEF PublicScope, AllowOnly
  <2>6. IsPolicy(AllowOnly("public", p.level))
    BY <2>4 DEF IsPolicy
  <2> QED
    BY <1>1, <2>2, <2>3, <2>4, <2>5, <2>6, Kinds
<1>2. CASE p = NoPolicy
  <2>1. PublicScope(p) = AllowOnly("public", 0)
    BY <1>2, Kinds DEF PublicScope
  <2>2. /\ AllowOnly("public", 0).kind = "allow-only"
        /\ AllowOnly("public", 0).repos = "public" /\ AllowOnly("public", 0).level = 0
    BY DEF AllowOnly
  <2>3. PublicScope(AllowOnly("public", 0)) = AllowOnly("public", 0)
    BY <2>2 DEF PublicScope, AllowOnly
  <2>4. IsPolicy(AllowOnly("public", 0))
    BY <2>2 DEF IsPolicy
  <2> QED
    BY <1>2, <2>1, <2>2, <2>3, <2>4, Kinds
<1>3. CASE p.kind \in {"write-sink", "invalid"}
  <2>1. PublicScope(p) = p
    BY <1>3 DEF PublicScope
  <2> QED
    BY <1>3, <2>1, Kinds
<1> QED
  BY <1>1, <1>2, <1>3, Kinds DEF IsPolicy

\* Validation refuses a policy or leaves it as it is.
LEMMA ValidatedFacts ==
  ASSUME NEW p
  PROVE  /\ Validated(p) = Invalid \/ (Validated(p) = p /\ ValidGuardPolicy(p))
         /\ ValidGuardPolicy(p) => p.kind \in {"write-sink", "allow-only"}
         /\ Validated(p) # NoPolicy
BY Kinds DEF Validated, ValidGuardPolicy

\* What parsing returns: nothing, an error, or a valid policy.
Parsed(p) == p = NoPolicy \/ p = Invalid \/ ValidGuardPolicy(p)

\* A map with a key of the modern form holds a policy, even if a refused one.
LEMMA MapIsParsed ==
  ASSUME NEW raw
  PROVE  /\ Parsed(ParsePolicyMap(raw))
         /\ ParsePolicyMap(raw) = NoPolicy => DOMAIN raw \intersect ModernKeys = {}
         /\ DOMAIN raw = {} => ParsePolicyMap(raw) = NoPolicy
<1> DEFINE keys  == DOMAIN raw
           one   == Validated(raw[CHOOSE k \in keys : TRUE])
           old   == Validated(AllowOnly(raw["repos"], raw["min-integrity"]))
<1>1. ParsePolicyMap(raw) =
        IF keys \intersect ModernKeys # {} THEN IF Cardinality(keys) = 1 THEN one ELSE Invalid
        ELSE IF "repos" \notin keys THEN NoPolicy
        ELSE IF "min-integrity" \notin keys THEN Invalid ELSE old
  BY DEF ParsePolicyMap
<1>2. one # NoPolicy /\ Parsed(one) /\ old # NoPolicy /\ Parsed(old)
  BY ValidatedFacts DEF Parsed
<1> HIDE DEF one, old
<1> QED
  BY <1>1, <1>2, Kinds DEF Parsed

\* The policy of a server: none only if no key of the modern form was written, and only an
\* empty map is sure to hold none.
LEMMA OwnIsParsed ==
  ASSUME NEW s, NEW raw
  PROVE  /\ Parsed(ParseServerGuardPolicy(s, raw))
         /\ ParseServerGuardPolicy(s, raw) = NoPolicy => DOMAIN raw \intersect ModernKeys = {}
         /\ DOMAIN raw = {} => ParseServerGuardPolicy(s, raw) = NoPolicy
<1> DEFINE top    == ParsePolicyMap(raw)
           named  == IF s \notin DOMAIN raw THEN NoPolicy
                     ELSE IF ~raw[s].object THEN Invalid ELSE ParsePolicyMap(raw[s].map)
           only   == CHOOSE k \in DOMAIN raw : TRUE
           single == IF Cardinality(DOMAIN raw) # 1 THEN NoPolicy
                     ELSE IF ~raw[only].object THEN NoPolicy ELSE ParsePolicyMap(raw[only].map)
<1>1. ParseServerGuardPolicy(s, raw) =
        IF top # NoPolicy THEN top ELSE IF named # NoPolicy THEN named ELSE single
  BY DEF ParseServerGuardPolicy
<1>2. /\ Parsed(top) /\ (top = NoPolicy => DOMAIN raw \intersect ModernKeys = {})
      /\ DOMAIN raw = {} => top = NoPolicy
  BY MapIsParsed
<1>3. Parsed(named) /\ Parsed(single)
  BY MapIsParsed, Kinds DEF Parsed
<1>4. DOMAIN raw = {} => named = NoPolicy /\ single = NoPolicy
  BY FS_EmptySet
<1> HIDE DEF top, named, single
<1> QED
  BY <1>1, <1>2, <1>3, <1>4

\* A map that forcing has made from nothing or from an allow-only policy.
LEMMA ForcedMapAlone ==
  ASSUME NEW s, NEW p, ValidGuardPolicy(p)
  PROVE  /\ ParseServerGuardPolicy(s, Put(Empty, "allow-only", p)) = p
         /\ DOMAIN Put(Empty, "allow-only", p) = {"allow-only"}
<1> DEFINE raw == Put(Empty, "allow-only", p)
<1>1. DOMAIN raw = {"allow-only"} /\ raw["allow-only"] = p
  BY DEF Put, Empty
<1> HIDE DEF raw
<1>2. Cardinality(DOMAIN raw) = 1
  BY <1>1, FS_Singleton
<1>3. (CHOOSE k \in DOMAIN raw : TRUE) = "allow-only"
  BY <1>1
<1>4. ParsePolicyMap(raw) = p
  BY <1>1, <1>2, <1>3 DEF ParsePolicyMap, ModernKeys, Validated
<1>5. p # NoPolicy
  BY Kinds
<1> QED
  BY <1>1, <1>4, <1>5 DEF ParseServerGuardPolicy, raw

\* A map that forcing has added a key to: the policy if it is the only key, else refused.
LEMMA ForcedMapAdded ==
  ASSUME NEW s, NEW raw, IsFiniteSet(DOMAIN raw), NEW p, ValidGuardPolicy(p)
  PROVE  /\ ParseServerGuardPolicy(s, Put(raw, "allow-only", p)) \in {p, Invalid}
         /\ "allow-only" \in DOMAIN Put(raw, "allow-only", p)
<1> DEFINE new == Put(raw, "allow-only", p)
<1>1. DOMAIN new = DOMAIN raw \union {"allow-only"} /\ new["allow-only"] = p
  BY DEF Put
<1> HIDE DEF new
<1>2. DOMAIN new \intersect ModernKeys # {}
  BY <1>1 DEF ModernKeys
<1>3. ParsePolicyMap(new) \in {p, Invalid}
  <2>1. CASE Cardinality(DOMAIN new) = 1
    <3>1. IsFiniteSet(DOMAIN new)
      BY <1>1, FS_AddElement
    <3>2. \E x : DOMAIN new = {x}
      BY <2>1, <3>1, FS_Singleton
    <3>3. (CHOOSE k \in DOMAIN new : TRUE) = "allow-only"
      BY <1>1, <3>2
    <3> QED
      BY <1>1, <1>2, <2>1, <3>3 DEF ParsePolicyMap, Validated
  <2>2. CASE Cardinality(DOMAIN new) # 1
    BY <1>2, <2>2 DEF ParsePolicyMap
  <2> QED
    BY <2>1, <2>2
<1>4. ParsePolicyMap(new) # NoPolicy
  BY <1>3, Kinds
<1> QED
  BY <1>1, <1>3, <1>4 DEF ParseServerGuardPolicy, new

\* What forcing makes of a valid policy is valid, and scoped.
LEMMA PublicScopeIsValid ==
  ASSUME NEW p, IsPolicy(p)
  PROVE  /\ p = NoPolicy \/ ValidGuardPolicy(p) => ValidGuardPolicy(PublicScope(p))
         /\ Scoped(Validated(PublicScope(p)))
         /\ ValidGuardPolicy(PublicScope(p)) => Scoped(PublicScope(p))
<1> DEFINE q == PublicScope(p)
<1>1. /\ AllowOnly("public", 0).kind = "allow-only" /\ AllowOnly("public", 0).repos = "public"
      /\ AllowOnly("public", 0).level = 0
      /\ \A n : /\ AllowOnly("public", n).kind = "allow-only" /\ AllowOnly("public", n).repos = "public"
                /\ AllowOnly("public", n).level = n
  BY DEF AllowOnly
<1>2. p = NoPolicy \/ ValidGuardPolicy(p) => ValidGuardPolicy(q)
  <2>1. CASE p = NoPolicy
    BY <1>1, <2>1, PublicScopeFacts DEF ValidGuardPolicy, ValidAllowOnly, Scopes, Levels
  <2>2. CASE ValidGuardPolicy(p) /\ p.kind = "allow-only"
    BY <1>1, <2>2, PublicScopeFacts DEF ValidGuardPolicy, ValidAllowOnly, Scopes
  <2>3. CASE ValidGuardPolicy(p) /\ p.kind # "allow-only"
    <3>1. p.kind = "write-sink"
      BY <2>3, ValidatedFacts
    <3> QED
      BY <2>3, <3>1, PublicScopeFacts
  <2> QED
    BY <2>1, <2>2, <2>3
<1>3. q.kind = "allow-only" => q.repos = "public"
  BY <1>1, PublicScopeFacts, Kinds DEF IsPolicy
<1>4. ASSUME ValidGuardPolicy(q) PROVE Scoped(q)
  <2>1. q.kind \in {"write-sink", "allow-only"} /\ q # NoPolicy
    BY <1>4, ValidatedFacts, Kinds
  <2> QED
    BY <1>3, <1>4, <2>1 DEF Scoped
<1>5. Scoped(Invalid)
  BY Kinds DEF Scoped
<1>6. Scoped(Validated(q))
  BY <1>4, <1>5, ValidatedFacts
<1> QED
  BY <1>2, <1>4, <1>6

(***************************************************************************)
(* Forcing a server of a Config to public scope.                           *)
(***************************************************************************)

\* The fields of a Config, and of a server in it, one by one.
ConfigOf(c, servers, guardConfigs, agents, policies, force, exempt, global) ==
  c = [ok |-> TRUE, servers |-> servers, guards |-> guardConfigs, agents |-> agents,
       agentPolicies |-> policies, forcePublic |-> force, exempt |-> exempt, global |-> global]

ServerOf(v, type, command, containerized, guard, policies) ==
  v = [type |-> type, command |-> command, containerized |-> containerized, guard |-> guard,
       policies |-> policies]

\* A Config is told by its fields.
LEMMA ConfigFields ==
  ASSUME NEW c
  PROVE  /\ IsConfig(c) <=>
              /\ ConfigOf(c, c.servers, c.guards, c.agents, c.agentPolicies, c.forcePublic,
                          c.exempt, c.global)
              /\ \A s \in DOMAIN c.servers :
                   ServerOf(c.servers[s], c.servers[s].type, c.servers[s].command,
                            c.servers[s].containerized, c.servers[s].guard, c.servers[s].policies)
BY DEF IsConfig, ConfigOf, ServerOf

\* Each field of a Config can be read off.
LEMMA ConfigOfFields ==
  ASSUME NEW c, NEW a1, NEW a2, NEW a3, NEW a4, NEW a5, NEW a6, NEW a7,
         ConfigOf(c, a1, a2, a3, a4, a5, a6, a7)
  PROVE  /\ c.servers = a1 /\ c.guards = a2 /\ c.agents = a3 /\ c.agentPolicies = a4
         /\ c.forcePublic = a5 /\ c.exempt = a6 /\ c.global = a7
BY DEF ConfigOf

\* Replacing a field of a Config keeps the others.
LEMMA ConfigOfUpdates ==
  ASSUME NEW c, NEW a1, NEW a2, NEW a3, NEW a4, NEW a5, NEW a6, NEW a7, NEW p,
         ConfigOf(c, a1, a2, a3, a4, a5, a6, a7)
  PROVE  /\ ConfigOf([c EXCEPT !.global = p], a1, a2, a3, a4, a5, a6, p)
         /\ ConfigOf([c EXCEPT !.servers = p], p, a2, a3, a4, a5, a6, a7)
<1>1. DOMAIN c = {"ok", "servers", "guards", "agents", "agentPolicies", "forcePublic", "exempt",
                  "global"}
  BY DEF ConfigOf
<1>2. ASSUME NEW g, g = [c EXCEPT !.global = p]
      PROVE  ConfigOf(g, a1, a2, a3, a4, a5, a6, p)
  <2>1. \A x \in DOMAIN c : [c EXCEPT !.global = p][x] = IF x = "global" THEN p ELSE c[x]
    OBVIOUS
  <2>2. DOMAIN [c EXCEPT !.global = p] = DOMAIN c
    OBVIOUS
  <2> QED
    BY <1>1, <1>2, <2>1, <2>2 DEF ConfigOf
<1>3. ASSUME NEW g, g = [c EXCEPT !.servers = p]
      PROVE  ConfigOf(g, p, a2, a3, a4, a5, a6, a7)
  <2>1. \A x \in DOMAIN c : [c EXCEPT !.servers = p][x] = IF x = "servers" THEN p ELSE c[x]
    OBVIOUS
  <2>2. DOMAIN [c EXCEPT !.servers = p] = DOMAIN c
    OBVIOUS
  <2> QED
    BY <1>1, <1>3, <2>1, <2>2 DEF ConfigOf
<1> QED
  BY <1>2, <1>3

\* Replacing the policies of a server keeps the rest of it.
LEMMA ServerOfUpdates ==
  ASSUME NEW v, NEW b1, NEW b2, NEW b3, NEW b4, NEW b5, NEW p, ServerOf(v, b1, b2, b3, b4, b5)
  PROVE  /\ ServerOf([v EXCEPT !.policies = p], b1, b2, b3, b4, p)
         /\ [v EXCEPT !.policies = p].guard = b4 /\ [v EXCEPT !.policies = p].policies = p
BY DEF ServerOf

\* Replacing the global policy keeps a Config.
LEMMA GlobalUpdate ==
  ASSUME NEW c, IsConfig(c), NEW p, NEW f, f = [c EXCEPT !.global = p]
  PROVE  IsConfig(f) /\ SameButPolicies(c, f) /\ f.global = p /\ f.servers = c.servers
<1>1. ConfigOf(c, c.servers, c.guards, c.agents, c.agentPolicies, c.forcePublic, c.exempt, c.global)
  BY ConfigFields
<1>2. ConfigOf(f, c.servers, c.guards, c.agents, c.agentPolicies, c.forcePublic, c.exempt, p)
  BY <1>1, ConfigOfUpdates
<1>3. /\ f.servers = c.servers /\ f.guards = c.guards /\ f.agents = c.agents
      /\ f.agentPolicies = c.agentPolicies /\ f.forcePublic = c.forcePublic
      /\ f.exempt = c.exempt /\ f.global = p
  BY <1>2, ConfigOfFields
<1>4. IsConfig(f)
  BY <1>2, <1>3, ConfigFields
<1> QED
  BY <1>3, <1>4 DEF SameButPolicies

\* Replacing the policies of one server keeps a Config.
LEMMA ServerUpdate ==
  ASSUME NEW c, IsConfig(c), NEW s \in DOMAIN c.servers, NEW p,
         NEW f, f = [c EXCEPT !.servers[s].policies = p]
  PROVE  /\ IsConfig(f) /\ SameButPolicies(c, f) /\ f.global = c.global
         /\ f.servers[s].policies = p /\ \A t \in DOMAIN c.servers \ {s} : f.servers[t] = c.servers[t]
<1> DEFINE old == c.servers[s]
           new == [old EXCEPT !.policies = p]
           all == [c.servers EXCEPT ![s] = new]
<1>1. f = [c EXCEPT !.servers = all]
  OBVIOUS
<1>2. ServerOf(old, old.type, old.command, old.containerized, old.guard, old.policies)
  BY ConfigFields
<1>3. /\ ServerOf(new, old.type, old.command, old.containerized, old.guard, p)
      /\ new.guard = old.guard /\ new.policies = p
  BY <1>2, ServerOfUpdates
<1> HIDE DEF new
<1>4. ServerOf(new, new.type, new.command, new.containerized, new.guard, new.policies)
  BY <1>3 DEF ServerOf
<1>5. /\ DOMAIN all = DOMAIN c.servers /\ all[s] = new
      /\ \A t \in DOMAIN c.servers \ {s} : all[t] = c.servers[t]
  OBVIOUS
<1> HIDE DEF all
<1>6. ConfigOf(c, c.servers, c.guards, c.agents, c.agentPolicies, c.forcePublic, c.exempt, c.global)
  BY ConfigFields
<1>7. ConfigOf(f, all, c.guards, c.agents, c.agentPolicies, c.forcePublic, c.exempt, c.global)
  <2>1. ASSUME NEW q
        PROVE  ConfigOf([c EXCEPT !.servers = q], q, c.guards, c.agents, c.agentPolicies,
                        c.forcePublic, c.exempt, c.global)
    BY <1>6, ConfigOfUpdates
  <2>2. ConfigOf([c EXCEPT !.servers = all], all, c.guards, c.agents, c.agentPolicies,
                 c.forcePublic, c.exempt, c.global)
    BY <2>1
  <2> QED
    BY <1>1, <2>2, Zenon
<1>8. /\ f.servers = all /\ f.guards = c.guards /\ f.agents = c.agents
      /\ f.agentPolicies = c.agentPolicies /\ f.forcePublic = c.forcePublic
      /\ f.exempt = c.exempt /\ f.global = c.global
  BY <1>7 DEF ConfigOf
<1>9. ASSUME NEW t \in DOMAIN f.servers
      PROVE  ServerOf(f.servers[t], f.servers[t].type, f.servers[t].command,
                      f.servers[t].containerized, f.servers[t].guard, f.servers[t].policies)
  <2>1. CASE t = s
    BY <1>4, <1>5, <1>8, <2>1
  <2>2. CASE t # s
    <3>1. t \in DOMAIN c.servers /\ f.servers[t] = c.servers[t]
      BY <1>5, <1>8, <1>9, <2>2
    <3> QED
      BY <3>1, ConfigFields
  <2> QED
    BY <2>1, <2>2
<1>10. IsConfig(f)
  BY <1>7, <1>8, <1>9, ConfigFields
<1>11. \A t \in DOMAIN c.servers : f.servers[t].guard = c.servers[t].guard
  BY <1>3, <1>5, <1>8
<1>12. SameButPolicies(c, f)
  BY <1>5, <1>8, <1>11 DEF SameButPolicies
<1> QED
  BY <1>3, <1>5, <1>8, <1>10, <1>12

\* overrideToPublicScope: what it changes, and that the server is scoped by it.
LEMMA OverrideFacts ==
  ASSUME NEW c, IsConfig(c), NEW s \in DOMAIN c.servers, IsPolicy(c.global), IsPolicy(Own(c, s)),
         IsFiniteSet(DOMAIN c.servers[s].policies)
  PROVE  LET f == OverrideToPublicScope(c, s) IN
         /\ IsConfig(f) /\ SameButPolicies(c, f)
         /\ f.global = IF c.global # NoPolicy THEN PublicScope(c.global) ELSE NoPolicy
         /\ \A t \in DOMAIN c.servers \ {s} : f.servers[t].policies = c.servers[t].policies
         /\ MaybeForced(c, f, s)
         /\ Scoped(ResolveGuardPolicy(f, s))
         /\ f.global # NoPolicy \/ DOMAIN f.servers[s].policies # {}
<1> DEFINE f   == OverrideToPublicScope(c, s)
           raw == c.servers[s].policies
           own == Own(c, s)
<1>1. ResolveGuardPolicy(f, s) = IF f.global # NoPolicy THEN Validated(f.global)
                                 ELSE IF Own(f, s) # NoPolicy THEN Own(f, s)
                                 ELSE ResolveGuardPolicy(f, s)
  BY DEF ResolveGuardPolicy, Own
<1>2. Parsed(own) /\ (DOMAIN raw = {} => own = NoPolicy)
  BY OwnIsParsed DEF Own
<1>3. CASE c.global # NoPolicy
  <2>1. f = [c EXCEPT !.global = PublicScope(c.global)]
    BY <1>3 DEF OverrideToPublicScope
  <2>2. /\ IsConfig(f) /\ SameButPolicies(c, f) /\ f.global = PublicScope(c.global)
        /\ f.servers = c.servers
    BY <2>1, GlobalUpdate
  <2>3. f.global # NoPolicy
    BY <2>2, PublicScopeFacts
  <2>4. Scoped(ResolveGuardPolicy(f, s))
    BY <1>1, <2>2, <2>3, PublicScopeIsValid
  <2> QED
    BY <1>3, <2>2, <2>3, <2>4 DEF MaybeForced
<1>4. ASSUME c.global = NoPolicy, NEW p, ValidGuardPolicy(p), Scoped(p), NEW new,
             f = [c EXCEPT !.servers[s].policies = new], DOMAIN new # {},
             ParseServerGuardPolicy(s, new) \in {p, Invalid}
      PROVE  /\ IsConfig(f) /\ SameButPolicies(c, f) /\ f.global = NoPolicy
             /\ \A t \in DOMAIN c.servers \ {s} : f.servers[t].policies = c.servers[t].policies
             /\ f.servers[s].policies = new
             /\ Scoped(ResolveGuardPolicy(f, s))
             /\ DOMAIN f.servers[s].policies # {}
  <2>1. /\ IsConfig(f) /\ SameButPolicies(c, f) /\ f.global = NoPolicy
        /\ f.servers[s].policies = new
        /\ \A t \in DOMAIN c.servers \ {s} : f.servers[t] = c.servers[t]
    BY <1>4, ServerUpdate
  <2>2. Own(f, s) \in {p, Invalid} /\ p # NoPolicy /\ Scoped(Invalid)
    BY <1>4, <2>1, Kinds DEF Own, Scoped
  <2> QED
    BY <1>1, <1>4, <2>1, <2>2, Kinds
<1>5. CASE c.global = NoPolicy /\ own.kind = "allow-only"
  <2> DEFINE p == PublicScope(own)
  <2>1. f = [c EXCEPT !.servers[s].policies = Put(Empty, "allow-only", p)]
    BY <1>5 DEF OverrideToPublicScope, Own
  <2>2. ValidGuardPolicy(own)
    BY <1>2, <1>5, Kinds DEF Parsed
  <2>3. ValidGuardPolicy(p) /\ Scoped(p)
    BY <2>2, PublicScopeIsValid
  <2> HIDE DEF p, f
  <2>4. /\ DOMAIN Put(Empty, "allow-only", p) # {}
        /\ ParseServerGuardPolicy(s, Put(Empty, "allow-only", p)) \in {p, Invalid}
    BY <2>3, ForcedMapAlone
  <2>5. /\ IsConfig(f) /\ SameButPolicies(c, f) /\ f.global = NoPolicy
        /\ \A t \in DOMAIN c.servers \ {s} : f.servers[t].policies = c.servers[t].policies
        /\ f.servers[s].policies = Put(Empty, "allow-only", p)
        /\ Scoped(ResolveGuardPolicy(f, s)) /\ DOMAIN f.servers[s].policies # {}
    BY <1>4, <1>5, <2>1, <2>3, <2>4
  <2>6. MaybeForced(c, f, s)
    BY <1>5, <2>5 DEF MaybeForced, p
  <2> QED
    BY <1>5, <2>5, <2>6 DEF f
<1>6. CASE c.global = NoPolicy /\ own = NoPolicy
  <2> DEFINE p == PublicScope(NoPolicy)
  <2>1. f = [c EXCEPT !.servers[s].policies = Put(raw, "allow-only", p)]
    BY <1>6, Kinds DEF OverrideToPublicScope, Own
  <2>2. ValidGuardPolicy(p) /\ Scoped(p)
    BY PublicScopeIsValid, Kinds
  <2> HIDE DEF p, f
  <2>3. /\ DOMAIN Put(raw, "allow-only", p) # {}
        /\ ParseServerGuardPolicy(s, Put(raw, "allow-only", p)) \in {p, Invalid}
    BY <2>2, ForcedMapAdded
  <2>4. /\ IsConfig(f) /\ SameButPolicies(c, f) /\ f.global = NoPolicy
        /\ \A t \in DOMAIN c.servers \ {s} : f.servers[t].policies = c.servers[t].policies
        /\ f.servers[s].policies = Put(raw, "allow-only", p)
        /\ Scoped(ResolveGuardPolicy(f, s)) /\ DOMAIN f.servers[s].policies # {}
    BY <1>4, <1>6, <2>1, <2>2, <2>3
  <2>5. MaybeForced(c, f, s)
    BY <1>6, <2>4 DEF MaybeForced, p
  <2> QED
    BY <1>6, <2>4, <2>5 DEF f
<1>7. CASE c.global = NoPolicy /\ own.kind # "allow-only" /\ own # NoPolicy
  <2>1. f = c
    BY <1>7 DEF OverrideToPublicScope, Own
  <2>2. Scoped(own)
    BY <1>2, <1>7, ValidatedFacts, Kinds DEF Parsed, Scoped
  <2>3. ResolveGuardPolicy(f, s) = own
    BY <1>1, <1>7, <2>1
  <2>4. DOMAIN raw # {}
    BY <1>2, <1>7
  <2>5. SameButPolicies(c, c) /\ MaybeForced(c, c, s)
    BY DEF SameButPolicies, MaybeForced
  <2> QED
    BY <1>7, <2>1, <2>2, <2>3, <2>4, <2>5
<1> QED
  BY <1>3, <1>5, <1>6, <1>7

(***************************************************************************)
(* Where a Config and its policies come from.                              *)
(***************************************************************************)

\* Flags and environment give a policy or none.
LEMMA OverrideIsPolicy ==
  ASSUME NEW cli \in Clis, NEW env \in Envs
  PROVE  IsPolicy(ResolveGuardPolicyOverride(cli, env))
<1>1. ASSUME NEW src \in Clis \union Envs, src.json # NoPolicy PROVE IsPolicy(Validated(src.json))
  BY <1>1, StartupAssumption, ValidatedFacts, Kinds
<1>2. ASSUME NEW scope PROVE IsPolicy(BuildAllowOnlyPolicy(scope))
  <2>1. ASSUME NEW r, NEW l PROVE IsPolicy(AllowOnly(r, l))
    <3>1. /\ AllowOnly(r, l).kind = "allow-only" /\ AllowOnly(r, l).repos = r
          /\ AllowOnly(r, l).level = l
      BY DEF AllowOnly
    <3> QED
      BY <3>1 DEF IsPolicy
  <2> QED
    BY <2>1, Kinds DEF BuildAllowOnlyPolicy
<1> QED
  BY <1>1, <1>2, Kinds DEF ResolveGuardPolicyOverride

\* The agents of an accepted configuration: the loaders refuse it when there is none, when a
\* name is blank, or when one of several agents has no policy.
LEMMA AgentsAreNamed ==
  ASSUME NEW w \in Written, ValidFileIdentity(w) \/ ValidStdinIdentity(w), ValidAgentPolicies(w)
  PROVE  /\ GetAgentIDs(w) # {} /\ GetAgentIDs(w) \intersect {"", Unset} = {}
         /\ Cardinality(GetAgentIDs(w)) > 1 => GetAgentIDs(w) = DOMAIN w.agentPolicies
<1>1. OneIdentity(w) /\ w.agentID # "" /\ (w.agentID = Unset => w.apiKey # "")
  BY DEF ValidFileIdentity, ValidStdinIdentity
<1>2. CASE w.agentIDs # NoAgentIDs
  <2>1. w.agentIDs \in Seq(STRING) /\ Unset \notin Range(w.agentIDs)
    BY <1>2, StartupAssumption
  <2>2. w.agentIDs # <<>> /\ \A i \in DOMAIN w.agentIDs : w.agentIDs[i] # ""
    BY <1>1, <1>2 DEF OneIdentity, ValidAgentIDs
  <2>3. GetAgentIDs(w) = {w.agentIDs[i] : i \in DOMAIN w.agentIDs}
    BY <1>2 DEF GetAgentIDs, Range
  <2>4. 1 \in DOMAIN w.agentIDs
    <3>1. \A ids \in Seq(STRING) : ids # <<>> => 1 \in DOMAIN ids
      OBVIOUS
    <3> QED
      BY <2>1, <2>2, <3>1
  <2>5. Unset \notin GetAgentIDs(w)
    BY <1>2, <2>1 DEF GetAgentIDs
  <2> QED
    BY <2>2, <2>3, <2>4, <2>5 DEF ValidAgentPolicies
<1>3. CASE w.agentIDs = NoAgentIDs
  <2>1. w.agentID # Unset \/ w.apiKey # Unset
    BY <1>1, <1>3 DEF OneIdentity
  <2>2. EffectiveAgentID(w) \notin {"", Unset}
    BY <1>1, <2>1 DEF EffectiveAgentID, Unset
  <2>3. GetAgentIDs(w) = {EffectiveAgentID(w)}
    BY <1>3, <2>2 DEF GetAgentIDs
  <2> QED
    BY <2>2, <2>3 DEF ValidAgentPolicies
<1> QED
  BY <1>2, <1>3

\* Both loaders end in a Config with the policies that were written, or refuse.
LEMMA LoadersAgree ==
  ASSUME NEW w \in Written, NEW c \in {LoadFromFile(w), LoadFromStdin(w)}, c.ok
  PROVE  IsConfig(c) /\ WellWritten(c) /\ Authenticated(c) /\ AgentsValid(c)
<1>1. ~Refused.ok
  BY DEF Refused
<1> DEFINE file  == [s \in DOMAIN w.servers |-> FileServer(w.servers[s])]
           stdin == [s \in DOMAIN w.servers |-> StdinServer(w, w.servers[s])]
<1>2. /\ c = Loaded(w, file) \/ c = Loaded(w, stdin)
      /\ ValidFileIdentity(w) \/ ValidStdinIdentity(w)
      /\ ValidAgentPolicies(w)
  BY <1>1 DEF LoadFromFile, LoadFromStdin
<1>3. PICK servers \in {file, stdin} : c = Loaded(w, servers)
  BY <1>2
<1>4. ConfigOf(c, servers, w.guards, GetAgentIDs(w), w.agentPolicies, w.forcePublic, w.exempt, NoPolicy)
  BY <1>3 DEF Loaded, ConfigOf
<1>5. ASSUME NEW s \in DOMAIN w.servers
      PROVE  /\ servers[s].policies = w.servers[s].policies
             /\ ServerOf(servers[s], servers[s].type, servers[s].command, servers[s].containerized,
                         servers[s].guard, servers[s].policies)
  BY DEF FileServer, StdinServer, ServerOf
<1>6. DOMAIN servers = DOMAIN w.servers
  OBVIOUS
<1> HIDE DEF file, stdin
<1>7. /\ c.servers = servers /\ c.agents = GetAgentIDs(w) /\ c.agentPolicies = w.agentPolicies
      /\ c.guards = w.guards /\ c.forcePublic = w.forcePublic /\ c.exempt = w.exempt
      /\ c.global = NoPolicy
  BY <1>4 DEF ConfigOf
<1>8. IsConfig(c)
  BY <1>4, <1>5, <1>6, <1>7, ConfigFields
<1>9. WellWritten(c)
  BY <1>5, <1>6, <1>7, StartupAssumption, Kinds DEF WellWritten, Own
<1>10. Authenticated(c)
  BY <1>2, <1>7, AgentsAreNamed DEF Authenticated
<1>11. AgentsValid(c)
  BY <1>2, <1>7 DEF AgentsValid, ValidAgentPolicies, ValidSingleAgentPolicy
<1> QED
  BY <1>8, <1>9, <1>10, <1>11

(***************************************************************************)
(* The steps.                                                              *)
(***************************************************************************)

\* Before anything is loaded nothing is claimed.
LEMMA InitHolds ==
  ASSUME Init
  PROVE  StartupInv
BY DEF Init, StartupInv, ConfigInv, ScopeInv, ServingInv, Configured

\* A start that ends leaves nothing to claim.
LEMMA ExitPreserves ==
  ASSUME StartupInv, Exit
  PROVE  StartupInv'
BY DEF Exit, StartupInv, ConfigInv, ScopeInv, ServingInv, Configured

\* An accepted configuration is whole, and authenticates.
LEMMA LoadPreserves ==
  ASSUME StartupInv, Load
  PROVE  StartupInv'
<1>0. PICK w \in Written : \E loaded \in {LoadFromFile(w), LoadFromStdin(w)} :
        cfg' = loaded /\ phase' = IF loaded.ok THEN "loaded" ELSE "exited"
  BY DEF Load
<1>1. PICK loaded \in {LoadFromFile(w), LoadFromStdin(w)} :
        cfg' = loaded /\ phase' = IF loaded.ok THEN "loaded" ELSE "exited"
  BY <1>0
<1>2. loaded.ok => IsConfig(loaded) /\ WellWritten(loaded) /\ Authenticated(loaded) /\ AgentsValid(loaded)
  BY LoadersAgree
<1>3. guards' = Empty /\ compiled' = {} /\ actual' \in {"public", "private"}
  BY DEF Load, StartupInv, ConfigInv
<1>4. phase' = "loaded" => IsConfig(cfg') /\ WellWritten(cfg') /\ Authenticated(cfg') /\ AgentsValid(cfg')
  BY <1>1, <1>2
<1>5. phase' \in {"loaded", "exited"}
  BY <1>1
<1>6. ConfigInv'
  BY <1>3, <1>4, <1>5 DEF ConfigInv, Configured, IsConfig, WellWritten, Own, Authenticated, AgentsValid
<1> QED
  BY <1>5, <1>6 DEF StartupInv, ScopeInv, ServingInv, Configured

\* The Config is what was configured once the override is in.
LEMMA ApplyFlagsPreserves ==
  ASSUME StartupInv, ApplyFlags
  PROVE  StartupInv'
<1>1. PICK cli \in Clis, env \in Envs :
        IF ResolveGuardPolicyOverride(cli, env) = Invalid THEN phase' = "exited"
        ELSE /\ phase' = "registering"
             /\ cfg' = [cfg EXCEPT !.global = ResolveGuardPolicyOverride(cli, env)] /\ before' = cfg'
  BY DEF ApplyFlags
<1>2. /\ IsConfig(cfg) /\ WellWritten(cfg) /\ Authenticated(cfg) /\ AgentsValid(cfg)
      /\ guards' = Empty /\ compiled' = {} /\ actual' \in {"public", "private"}
  BY DEF ApplyFlags, StartupInv, ConfigInv
<1>3. DOMAIN guards' = {}
  BY <1>2 DEF Empty
<1>4. CASE phase' = "exited"
  BY <1>2, <1>4 DEF StartupInv, ConfigInv, ScopeInv, ServingInv, Configured
<1>5. CASE phase' = "registering"
  <2> DEFINE p == ResolveGuardPolicyOverride(cli, env)
             f == cfg'
  <2>1. f = [cfg EXCEPT !.global = p] /\ before' = f
    BY <1>1, <1>5
  <2>2. IsPolicy(p)
    BY OverrideIsPolicy
  <2> HIDE DEF p, f
  <2>3. IsConfig(f) /\ SameButPolicies(cfg, f) /\ f.global = p /\ f.servers = cfg.servers
    BY <1>2, <2>1, GlobalUpdate
  <2>4. WellWritten(f)
    BY <1>2, <2>2, <2>3 DEF WellWritten, Own
  <2>5. Authenticated(f) /\ AgentsValid(f)
    BY <1>2, <2>3 DEF Authenticated, AgentsValid, SameButPolicies
  <2>6. ForcedFrom(f, f, {})
    BY DEF ForcedFrom, SameButPolicies, MaybeForced
  <2>7. /\ IsConfig(before') /\ WellWritten(before') /\ Authenticated(before') /\ AgentsValid(before')
        /\ IsConfig(cfg') /\ ForcedFrom(before', cfg', DOMAIN guards')
    BY <1>3, <2>1, <2>3, <2>4, <2>5, <2>6 DEF f
  <2>8. ConfigInv'
    BY <1>2, <1>3, <1>5, <2>7
       DEF ConfigInv, IsConfig, WellWritten, Own, Authenticated, AgentsValid, ForcedFrom, SameButPolicies, MaybeForced
  <2> QED
    BY <1>3, <1>5, <2>8 DEF StartupInv, ScopeInv, ServingInv, Configured
<1> QED
  BY <1>1, <1>4, <1>5

\* The guard that a server without one of its own gets is a write-sink, or one of its
\* configuration; a write-sink of a public workflow is public unless it is exempt.
LEMMA SinkIsPublic ==
  ASSUME NEW c, NEW s, NEW g \in OtherGuards(c, s, "public"), g.name = "write-sink"
  PROVE  g.visibility = "public" \/ Exempt(c, s)
<1>1. Wasm.name # "write-sink" /\ Noop.name # "write-sink"
  BY DEF Wasm, Noop
<1>2. ResolveGuardPolicy(c, s).kind = "write-sink"
  BY <1>1 DEF OtherGuards, ConfiguredGuards
<1> DEFINE v == SinkVisibility(c, s, ResolveGuardPolicy(c, s), "public")
<1>3. v = "public" \/ Exempt(c, s)
  BY DEF SinkVisibility, VerifySinkVisibility
<1>4. g = [name |-> "write-sink", visibility |-> v]
  BY <1>2 DEF OtherGuards
<1> HIDE DEF v
<1> QED
  BY <1>3, <1>4

\* Forcing one more server: the Config is still what was configured, forced in places.
LEMMA ForcingOnceMore ==
  ASSUME NEW b, NEW c, NEW f, NEW registered, NEW s \in DOMAIN c.servers \ registered,
         IsPolicy(b.global), ForcedFrom(b, c, registered), SameButPolicies(c, f),
         f.global = IF c.global # NoPolicy THEN PublicScope(c.global) ELSE NoPolicy,
         \A t \in DOMAIN c.servers \ {s} : f.servers[t].policies = c.servers[t].policies,
         MaybeForced(c, f, s)
  PROVE  ForcedFrom(b, f, registered \union {s})
<1>1. SameButPolicies(b, f)
  BY DEF ForcedFrom, SameButPolicies
<1>2. f.global = b.global \/ (b.global # NoPolicy /\ f.global = PublicScope(b.global))
  BY PublicScopeFacts DEF ForcedFrom
<1>3. DOMAIN c.servers = DOMAIN b.servers
  BY DEF ForcedFrom, SameButPolicies
<1>4. c.servers[s].policies = b.servers[s].policies
  BY <1>3 DEF ForcedFrom
<1>5. MaybeForced(b, f, s)
  BY <1>4 DEF MaybeForced, Own
<1>6. ASSUME NEW t \in DOMAIN b.servers, t # s
      PROVE  /\ MaybeForced(b, f, t)
             /\ t \notin registered => f.servers[t].policies = b.servers[t].policies
  <2>1. f.servers[t].policies = c.servers[t].policies
    BY <1>3, <1>6
  <2>2. MaybeForced(b, c, t) /\ (t \notin registered => c.servers[t].policies = b.servers[t].policies)
    BY DEF ForcedFrom
  <2> QED
    BY <2>1, <2>2 DEF MaybeForced
<1> QED
  BY <1>1, <1>2, <1>5, <1>6 DEF ForcedFrom

\* With the global policy forced already, forcing another server leaves one as it is.
LEMMA OthersStay ==
  ASSUME NEW c, NEW f, NEW t \in DOMAIN c.servers, SameButPolicies(c, f),
         f.global = c.global, f.servers[t].policies = c.servers[t].policies
  PROVE  ResolveGuardPolicy(f, t) = ResolveGuardPolicy(c, t) /\ Exempt(f, t) = Exempt(c, t)
<1>1. f.guards = c.guards /\ f.servers[t].guard = c.servers[t].guard
  BY DEF SameButPolicies
<1>2. f.forcePublic = c.forcePublic /\ f.exempt = c.exempt
  BY DEF SameButPolicies
<1> QED
  BY <1>1, <1>2 DEF ResolveGuardPolicy, Exempt

\* What a step that registers server s does, with own, v and g as it found them.
Registers(s, own, v, g, forced) ==
  /\ phase = "registering" /\ s \in DOMAIN cfg.servers \ DOMAIN guards
  /\ own \in BOOLEAN /\ v \in Answers
  /\ forced = IF Forced(v) THEN OverrideToPublicScope(cfg, s) ELSE cfg
  /\ g \in (IF own THEN {Wasm} ELSE OtherGuards(cfg, s, v))
  /\ visibility' = IF Needed(cfg, s, own) THEN v ELSE visibility
  /\ cfg' = forced
  /\ compiled' = IF own THEN compiled \union {s} ELSE compiled
  /\ IF PolicyError(forced, s, g) THEN phase' = "exited"
     ELSE phase' = phase /\ guards' = Put(guards, s, RequirePolicy(forced, s, g))
  /\ UNCHANGED <<strict, envForce, actual, difc, before>>

\* Registering a guard keeps what the Config is made of.
LEMMA RegisterKeepsConfig ==
  ASSUME StartupInv, NEW s, NEW own, NEW v, NEW g, NEW forced, Registers(s, own, v, g, forced)
  PROVE  /\ ConfigInv'
         /\ Forced(v) => /\ IsConfig(cfg) /\ SameButPolicies(cfg, forced)
                         /\ forced.global = IF cfg.global # NoPolicy THEN PublicScope(cfg.global) ELSE NoPolicy
                         /\ \A t \in DOMAIN cfg.servers \ {s} : forced.servers[t].policies = cfg.servers[t].policies
                         /\ Scoped(ResolveGuardPolicy(forced, s))
                         /\ forced.global # NoPolicy \/ DOMAIN forced.servers[s].policies # {}
                         /\ cfg.global # NoPolicy => PublicScope(forced.global) = forced.global
<1>1. /\ IsConfig(before) /\ WellWritten(before) /\ Authenticated(before) /\ AgentsValid(before)
      /\ IsConfig(cfg) /\ ForcedFrom(before, cfg, DOMAIN guards)
      /\ DOMAIN guards \subseteq DOMAIN cfg.servers /\ compiled \subseteq DOMAIN guards
      /\ actual \in {"public", "private"}
  BY DEF Registers, StartupInv, ConfigInv, Configured
<1>2. s \in DOMAIN cfg.servers /\ s \notin DOMAIN guards
  BY DEF Registers
<1>3. SameButPolicies(before, cfg) /\ s \in DOMAIN before.servers
  BY <1>1, <1>2 DEF ForcedFrom, SameButPolicies
<1>4. cfg.servers[s].policies = before.servers[s].policies
  BY <1>1, <1>2, <1>3 DEF ForcedFrom
<1>5. IsPolicy(Own(cfg, s)) /\ IsFiniteSet(DOMAIN cfg.servers[s].policies) /\ IsPolicy(before.global)
  BY <1>1, <1>3, <1>4 DEF WellWritten, Own
<1>6. IsPolicy(cfg.global)
  BY <1>1, <1>5, PublicScopeFacts DEF ForcedFrom
<1>7. ASSUME Forced(v)
      PROVE  /\ IsConfig(forced) /\ SameButPolicies(cfg, forced)
             /\ forced.global = IF cfg.global # NoPolicy THEN PublicScope(cfg.global) ELSE NoPolicy
             /\ \A t \in DOMAIN cfg.servers \ {s} : forced.servers[t].policies = cfg.servers[t].policies
             /\ MaybeForced(cfg, forced, s)
             /\ Scoped(ResolveGuardPolicy(forced, s))
             /\ forced.global # NoPolicy \/ DOMAIN forced.servers[s].policies # {}
  <2>1. forced = OverrideToPublicScope(cfg, s)
    BY <1>7 DEF Registers
  <2> QED
    BY <1>1, <1>2, <1>5, <1>6, <2>1, OverrideFacts
<1>8. ForcedFrom(before, forced, DOMAIN guards \union {s}) /\ IsConfig(forced)
      /\ DOMAIN forced.servers = DOMAIN cfg.servers
  <2>1. CASE Forced(v)
    <3>1. ForcedFrom(before, forced, DOMAIN guards \union {s})
      BY <1>1, <1>2, <1>5, <1>7, <2>1, ForcingOnceMore
    <3> QED
      BY <1>7, <2>1, <3>1 DEF SameButPolicies
  <2>2. CASE ~Forced(v)
    <3>1. forced = cfg
      BY <2>2 DEF Registers
    <3> QED
      BY <1>1, <3>1 DEF ForcedFrom
  <2> QED
    BY <2>1, <2>2
<1>9. ConfigInv'
  <2>1. /\ cfg' = forced /\ before' = before /\ actual' = actual
        /\ phase' = "exited" \/ (phase' = "registering" /\ DOMAIN guards' = DOMAIN guards \union {s})
        /\ compiled' \subseteq compiled \union {s}
    BY DEF Registers, Put
  <2>2. ~Configured' => ConfigInv'
    BY <1>1, <2>1 DEF ConfigInv, Configured
  <2>3. ASSUME Configured' PROVE ConfigInv'
    <3>1. phase' = "registering" /\ DOMAIN guards' = DOMAIN guards \union {s}
      BY <2>1, <2>3 DEF Configured
    <3>2. /\ IsConfig(before') /\ WellWritten(before') /\ Authenticated(before') /\ AgentsValid(before')
          /\ IsConfig(cfg') /\ ForcedFrom(before', cfg', DOMAIN guards')
      BY <1>1, <1>8, <2>1, <3>1
    <3>3. DOMAIN guards' \subseteq DOMAIN cfg'.servers /\ compiled' \subseteq DOMAIN guards'
      BY <1>1, <1>2, <1>8, <2>1, <3>1
    <3> QED
      BY <1>1, <2>1, <3>1, <3>2, <3>3
         DEF ConfigInv, IsConfig, WellWritten, Own, Authenticated, AgentsValid, ForcedFrom, SameButPolicies, MaybeForced
  <2> QED
    BY <2>2, <2>3
<1>10. cfg.global # NoPolicy => PublicScope(PublicScope(cfg.global)) = PublicScope(cfg.global)
  BY <1>6, PublicScopeFacts
<1> QED
  BY <1>1, <1>7, <1>9, <1>10

\* The server that is registered is scoped, and those that were stay scoped: whoever is
\* registered first has the repository's visibility looked up, and it is looked up once.
LEMMA RegisterKeepsScope ==
  ASSUME StartupInv, NEW s, NEW own, NEW v, NEW g, NEW forced, Registers(s, own, v, g, forced)
  PROVE  ScopeInv'
<1>1. CASE phase' = "exited"
  BY <1>1 DEF ScopeInv, Configured
<1>2. CASE phase' # "exited"
  <2>1. /\ phase' = "registering" /\ guards' = Put(guards, s, RequirePolicy(forced, s, g))
        /\ ~PolicyError(forced, s, g) /\ cfg' = forced /\ envForce' = envForce
        /\ s \in DOMAIN cfg.servers /\ s \notin DOMAIN guards
    BY <1>2 DEF Registers
  <2>2. /\ DOMAIN guards' = DOMAIN guards \union {s} /\ guards'[s] = RequirePolicy(forced, s, g)
        /\ \A t \in DOMAIN guards : guards'[t] = guards[t]
    BY <2>1 DEF Put
  <2>3. /\ ConfigInv' /\ IsConfig(cfg) /\ actual \in {"public", "private"}
        /\ DOMAIN guards \subseteq DOMAIN cfg.servers /\ compiled \subseteq DOMAIN guards
    BY RegisterKeepsConfig DEF Registers, StartupInv, ConfigInv, Configured
  <2>4. forced.forcePublic = cfg.forcePublic
    <3>1. CASE Forced(v)
      BY <3>1, RegisterKeepsConfig DEF SameButPolicies
    <3>2. CASE ~Forced(v)
      BY <3>2 DEF Registers
    <3> QED
      BY <3>1, <3>2
  <2>5. ForcingDisabled' <=> ForcingDisabled
    BY <2>1, <2>4 DEF ForcingDisabled
  <2>6. ~ForcingDisabled => /\ visibility' = v /\ v # "unasked"
                            /\ DOMAIN guards # {} => v = visibility
    <3>1. ~ForcingDisabled => visibility' = v
      BY DEF Registers, Needed
    <3>2. v \in Answers
      BY DEF Registers
    <3>3. DOMAIN guards # {} /\ ~ForcingDisabled => visibility # "unasked"
      BY DEF Registers, StartupInv, ScopeInv, Configured
    <3> QED
      BY <2>3, <3>1, <3>2, <3>3 DEF Answers
  <2>7. ASSUME Forced(visibility)'
        PROVE  /\ cfg'.global # NoPolicy => PublicScope(cfg'.global) = cfg'.global
               /\ \A t \in DOMAIN guards' : ServerScoped(cfg, t)'
    <3>1. Forced(v) /\ v = "public" /\ ~ForcingDisabled
      BY <2>5, <2>6, <2>7 DEF Forced
    <3>2. /\ IsConfig(cfg) /\ SameButPolicies(cfg, forced)
          /\ forced.global = IF cfg.global # NoPolicy THEN PublicScope(cfg.global) ELSE NoPolicy
          /\ \A t \in DOMAIN cfg.servers \ {s} : forced.servers[t].policies = cfg.servers[t].policies
          /\ Scoped(ResolveGuardPolicy(forced, s))
          /\ forced.global # NoPolicy \/ DOMAIN forced.servers[s].policies # {}
          /\ cfg.global # NoPolicy => PublicScope(forced.global) = forced.global
      BY <3>1, RegisterKeepsConfig
    <3>3. g \in (IF own THEN {Wasm} ELSE OtherGuards(cfg, s, "public"))
      BY <3>1 DEF Registers
    <3>4. Wasm # Noop /\ Noop.name = "noop" /\ Wasm.name = "wasm"
      BY DEF Wasm, Noop
    <3>5. ServerScoped(cfg, s)'
      <4>1. ResolveGuardPolicy(forced, s) # NoPolicy
        BY <3>2 DEF Scoped
      <4>2. guards'[s] = g
        BY <2>2, <4>1 DEF RequirePolicy
      <4>3. s \in compiled' => guards'[s] = Wasm
        <5>1. s \in compiled' => own
          BY <2>1, <2>3 DEF Registers
        <5> QED
          BY <3>3, <4>2, <5>1
      <4>4. guards'[s] = Wasm => ResolveGuardPolicy(forced, s) # Invalid
        BY <2>1, <3>4, <4>2 DEF PolicyError
      <4>5. guards'[s].name = "write-sink" => guards'[s].visibility = "public" \/ Exempt(forced, s)
        <5>1. Exempt(forced, s) = Exempt(cfg, s)
          BY <3>2 DEF Exempt, SameButPolicies
        <5>2. own => g.name # "write-sink"
          BY <3>3, <3>4
        <5> QED
          BY <3>3, <4>2, <5>1, <5>2, SinkIsPublic
      <4> QED
        BY <2>1, <3>2, <4>3, <4>4, <4>5 DEF ServerScoped, ResolveGuardPolicy, Exempt
    <3>6. ASSUME NEW t \in DOMAIN guards PROVE ServerScoped(cfg, t)'
      <4>1. Forced(visibility) /\ DOMAIN guards # {}
        BY <2>6, <3>1, <3>6
      <4>2. ServerScoped(cfg, t) /\ (cfg.global # NoPolicy => PublicScope(cfg.global) = cfg.global)
        BY <3>6, <4>1 DEF Registers, StartupInv, ScopeInv, Configured
      <4>3. t \in DOMAIN cfg.servers /\ t # s
        BY <2>1, <2>3
      <4>4. forced.global = cfg.global /\ forced.servers[t].policies = cfg.servers[t].policies
        BY <3>2, <4>2, <4>3
      <4>5. ResolveGuardPolicy(forced, t) = ResolveGuardPolicy(cfg, t) /\ Exempt(forced, t) = Exempt(cfg, t)
        BY <3>2, <4>3, <4>4, OthersStay
      <4>6. guards'[t] = guards[t] /\ (t \in compiled' => t \in compiled)
        BY <2>2, <4>3 DEF Registers
      <4>7. /\ Scoped(ResolveGuardPolicy(forced, t))
            /\ t \in compiled' => guards'[t] = Wasm
            /\ guards'[t] = Wasm => ResolveGuardPolicy(forced, t) # Invalid
            /\ guards'[t].name = "write-sink" => guards'[t].visibility = "public" \/ Exempt(forced, t)
            /\ forced.global # NoPolicy \/ DOMAIN forced.servers[t].policies # {}
        BY <4>2, <4>4, <4>5, <4>6 DEF ServerScoped
      <4> QED
        BY <2>1, <4>7 DEF ServerScoped
    <3> QED
      BY <2>1, <2>2, <3>2, <3>5, <3>6
  <2>8. DOMAIN guards' # {} /\ ~ForcingDisabled' => visibility' # "unasked"
    BY <2>5, <2>6
  <2> QED
    BY <2>7, <2>8 DEF ScopeInv
<1> QED
  BY <1>1, <1>2

\* Registering a guard keeps the invariant.
LEMMA RegisterPreserves ==
  ASSUME StartupInv, NEW s, RegisterGuard(s)
  PROVE  StartupInv'
<1>1. PICK own \in BOOLEAN, v \in Answers :
        \E g \in (IF own THEN {Wasm} ELSE OtherGuards(cfg, s, v)) :
          Registers(s, own, v, g, IF Forced(v) THEN OverrideToPublicScope(cfg, s) ELSE cfg)
  BY DEF RegisterGuard, Registers
<1>2. ConfigInv' /\ ScopeInv'
  BY <1>1, RegisterKeepsConfig, RegisterKeepsScope
<1>3. phase' # "serving"
  BY <1>1 DEF Registers
<1> QED
  BY <1>2, <1>3 DEF StartupInv, ServingInv

\* Serving needs every server registered.
LEMMA ServePreserves ==
  ASSUME StartupInv, Serve
  PROVE  StartupInv'
<1>1. /\ phase = "registering" /\ phase' \in {"serving", "exited"} /\ DOMAIN guards = DOMAIN cfg.servers
      /\ difc' = EnableDIFC
      /\ UNCHANGED <<cfg, envForce, actual, visibility, guards, before, compiled>>
  BY DEF Serve
<1>2. EnableDIFC' = EnableDIFC
  BY <1>1 DEF EnableDIFC, HasNonNoopGuard, HasServerPolicies, HasAgentAllowOnlyPolicies
<1>3. ConfigInv'
  BY <1>1 DEF StartupInv, ConfigInv, Configured, IsConfig, WellWritten, Own, Authenticated, AgentsValid, ForcedFrom,
              SameButPolicies, MaybeForced
<1>4. ScopeInv'
  BY <1>1 DEF StartupInv, ScopeInv, Configured, ForcingDisabled, Forced, ServerScoped,
              ResolveGuardPolicy, Exempt
<1> QED
  BY <1>1, <1>2, <1>3, <1>4 DEF StartupInv, ServingInv

\* A step that changes nothing keeps the invariant.
LEMMA StutterPreserves ==
  ASSUME StartupInv, UNCHANGED vars
  PROVE  StartupInv'
<1>1. UNCHANGED <<phase, cfg, strict, envForce, actual, visibility, guards, difc, before, compiled>>
  BY DEF vars
<1>2. ConfigInv'
  BY <1>1 DEF StartupInv, ConfigInv, Configured, IsConfig, WellWritten, Own, Authenticated, AgentsValid, ForcedFrom,
              SameButPolicies, MaybeForced
<1>3. ScopeInv'
  BY <1>1 DEF StartupInv, ScopeInv, Configured, ForcingDisabled, Forced, ServerScoped,
              ResolveGuardPolicy, Exempt
<1>4. ServingInv'
  BY <1>1 DEF StartupInv, ServingInv, EnableDIFC, HasNonNoopGuard, HasServerPolicies,
              HasAgentAllowOnlyPolicies
<1> QED
  BY <1>2, <1>3, <1>4 DEF StartupInv

(***************************************************************************)
(* The theorems.                                                           *)
(***************************************************************************)

\* Any start, whatever is configured, in whatever order the servers are registered
\* (run, NewUnified and registerGuard).
THEOREM StartupInvariant == Spec => []StartupInv
<1>1. Init => StartupInv
  BY InitHolds
<1>2. StartupInv /\ [Next]_vars => StartupInv'
  <2> SUFFICES ASSUME StartupInv, [Next]_vars PROVE StartupInv'
    OBVIOUS
  <2>1. CASE Load
    BY <2>1, LoadPreserves
  <2>2. CASE InvalidEnvironment
    BY <2>2, ExitPreserves DEF InvalidEnvironment
  <2>3. CASE ApplyFlags
    BY <2>3, ApplyFlagsPreserves
  <2>4. CASE FailToStart
    BY <2>4, ExitPreserves DEF FailToStart
  <2>5. CASE Serve
    BY <2>5, ServePreserves
  <2>6. CASE Started
    BY <2>6, StutterPreserves DEF Started
  <2>7. ASSUME NEW s, RegisterGuard(s) PROVE StartupInv'
    BY <2>7, RegisterPreserves
  <2>8. CASE UNCHANGED vars
    BY <2>8, StutterPreserves
  <2> QED
    BY <2>1, <2>2, <2>3, <2>4, <2>5, <2>6, <2>7, <2>8 DEF Next
<1> QED
  BY <1>1, <1>2, PTL DEF Spec

\* An agent's own policy is in use as it was written, whatever was forced on the servers
\* (resolveGuardPolicyForAgent, overrideToPublicScope).
LEMMA AgentPoliciesStay ==
  ASSUME StartupInv, Configured, NEW a
  PROVE  /\ AgentAllowOnly(cfg, a) = AgentAllowOnly(before, a)
         /\ AgentAllowOnly(before, a) # NoPolicy =>
              Validated(AgentAllowOnly(cfg, a)) = AgentAllowOnly(before, a)
<1>1. SameButPolicies(before, cfg) /\ AgentsValid(before)
  BY DEF StartupInv, ConfigInv, ForcedFrom
<1>2. AgentAllowOnly(cfg, a) = AgentAllowOnly(before, a)
  BY <1>1 DEF AgentAllowOnly, SameButPolicies
<1>3. AgentAllowOnly(before, a) # NoPolicy => ValidGuardPolicy(AgentAllowOnly(before, a))
  BY <1>1 DEF AgentAllowOnly, AgentsValid
<1> QED
  BY <1>2, <1>3 DEF Validated

\* A gateway of a public workflow that serves has every guard and sink in public scope, for
\* every identity without a policy of its own (overrideToPublicScope in registerGuard,
\* resolveGuardPolicyForAgent), though each server is forced only once and the Config is
\* changed under the servers registered before; an agent's own policy is as it was written.
THEOREM PublicScopeIsForced == Spec => []PublicWorkflowIsScoped
<1>1. StartupInv => PublicWorkflowIsScoped
  <2> SUFFICES ASSUME StartupInv, phase = "serving", Forced(visibility), NEW s \in DOMAIN cfg.servers
               PROVE  /\ s \in compiled => guards[s] = Wasm
                      /\ guards[s] = Wasm =>
                           \A a \in Identities(cfg) :
                             LET p == ResolveGuardPolicyForAgent(cfg, a, s)
                                 own == AgentAllowOnly(before, a) IN
                             IF own # NoPolicy THEN p = own
                             ELSE p.kind = "write-sink" \/ (p.kind = "allow-only" /\ p.repos = "public")
                      /\ guards[s].name = "write-sink" => guards[s].visibility = "public" \/ Exempt(cfg, s)
                      /\ difc
    BY DEF PublicWorkflowIsScoped
  <2>1. s \in DOMAIN guards /\ difc = EnableDIFC
    BY DEF StartupInv, ServingInv
  <2>2. ServerScoped(cfg, s)
    BY <2>1 DEF StartupInv, ScopeInv, Configured
  <2>3. difc
    BY <2>1, <2>2 DEF ServerScoped, EnableDIFC, HasServerPolicies
  <2>4. ASSUME guards[s] = Wasm
        PROVE  \/ ResolveGuardPolicy(cfg, s).kind = "write-sink"
               \/ /\ ResolveGuardPolicy(cfg, s).kind = "allow-only"
                  /\ ResolveGuardPolicy(cfg, s).repos = "public"
    BY <2>2, <2>4 DEF ServerScoped, Scoped
  <2>5. ASSUME guards[s] = Wasm, NEW a \in Identities(cfg)
        PROVE  LET p == ResolveGuardPolicyForAgent(cfg, a, s)
                   own == AgentAllowOnly(before, a) IN
               IF own # NoPolicy THEN p = own
               ELSE p.kind = "write-sink" \/ (p.kind = "allow-only" /\ p.repos = "public")
    <3>1. /\ AgentAllowOnly(cfg, a) = AgentAllowOnly(before, a)
          /\ AgentAllowOnly(before, a) # NoPolicy =>
               Validated(AgentAllowOnly(cfg, a)) = AgentAllowOnly(before, a)
      BY AgentPoliciesStay DEF Configured
    <3>2. CASE AgentAllowOnly(before, a) # NoPolicy
      BY <3>1, <3>2 DEF ResolveGuardPolicyForAgent
    <3>3. CASE AgentAllowOnly(before, a) = NoPolicy
      <4>1. ResolveGuardPolicyForAgent(cfg, a, s) = ResolveGuardPolicy(cfg, s)
        BY <3>1, <3>3 DEF ResolveGuardPolicyForAgent
      <4> QED
        BY <2>4, <2>5, <3>3, <4>1
    <3> QED
      BY <3>2, <3>3
  <2> QED
    BY <2>2, <2>3, <2>5 DEF ServerScoped
<1> QED
  BY <1>1, StartupInvariant, PTL

\* What is forced on a server is its own policy, narrowed (overrideToPublicScope): a
\* write-sink is left alone, an allow-only policy keeps everything but its repositories;
\* only a policy of the guard's own configuration may be superseded.
THEOREM ForcingNarrows == Spec => []ForcingOnlyNarrows
<1>1. StartupInv => ForcingOnlyNarrows
  <2> SUFFICES ASSUME StartupInv, phase = "serving", NEW s \in DOMAIN cfg.servers,
                      ~FromGuardConfig(before, s), NEW p, p = ResolveGuardPolicy(before, s),
                      NEW q, q = ResolveGuardPolicy(cfg, s)
               PROVE  /\ p.kind = "write-sink" => q = p
                      /\ p.kind = "allow-only" => q = p \/ q = [p EXCEPT !.repos = "public"]
    BY DEF ForcingOnlyNarrows
  <2>1. WellWritten(before) /\ ForcedFrom(before, cfg, DOMAIN guards)
    BY DEF StartupInv, ConfigInv, Configured
  <2>2. s \in DOMAIN before.servers /\ MaybeForced(before, cfg, s)
    BY <2>1 DEF ForcedFrom, SameButPolicies
  <2>3. CASE before.global # NoPolicy
    <3> DEFINE b == before.global
    <3>1. p = Validated(b)
      BY <2>3 DEF ResolveGuardPolicy
    <3>2. IsPolicy(b) /\ (cfg.global = b \/ cfg.global = PublicScope(b))
      BY <2>1, <2>3 DEF WellWritten, ForcedFrom
    <3>3. q = Validated(b) \/ q = Validated(PublicScope(b))
      BY <2>3, <3>2, PublicScopeFacts DEF ResolveGuardPolicy
    <3> HIDE DEF b
    <3>4. CASE ~ValidGuardPolicy(b)
      BY <3>1, <3>4, Kinds DEF Validated
    <3>5. CASE ValidGuardPolicy(b)
      <4>1. p = b /\ (q = b \/ q = PublicScope(b))
        BY <3>1, <3>2, <3>3, <3>5, PublicScopeIsValid DEF Validated
      <4> QED
        BY <3>2, <4>1, PublicScopeFacts
    <3> QED
      BY <3>4, <3>5
  <2>4. CASE before.global = NoPolicy
    <3>1. cfg.global = NoPolicy
      BY <2>1, <2>4 DEF ForcedFrom
    <3>2. Own(before, s) # NoPolicy
      BY <2>4 DEF FromGuardConfig, Own
    <3>3. p = Own(before, s) /\ IsPolicy(p) /\ Parsed(p)
      BY <2>1, <2>2, <2>4, <3>2, OwnIsParsed DEF ResolveGuardPolicy, Own, WellWritten
    <3>4. Own(cfg, s) # NoPolicy => q = Own(cfg, s)
      BY <3>1 DEF ResolveGuardPolicy, Own
    <3>5. CASE cfg.servers[s].policies = before.servers[s].policies
      BY <3>2, <3>3, <3>4, <3>5 DEF Own
    <3>6. CASE /\ p.kind = "allow-only"
               /\ cfg.servers[s].policies = Put(Empty, "allow-only", PublicScope(p))
      <4>1. ValidGuardPolicy(p)
        BY <3>3, <3>6, Kinds DEF Parsed
      <4>2. ValidGuardPolicy(PublicScope(p)) /\ PublicScope(p) # NoPolicy
        BY <3>3, <4>1, PublicScopeIsValid, PublicScopeFacts
      <4>3. Own(cfg, s) = PublicScope(p)
        BY <3>6, <4>2, ForcedMapAlone DEF Own
      <4> QED
        BY <3>3, <3>4, <3>6, <4>2, <4>3, PublicScopeFacts
    <3> QED
      BY <2>2, <3>2, <3>3, <3>5, <3>6 DEF MaybeForced
  <2> QED
    BY <2>3, <2>4
<1> QED
  BY <1>1, StartupInvariant, PTL

\* A gateway that serves has agents to authenticate, from either loader (validateAgentIDs,
\* validateAgentPolicies, GetAgentIDs), and nothing on the way to serving changes them.
THEOREM ServingIsAuthenticated == Spec => []AuthenticationIsOn
<1>1. StartupInv => AuthenticationIsOn
  <2>1. ASSUME StartupInv, phase = "loaded" PROVE Authenticated(cfg)
    BY <2>1 DEF StartupInv, ConfigInv
  <2>2. ASSUME StartupInv, Configured PROVE Authenticated(cfg)
    <3>1. Authenticated(before) /\ SameButPolicies(before, cfg)
      BY <2>2 DEF StartupInv, ConfigInv, ForcedFrom
    <3> QED
      BY <3>1 DEF Authenticated, SameButPolicies
  <2> QED
    BY <2>1, <2>2 DEF AuthenticationIsOn, Authenticated, Configured
<1> QED
  BY <1>1, StartupInvariant, PTL

===============================================================================
