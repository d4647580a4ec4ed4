---------------------------- MODULE GuardPolicies -----------------------------
(***************************************************************************)
(* Guard policies (internal/config/guard_policy*.go): how a policy is      *)
(* written, validated, and forced to public scope.  A policy is allow-only *)
(* (repositories and a minimum integrity for reads) or write-sink (accepted*)
(* secrecy and visibility of a sink).  The other allow-only fields travel  *)
(* with the policy unchanged and are left out.                             *)
(***************************************************************************)
EXTENDS Integers, Sequences, FiniteSets, Functions

Scopes       == {"all", "public", "owned"}
Levels       == 0..3   \* none, unapproved, approved, merged
Visibilities == {"", "public", "private", "internal"}

AllowOnly(repos, level)       == [kind |-> "allow-only", repos |-> repos, level |-> level]
WriteSink(accept, visibility) == [kind |-> "write-sink", accept |-> accept, visibility |-> visibility]
NoPolicy                      == [kind |-> "none"]
Invalid                       == [kind |-> "invalid"]

\* validateAcceptEntry: "bad" stands for an entry that is no visibility:scope.
ValidAcceptEntry(entry) == entry \notin {"*", "", "bad"}

\* ValidateWriteSinkPolicy: a lone wildcard, or distinct well-formed entries.
ValidWriteSink(p) ==
  /\ p.accept # <<>> /\ p.visibility \in Visibilities
  /\ \/ p.accept = <<"*">>
     \/ IsInjective(p.accept) /\ \A i \in DOMAIN p.accept : ValidAcceptEntry(p.accept[i])

\* NormalizeGuardPolicy: a list of repositories and owners is the scope "owned".
ValidAllowOnly(p) == p.repos \in Scopes /\ p.level \in Levels

\* ValidateGuardPolicy.
ValidGuardPolicy(p) ==
  \/ p.kind = "write-sink" /\ ValidWriteSink(p)
  \/ p.kind = "allow-only" /\ ValidAllowOnly(p)

Validated(p) == IF ValidGuardPolicy(p) THEN p ELSE Invalid

\* A policy has the fields of its kind.
IsPolicy(p) ==
  \/ p \in {NoPolicy, Invalid}
  \/ p.kind = "allow-only" /\ p = AllowOnly(p.repos, p.level)
  \/ p.kind = "write-sink" /\ p = WriteSink(p.accept, p.visibility)

\* A JSON object of policy keys; nested objects are [object, map].
ModernKeys == {"allow-only", "write-sink"}

\* ParsePolicyMap: the modern form allows exactly one key; the legacy form has
\* repos with an integrity; anything else is no policy.
ParsePolicyMap(raw) ==
  LET keys == DOMAIN raw IN
  IF keys \intersect ModernKeys # {}
  THEN IF Cardinality(keys) = 1 THEN Validated(raw[CHOOSE k \in keys : TRUE]) ELSE Invalid
  ELSE IF "repos" \notin keys THEN NoPolicy
  ELSE IF "min-integrity" \notin keys THEN Invalid
  ELSE Validated(AllowOnly(raw["repos"], raw["min-integrity"]))

\* ParseServerGuardPolicy: at the top, under the server's own name, or under
\* the only key there is.
ParseServerGuardPolicy(server, raw) ==
  LET top     == ParsePolicyMap(raw)
      named   == IF server \notin DOMAIN raw THEN NoPolicy
                 ELSE IF ~raw[server].object THEN Invalid ELSE ParsePolicyMap(raw[server].map)
      only    == CHOOSE k \in DOMAIN raw : TRUE
      single  == IF Cardinality(DOMAIN raw) # 1 THEN NoPolicy
                 ELSE IF ~raw[only].object THEN NoPolicy ELSE ParsePolicyMap(raw[only].map)
  IN  IF top # NoPolicy THEN top
      ELSE IF named # NoPolicy THEN named ELSE single

\* BuildAllowOnlyPolicy: exactly one of public and owner, repo only with owner,
\* and a known integrity; nothing set is no policy.
NoLevel == -1
BuildAllowOnlyPolicy(s) ==
  LET scopes == (IF s.public THEN 1 ELSE 0) + (IF s.owner THEN 1 ELSE 0) IN
  IF s.repo /\ ~s.owner THEN Invalid
  ELSE IF scopes = 0 /\ s.level = NoLevel THEN NoPolicy
  ELSE IF scopes # 1 \/ s.level \notin Levels THEN Invalid
  ELSE AllowOnly(IF s.public THEN "public" ELSE "owned", s.level)

\* ResolveGuardPolicyOverride: flags given on the command line win over the
\* policy in the environment, that over the scope variables; cli and env are
\* [set, json, scope], json NoPolicy when there is none.
ResolveGuardPolicyOverride(cli, env) ==
  LET given(src) == IF src.json # NoPolicy THEN Validated(src.json) ELSE BuildAllowOnlyPolicy(src.scope)
  IN  IF cli.set THEN given(cli) ELSE IF env.set THEN given(env) ELSE NoPolicy

\* Mutant: every allow-only policy is replaced by the default one.
PublicScopeResets(p) == IF p.kind = "write-sink" THEN p ELSE AllowOnly("public", 0)

\* overrideToPublicScope on a parsed policy: write-sinks are left alone.
PublicScope(p) ==
  CASE p.kind = "allow-only" -> [p EXCEPT !.repos = "public"]
    [] p.kind = "none"       -> AllowOnly("public", 0)
    [] OTHER -> p

===============================================================================
