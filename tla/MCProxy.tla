------------------------------- MODULE MCProxy -------------------------------
(* Six proxies: plain ones in each mode, with and without a token, one that  *)
(* is read-only and one without a policy, an enclave and a delegation.  Two  *)
(* requests at a time; agent e1 is assigned repository r1, d1 holds r1.      *)
EXTENDS Proxy, TLC

L(s, i) == [secrecy |-> s, integrity |-> i]

Cfg(k, ro, m, pol, t) == [kind |-> k, readOnly |-> ro, mode |-> m, policy |-> pol, token |-> t]

MCConfigs ==
  { Cfg("plain", FALSE, "strict", "filter", FALSE), Cfg("plain", TRUE, "filter", "strict", TRUE),
    Cfg("plain", FALSE, "filter", "propagate", TRUE), Cfg("plain", FALSE, "filter", "none", FALSE),
    Cfg("enclave", TRUE, "filter", "filter", TRUE), Cfg("enclave", TRUE, "filter", "none", TRUE),
    Cfg("delegation", FALSE, "strict", "filter", TRUE) }

Op(n, k, s)      == [name |-> n, kind |-> k, spreads |-> s]
Frag(n, s)       == [name |-> n, spreads |-> s]
Doc(ops, fs, n, roots, tool, org) ==
  [operations |-> ops, fragments |-> fs, operationName |-> n,
   roots |-> roots, tool |-> tool, mentionsOrganization |-> org]

MixedDoc   == <<Op("q", "query", {"f"}), Op("w", "mutation", {})>>
QueryDoc   == Doc(MixedDoc, <<Frag("f", {"g"}), Frag("g", {})>>, "q", {"__schema", "repository"},
                  "list_issues", FALSE)
WriteDoc   == Doc(MixedDoc, <<Frag("f", {}), Frag("g", {})>>, "w", {"addComment"}, "issue_read", FALSE)
SchemaDoc  == Doc(<<Op("", "query", {})>>, <<>>, "", {"__schema"}, "none", FALSE)
HiddenDoc  == Doc(<<Op("", "query", {"f"})>>, <<Frag("f", {})>>, "", {"..."}, "get_me", TRUE)

\* Every document of one or two operations and at most two fragments.
SmallOps   == {Op(n, k, sp) : n \in {"", "q"}, k \in {"query", "mutation"}, sp \in SUBSET FragmentNames}
SmallFrags == {Frag(n, sp) : n \in FragmentNames, sp \in SUBSET FragmentNames}
SmallDocs  == {[operations |-> ops, fragments |-> fs, operationName |-> n] :
                 ops \in {<<o>> : o \in SmallOps} \union {<<o, Op("q", "query", {"f"})>> : o \in SmallOps},
                 fs \in UNION {[1..k -> SmallFrags] : k \in 0..2}, n \in {"", "q"}}

ASSUME SelectionAssumption == \A doc \in SmallDocs : SelectionIsSound(doc)

\* Paths of up to four segments, and all of a repository with two more.
MCSegments ==
  {"", "o", "r", "1", "repos", "orgs", "user", "keys", "search", "code", "issues", "comments", "labels",
   "pulls", "files", "commits", "check-runs", "branches", "git", "ref", "trees", "tags", "releases",
   "latest", "contents", "actions", "workflows", "runs", "attempts", "jobs", "logs", "artifacts", "zip",
   "secrets", "variables", "environments", "notifications", "discussions", "hooks", "meta"}
FewSegments == {"", "o", "1", "repos", "user", "issues", "search", "actions", "secrets", "tags"}

ASSUME RoutingAssumption ==
  /\ \A path \in UNION {[1..k -> FewSegments] : k \in 1..4} : DispatchIsFirstMatch(path)
  /\ \A a, b, c \in MCSegments :
       c \in FewSegments => DispatchIsFirstMatch(<<"repos", "o", "r", a, b, c>>)

R(m, p, o, d, repo, k) == [method |-> m, path |-> p, odd |-> o, doc |-> d, repo |-> repo, cred |-> k]
Rest(m, p, o, k)       == R(m, p, o, SchemaDoc, "r1", k)
Graph(d, k)            == R("POST", "graphql", FALSE, d, "r1", k)

MCPlainRequests ==
  { Rest("GET", "health", FALSE, "none"), Rest("GET", "reflect", FALSE, "none"),
    Rest("GET", "metadata", TRUE, "c1"), Rest("DELETE", "issues", FALSE, "c1"),
    Rest("GET", "unrecognized", FALSE, "c1"), Rest("GET", "repository", FALSE, "c1"), Rest("GET", "issues", FALSE, "c1"),
    Rest("GET", "issues", FALSE, "c2"),
    Rest("GET", "artifact", FALSE, "c2"), Graph(QueryDoc, "c2"), Graph(WriteDoc, "c2"),
    Graph(SchemaDoc, "c1"), Graph(HiddenDoc, "c1") }

MCRequestsOf ==
  [k \in {"plain", "enclave", "delegation"} |->
    CASE k = "plain" -> MCPlainRequests
      [] k = "enclave" -> {R("GET", "issues", FALSE, SchemaDoc, r, "e1") : r \in {"r1", "r2", "r3"}}
                            \union {Rest("GET", "issues", FALSE, "none"), Rest("GET", "comments", FALSE, "e1"),
                                    Rest("GET", "issues", TRUE, "e1"), Graph(QueryDoc, "e1")}
      [] OTHER -> {R("GET", "issues", FALSE, SchemaDoc, r, "d1") : r \in {"r1", "r2"}}]

MCClaims ==
  [k \in {"e1", "d1"} |-> [agent |-> k, repo |-> "r1", ops |-> {"issues"}, expires |-> 1]]

MCSensitive  == {"r1"}
MCRepos      == {"r1", "r2", "r3"}
MCPrivateTag == [r \in MCRepos |-> IF r = "r1" THEN "p1" ELSE "p2"]

MCSecrecyTags   == {"p1", "p2"}
MCIntegrityTags == {"approved", BlockedTag}

MCResources ==
  { [labels |-> L({"p1"}, {"approved"}), op |-> "read"],
    [labels |-> L({"p2"}, {}), op |-> "read"],
    [labels |-> L({}, {"approved"}), op |-> "write"] }

MCLabelled ==
  { {L({"p1"}, {"approved"}), L({"p2"}, {"approved"})}, {L({"p1"}, {BlockedTag}), L({}, {"approved"})} }

MCShapes       == {"list", "tree"}
MCAllShapes    == MCShapes \union {"envelope"}
MCPolicyLabels == L({"p1"}, {"approved"})
MCSymmetry     == Permutations(Callers)
==============================================================================
