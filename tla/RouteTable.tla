------------------------------ MODULE RouteTable ------------------------------
(***************************************************************************)
(* The proxy's table of GitHub REST routes (internal/proxy/router.go): a   *)
(* path gets the tool name, and the owner and repository, under which the  *)
(* guard labels it.  The routes are ordered, the first match wins;         *)
(* MatchRoute finds it through buckets keyed by one segment of the path.   *)
(*                                                                         *)
(* A path is the sequence of its segments.  A pattern is a sequence of     *)
(* sets of segments and a tail: "end", "opt" (one more segment, or none),  *)
(* "rest" (.+) or "any" (anything or nothing).  Of the arguments only the  *)
(* scope is kept: which segments are the owner and the repository.         *)
(***************************************************************************)
EXTENDS Naturals, Sequences, TLC

CONSTANT Segments   \* the segments of the paths in question, "" among them

Seg == Segments \ {""}                                \* [^/]+
Num == Segments \intersect {ToString(n) : n \in 0..9} \* \d+

Route(scope, pattern, tail, tool) == [scope |-> scope, pattern |-> pattern, tail |-> tail, tool |-> tool]

\* A route under /repos/{owner}/{repo}; its key is the fixed segment that follows.
RepoRoute(pattern, tail, tool) == Route("repo", <<{"repos"}, Seg, Seg>> \o pattern, tail, tool)

RepoRoutes == <<
  RepoRoute(<<{"issues"}, Num, {"comments"}>>, "end", "issue_read"),
  RepoRoute(<<{"issues"}, Num, {"labels"}>>, "end", "issue_read"),
  RepoRoute(<<{"issues"}, Num>>, "end", "issue_read"),
  RepoRoute(<<{"issues"}>>, "end", "list_issues"),
  RepoRoute(<<{"pulls"}, Num, {"files", "reviews", "comments", "commits"}>>, "end", "pull_request_read"),
  RepoRoute(<<{"pulls"}, Num>>, "end", "pull_request_read"),
  RepoRoute(<<{"pulls"}>>, "end", "list_pull_requests"),
  RepoRoute(<<{"commits"}, Seg>>, "end", "get_commit"),
  RepoRoute(<<{"commits"}>>, "end", "list_commits"),
  RepoRoute(<<{"branches"}>>, "end", "list_branches"),
  RepoRoute(<<{"git"}, {"ref"}, {"tags"}>>, "rest", "get_tag"),
  RepoRoute(<<{"tags"}>>, "end", "list_tags"),
  RepoRoute(<<{"releases"}, {"latest"}>>, "end", "get_latest_release"),
  RepoRoute(<<{"releases"}, {"tags"}>>, "rest", "get_release_by_tag"),
  RepoRoute(<<{"releases"}>>, "end", "list_releases"),
  RepoRoute(<<{"contents"}>>, "rest", "get_file_contents"),
  RepoRoute(<<{"git"}, {"trees"}>>, "rest", "get_file_contents"),
  RepoRoute(<<{"labels"}>>, "rest", "get_label"),
  RepoRoute(<<{"labels"}>>, "end", "list_label") >>

ActionsRoute(pattern, tail, tool) == RepoRoute(<<{"actions"}>> \o pattern, tail, tool)

ActionsRoutes == <<
  ActionsRoute(<<{"workflows"}>>, "end", "actions_list"),
  ActionsRoute(<<{"workflows"}, Seg, {"runs"}>>, "end", "actions_list"),
  ActionsRoute(<<{"workflows"}, Seg>>, "end", "actions_get"),
  ActionsRoute(<<{"runs"}, Num, {"attempts"}, Num, {"jobs"}>>, "end", "actions_list"),
  ActionsRoute(<<{"runs"}, Num, {"attempts"}, Num, {"logs"}>>, "end", "get_job_logs"),
  ActionsRoute(<<{"runs"}, Num, {"logs"}>>, "end", "get_job_logs"),
  ActionsRoute(<<{"runs"}, Num, {"artifacts"}>>, "end", "actions_list"),
  ActionsRoute(<<{"runs"}, Num>>, "end", "actions_get"),
  ActionsRoute(<<{"runs"}>>, "end", "actions_list"),
  ActionsRoute(<<{"jobs"}, Num, {"logs"}>>, "end", "get_job_logs"),
  ActionsRoute(<<{"jobs"}, Num>>, "end", "actions_get"),
  ActionsRoute(<<{"artifacts"}>>, "end", "actions_list"),
  ActionsRoute(<<{"artifacts"}, Num, {"zip"}>>, "end", "actions_get"),
  ActionsRoute(<<{"caches"}>>, "end", "actions_list"),
  ActionsRoute(<<{"secrets"}>>, "end", "actions_list"),
  ActionsRoute(<<{"variables"}>>, "opt", "actions_list"),
  RepoRoute(<<{"environments"}, Seg, {"secrets", "variables"}>>, "end", "actions_list") >>

OtherRoutes == <<
  Route("none", <<{"notifications"}>>, "end", "list_notifications"),
  Route("none", <<{"user"}>>, "end", "get_me"),
  Route("none", <<{"user"}, {"keys", "ssh_signing_keys", "gpg_keys"}>>, "end", "get_me"),
  Route("org", <<{"orgs"}, Seg, {"actions"}, {"secrets", "variables"}>>, "opt", "actions_list"),
  RepoRoute(<<{"discussions"}>>, "end", "list_discussions"),
  RepoRoute(<<{"discussions"}, Num, {"comments"}>>, "end", "get_discussion_comments"),
  RepoRoute(<<{"discussions"}, Num>>, "end", "list_discussions"),
  RepoRoute(<<{"commits"}, Seg, {"check-runs", "check-suites"}>>, "end", "pull_request_read"),
  Route("none", <<{"search"}, {"code"}>>, "end", "search_code"),
  Route("none", <<{"search"}, {"issues"}>>, "end", "search_issues"),
  Route("none", <<{"search"}, {"repositories"}>>, "end", "search_repositories") >>

\* Any other path of a repository; it comes last.
CatchAll == RepoRoute(<<>>, "any", "get_file_contents")

Routes == RepoRoutes \o ActionsRoutes \o OtherRoutes \o <<CatchAll>>

\* restroute.Match.
Matches(route, path) ==
  LET n == Len(route.pattern)  tail == SubSeq(path, n + 1, Len(path)) IN
  /\ Len(path) >= n /\ \A i \in 1..n : path[i] \in route.pattern[i]
  /\ CASE route.tail = "end"  -> tail = <<>>
       [] route.tail = "opt"  -> tail = <<>> \/ (Len(tail) = 1 /\ tail[1] # "")
       [] route.tail = "rest" -> tail \notin {<<>>, <<"">>}
       [] OTHER -> TRUE

\* buildRouteDispatch: the bucket of a route is its first fixed segment, after
\* the repository for a route of one; "" for the catch-all.
DispatchKey(route) ==
  LET at == IF route.scope = "repo" THEN 4 ELSE 1 IN
  IF Len(route.pattern) < at THEN "" ELSE CHOOSE s \in route.pattern[at] : TRUE

\* routeMatchKey: the bucket in which a path is looked up.
RouteMatchKey(path) ==
  IF path[1] # "repos" \/ Len(path) = 1 THEN path[1] ELSE IF Len(path) >= 4 THEN path[4] ELSE ""

NoRoute == [tool |-> "none", scope |-> "none"]

\* The first route among a set of indices that matches.
FirstOf(indices, path) ==
  LET hits == {i \in indices : Matches(Routes[i], path)} IN
  IF hits = {} THEN NoRoute
  ELSE LET r == Routes[CHOOSE i \in hits : \A j \in hits : i <= j]
       IN  [tool |-> r.tool, scope |-> r.scope]

Bucket(key) == {i \in DOMAIN Routes : DispatchKey(Routes[i]) = key}

\* MatchRoute: the path's bucket in order, then the catch-all.
MatchRoute(path) ==
  LET keyed == FirstOf(Bucket(RouteMatchKey(path)), path)
  IN  IF keyed # NoRoute THEN keyed ELSE FirstOf(Bucket(""), path)

\* isMetadataPassthroughPath.
MetadataPath(path) == path \in {<<s>> : s \in {"meta", "rate_limit", "octocat", "zen", "versions"}}

\* isSupportedReadOnlyRESTPath: metadata, a repository, a collaborator's
\* permission, and every route but the catch-all.
SupportedReadOnlyPath(path) ==
  \/ MetadataPath(path)
  \/ Matches(Route("repo", <<{"repos"}, Seg, Seg>>, "end", ""), path)
  \/ Matches(RepoRoute(<<{"collaborators"}, Seg, {"permission"}>>, "end", ""), path)
  \/ \E i \in 1..(Len(Routes) - 1) : Matches(Routes[i], path)

-----------------------------------------------------------------------------
(* Reference definition: the table is ordered, "first match wins".         *)

\* The buckets lose no route and change no precedence, every path of a
\* repository is labelled in that repository's scope, and no other path is.
DispatchIsFirstMatch(path) ==
  /\ MatchRoute(path) = FirstOf(DOMAIN Routes, path)
  /\ MatchRoute(path).scope = "repo" <=>
       Len(path) >= 3 /\ path[1] = "repos" /\ path[2] # "" /\ path[3] # ""

===============================================================================
