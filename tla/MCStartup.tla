------------------------------ MODULE MCStartup -------------------------------
(* A GitHub server and a safe-outputs server under every form of policy, guard *)
(* and opt-out; then, around one such configuration, every way to name agents, *)
(* every fault, and every kind of server.                                      *)
EXTENDS Startup, TLC

Map(p)        == IF p = NoPolicy THEN Empty ELSE p.kind :> p
Nested(k, p)  == k :> [object |-> TRUE, map |-> Map(p)]
Approved      == AllowOnly("owned", 2)
Sink(v)       == WriteSink(<<"*">>, v)

\* The forms in which the GitHub server's policy may be written.
Forms ==
  { Empty, Map(Approved), Nested("github", AllowOnly("all", 3)), Nested("other", Approved),
    ("repos" :> "all") @@ ("min-integrity" :> 1), "repos" :> "all",
    Nested("github", NoPolicy) @@ Nested("other", Approved), "github" :> [object |-> FALSE, map |-> Empty],
    Map(Approved) @@ Map(Sink("")), Map(WriteSink(<<"t", "t">>, "")), Map(WriteSink(<<"t", "u">>, "private")) }

Server(type, guard, policies) ==
  [type |-> type, command |-> "docker", container |-> TRUE, url |-> TRUE, mounts |-> "none", auth |-> Unset,
   ca |-> FALSE, badFilter |-> FALSE, custom |-> "unregistered", guard |-> guard, policies |-> policies]

Servers(github, sink) == ("github" :> github) @@ ("safe-outputs" :> sink)

Guard(t, path, p) == [type |-> t, path |-> path, policy |-> p]
MCGuards == ("g" :> Guard("wasm", TRUE, AllowOnly("all", 2))) @@ ("s" :> Guard("noop", FALSE, Sink("internal")))

Config(servers, force, exempt) ==
  [faults |-> {}, gateway |-> TRUE, agentID |-> "a", apiKey |-> Unset, agentIDs |-> NoAgentIDs,
   dockerless |-> FALSE, runtime |-> Unset, envRuntime |-> Unset, servers |-> servers, guards |-> MCGuards,
   agentPolicies |-> Empty, forcePublic |-> force, exempt |-> exempt]

PolicyConfigs ==
  {Config(Servers(Server("http", g, f), Server("stdio", "", s)), force, exempt) :
     g \in {"", "g", "s"}, f \in Forms, s \in {Empty, Map(Sink("")), Map(Sink("private"))},
     force \in {"default", "off"}, exempt \in {{}, {"github"}}}

Plain == Config(Servers(Server("http", "", Map(Approved)), Server("", "", Map(Sink("")))), "default", {})

AgentPolicy(servers, tools, p) == [servers |-> servers, tools |-> tools, allowOnly |-> p]
AgentPolicyMaps ==
  { Empty, "a" :> AgentPolicy({"github"}, {"github"}, Approved),
    "a" :> AgentPolicy({"github"}, {"safe-outputs"}, NoPolicy), "a" :> AgentPolicy({"gone"}, {}, NoPolicy),
    ("a" :> AgentPolicy({}, {}, NoPolicy)) @@ ("b" :> AgentPolicy({"github"}, {}, Approved)),
    "b" :> AgentPolicy({}, {}, AllowOnly("all", 9)) }

AgentConfigs ==
  {[Plain EXCEPT !.agentID = i, !.apiKey = k, !.agentIDs = ids, !.agentPolicies = m] :
     i \in {Unset, "", "a"}, k \in {Unset, "", "b"},
     ids \in {NoAgentIDs, <<>>, <<"a">>, <<"a", "b">>, <<"a", "a">>, <<"a", "">>}, m \in AgentPolicyMaps}

FaultConfigs == {[Plain EXCEPT !.faults = {x}] : x \in FaultKinds} \union {[Plain EXCEPT !.gateway = FALSE]}

Variant(s) == [Plain EXCEPT !.servers = ("github" :> s)]
Base       == Server("http", "", Empty)
ServerConfigs ==
  {Variant([Base EXCEPT !.type = t, !.custom = c, !.auth = a]) :
     t \in {"http", "stdio", "local", "sse"}, c \in CustomSchemas, a \in {Unset, "github-oidc"}}
  \union {Variant([Base EXCEPT !.type = "stdio", !.container = FALSE]), Variant([Base EXCEPT !.url = FALSE]),
          Variant([Base EXCEPT !.mounts = "bad"]), Variant([Base EXCEPT !.ca = TRUE, !.type = "stdio"]),
          Variant([Base EXCEPT !.badFilter = TRUE]), [Plain EXCEPT !.servers = Empty]}
  \union {[Plain EXCEPT !.dockerless = d, !.runtime = r, !.envRuntime = e] :
            d \in BOOLEAN, r \in {Unset, "docker", "podman"}, e \in {Unset, "podman"}}

MCWritten == PolicyConfigs \union AgentConfigs \union FaultConfigs \union ServerConfigs

Scope(public, owner, repo, level) == [public |-> public, owner |-> owner, repo |-> repo, level |-> level]
Given(set, json, scope)           == [set |-> set, json |-> json, scope |-> scope]
Nothing == Given(FALSE, NoPolicy, Scope(FALSE, FALSE, FALSE, NoLevel))

MCClis == {Nothing, Given(TRUE, NoPolicy, Scope(FALSE, TRUE, TRUE, 2)), Given(TRUE, NoPolicy, Scope(TRUE, TRUE, FALSE, 2))}
MCEnvs == {Nothing, Given(TRUE, Sink(""), Scope(FALSE, FALSE, FALSE, NoLevel))}
MCSafeOutputs == {"safe-outputs", "safeoutputs"}
===============================================================================
