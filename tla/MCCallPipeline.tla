--------------------------- MODULE MCCallPipeline ---------------------------
(* Three servers: the guard of gh propagates, that of tracker is strict, and *)
(* plain has no policy and runs in the gateway's filter mode.  Requests of   *)
(* every kind, and responses that mix labels, carry none, or are blocked.    *)
EXTENDS CallPipeline, TLC

CONSTANTS gh, tracker, plain, list, get, post, scope, secret, approved

L(s, i) == [secrecy |-> s, integrity |-> i]

Req(s, t, o, l) == [server |-> s, tool |-> t, op |-> o, labels |-> l]

MCServers       == {gh, tracker, plain}
MCGuarded       == {gh, tracker}
MCTools         == {list, get, post}
MCSingularTools == {get}
MCSecrecyTags   == {scope, secret, WildcardTag}
MCIntegrityTags == {approved, BlockedTag}

PrivateRepo == L({secret}, {approved})
PublicPost  == L({scope}, {approved})
Unvetted    == L({}, {})
AcceptAll   == L({WildcardTag}, {})
Blocked     == L({secret}, {BlockedTag})

MCRequests ==
  { Req(gh, get, "read", PrivateRepo),
    Req(gh, post, "read-write", PublicPost),
    Req(tracker, post, "write", PublicPost), Req(tracker, list, "write", AcceptAll),
    Req(tracker, get, "read", Unvetted), Req(plain, list, "read-write", NoLabel) }

MCRefused == {Req(tracker, post, "write", PublicPost)}

MCLabelled == {{PrivateRepo, Unvetted}, {Blocked}}

MCAgentDefault == L({}, {})
MCLabelAgent ==
  [s \in MCGuarded |-> IF s = gh THEN [labels |-> L({scope}, {approved}), mode |-> "propagate"]
                       ELSE [labels |-> L({}, {}), mode |-> "strict"]]
MCToolCallLimits ==
  [s \in MCServers |-> [t \in MCTools |-> IF s = gh /\ t = get THEN 1 ELSE 0]]

Symmetry == Permutations(Calls)
=============================================================================
