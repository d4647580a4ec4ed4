-------------------------- MODULE MCMCPConnection --------------------------
(* Two concurrent requests, three sessions, lists of up to two pages. *)
EXTENDS MCPConnection
=============================================================================
