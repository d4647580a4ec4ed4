------------------------------ MODULE MCLauncher ------------------------------
(***************************************************************************)
(* Launcher on small instances.  Safety: one stdio backend, which has a    *)
(* stateless and a session connection, and two client requests.  Liveness: *)
(* one request, a stdio backend and an HTTP backend without its OIDC       *)
(* provider, which can never start.                                        *)
(***************************************************************************)
EXTENDS Launcher, TLC

Symmetry == Permutations(Clients)
=============================================================================
