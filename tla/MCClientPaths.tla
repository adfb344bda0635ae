--------------------------- MODULE MCClientPaths ---------------------------
(* The migration of one connection between three networks.                 *)
EXTENDS ClientPaths
=============================================================================
