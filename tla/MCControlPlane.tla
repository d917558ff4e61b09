--------------------------- MODULE MCControlPlane ---------------------------
(***************************************************************************)
(* An agent with a local user and the VPS as requesters, and a registry.   *)
(***************************************************************************)
EXTENDS ControlPlane
=============================================================================
