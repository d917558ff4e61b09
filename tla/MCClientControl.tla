--------------------------- MODULE MCClientControl ---------------------------
(***************************************************************************)
(* The regulation of a tunnel client over one path or two.                 *)
(***************************************************************************)
EXTENDS ClientControl
=============================================================================
