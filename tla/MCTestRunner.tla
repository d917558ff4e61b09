---------------------------- MODULE MCTestRunner ----------------------------
(***************************************************************************)
(* Two users of the dashboard and a few sessions.                          *)
(***************************************************************************)
EXTENDS TestRunner
=============================================================================
