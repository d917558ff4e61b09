---------------------------- MODULE MCFecChannel ----------------------------
(***************************************************************************)
(* The FEC engine on small instances.                                      *)
(***************************************************************************)
EXTENDS FecChannel

AllCodes == Codes
LightCodes == {"xor", "reed_solomon"}
HeavyCode == {"reed_solomon_heavy"}
=============================================================================
