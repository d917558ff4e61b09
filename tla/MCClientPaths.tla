---------------------------- MODULE MCClientPaths ----------------------------
(***************************************************************************)
(* Two paths behind one public IP: one client to the server.               *)
(***************************************************************************)
EXTENDS ClientPaths

CONSTANTS dish, cell

OneIp == [p \in {dish, cell} |-> "ip"]
TwoPorts == [p \in {dish, cell} |-> IF p = dish THEN 1 ELSE 2]
=============================================================================
