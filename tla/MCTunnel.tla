------------------------------ MODULE MCTunnel ------------------------------
(***************************************************************************)
(* The tunnel on small instances: two links, the timeout of the reorder    *)
(* buffer shorter than that of the FEC groups, as in config.yaml.          *)
(***************************************************************************)
EXTENDS Tunnel

MCRtts == {0, 120}
MCJitters == {0}

Bounds(outputs, modes, senderRestarts, receiverRestarts) ==
  [sources |-> 3, outputs |-> outputs, modes |-> modes,
   senderRestarts |-> senderRestarts, receiverRestarts |-> receiverRestarts]

\* Both directions; the downward one restarts both ends.
BothWays == [up |-> Bounds(4, {"none", "xor"}, 0, 0), down |-> Bounds(3, {"xor"}, 1, 1)]

\* The upward direction with a key, and with a restart of the client.
UpXor == [up |-> Bounds(4, {"xor"}, 0, 0)]
UpRestarting == [up |-> Bounds(4, {"none", "xor"}, 1, 0)]
=============================================================================
