---------------------------- MODULE ServerSessions ----------------------------
(***************************************************************************)
(* The sessions of hyperagg/tunnel/server.py, as operators on              *)
(*   known     the addresses in _addr_to_session,                          *)
(*   sessions  the port, for each client and path, of path_addrs.          *)
(* An address is a pair <<IP, port>>.  A client is the IP its datagrams    *)
(* come from (client_id), so the paths of one tunnel client that have IPs  *)
(* of their own are clients of their own.  path_addrs may hold only        *)
(* addresses with the client's IP.                                         *)
(***************************************************************************)
EXTENDS Integers

CONSTANTS
  Paths,     \* the path ids
  Ports,     \* the ports of the addresses
  Ips        \* their IPs

NoPort == 0   \* not one of Ports

NewSessions == [ip \in Ips |-> [p \in Paths |-> NoPort]]

\* Is there a session of client ip?
HasSession(known, ip) == \E a \in known : a[1] = ip

SetAddress(sessions, p, addr) == [sessions EXCEPT ![addr[1]][p] = addr[2]]

\* _get_or_create_session: only an address never seen before is recorded.
AddressOnData(known, sessions, p, addr) ==
  IF addr \in known THEN sessions ELSE SetAddress(sessions, p, addr)

(* Definitions named X_<flaw> are X with a plausible bug; no action uses them. *)
AddressOnProbe_OnlyNew(known, sessions, p, addr) == AddressOnData(known, sessions, p, addr)

\* _handle_keepalive, _handle_control: the address is recorded in any case.
AddressOnProbe(known, sessions, p, addr) == SetAddress(sessions, p, addr)
=============================================================================
