----------------------------- MODULE ClientPaths -----------------------------
(***************************************************************************)
(* The life of the WAN paths of a HyperAgg tunnel (tunnel/client.py,       *)
(* tunnel/server.py, controller/sdn_controller.py): the handshake, the     *)
(* keepalive loop, the monitor that counts failures, the scheduler's copy  *)
(* of the monitor, and the addresses at which the server knows the client. *)
(*                                                                         *)
(* A path is "up", "silent" (its socket takes datagrams that do not arrive *)
(* or arrive too late to count) or "refuses" (its socket raises OSError),  *)
(* and a NAT may give it a new port.  Datagrams are lost and overtake each *)
(* other.  The loops of the client share one event loop, and await only    *)
(* between the actions below; the await of a full socket buffer, one       *)
(* millisecond, is part of Send.  Time is the moment at which the          *)
(* scheduler's copy becomes older than probe_interval_ms.                  *)
(*                                                                         *)
(* What a packet holds is in module Tunnel, its budget and its pacing in   *)
(* module ClientControl.                                                   *)
(***************************************************************************)
EXTENDS PathScheduler

CONSTANTS
  Ports,         \* as in ServerSessions
  Ip,            \* the public IP of each path
  FirstPort,     \* its port at the start
  MaxRetries,    \* max_retries of _handshake_with_retry
  MaxFaults,     \* changes of a link or of a NAT's port (bound)
  MaxInFlight    \* datagrams under way at once (bound)

ASSUME PathsAssumption ==
  /\ Ports \subseteq Nat \ {0} /\ FirstPort \in [Paths -> Ports]
  /\ \A p, q \in Paths : p # q /\ Ip[p] = Ip[q] => FirstPort[p] # FirstPort[q]
  /\ MaxRetries \in Nat \ {0} /\ MaxFaults \in Nat /\ MaxInFlight \in Nat

VARIABLES
  link, port,        \* the network: the state of each path, and its port
  faults,            \* changes so far
  net,               \* datagrams under way
  phase,             \* "handshake" or "running"
  attempt,           \* handshakes sent
  fails,             \* _consecutive_failures of the monitor
  alive, fresh,      \* _alive_paths of the scheduler; not older than the interval?
  recent,            \* history: paths alive in the monitor since the copy last aged
  assigned,          \* history: the paths given to the packet just sent
  known, sessions, active   \* the server: as in ServerSessions, and whom it answers

Ips == {Ip[p] : p \in Paths}
SS == INSTANCE ServerSessions

network == <<link, port, faults>>
client  == <<phase, attempt, fails, alive, fresh, recent>>
server  == <<known, sessions, active>>
vars    == <<network, net, client, assigned, server>>

\* Probes to the server, sent from a port of a path, and its answers to that.
Datagrams == [kind : {"handshake", "keepalive"}, to : {"server", "client"},
              path : Paths, port : Ports]

Init ==
  /\ link \in [Paths -> {"up", "silent", "refuses"}]
  /\ port = FirstPort
  /\ faults = 0
  /\ net = {}
  /\ phase = "handshake" /\ attempt = 0
  /\ fails = NewMonitor
  /\ alive = {} /\ fresh = FALSE
  /\ recent = Paths
  /\ assigned = {}
  /\ known = {} /\ sessions = SS!NewSessions /\ active = {}

TypeOK ==
  /\ link \in [Paths -> {"up", "silent", "refuses"}] /\ port \in [Paths -> Ports]
  /\ faults \in 0..MaxFaults
  /\ net \subseteq Datagrams
  /\ phase \in {"handshake", "running"} /\ attempt \in 0..MaxRetries
  /\ fails \in [Paths -> 0..Dead]
  /\ alive \subseteq Paths /\ fresh \in BOOLEAN
  /\ recent \subseteq Paths /\ assigned \subseteq Paths
  /\ known \subseteq Ips \X Ports
  /\ sessions \in [Ips -> [Paths -> Ports \cup {SS!NoPort}]]
  /\ active \subseteq Ips

-----------------------------------------------------------------------------
(* The network. *)

LinkChanges(p) ==
  /\ faults < MaxFaults
  /\ faults' = faults + 1
  /\ \E l \in {"up", "silent", "refuses"} \ {link[p]} : link' = [link EXCEPT ![p] = l]
  /\ assigned' = {}
  /\ UNCHANGED <<port, net, client, server>>

Rebind(p) ==
  /\ faults < MaxFaults
  /\ faults' = faults + 1
  /\ \E n \in Ports :
       /\ \A q \in Paths : Ip[q] = Ip[p] => port[q] # n
       /\ port' = [port EXCEPT ![p] = n]
  /\ assigned' = {}
  /\ UNCHANGED <<link, net, client, server>>

Up == {p \in Paths : link[p] = "up"}
Address(p) == <<Ip[p], port[p]>>

\* A probe on every path: each is lost by chance, and on a path that is not up.
SendProbes(kind) ==
  \E S \in SUBSET Up :
    /\ net' = net \cup {[kind |-> kind, to |-> "server", path |-> p, port |-> port[p]] : p \in S}
    /\ Cardinality(net') <= MaxInFlight \/ S = {}

-----------------------------------------------------------------------------
(* The client. *)

\* update_predictions: in start, _control_tick, set_scheduler_mode and schedule.
Refresh == alive' = Alive(fails) /\ fresh' = TRUE

(* Definitions named X_<flaw> are X with a plausible bug; no action uses them. *)
SendHandshake_OneMore ==
  /\ phase = "handshake" /\ attempt <= MaxRetries
  /\ attempt' = attempt + 1
  /\ SendProbes("handshake")
  /\ assigned' = {}
  /\ UNCHANGED <<network, phase, fails, alive, fresh, recent, server>>

\* _send_handshake, at most MaxRetries times.
SendHandshake ==
  /\ phase = "handshake" /\ attempt < MaxRetries
  /\ attempt' = attempt + 1
  /\ SendProbes("handshake")
  /\ assigned' = {}
  /\ UNCHANGED <<network, phase, fails, alive, fresh, recent, server>>

\* start goes on, with an ACK or without ("degraded mode").
StartLoops ==
  /\ phase = "handshake"
  /\ phase' = "running"
  /\ Refresh
  /\ assigned' = {}
  /\ UNCHANGED <<network, attempt, fails, recent, server>>

Reaches(d) == d.to = "client" /\ link[d.path] = "up" /\ port[d.path] = d.port

GetAck(d) == Reaches(d) /\ d.kind = "handshake" /\ net' = net \ {d} /\ StartLoops
GiveUp == attempt = MaxRetries /\ net' = net /\ StartLoops

KeepaliveRound_IgnoresErrors ==
  /\ phase = "running"
  /\ SendProbes("keepalive")
  /\ assigned' = {}
  /\ UNCHANGED <<network, client, server>>

\* A round of _keepalive_loop: only a socket that raises is a loss.
KeepaliveRound ==
  /\ phase = "running"
  /\ SendProbes("keepalive")
  /\ fails' = RecordLosses(fails, {p \in Paths : link[p] = "refuses"})
  /\ assigned' = {}
  /\ UNCHANGED <<network, phase, attempt, alive, fresh, recent, server>>

(***************************************************************************)
(* _on_udp_readable for what the server answered: a keepalive's echo is a  *)
(* success, or a loss if it is too late; an ACK, now late, is neither.     *)
(* What does not reach the client leaves the network too.                  *)
(***************************************************************************)
Receive(d) ==
  /\ phase = "running" /\ d \in net /\ d.to = "client"
  /\ net' = net \ {d}
  /\ fails' \in CASE d.kind = "keepalive" /\ Reaches(d)         -> {RecordRtt(fails, d.path)}
                  [] d.kind = "keepalive" /\ link[d.path] = "silent" ->
                       {fails, RecordLosses(fails, {d.path})}
                  [] OTHER -> {fails}
  /\ recent' = recent \cup Alive(fails')
  /\ assigned' = {}
  /\ UNCHANGED <<network, phase, attempt, alive, fresh, server>>

\* _control_tick, and set_scheduler_mode.
ControlTick ==
  /\ phase = "running"
  /\ Refresh
  /\ assigned' = {}
  /\ UNCHANGED <<network, net, phase, attempt, fails, recent, server>>

\* More than probe_interval_ms since the last refresh.
Age ==
  /\ fresh' = FALSE
  /\ recent' = Alive(fails)
  /\ assigned' = {}
  /\ UNCHANGED <<network, net, phase, attempt, fails, alive, server>>

\* What schedule may decide, whatever its mode and the tier of the packet.
Decisions == [A \in SUBSET Paths |->
  UNION {Schedule(mode, tier, A, prob) :
           mode \in Modes, tier \in Tiers, prob \in Predictions(A)}]

(***************************************************************************)
(* What reaches _on_udp_readable of the server of a packet sent on the     *)
(* paths of S: a path whose pacer refuses is replaced by another one, but  *)
(* its id in the header stays.  The session of data is the one last seen.  *)
(***************************************************************************)
DataArrives(S) ==
  \E p \in S, via \in S \cap Up :
    /\ sessions' = SS!AddressOnData(known, sessions, p, Address(via))
    /\ known' = known \cup {Address(via)}
    /\ active' = {Ip[via]}

Send_NeverRefreshes ==
  /\ phase = "running"
  /\ assigned' \in Decisions[alive]
  /\ DataArrives(assigned') \/ UNCHANGED server
  /\ UNCHANGED <<network, net, client>>

\* _send_packet as far as paths go: schedule refreshes a copy that is too old.
Send ==
  /\ phase = "running"
  /\ IF fresh THEN UNCHANGED <<alive, fresh>> ELSE Refresh
  /\ assigned' \in Decisions[alive']
  /\ DataArrives(assigned') \/ UNCHANGED server
  /\ UNCHANGED <<network, net, phase, attempt, fails, recent>>

-----------------------------------------------------------------------------
(***************************************************************************)
(* The server: _handle_control and _handle_keepalive answer a probe to the *)
(* address it came from, and record that; a new session counts as just     *)
(* seen.                                                                   *)
(***************************************************************************)
Handle(d) ==
  LET addr == <<Ip[d.path], d.port>>
  IN  /\ d \in net /\ d.to = "server"
      /\ net' \in {net \ {d}, (net \ {d}) \cup {[d EXCEPT !.to = "client"]}}
      /\ sessions' = SS!AddressOnProbe(known, sessions, d.path, addr)
      /\ known' = known \cup {addr}
      /\ active' = IF SS!HasSession(known, Ip[d.path]) THEN active ELSE {Ip[d.path]}
      /\ assigned' = {}
      /\ UNCHANGED <<network, client>>

Next ==
  \/ \E p \in Paths : LinkChanges(p) \/ Rebind(p)
  \/ \E d \in net : GetAck(d) \/ Receive(d) \/ Handle(d)
  \/ SendHandshake \/ GiveUp
  \/ KeepaliveRound \/ ControlTick \/ Age \/ Send

Spec == Init /\ [][Next]_vars

(***************************************************************************)
(* Fairness: the handshake and the loops go on, no datagram stays in the   *)
(* network for ever, and of the probes and echoes of a path that is up,    *)
(* sent again and again, some arrive.                                      *)
(***************************************************************************)
Probe(p) == [kind |-> "keepalive", to |-> "server", path |-> p, port |-> port[p]]
Echo(p)  == [Probe(p) EXCEPT !.to = "client"]

FairSpec ==
  /\ Spec
  /\ WF_vars(SendHandshake) /\ WF_vars(GiveUp)
  /\ WF_vars(KeepaliveRound) /\ WF_vars(ControlTick)
  /\ WF_vars(\E d \in net : Receive(d)) /\ WF_vars(\E d \in net : Handle(d))
  /\ \A p \in Paths :
       /\ SF_vars(KeepaliveRound /\ Probe(p) \in net')
       /\ SF_vars(Handle(Probe(p)) /\ Echo(p) \in net')
       /\ SF_vars(Receive(Echo(p)))

-----------------------------------------------------------------------------
(* What the client and the server promise about paths. *)

(***************************************************************************)
(* A packet is given only paths that the monitor has held alive at some    *)
(* moment since the scheduler's copy was last too old: schedule refreshes  *)
(* a stale copy even when the control loop does not                        *)
(* (path_scheduler.py:111-114).                                            *)
(***************************************************************************)
OnlyFreshlyAlive == assigned \subseteq recent

(***************************************************************************)
(* A path whose socket keeps refusing is given up, and one that stays up   *)
(* is used, whatever was thought of it before: the count of failures, the  *)
(* keepalives and the refreshes together follow the link (client.py:581,   *)
(* path_monitor.py:59-88).  Nothing is promised of a silent path.          *)
(***************************************************************************)
AliveFollowsLink ==
  \A p \in Paths :
    /\ <>[](link[p] = "refuses") => <>[](p \notin alive)
    /\ <>[](link[p] = "up") => <>[](p \in alive)

(***************************************************************************)
(* The server ends up returning traffic of a path that stays up to the     *)
(* port it has, whatever old datagrams and data with the ids of other      *)
(* paths arrive in between (server.py:267-269).                            *)
(***************************************************************************)
ReturnAddressSettles ==
  \A p \in Paths, n \in Ports :
    <>[](link[p] = "up" /\ port[p] = n) => <>[](sessions[Ip[p]][p] = n)
=============================================================================
