---------------------------- MODULE ControlPlane ----------------------------
(***************************************************************************)
(* An edge agent and the device registry of the VPS                        *)
(* (hyperagg/dashboard/agent_ws.py), joined by WebSocket connections that  *)
(* break and are made anew.  _vps_websocket_loop of the agent uses one     *)
(* connection at a time; the registry runs one handle_agent_ws per         *)
(* connection and learns of a break later than the agent, so that the      *)
(* handler of an old connection may outlive the registration of a new one. *)
(*                                                                         *)
(* The dashboard sends commands through the registry and provisions        *)
(* devices.  There is one device.  What the agent sends after auth         *)
(* (heartbeats, results) is only displayed and is left out, but for what   *)
(* sending it on a broken connection does.                                 *)
(***************************************************************************)
EXTENDS EdgeAgent

CONSTANTS
  MaxConns,       \* connections the agent makes (bound)
  MaxCommands,    \* commands the dashboard sends (bound)
  MaxProvisions   \* times the device is provisioned (bound)

ASSUME PlaneAssumption == MaxConns \in Nat /\ MaxCommands \in Nat /\ MaxProvisions \in Nat

VARIABLES
  link,       \* the agent's connection (_vps_ws), or NoConn
  conns,      \* the connections, oldest first
  devices,    \* DeviceEntry objects, oldest first
  entry,      \* the one in _devices, or NoEntry
  sends,      \* send_command calls that are in the middle of their send
  commands,   \* send_command calls so far
  provisions  \* provision_device calls so far

planeVars == <<link, conns, devices, entry, sends, commands, provisions>>
vars == <<agentVars, planeVars>>

NoConn  == 0
NoEntry == 0
Actions == {"start", "stop", "restart", "configure"}

(***************************************************************************)
(* A connection: whether it still is one, the commands under way to the    *)
(* agent, and where its handler is; auth is under way from the start.      *)
(***************************************************************************)
NewConn == [up |-> TRUE, toAgent |-> << >>, handler |-> "waiting"]

NewEntry == [ws |-> NoConn, connected |-> FALSE]

Conns == 1..Len(conns)

Init ==
  /\ AgentInit
  /\ link = NoConn
  /\ conns = << >>
  /\ devices = << >>
  /\ entry = NoEntry
  /\ sends = {}
  /\ commands = 0
  /\ provisions = 0

TypeOK ==
  /\ AgentTypeOK
  /\ link \in 0..Len(conns) /\ Len(conns) <= MaxConns
  /\ \A i \in Conns :
       /\ conns[i].up \in BOOLEAN
       /\ conns[i].toAgent \in Seq(Actions)
       /\ conns[i].handler \in {"waiting", "serving", "gone"}
       /\ conns[i].handler = "serving" => entry # NoEntry
  /\ devices \in Seq([ws : 0..Len(conns), connected : BOOLEAN])
  /\ entry \in 0..Len(devices)
  /\ \A s \in sends : /\ s.id \in 0..(commands - 1) /\ s.what \in Actions
                      /\ s.dev \in 1..Len(devices) /\ s.ws \in Conns
  /\ commands \in 0..MaxCommands /\ provisions \in 0..MaxProvisions

-----------------------------------------------------------------------------
(* The agent. *)

\* _vps_websocket_loop connects and authenticates.
Connect ==
  /\ link = NoConn /\ hostSet
  /\ Len(conns) < MaxConns
  /\ conns' = Append(conns, NewConn)
  /\ link' = Len(conns')
  /\ UNCHANGED <<agentVars, devices, entry, sends, commands, provisions>>

\* Sending or reading on a broken connection raises, at the latest when the agent's
\* end knows that it is broken; then the agent leaves it.
LinkLeft == IF link # NoConn /\ ~conns[link].up THEN {NoConn} ELSE {}

(***************************************************************************)
(* The loop takes the next command and hands it to _handle_vps_command,    *)
(* which returns its result at once if the request does not suspend.       *)
(***************************************************************************)
ReceiveCommand ==
  /\ link # NoConn /\ pc[Vps] = Idle
  /\ conns[link].toAgent # << >>
  /\ LET what == Head(conns[link].toAgent)
     IN  IF what = "configure" THEN Configure ELSE Request(Vps, what)
  /\ conns' = [conns EXCEPT ![link].toAgent = Tail(@)]
  /\ link' \in {link} \cup (IF pc'[Vps] = Idle THEN LinkLeft ELSE {})
  /\ UNCHANGED <<devices, entry, sends, commands, provisions>>

\* A suspended command goes on; its result is sent when it returns.
FinishCommand ==
  /\ Finish(Vps)
  /\ link' \in {link} \cup (IF pc'[Vps] = Idle THEN LinkLeft ELSE {})
  /\ UNCHANGED <<conns, devices, entry, sends, commands, provisions>>

\* A heartbeat or a read between commands finds the connection broken.
AgentNotices ==
  /\ pc[Vps] = Idle
  /\ link' \in LinkLeft
  /\ UNCHANGED <<agentVars, conns, devices, entry, sends, commands, provisions>>

\* The local API, auto-start, signals; the tunnel's task.
Local ==
  /\ \/ \E c \in Callers, what \in {"start", "stop"} : Request(c, what)
     \/ \E c \in Callers : Finish(c)
     \/ \E t \in Tunnels : TunnelStep(t)
     \/ ~hostSet /\ Configure
  /\ UNCHANGED planeVars

-----------------------------------------------------------------------------
(* The network and the registry. *)

\* The connection breaks; messages under way may still arrive.
Break(i) ==
  /\ conns[i].up
  /\ conns' = [conns EXCEPT ![i].up = FALSE]
  /\ UNCHANGED <<agentVars, link, devices, entry, sends, commands, provisions>>

Register_OnlyKnown(i) ==
  /\ conns[i].handler = "waiting"
  /\ devices' = IF entry = NoEntry THEN devices
                ELSE [devices EXCEPT ![entry] = [ws |-> i, connected |-> TRUE]]
  /\ conns' = [conns EXCEPT ![i].handler = "serving"]
  /\ UNCHANGED <<agentVars, link, entry, sends, commands, provisions>>

\* handle_agent_ws receives auth: the device is registered as connected.
Register(i) ==
  /\ conns[i].handler = "waiting"
  /\ entry' = IF entry = NoEntry THEN Len(devices) + 1 ELSE entry
  /\ devices' = LET known == IF entry = NoEntry THEN Append(devices, NewEntry) ELSE devices
                IN  [known EXCEPT ![entry'] = [ws |-> i, connected |-> TRUE]]
  /\ conns' = [conns EXCEPT ![i].handler = "serving"]
  /\ UNCHANGED <<agentVars, link, sends, commands, provisions>>

HandlerEnds_KeepsConnected(i) ==
  /\ conns[i].handler = "waiting" \/ (conns[i].handler = "serving" /\ ~conns[i].up)
  /\ conns' = [conns EXCEPT ![i].handler = "gone", ![i].up = FALSE]
  /\ UNCHANGED <<agentVars, link, devices, entry, sends, commands, provisions>>

(***************************************************************************)
(* A read or a ping fails, or auth does not come in time, and the handler  *)
(* ends, and the connection with it.  Its finally clears whatever _devices *)
(* has under the device's name, even if that is the registration of a      *)
(* newer connection.                                                       *)
(***************************************************************************)
HandlerEnds(i) ==
  /\ conns[i].handler = "waiting" \/ (conns[i].handler = "serving" /\ ~conns[i].up)
  /\ conns' = [conns EXCEPT ![i].handler = "gone", ![i].up = FALSE]
  /\ devices' = IF conns[i].handler = "serving"
                THEN [devices EXCEPT ![entry] = NewEntry]
                ELSE devices
  /\ UNCHANGED <<agentVars, link, entry, sends, commands, provisions>>

(***************************************************************************)
(* send_command to a device listed as connected, up to the await of the    *)
(* send; it goes on with the DeviceEntry and the connection it read here.  *)
(***************************************************************************)
SendCommand(what) ==
  /\ commands < MaxCommands
  /\ entry # NoEntry /\ devices[entry].connected
  /\ commands' = commands + 1
  /\ sends' = sends \cup {[id |-> commands, dev |-> entry, ws |-> devices[entry].ws, what |-> what]}
  /\ UNCHANGED <<agentVars, link, conns, devices, entry, provisions>>

\* The send is over.  On a broken connection it may succeed, for it is only
\* buffered, or raise; then the entry is cleared, whatever it holds by now.
EndSend(s) ==
  /\ \/ /\ conns' = [conns EXCEPT ![s.ws].toAgent = Append(@, s.what)]
        /\ UNCHANGED devices
     \/ /\ ~conns[s.ws].up
        /\ devices' = [devices EXCEPT ![s.dev] = NewEntry]
        /\ UNCHANGED conns
  /\ sends' = sends \ {s}
  /\ UNCHANGED <<agentVars, link, entry, commands, provisions>>

\* provision_device under the name of the device: a new DeviceEntry.
Provision ==
  /\ provisions < MaxProvisions
  /\ provisions' = provisions + 1
  /\ devices' = Append(devices, NewEntry)
  /\ entry' = Len(devices')
  /\ UNCHANGED <<agentVars, link, conns, sends, commands>>

Registry(i) == Register(i) \/ HandlerEnds(i)

Next ==
  \/ Connect \/ ReceiveCommand \/ FinishCommand \/ AgentNotices
  \/ Local
  \/ \E i \in Conns : Break(i) \/ Registry(i)
  \/ \E what \in Actions : SendCommand(what)
  \/ \E s \in sends : EndSend(s)
  \/ Provision

Spec == Init /\ [][Next]_vars

(***************************************************************************)
(* Fairness: a suspended coroutine is resumed when its sleep or the task   *)
(* it awaits is over; a tunnel task that was created or cancelled runs; a  *)
(* handler reads auth and, with its ping every 30 s, notices a broken      *)
(* connection.  Nothing is assumed of requests, connections, sends, breaks *)
(* or failures.                                                            *)
(***************************************************************************)
FairSpec ==
  /\ Spec
  /\ \A c \in Callers : WF_vars(Finish(c) /\ UNCHANGED planeVars)
  /\ WF_vars(FinishCommand)
  /\ \A t \in 1..MaxTunnels :
       WF_vars(t \in Tunnels /\ (Launch(t) \/ Cancelled(t)) /\ UNCHANGED planeVars)
  /\ \A i \in 1..MaxConns : WF_vars(i \in Conns /\ Registry(i))

-----------------------------------------------------------------------------
(* What the control plane guarantees. *)

(***************************************************************************)
(* A device listed as connected has a handler that still serves its        *)
(* connection, whatever connections overlapped, broke or were replaced:    *)
(* a command is never sent through a handler that is gone                  *)
(* (agent_ws.py:74-88, 136-147, 172-176).                                  *)
(***************************************************************************)
NoGhostDevice ==
  (entry # NoEntry /\ devices[entry].connected)
    => conns[devices[entry].ws].handler = "serving"

(***************************************************************************)
(* A connection that broke does not keep its device listed: in the end it  *)
(* is cleared or replaced by a newer connection (agent_ws.py:164-176).     *)
(***************************************************************************)
BrokenIsDelisted ==
  \A i \in 1..MaxConns :
    (entry # NoEntry /\ devices[entry] = [ws |-> i, connected |-> TRUE] /\ ~conns[i].up)
      ~> ~(entry # NoEntry /\ devices[entry] = [ws |-> i, connected |-> TRUE])

(***************************************************************************)
(* "starting" and "stopping" pass, however requests overlap and whatever   *)
(* becomes of the tunnel meanwhile (edge_agent.py:190-200, 209-219).       *)
(***************************************************************************)
StatusSettles == status \in {"starting", "stopping"} ~> status \notin {"starting", "stopping"}
=============================================================================
