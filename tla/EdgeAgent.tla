----------------------------- MODULE EdgeAgent -----------------------------
(***************************************************************************)
(* hyperagg/agent/edge_agent.py: the life cycle of the bonding tunnel on   *)
(* an edge device.  Requests come from the local HTTP API, from the VPS    *)
(* over the WebSocket, from auto-start and from the signal handlers, each  *)
(* in an asyncio task of its own; they interleave at the awaits inside     *)
(* start_tunnel (sleep 2), stop_tunnel (await of the tunnel's task) and    *)
(* restart (sleep 1).  The tunnel runs in a task too (_run_tunnel).        *)
(***************************************************************************)
EXTENDS Integers, Sequences

CONSTANTS
  Callers,       \* tasks that make requests, one at a time each
  Vps,           \* the caller that serves the commands of the VPS
  MaxTunnels     \* tunnel tasks created (bound)

ASSUME AgentAssumption == MaxTunnels \in Nat /\ Vps \notin Callers

VARIABLES
  hostSet,     \* is _vps_host configured?
  status,      \* _tunnel_status
  task,        \* _tunnel_task: a tunnel, or NoTunnel
  tunnels,     \* the tasks of _run_tunnel, oldest first
  pc,          \* where each caller is suspended
  overlapped   \* history: was a request ever made while another was in progress?

agentVars == <<hostSet, status, task, tunnels, pc, overlapped>>

Requesters == Callers \cup {Vps}
NoTunnel   == 0
Tunnels    == 1..Len(tunnels)
Live       == {t \in Tunnels : tunnels[t].phase # "ended"}
Statuses   == {"stopped", "starting", "running", "error", "stopping"}
Places     == {"idle", "starting", "stopping", "pausing"}

\* A tunnel task: scheduled, past its first await, or over; and whether
\* cancel() was called.
Phases == {"created", "up", "ended"}
Tunnel == [phase : Phases, cancelled : BOOLEAN]

Idle == [at |-> "idle", tunnel |-> NoTunnel, restart |-> FALSE]

AgentInit ==
  /\ hostSet \in BOOLEAN
  /\ status = "stopped"
  /\ task = NoTunnel
  /\ tunnels = << >>
  /\ pc = [c \in Requesters |-> Idle]
  /\ overlapped = FALSE

AgentTypeOK ==
  /\ hostSet \in BOOLEAN
  /\ status \in Statuses
  /\ task \in 0..MaxTunnels
  /\ tunnels \in Seq(Tunnel) /\ Len(tunnels) <= MaxTunnels
  /\ pc \in [Requesters -> [at : Places, tunnel : 0..MaxTunnels, restart : BOOLEAN]]
  /\ \A c \in Requesters :
       IF pc[c].at \in {"starting", "stopping"} THEN pc[c].tunnel \in Tunnels ELSE pc[c].tunnel = NoTunnel
  /\ overlapped \in BOOLEAN

-----------------------------------------------------------------------------
(* Requests. *)

Return(c) == pc' = [pc EXCEPT ![c] = Idle]

Suspend(c, place, t, restart) ==
  pc' = [pc EXCEPT ![c] = [at |-> place, tunnel |-> t, restart |-> restart]]

\* start_tunnel up to its sleep, or to an early return.
StartTunnel(c) ==
  \/ /\ status = "running"
     /\ Return(c)
     /\ UNCHANGED <<status, task, tunnels>>
  \/ /\ status # "running" /\ ~hostSet
     /\ Return(c)
     /\ UNCHANGED <<status, task, tunnels>>
  \/ /\ status # "running" /\ hostSet
     /\ Len(tunnels) < MaxTunnels
     /\ status' = "starting"
     /\ tunnels' = Append(tunnels, [phase |-> "created", cancelled |-> FALSE])
     /\ task' = Len(tunnels')
     /\ Suspend(c, "starting", task', FALSE)

(* Definitions named X_<flaw> are X with a plausible bug; no action uses them. *)
FinishStart_Blind(c) ==
  /\ pc[c].at = "starting"
  /\ tunnels[pc[c].tunnel].phase # "created"
  /\ status' = "running"
  /\ Return(c)
  /\ UNCHANGED <<hostSet, task, tunnels, overlapped>>

(***************************************************************************)
(* The rest of start_tunnel, two seconds later: the tunnel's task, which   *)
(* runs as soon as the caller sleeps, is past its first step by then.      *)
(***************************************************************************)
FinishStart(c) ==
  /\ pc[c].at = "starting"
  /\ tunnels[pc[c].tunnel].phase # "created"
  /\ status' = IF status = "error" THEN "error" ELSE "running"
  /\ Return(c)
  /\ UNCHANGED <<hostSet, task, tunnels, overlapped>>

\* What a caller does when its stop is over: return, or sleep before the start.
AfterStop(c, restart) ==
  IF restart THEN Suspend(c, "pausing", NoTunnel, FALSE) ELSE Return(c)

\* stop_tunnel up to the await of a task that is not over, or all of it.
StopTunnel(c, restart) ==
  \/ /\ status \notin {"running", "starting"}
     /\ AfterStop(c, restart)
     /\ UNCHANGED <<status, task, tunnels>>
  \/ /\ status \in {"running", "starting"}
     /\ task \notin Live
     /\ status' = "stopped"
     /\ task' = NoTunnel
     /\ AfterStop(c, restart)
     /\ UNCHANGED tunnels
  \/ /\ status \in {"running", "starting"}
     /\ task \in Live
     /\ status' = "stopping"
     /\ tunnels' = [tunnels EXCEPT ![task].cancelled = TRUE]
     /\ Suspend(c, "stopping", task, restart)
     /\ UNCHANGED task

FinishStop_LeavesStopping(c) ==
  /\ pc[c].at = "stopping"
  /\ tunnels[pc[c].tunnel].phase = "ended"
  /\ task' = NoTunnel
  /\ AfterStop(c, pc[c].restart)
  /\ UNCHANGED <<hostSet, status, tunnels, overlapped>>

\* The rest of stop_tunnel, once the task it cancelled is over.
FinishStop(c) ==
  /\ pc[c].at = "stopping"
  /\ tunnels[pc[c].tunnel].phase = "ended"
  /\ task' = NoTunnel
  /\ status' = "stopped"
  /\ AfterStop(c, pc[c].restart)
  /\ UNCHANGED <<hostSet, tunnels, overlapped>>

\* A restart goes on with its start, one second after its stop.
FinishPause(c) ==
  /\ pc[c].at = "pausing"
  /\ StartTunnel(c)
  /\ UNCHANGED <<hostSet, overlapped>>

\* A request is made.
Request(c, what) ==
  /\ pc[c] = Idle
  /\ overlapped' = (overlapped \/ \E d \in Requesters : pc[d] # Idle)
  /\ CASE what = "start" -> StartTunnel(c)
       [] what = "stop" -> StopTunnel(c, FALSE)
       [] what = "restart" -> StopTunnel(c, TRUE)
  /\ UNCHANGED hostSet

\* save_config with an address of the VPS.
Configure ==
  /\ hostSet' = TRUE
  /\ UNCHANGED <<status, task, tunnels, pc, overlapped>>

-----------------------------------------------------------------------------
(* The tunnel's task. *)

(***************************************************************************)
(* _run_tunnel up to the first await of client.start: the tunnel is up, or *)
(* there is no interface, or something raised.                             *)
(***************************************************************************)
Launch(t) ==
  /\ tunnels[t] = [phase |-> "created", cancelled |-> FALSE]
  /\ \/ status' = "running" /\ tunnels' = [tunnels EXCEPT ![t].phase = "up"]
     \/ status' = "error" /\ tunnels' = [tunnels EXCEPT ![t].phase = "ended"]
  /\ UNCHANGED <<hostSet, task, pc, overlapped>>

\* client.start raises, as it does when the handshake reads a foreign datagram.
Fail(t) ==
  /\ tunnels[t] = [phase |-> "up", cancelled |-> FALSE]
  /\ status' = "error"
  /\ tunnels' = [tunnels EXCEPT ![t].phase = "ended"]
  /\ UNCHANGED <<hostSet, task, pc, overlapped>>

\* The cancellation reaches the task; a task that never ran just ends.
Cancelled(t) ==
  /\ tunnels[t].phase # "ended" /\ tunnels[t].cancelled
  /\ tunnels' = [tunnels EXCEPT ![t].phase = "ended"]
  /\ UNCHANGED <<hostSet, status, task, pc, overlapped>>

Finish(c) == FinishStart(c) \/ FinishStop(c) \/ FinishPause(c)

TunnelStep(t) == Launch(t) \/ Fail(t) \/ Cancelled(t)

AgentNext ==
  \/ \E c \in Requesters, what \in {"start", "stop", "restart"} : Request(c, what)
  \/ \E c \in Requesters : Finish(c)
  \/ \E t \in Tunnels : TunnelStep(t)
  \/ Configure

AgentSpec == AgentInit /\ [][AgentNext]_agentVars

-----------------------------------------------------------------------------
(* What the life cycle guarantees. *)

(***************************************************************************)
(* As long as requests come one after another, status and tunnel agree     *)
(* between them: a running tunnel is the one _tunnel_task knows, so that   *)
(* it can be stopped, and in every other status nothing runs               *)
(* (edge_agent.py:180-219, 290-313).                                       *)
(***************************************************************************)
StatusIsTrue ==
  (~overlapped /\ \A c \in Requesters : pc[c] = Idle)
    => IF status = "running" THEN Live = {task} ELSE Live = {}

(***************************************************************************)
(* "Full device status for API/WebSocket" (edge_agent.py:156): while no    *)
(* request is in progress, a tunnel reported as running runs, and is the   *)
(* one that _tunnel_task knows.                                            *)
(***************************************************************************)
RunningIsRunning ==
  (status = "running" /\ \A c \in Requesters : pc[c] = Idle) => task \in Live
=============================================================================
