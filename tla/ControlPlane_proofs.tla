------------------------ MODULE ControlPlane_proofs ------------------------
(***************************************************************************)
(* Proofs about EdgeAgent and ControlPlane, for any callers and any number *)
(* of tunnels, connections, commands and provisions.                       *)
(*                                                                         *)
(* Of the agent: as long as requests come one after another, status and    *)
(* tunnel agree between them.  Between requests is not enough to know for  *)
(* an induction: the invariant says of each await what status and tunnel   *)
(* are there, and that only one caller is at one.                          *)
(*                                                                         *)
(* Of the control plane: the composition implements the agent's life       *)
(* cycle, whatever connections do, and a device listed as connected has a  *)
(* handler that serves its connection.  The second needs types and Listed: *)
(* an entry that is marked connected names a connection that exists, and   *)
(* it does so even after provisioning has replaced it, for a send may      *)
(* still hold it.                                                          *)
(***************************************************************************)
EXTENDS ControlPlane, TLAPS, SequenceTheorems

-----------------------------------------------------------------------------
(* The agent. *)

OneBusy == \A c, d \in Requesters : pc[c] # Idle /\ pc[d] # Idle => c = d

OnlyTask == \A t \in Tunnels : tunnels[t].phase # "ended" => t = task

\* In the sleep of start_tunnel the status is what the tunnel's task made it.
Starting ==
  \A c \in Requesters : pc[c].at = "starting" =>
    /\ pc[c].tunnel = task /\ task \in Tunnels /\ ~tunnels[task].cancelled
    /\ tunnels[task].phase = "created" => status = "starting"
    /\ tunnels[task].phase = "up" => status = "running"
    /\ tunnels[task].phase = "ended" => status = "error"

\* While stop_tunnel awaits the task, that is cancelled.
Stopping ==
  \A c \in Requesters : pc[c].at = "stopping" =>
    /\ pc[c].tunnel = task /\ task \in Tunnels /\ tunnels[task].cancelled
    /\ status = "stopping"

\* Outside of them status and tunnel agree.
Agree ==
  /\ status \in {"stopped", "running", "error"}
  /\ status = "running" => task \in Tunnels /\ tunnels[task].phase = "up" /\ ~tunnels[task].cancelled
  /\ status # "running" => \A t \in Tunnels : tunnels[t].phase = "ended"

Settled == (\A c \in Requesters : pc[c].at \in {"idle", "pausing"}) => Agree

Serial == OneBusy /\ OnlyTask /\ Starting /\ Stopping /\ Settled

AInv == AgentTypeOK /\ (~overlapped => Serial)

-----------------------------------------------------------------------------

LEMMA AgentInitInv == AgentInit => AInv
<1> SUFFICES ASSUME AgentInit PROVE AInv
  OBVIOUS
<1> USE DEF AgentInit, NoTunnel, Idle
<1>1. AgentTypeOK
  <2>1. hostSet \in BOOLEAN /\ overlapped \in BOOLEAN
    BY Zenon
  <2>2. status \in Statuses /\ task \in 0..MaxTunnels /\ tunnels \in Seq(Tunnel) /\ Len(tunnels) <= MaxTunnels
    BY AgentAssumption DEF Statuses
  <2>3. pc \in [Requesters -> [at : Places, tunnel : 0..MaxTunnels, restart : BOOLEAN]]
    BY AgentAssumption DEF Places
  <2>4. \A c \in Requesters :
          IF pc[c].at \in {"starting", "stopping"} THEN pc[c].tunnel \in Tunnels ELSE pc[c].tunnel = NoTunnel
    OBVIOUS
  <2> QED BY <2>1, <2>2, <2>3, <2>4, Zenon DEF AgentTypeOK
<1>2. Serial
  BY DEF Serial, OneBusy, OnlyTask, Starting, Stopping, Settled, Agree, Tunnels
<1> QED BY <1>1, <1>2 DEF AInv

\* What the types say of the parts that change.
PcType == pc \in [Requesters -> [at : Places, tunnel : 0..MaxTunnels, restart : BOOLEAN]]

(***************************************************************************)
(* start_tunnel up to its sleep, by the only busy caller, if any.          *)
(***************************************************************************)
LEMMA StartTunnelInv ==
  ASSUME AgentTypeOK, NEW c \in Requesters, StartTunnel(c), hostSet' = hostSet,
         overlapped' \in BOOLEAN,
         ~overlapped' => /\ Serial /\ Agree
                         /\ \A d \in Requesters : d # c => pc[d] = Idle
  PROVE  AInv'
<1>1. /\ tunnels \in Seq(Tunnel) /\ Len(tunnels) \in Nat /\ Len(tunnels) <= MaxTunnels
      /\ status \in Statuses /\ task \in 0..MaxTunnels /\ PcType
      /\ \A d \in Requesters :
           IF pc[d].at \in {"starting", "stopping"} THEN pc[d].tunnel \in Tunnels ELSE pc[d].tunnel = NoTunnel
  BY DEF AgentTypeOK, PcType
<1>2. hostSet' \in BOOLEAN
  BY DEF AgentTypeOK
<1>3. CASE Return(c) /\ UNCHANGED <<status, task, tunnels>>
  <2>1. /\ pc' \in [Requesters -> [at : Places, tunnel : 0..MaxTunnels, restart : BOOLEAN]]
        /\ pc'[c] = Idle /\ \A d \in Requesters : d # c => pc'[d] = pc[d]
    BY <1>1, <1>3, AgentAssumption DEF PcType, Return, Idle, Places, NoTunnel
  <2>2. \A d \in Requesters :
          IF pc'[d].at \in {"starting", "stopping"} THEN pc'[d].tunnel \in Tunnels' ELSE pc'[d].tunnel = NoTunnel
    BY <1>1, <1>3, <2>1 DEF Idle, Tunnels
  <2>3. AgentTypeOK'
    BY <1>1, <1>2, <1>3, <2>1, <2>2, Zenon DEF AgentTypeOK
  <2>4. ASSUME ~overlapped' PROVE Serial'
    <3>1. \A d \in Requesters : pc'[d] = Idle
      BY <2>1, <2>4
    <3>2. OneBusy' /\ Starting' /\ Stopping'
      <4>1. \A d \in Requesters : pc'[d].at = "idle"
        BY <3>1 DEF Idle
      <4>2. OneBusy'
        BY <3>1, Zenon DEF OneBusy
      <4>3. Starting' /\ Stopping'
        BY <4>1 DEF Starting, Stopping
      <4> QED BY <4>2, <4>3
    <3>3. OnlyTask' /\ Settled'
      BY <1>3, <2>4 DEF Serial, OnlyTask, Settled, Agree, Tunnels
    <3> QED BY <3>2, <3>3 DEF Serial
  <2> QED BY <2>3, <2>4 DEF AInv
<1>4. CASE /\ status # "running" /\ Len(tunnels) < MaxTunnels
           /\ status' = "starting"
           /\ tunnels' = Append(tunnels, [phase |-> "created", cancelled |-> FALSE])
           /\ task' = Len(tunnels')
           /\ Suspend(c, "starting", task', FALSE)
  <2> DEFINE n == Len(tunnels) + 1
  <2>1. /\ tunnels' \in Seq(Tunnel) /\ Len(tunnels') = n /\ n \in 1..MaxTunnels
        /\ Tunnels' = Tunnels \cup {n} /\ tunnels'[n] = [phase |-> "created", cancelled |-> FALSE]
        /\ \A t \in Tunnels : t # n /\ tunnels'[t] = tunnels[t]
    BY <1>1, <1>4, AgentAssumption DEF Tunnel, Phases, Tunnels
  <2>2. /\ pc' \in [Requesters -> [at : Places, tunnel : 0..MaxTunnels, restart : BOOLEAN]]
        /\ pc'[c] = [at |-> "starting", tunnel |-> n, restart |-> FALSE]
        /\ \A d \in Requesters : d # c => pc'[d] = pc[d]
    BY <1>1, <1>4, <2>1 DEF PcType, Suspend, Places
  <2>3. \A d \in Requesters :
          IF pc'[d].at \in {"starting", "stopping"} THEN pc'[d].tunnel \in Tunnels' ELSE pc'[d].tunnel = NoTunnel
    BY <1>1, <2>1, <2>2
  <2>4. status' \in Statuses /\ task' \in 0..MaxTunnels /\ Len(tunnels') <= MaxTunnels
    BY <1>4, <2>1 DEF Statuses
  <2>5. AgentTypeOK'
    BY <1>2, <2>1, <2>2, <2>3, <2>4, Zenon DEF AgentTypeOK
  <2>6. ASSUME ~overlapped' PROVE Serial'
    <3>1. \A t \in Tunnels : tunnels'[t].phase = "ended"
      BY <1>4, <2>1, <2>6 DEF Agree
    <3>2. \A d \in Requesters : d # c => pc'[d] = Idle
      BY <2>2, <2>6
    <3>3. OneBusy' /\ Stopping' /\ Settled'
      BY <2>2, <3>2 DEF OneBusy, Stopping, Settled, Idle
    <3>4. OnlyTask'
      BY <1>4, <2>1, <3>1 DEF OnlyTask
    <3>5. Starting'
      BY <1>4, <2>1, <2>2, <3>2 DEF Starting, Idle
    <3> QED BY <3>3, <3>4, <3>5 DEF Serial
  <2> QED BY <2>5, <2>6 DEF AInv
<1> QED BY <1>3, <1>4 DEF StartTunnel

(***************************************************************************)
(* The end of a request or a sleep: a caller moves on while the tunnels    *)
(* stay as they are; with nobody left in start_tunnel or stop_tunnel,      *)
(* status and tunnel must agree.                                           *)
(***************************************************************************)
LEMMA MovesOn ==
  ASSUME AgentTypeOK, NEW c \in Requesters, NEW place \in {"idle", "pausing"}, NEW r \in BOOLEAN,
         pc' = [pc EXCEPT ![c] = [at |-> place, tunnel |-> NoTunnel, restart |-> r]],
         place = "idle" => ~r,
         status' \in Statuses, task' \in {task, NoTunnel},
         UNCHANGED <<hostSet, tunnels>>, overlapped' \in BOOLEAN,
         ~overlapped' => /\ OnlyTask' /\ Agree'
                         /\ \A d \in Requesters : d # c => pc[d] = Idle
  PROVE  AInv'
<1>1. /\ tunnels \in Seq(Tunnel) /\ Len(tunnels) <= MaxTunnels
      /\ task \in 0..MaxTunnels /\ PcType
      /\ \A d \in Requesters :
           IF pc[d].at \in {"starting", "stopping"} THEN pc[d].tunnel \in Tunnels ELSE pc[d].tunnel = NoTunnel
  BY DEF AgentTypeOK, PcType
<1>2. hostSet' \in BOOLEAN
  BY DEF AgentTypeOK
<1>3. /\ pc' \in [Requesters -> [at : Places, tunnel : 0..MaxTunnels, restart : BOOLEAN]]
      /\ pc'[c].at = place /\ pc'[c].tunnel = NoTunnel /\ \A d \in Requesters : d # c => pc'[d] = pc[d]
  BY <1>1, AgentAssumption DEF PcType, Places, NoTunnel
<1>4. \A d \in Requesters :
        IF pc'[d].at \in {"starting", "stopping"} THEN pc'[d].tunnel \in Tunnels' ELSE pc'[d].tunnel = NoTunnel
  BY <1>1, <1>3 DEF Tunnels
<1>5. task' \in 0..MaxTunnels /\ tunnels' \in Seq(Tunnel) /\ Len(tunnels') <= MaxTunnels
  BY <1>1, AgentAssumption DEF NoTunnel
<1>6. AgentTypeOK'
  BY <1>2, <1>3, <1>4, <1>5, Zenon DEF AgentTypeOK
<1>7. ASSUME ~overlapped' PROVE Serial'
  <2>1. \A d \in Requesters : d # c => pc'[d] = Idle
    BY <1>3, <1>7
  <2>2. \A d \in Requesters : pc'[d].at \in {"idle", "pausing"}
    BY <1>3, <2>1 DEF Idle
  <2>3. OneBusy'
    BY <2>1, Zenon DEF OneBusy
  <2>4. Starting' /\ Stopping'
    BY <2>2 DEF Starting, Stopping
  <2> QED BY <1>7, <2>3, <2>4, Zenon DEF Serial, Settled
<1> QED BY <1>6, <1>7 DEF AInv

\* AfterStop is such a move.
LEMMA AfterStopMoves ==
  ASSUME NEW c \in Requesters, NEW restart \in BOOLEAN, AfterStop(c, restart)
  PROVE  \E place \in {"idle", "pausing"}, r \in BOOLEAN :
           /\ pc' = [pc EXCEPT ![c] = [at |-> place, tunnel |-> NoTunnel, restart |-> r]]
           /\ place = "idle" => ~r
<1>1. CASE restart
  BY <1>1, Zenon DEF AfterStop, Suspend
<1>2. CASE ~restart
  BY <1>2, Zenon DEF AfterStop, Return, Idle
<1> QED BY <1>1, <1>2

LEMMA FinishStartInv ==
  ASSUME AInv, NEW c \in Requesters, FinishStart(c)
  PROVE  AInv'
<1>1. /\ AgentTypeOK /\ pc[c].at = "starting" /\ tunnels[pc[c].tunnel].phase # "created"
      /\ UNCHANGED <<hostSet, task, tunnels, overlapped>>
      /\ status' = IF status = "error" THEN "error" ELSE "running"
      /\ pc' = [pc EXCEPT ![c] = [at |-> "idle", tunnel |-> NoTunnel, restart |-> FALSE]]
  BY DEF AInv, FinishStart, Return, Idle
<1>2. overlapped' \in BOOLEAN
  BY <1>1, Zenon DEF AgentTypeOK
<1>3. ASSUME ~overlapped'
      PROVE  OnlyTask' /\ Agree' /\ \A d \in Requesters : d # c => pc[d] = Idle
  <2>1. OneBusy /\ OnlyTask /\ Starting
    BY <1>1, <1>3, Zenon DEF AInv, Serial
  <2>2. /\ task \in Tunnels /\ ~tunnels[task].cancelled
        /\ tunnels[task].phase # "created"
        /\ tunnels[task].phase = "up" => status = "running"
        /\ tunnels[task].phase = "ended" => status = "error"
    BY <1>1, <2>1 DEF Starting
  <2>3. tunnels[task].phase \in {"up", "ended"}
    <3>1. tunnels[task] \in Tunnel
      BY <1>1, <2>2 DEF AgentTypeOK, Tunnels
    <3> QED BY <2>2, <3>1 DEF Tunnel, Phases
  <2>4. Agree'
    BY <1>1, <2>1, <2>2, <2>3 DEF Agree, OnlyTask, Tunnels
  <2>5. OnlyTask'
    BY <1>1, <2>1 DEF OnlyTask, Tunnels
  <2>6. pc[c] # Idle
    BY <1>1 DEF Idle
  <2> QED BY <2>1, <2>4, <2>5, <2>6, Zenon DEF OneBusy
<1>4. status' \in Statuses
  BY <1>1 DEF Statuses
<1> QED BY <1>1, <1>2, <1>3, <1>4, MovesOn

LEMMA FinishStopInv ==
  ASSUME AInv, NEW c \in Requesters, FinishStop(c)
  PROVE  AInv'
<1>1. /\ AgentTypeOK /\ pc[c].at = "stopping" /\ tunnels[pc[c].tunnel].phase = "ended"
      /\ UNCHANGED <<hostSet, tunnels, overlapped>> /\ status' = "stopped" /\ task' = NoTunnel
  BY DEF AInv, FinishStop
<1>2. pc[c].restart \in BOOLEAN /\ AfterStop(c, pc[c].restart)
  BY <1>1 DEF AgentTypeOK, FinishStop
<1>3. overlapped' \in BOOLEAN
  BY <1>1, Zenon DEF AgentTypeOK
<1>4. ASSUME ~overlapped'
      PROVE  OnlyTask' /\ Agree' /\ \A d \in Requesters : d # c => pc[d] = Idle
  <2>1. OneBusy /\ OnlyTask /\ Stopping
    BY <1>1, <1>4, Zenon DEF AInv, Serial
  <2>2. \A t \in Tunnels : tunnels[t].phase = "ended"
    BY <1>1, <2>1 DEF Stopping, OnlyTask
  <2>3. OnlyTask' /\ Agree'
    BY <1>1, <2>2 DEF OnlyTask, Agree, Tunnels
  <2>4. pc[c] # Idle
    BY <1>1 DEF Idle
  <2> QED BY <2>1, <2>3, <2>4, Zenon DEF OneBusy
<1>5. status' \in Statuses
  BY <1>1 DEF Statuses
<1>6. PICK place \in {"idle", "pausing"}, r \in BOOLEAN :
        /\ pc' = [pc EXCEPT ![c] = [at |-> place, tunnel |-> NoTunnel, restart |-> r]]
        /\ place = "idle" => ~r
  BY <1>2, AfterStopMoves
<1> QED BY <1>1, <1>3, <1>4, <1>5, <1>6, MovesOn

(***************************************************************************)
(* A tunnel's record changes: a status that fits it keeps the invariant.   *)
(***************************************************************************)
LEMMA TunnelChanges ==
  ASSUME AgentTypeOK, NEW t \in Tunnels, NEW x \in Tunnel,
         tunnels' = [tunnels EXCEPT ![t] = x]
  PROVE  /\ tunnels' \in Seq(Tunnel) /\ Len(tunnels') = Len(tunnels) /\ Tunnels' = Tunnels
         /\ Len(tunnels') <= MaxTunnels
         /\ tunnels'[t] = x /\ \A u \in Tunnels : u # t => tunnels'[u] = tunnels[u]
<1>1. tunnels \in Seq(Tunnel) /\ Len(tunnels) <= MaxTunnels
  BY DEF AgentTypeOK
<1> QED BY <1>1 DEF Tunnels

LEMMA StopTunnelInv ==
  ASSUME AgentTypeOK, NEW c \in Requesters, NEW restart \in BOOLEAN, StopTunnel(c, restart),
         hostSet' = hostSet, overlapped' \in BOOLEAN,
         ~overlapped' => /\ Serial /\ Agree
                         /\ \A d \in Requesters : d # c => pc[d] = Idle
  PROVE  AInv'
<1>1. CASE AfterStop(c, restart) /\ UNCHANGED <<status, task, tunnels>>
  <2>1. PICK place \in {"idle", "pausing"}, r \in BOOLEAN :
          /\ pc' = [pc EXCEPT ![c] = [at |-> place, tunnel |-> NoTunnel, restart |-> r]]
          /\ place = "idle" => ~r
    BY <1>1, AfterStopMoves
  <2>2. status' \in Statuses
    BY <1>1 DEF AgentTypeOK
  <2>3. ~overlapped' => OnlyTask' /\ Agree'
    BY <1>1 DEF Serial, OnlyTask, Agree, Tunnels
  <2> QED BY <1>1, <2>1, <2>2, <2>3, MovesOn
<1>2. CASE /\ status \in {"running", "starting"} /\ task \notin Live
           /\ status' = "stopped" /\ task' = NoTunnel
           /\ AfterStop(c, restart) /\ UNCHANGED tunnels
  <2>1. PICK place \in {"idle", "pausing"}, r \in BOOLEAN :
          /\ pc' = [pc EXCEPT ![c] = [at |-> place, tunnel |-> NoTunnel, restart |-> r]]
          /\ place = "idle" => ~r
    BY <1>2, AfterStopMoves
  <2>2. status' \in Statuses
    BY <1>2 DEF Statuses
  <2>3. ~overlapped' => OnlyTask' /\ Agree'
    BY <1>2 DEF Serial, OnlyTask, Agree, Tunnels, Live
  <2> QED BY <1>2, <2>1, <2>2, <2>3, MovesOn
<1>3. CASE /\ task \in Live
           /\ status' = "stopping"
           /\ tunnels' = [tunnels EXCEPT ![task].cancelled = TRUE]
           /\ Suspend(c, "stopping", task, restart)
           /\ UNCHANGED task
  <2> DEFINE x == [tunnels[task] EXCEPT !.cancelled = TRUE]
  <2>1. task \in Tunnels /\ tunnels[task] \in Tunnel /\ tunnels \in Seq(Tunnel)
    BY <1>3 DEF Live, AgentTypeOK, Tunnels
  <2>2. x \in Tunnel /\ x.cancelled /\ x.phase = tunnels[task].phase
    BY <2>1 DEF Tunnel
  <2>3. tunnels' = [tunnels EXCEPT ![task] = x]
    BY <1>3, <2>1 DEF Tunnels
  <2> HIDE DEF x
  <2>4. /\ tunnels' \in Seq(Tunnel) /\ Tunnels' = Tunnels /\ Len(tunnels') <= MaxTunnels
        /\ tunnels'[task] = x /\ \A u \in Tunnels : u # task => tunnels'[u] = tunnels[u]
    BY <2>1, <2>2, <2>3, TunnelChanges
  <2>5. PcType /\ task \in 0..MaxTunnels
        /\ \A d \in Requesters :
             IF pc[d].at \in {"starting", "stopping"} THEN pc[d].tunnel \in Tunnels ELSE pc[d].tunnel = NoTunnel
    BY DEF AgentTypeOK, PcType
  <2>6. /\ pc' \in [Requesters -> [at : Places, tunnel : 0..MaxTunnels, restart : BOOLEAN]]
        /\ pc'[c] = [at |-> "stopping", tunnel |-> task, restart |-> restart]
        /\ \A d \in Requesters : d # c => pc'[d] = pc[d]
    BY <1>3, <2>5 DEF PcType, Suspend, Places
  <2>7. \A d \in Requesters :
          IF pc'[d].at \in {"starting", "stopping"} THEN pc'[d].tunnel \in Tunnels' ELSE pc'[d].tunnel = NoTunnel
    BY <2>1, <2>4, <2>5, <2>6
  <2>8. status' \in Statuses /\ hostSet' \in BOOLEAN
    BY <1>3 DEF Statuses, AgentTypeOK
  <2>9. AgentTypeOK'
    BY <1>3, <2>4, <2>5, <2>6, <2>7, <2>8, Zenon DEF AgentTypeOK
  <2>10. ASSUME ~overlapped' PROVE Serial'
    <3>1. \A d \in Requesters : d # c => pc'[d] = Idle
      BY <2>6, <2>10
    <3>2. OneBusy'
      BY <3>1, Zenon DEF OneBusy
    <3>3. Starting' /\ Settled'
      BY <2>6, <3>1 DEF Starting, Settled, Idle
    <3>4. OnlyTask'
      BY <1>3, <2>2, <2>4, <2>10 DEF Serial, OnlyTask
    <3>5. Stopping'
      <4>1. ASSUME NEW d \in Requesters, pc'[d].at = "stopping"
            PROVE  d = c
        BY <3>1, <4>1 DEF Idle
      <4>2. pc'[c].tunnel = task' /\ task' \in Tunnels' /\ status' = "stopping"
        BY <1>3, <2>1, <2>4, <2>6
      <4>3. tunnels'[task'].cancelled
        BY <1>3, <2>2, <2>4
      <4> QED BY <4>1, <4>2, <4>3, Zenon DEF Stopping
    <3> QED BY <3>2, <3>3, <3>4, <3>5 DEF Serial
  <2> QED BY <2>9, <2>10 DEF AInv
<1> QED BY <1>1, <1>2, <1>3, Zenon DEF StopTunnel

LEMMA RequestInv ==
  ASSUME AInv, NEW c \in Requesters, NEW what \in {"start", "stop", "restart"}, Request(c, what)
  PROVE  AInv'
<1>1. /\ AgentTypeOK /\ pc[c] = Idle /\ hostSet' = hostSet
      /\ overlapped' = (overlapped \/ \E d \in Requesters : pc[d] # Idle)
      /\ StartTunnel(c) \/ StopTunnel(c, FALSE) \/ StopTunnel(c, TRUE)
  BY DEF AInv, Request
<1>2. overlapped' \in BOOLEAN
  BY <1>1, Zenon
<1>3. ASSUME ~overlapped'
      PROVE  Serial /\ Agree /\ \A d \in Requesters : d # c => pc[d] = Idle
  <2>1. Serial /\ \A d \in Requesters : pc[d] = Idle
    BY <1>1, <1>3, Zenon DEF AInv
  <2>2. \A d \in Requesters : pc[d].at = "idle"
    BY <2>1 DEF Idle
  <2> QED BY <2>1, <2>2 DEF Serial, Settled
<1>4. CASE StartTunnel(c)
  BY <1>1, <1>2, <1>3, <1>4, StartTunnelInv
<1>5. CASE StopTunnel(c, FALSE)
  BY <1>1, <1>2, <1>3, <1>5, StopTunnelInv
<1>6. CASE StopTunnel(c, TRUE)
  BY <1>1, <1>2, <1>3, <1>6, StopTunnelInv
<1> QED BY <1>1, <1>4, <1>5, <1>6

LEMMA FinishPauseInv ==
  ASSUME AInv, NEW c \in Requesters, FinishPause(c)
  PROVE  AInv'
<1>1. /\ AgentTypeOK /\ pc[c].at = "pausing" /\ StartTunnel(c)
      /\ hostSet' = hostSet /\ overlapped' = overlapped
  BY DEF AInv, FinishPause
<1>2. overlapped' \in BOOLEAN
  BY <1>1, Zenon DEF AgentTypeOK
<1>3. ASSUME ~overlapped'
      PROVE  Serial /\ Agree /\ \A d \in Requesters : d # c => pc[d] = Idle
  <2>1. Serial
    BY <1>1, <1>3, Zenon DEF AInv
  <2>2. pc[c] # Idle
    BY <1>1 DEF Idle
  <2>3. \A d \in Requesters : d # c => pc[d] = Idle
    BY <2>1, <2>2, Zenon DEF Serial, OneBusy
  <2>4. \A d \in Requesters : pc[d].at \in {"idle", "pausing"}
    BY <1>1, <2>3 DEF Idle
  <2> QED BY <2>1, <2>3, <2>4, Zenon DEF Serial, Settled
<1> QED BY <1>1, <1>2, <1>3, StartTunnelInv

(***************************************************************************)
(* A step of a tunnel's task.                                              *)
(***************************************************************************)
LEMMA TunnelStepInv ==
  ASSUME AInv, NEW t \in Tunnels, TunnelStep(t)
  PROVE  AInv'
<1>1. /\ AgentTypeOK /\ UNCHANGED <<hostSet, task, pc, overlapped>>
      /\ tunnels \in Seq(Tunnel) /\ tunnels[t] \in Tunnel
  BY DEF AInv, AgentTypeOK, TunnelStep, Launch, Fail, Cancelled, Tunnels
<1>2. PICK p \in {"up", "ended"} :
        /\ tunnels' = [tunnels EXCEPT ![t].phase = p]
        /\ \/ ~tunnels[t].cancelled /\ p = "up" /\ status' = "running" /\ tunnels[t].phase = "created"
           \/ ~tunnels[t].cancelled /\ p = "ended" /\ status' = "error" /\ tunnels[t].phase \in {"created", "up"}
           \/ tunnels[t].cancelled /\ p = "ended" /\ status' = status /\ tunnels[t].phase # "ended"
  BY <1>1 DEF TunnelStep, Launch, Fail, Cancelled
<1> DEFINE x == [tunnels[t] EXCEPT !.phase = p]
<1>3. x \in Tunnel /\ x.phase = p /\ x.cancelled = tunnels[t].cancelled
  BY <1>1 DEF Tunnel, Phases
<1>4. tunnels' = [tunnels EXCEPT ![t] = x]
  BY <1>1, <1>2 DEF Tunnels
<1> HIDE DEF x
<1>5. /\ tunnels' \in Seq(Tunnel) /\ Tunnels' = Tunnels /\ Len(tunnels') <= MaxTunnels
      /\ tunnels'[t] = x /\ \A u \in Tunnels : u # t => tunnels'[u] = tunnels[u]
  BY <1>1, <1>3, <1>4, TunnelChanges
<1>6. status' \in Statuses
  BY <1>1, <1>2 DEF AgentTypeOK, Statuses
<1>7. AgentTypeOK'
  BY <1>1, <1>5, <1>6, Zenon DEF AgentTypeOK
<1>8. ASSUME ~overlapped' PROVE Serial'
  <2>1. Serial
    BY <1>1, <1>8, Zenon DEF AInv
  <2>2. OneBusy'
    BY <1>1, <2>1, Zenon DEF Serial, OneBusy
  <2>3. t = task /\ tunnels[t].phase # "ended"
    BY <1>2, <2>1 DEF Serial, OnlyTask
  <2>4. OnlyTask'
    BY <1>1, <1>5, <2>1, <2>3 DEF Serial, OnlyTask
  <2>5. Starting'
    BY <1>1, <1>2, <1>3, <1>5, <2>1, <2>3 DEF Serial, Starting
  <2>6. Stopping'
    BY <1>1, <1>2, <1>3, <1>5, <2>1, <2>3 DEF Serial, Stopping
  <2>7. Settled'
    BY <1>1, <1>2, <1>3, <1>5, <2>1, <2>3 DEF Serial, Settled, Agree, OnlyTask
  <2> QED BY <2>2, <2>4, <2>5, <2>6, <2>7 DEF Serial
<1> QED BY <1>7, <1>8 DEF AInv

LEMMA AgentNextInv == AInv /\ [AgentNext]_agentVars => AInv'
<1> SUFFICES ASSUME AInv, [AgentNext]_agentVars PROVE AInv'
  OBVIOUS
<1>1. ASSUME NEW c \in Requesters, NEW what \in {"start", "stop", "restart"}, Request(c, what) PROVE AInv'
  BY <1>1, RequestInv
<1>2. ASSUME NEW c \in Requesters, Finish(c) PROVE AInv'
  BY <1>2, FinishStartInv, FinishStopInv, FinishPauseInv DEF Finish
<1>3. ASSUME NEW t \in Tunnels, TunnelStep(t) PROVE AInv'
  BY <1>3, TunnelStepInv
<1>4. ASSUME hostSet' \in BOOLEAN, UNCHANGED <<status, task, tunnels, pc, overlapped>> PROVE AInv'
  BY <1>4 DEF AInv, AgentTypeOK, Serial, OneBusy, OnlyTask, Starting, Stopping, Settled, Agree, Tunnels
<1>5. CASE Configure
  BY <1>4, <1>5 DEF Configure
<1>6. CASE UNCHANGED agentVars
  BY <1>4, <1>6 DEF agentVars, AInv, AgentTypeOK
<1> QED BY <1>1, <1>2, <1>3, <1>5, <1>6, Zenon DEF AgentNext

(***************************************************************************)
(* The agent's inductive invariant: types, and, while requests come one    *)
(* after another, one caller is at an await, and at each await status,     *)
(* task and tunnel are what edge_agent.py:180-313 left there.              *)
(***************************************************************************)
THEOREM AgentInvariant == AgentSpec => []AInv
BY AgentInitInv, AgentNextInv, PTL DEF AgentSpec

LEMMA StatusFromInvariant == AInv => StatusIsTrue
<1> SUFFICES ASSUME AInv, ~overlapped, \A c \in Requesters : pc[c] = Idle
             PROVE  IF status = "running" THEN Live = {task} ELSE Live = {}
  BY DEF StatusIsTrue
<1>1. \A c \in Requesters : pc[c].at = "idle"
  BY DEF Idle
<1>2. Agree /\ OnlyTask
  BY <1>1 DEF AInv, Serial, Settled
<1> QED BY <1>2 DEF Agree, OnlyTask, Live

(***************************************************************************)
(* While requests come one after another, between them a running tunnel is *)
(* the one _tunnel_task knows and in every other status nothing runs       *)
(* (edge_agent.py:180-219, 290-313).                                       *)
(***************************************************************************)
THEOREM StatusAgrees == AgentSpec => []StatusIsTrue
BY AgentInvariant, StatusFromInvariant, PTL

-----------------------------------------------------------------------------
(* The control plane. *)

Handlers == {"waiting", "serving", "gone"}
Conn     == [up : BOOLEAN, toAgent : Seq(Actions), handler : Handlers]
Device   == [ws : Nat, connected : BOOLEAN]
Entries  == 1..Len(devices)

PlaneTypes ==
  /\ link \in 0..Len(conns)
  /\ conns \in Seq(Conn) /\ Len(conns) <= MaxConns
  /\ devices \in Seq(Device)
  /\ \A d \in Entries : devices[d].ws \in 0..Len(conns)
  /\ entry \in 0..Len(devices)
  /\ commands \in 0..MaxCommands /\ provisions \in 0..MaxProvisions

SendTypes ==
  \A s \in sends : /\ s.id \in 0..(commands - 1) /\ s.what \in Actions
                   /\ s.dev \in Entries /\ s.ws \in Conns

ServesKnown == \A i \in Conns : conns[i].handler = "serving" => entry # NoEntry

Listed == \A d \in Entries : devices[d].connected => devices[d].ws \in Conns

PInv == PlaneTypes /\ SendTypes /\ ServesKnown /\ Listed /\ NoGhostDevice

-----------------------------------------------------------------------------
(* The agent's part: every step of the composition is one of the agent. *)

LEMMA Commands ==
  ASSUME NEW what \in Actions
  PROVE  what # "configure" => what \in {"start", "stop", "restart"}
BY DEF Actions

LEMMA StepIsAgentStep == PlaneTypes /\ [Next]_vars => [AgentNext]_agentVars
<1> SUFFICES ASSUME PlaneTypes, [Next]_vars PROVE [AgentNext]_agentVars
  OBVIOUS
<1>1. CASE ReceiveCommand
  <2>1. link \in Conns /\ conns[link].toAgent # << >> /\ conns \in Seq(Conn)
    BY <1>1 DEF ReceiveCommand, PlaneTypes, Conns, NoConn
  <2>2. Head(conns[link].toAgent) \in Actions
    <3>1. conns[link] \in Conn
      BY <2>1, ElementOfSeq DEF Conns
    <3>2. conns[link].toAgent \in Seq(Actions)
      BY <3>1 DEF Conn
    <3> QED BY <2>1, <3>2, HeadTailProperties
  <2>3. Vps \in Requesters
    BY DEF Requesters
  <2>4. \/ Configure
        \/ \E what \in {"start", "stop", "restart"} : Request(Vps, what)
    BY <1>1, <2>2, Commands DEF ReceiveCommand
  <2> QED BY <2>3, <2>4 DEF AgentNext
<1>2. CASE FinishCommand
  BY <1>2 DEF FinishCommand, AgentNext, Requesters
<1>3. CASE Local
  BY <1>3 DEF Local, AgentNext, Requesters
<1>4. CASE \/ Connect \/ AgentNotices \/ Provision
           \/ \E i \in Conns : Break(i) \/ Registry(i)
           \/ \E what \in Actions : SendCommand(what)
           \/ \E s \in sends : EndSend(s)
           \/ UNCHANGED vars
  <2>1. UNCHANGED agentVars
    BY <1>4, Zenon DEF Connect, AgentNotices, Provision, Break, Registry, Register, HandlerEnds,
                       SendCommand, EndSend, vars
  <2> QED BY <2>1
<1> QED BY <1>1, <1>2, <1>3, <1>4, Zenon DEF Next

-----------------------------------------------------------------------------
(* The registry's part. *)

LEMMA PlaneInitInv == Init => PInv
<1> SUFFICES ASSUME Init PROVE PInv
  OBVIOUS
<1> USE DEF Init, NoConn, NoEntry, Conns, Entries
<1>1. PlaneTypes
  BY PlaneAssumption, EmptySeq DEF PlaneTypes
<1>2. SendTypes /\ ServesKnown /\ Listed /\ NoGhostDevice
  BY DEF SendTypes, ServesKnown, Listed, NoGhostDevice
<1> QED BY <1>1, <1>2 DEF PInv

\* The facts about sequences that the steps need: appending and replacing.
LEMMA Appended ==
  ASSUME NEW S, NEW s \in Seq(S), NEW x \in S
  PROVE  /\ Append(s, x) \in Seq(S) /\ Len(Append(s, x)) = Len(s) + 1 /\ Len(s) \in Nat
         /\ Append(s, x)[Len(s) + 1] = x
         /\ \A j \in 1..Len(s) : Append(s, x)[j] = s[j]
OBVIOUS

\* One connection changes and its handler stays: messages come or go, or it breaks.
LEMMA ConnectionChanges ==
  ASSUME PInv, NEW i \in Conns, NEW x \in Conn, x.handler = conns[i].handler,
         conns' = [conns EXCEPT ![i] = x], link' \in 0..Len(conns),
         sends' \subseteq sends,
         UNCHANGED <<devices, entry, commands, provisions>>
  PROVE  PInv'
<1>1. /\ conns' \in Seq(Conn) /\ Len(conns') = Len(conns) /\ Conns' = Conns
      /\ \A j \in Conns : conns'[j].handler = conns[j].handler
  BY ExceptSeq DEF PInv, PlaneTypes, Conns
<1>2. PlaneTypes' /\ Listed' /\ SendTypes'
  BY <1>1, Zenon DEF PInv, PlaneTypes, SendTypes, Listed, Entries
<1>3. ServesKnown'
  BY <1>1 DEF PInv, ServesKnown
<1>4. NoGhostDevice'
  BY <1>1 DEF PInv, PlaneTypes, NoGhostDevice, Listed, Entries, NoEntry
<1> QED BY <1>2, <1>3, <1>4 DEF PInv

LEMMA ConnectInv == PInv /\ Connect => PInv'
<1> SUFFICES ASSUME PInv, Connect PROVE PInv'
  OBVIOUS
<1> DEFINE n == Len(conns) + 1
<1>1. /\ conns \in Seq(Conn) /\ Len(conns) \in Nat /\ Len(conns) < MaxConns /\ NewConn \in Conn
      /\ NewConn.handler = "waiting"
      /\ conns' = Append(conns, NewConn) /\ link' = Len(conns')
      /\ UNCHANGED <<devices, entry, sends, commands, provisions>>
  <2>1. << >> \in Seq(Actions)
    BY EmptySeq
  <2> QED BY <2>1 DEF PInv, PlaneTypes, Connect, Conn, NewConn, Handlers
<1>2. /\ conns' \in Seq(Conn) /\ Len(conns') = n /\ conns'[n] = NewConn
      /\ \A j \in Conns : conns'[j] = conns[j] /\ j # n
      /\ Conns' = Conns \cup {n}
  BY <1>1, Appended DEF Conns
<1> HIDE DEF n
<1>3. PlaneTypes'
  BY <1>1, <1>2, PlaneAssumption DEF PInv, PlaneTypes, Entries, n
<1>4. SendTypes' /\ Listed'
  BY <1>1, <1>2 DEF PInv, SendTypes, Listed, Entries
<1>5. ServesKnown'
  BY <1>1, <1>2 DEF PInv, ServesKnown
<1>6. NoGhostDevice'
  <2>1. (entry # NoEntry /\ devices[entry].connected) => devices[entry].ws \in Conns
    BY DEF PInv, PlaneTypes, Listed, Entries, NoEntry
  <2> QED BY <1>1, <1>2, <2>1 DEF PInv, NoGhostDevice
<1> QED BY <1>3, <1>4, <1>5, <1>6 DEF PInv

LEMMA ReceiveCommandInv == PInv /\ ReceiveCommand => PInv'
<1> SUFFICES ASSUME PInv, ReceiveCommand PROVE PInv'
  OBVIOUS
<1> DEFINE x == [conns[link] EXCEPT !.toAgent = Tail(@)]
<1>1. link \in Conns /\ conns[link] \in Conn /\ conns[link].toAgent # << >>
  <2>1. link \in Conns /\ conns \in Seq(Conn)
    BY DEF ReceiveCommand, PInv, PlaneTypes, Conns, NoConn
  <2> QED BY <2>1, ElementOfSeq DEF ReceiveCommand, Conns
<1>2. x \in Conn /\ x.handler = conns[link].handler
  <2>1. Tail(conns[link].toAgent) \in Seq(Actions)
    BY <1>1, HeadTailProperties DEF Conn
  <2> QED BY <1>1, <2>1 DEF Conn
<1>3. conns' = [conns EXCEPT ![link] = x]
  BY DEF ReceiveCommand
<1>4. link' \in 0..Len(conns)
  BY DEF ReceiveCommand, LinkLeft, PInv, PlaneTypes, NoConn
<1>5. UNCHANGED <<devices, entry, sends, commands, provisions>>
  BY DEF ReceiveCommand
<1> HIDE DEF x
<1> QED BY <1>1, <1>2, <1>3, <1>4, <1>5, ConnectionChanges

LEMMA BreakInv == ASSUME PInv, NEW i \in Conns, Break(i) PROVE PInv'
<1> DEFINE x == [conns[i] EXCEPT !.up = FALSE]
<1>1. conns[i] \in Conn
  BY ElementOfSeq DEF PInv, PlaneTypes, Conns
<1>2. x \in Conn /\ x.handler = conns[i].handler
  BY <1>1 DEF Conn
<1>3. conns' = [conns EXCEPT ![i] = x] /\ UNCHANGED <<link, devices, entry, sends, commands, provisions>>
  BY DEF Break
<1>4. link' \in 0..Len(conns)
  BY <1>3 DEF PInv, PlaneTypes
<1> HIDE DEF x
<1> QED BY <1>2, <1>3, <1>4, ConnectionChanges

LEMMA RegisterInv == ASSUME PInv, NEW i \in Conns, Register(i) PROVE PInv'
<1> DEFINE x     == [conns[i] EXCEPT !.handler = "serving"]
           known == IF entry = NoEntry THEN Append(devices, NewEntry) ELSE devices
           y     == [ws |-> i, connected |-> TRUE]
<1>1. /\ conns \in Seq(Conn) /\ conns[i] \in Conn /\ Len(conns) \in Nat
      /\ devices \in Seq(Device) /\ Len(devices) \in Nat /\ entry \in 0..Len(devices)
      /\ UNCHANGED <<link, sends, commands, provisions>>
      /\ conns' = [conns EXCEPT ![i] = x]
      /\ entry' = IF entry = NoEntry THEN Len(devices) + 1 ELSE entry
      /\ devices' = [known EXCEPT ![entry'] = y]
  BY ElementOfSeq DEF PInv, PlaneTypes, Conns, Register
<1>2. x \in Conn /\ x.handler = "serving" /\ y \in Device /\ y.ws = i /\ y.connected
  <2>1. x \in Conn /\ x.handler = "serving"
    BY <1>1 DEF Conn, Handlers
  <2>2. i \in Nat
    BY <1>1 DEF Conns
  <2> QED BY <2>1, <2>2 DEF Device
<1>3. /\ conns' \in Seq(Conn) /\ Len(conns') = Len(conns) /\ Conns' = Conns /\ conns'[i] = x
  BY <1>1, <1>2, ExceptSeq DEF Conns
<1>4. /\ known \in Seq(Device) /\ Len(known) \in {Len(devices), Len(devices) + 1} /\ entry' \in 1..Len(known)
      /\ \A d \in Entries : known[d] = devices[d]
      /\ \A d \in 1..Len(known) : d \in Entries \/ d = entry'
  <2>1. NewEntry \in Device
    BY DEF NewEntry, Device, NoConn
  <2> QED BY <1>1, <2>1, Appended DEF Entries, NoEntry
<1> HIDE DEF x, y, known
<1>5. /\ devices' \in Seq(Device) /\ Len(devices') = Len(known) /\ devices'[entry'] = y
      /\ \A d \in Entries' : d = entry' \/ (d \in Entries /\ devices'[d] = devices[d])
      /\ Entries \subseteq Entries' /\ entry' \in Entries' /\ entry' # NoEntry
  BY <1>1, <1>2, <1>4, ExceptSeq DEF Entries, NoEntry
<1>6. PlaneTypes'
  <2>1. \A d \in Entries' : devices'[d].ws \in 0..Len(conns')
    <3>1. i \in 0..Len(conns)
      BY <1>1 DEF Conns
    <3>2. \A d \in Entries : devices[d].ws \in 0..Len(conns)
      BY DEF PInv, PlaneTypes
    <3> QED BY <1>2, <1>3, <1>5, <3>1, <3>2
  <2>2. entry' \in 0..Len(devices')
    BY <1>5, LenProperties DEF Entries
  <2> QED BY <1>1, <1>3, <1>5, <2>1, <2>2 DEF PInv, PlaneTypes
<1>7. SendTypes'
  BY <1>1, <1>3, <1>5 DEF PInv, SendTypes
<1>8. Listed' /\ ServesKnown'
  BY <1>2, <1>3, <1>5 DEF PInv, Listed, ServesKnown
<1>9. NoGhostDevice'
  BY <1>2, <1>3, <1>5 DEF NoGhostDevice
<1> QED BY <1>6, <1>7, <1>8, <1>9 DEF PInv

\* Clearing an entry, whichever it is, keeps what the registry knows.
LEMMA Cleared ==
  ASSUME PInv, NEW d \in Entries, devices' = [devices EXCEPT ![d] = NewEntry]
  PROVE  /\ devices' \in Seq(Device) /\ Len(devices') = Len(devices) /\ Entries' = Entries
         /\ ~devices'[d].connected /\ devices'[d].ws = NoConn
         /\ \A e \in Entries : e # d => devices'[e] = devices[e]
<1>1. NewEntry \in Device /\ ~NewEntry.connected /\ NewEntry.ws = NoConn
  BY DEF NewEntry, Device, NoConn
<1> QED BY <1>1, ExceptSeq DEF PInv, PlaneTypes, Entries

LEMMA HandlerEndsInv == ASSUME PInv, NEW i \in Conns, HandlerEnds(i) PROVE PInv'
<1> DEFINE x == [conns[i] EXCEPT !.handler = "gone", !.up = FALSE]
<1>1. /\ conns[i] \in Conn /\ conns \in Seq(Conn)
      /\ UNCHANGED <<link, entry, sends, commands, provisions>>
      /\ conns' = [conns EXCEPT ![i] = x]
  BY ElementOfSeq DEF PInv, PlaneTypes, Conns, HandlerEnds
<1>2. x \in Conn /\ x.handler = "gone"
  BY <1>1 DEF Conn, Handlers
<1> HIDE DEF x
<1>3. /\ conns' \in Seq(Conn) /\ Len(conns') = Len(conns) /\ Conns' = Conns
      /\ conns'[i].handler = "gone" /\ \A j \in Conns : j # i => conns'[j] = conns[j]
  BY <1>1, <1>2, ExceptSeq DEF Conns
<1>4. ServesKnown'
  BY <1>1, <1>3 DEF PInv, ServesKnown
<1>5. CASE conns[i].handler = "serving"
  <2>1. entry \in Entries /\ devices' = [devices EXCEPT ![entry] = NewEntry]
    BY <1>5 DEF PInv, ServesKnown, PlaneTypes, Entries, NoEntry, HandlerEnds
  <2>2. /\ devices' \in Seq(Device) /\ Len(devices') = Len(devices) /\ Entries' = Entries
        /\ ~devices'[entry].connected /\ devices'[entry].ws = NoConn
        /\ \A e \in Entries : e # entry => devices'[e] = devices[e]
    BY <2>1, Cleared
  <2>3. PlaneTypes'
    BY <1>1, <1>3, <2>2 DEF PInv, PlaneTypes, NoConn
  <2>4. SendTypes' /\ Listed'
    BY <1>1, <1>3, <2>2 DEF PInv, SendTypes, Listed
  <2>5. NoGhostDevice'
    BY <1>1, <2>2 DEF NoGhostDevice
  <2> QED BY <1>4, <2>3, <2>4, <2>5 DEF PInv
<1>6. CASE conns[i].handler # "serving"
  <2>1. devices' = devices
    BY <1>6 DEF HandlerEnds
  <2>2. PlaneTypes' /\ SendTypes' /\ Listed'
    BY <1>1, <1>3, <2>1, Zenon DEF PInv, PlaneTypes, SendTypes, Listed, Entries
  <2>3. NoGhostDevice'
    BY <1>1, <1>3, <1>6, <2>1 DEF PInv, PlaneTypes, NoGhostDevice, Listed, Entries, NoEntry
  <2> QED BY <1>4, <2>2, <2>3 DEF PInv
<1> QED BY <1>5, <1>6

LEMMA SendCommandInv == ASSUME PInv, NEW what \in Actions, SendCommand(what) PROVE PInv'
<1> DEFINE z == [id |-> commands, dev |-> entry, ws |-> devices[entry].ws, what |-> what]
<1>1. /\ entry \in Entries /\ devices[entry].ws \in Conns /\ commands \in Nat /\ commands < MaxCommands
      /\ commands' = commands + 1 /\ sends' = sends \cup {z}
      /\ UNCHANGED <<link, conns, devices, entry, provisions>>
  BY PlaneAssumption DEF SendCommand, PInv, PlaneTypes, Listed, Entries, NoEntry
<1>2. /\ z.id = commands /\ z.what \in Actions /\ z.dev \in Entries /\ z.ws \in Conns
  BY <1>1
<1> HIDE DEF z
<1>3. SendTypes'
  <2>1. Entries' = Entries /\ Conns' = Conns
    BY <1>1 DEF Entries, Conns
  <2>2. \A s \in sends : s.id \in 0..(commands' - 1)
    BY <1>1 DEF PInv, SendTypes
  <2>3. z.id \in 0..(commands' - 1)
    BY <1>1, <1>2
  <2> QED BY <1>1, <1>2, <2>1, <2>2, <2>3, Zenon DEF PInv, SendTypes
<1>4. PlaneTypes'
  <2>1. commands' \in 0..MaxCommands
    BY <1>1, PlaneAssumption
  <2> QED BY <1>1, <2>1, Zenon DEF PInv, PlaneTypes, Entries
<1>5. ServesKnown' /\ Listed' /\ NoGhostDevice'
  BY <1>1 DEF PInv, ServesKnown, Listed, NoGhostDevice, Entries, Conns
<1> QED BY <1>3, <1>4, <1>5 DEF PInv

LEMMA EndSendInv == ASSUME PInv, NEW s \in sends, EndSend(s) PROVE PInv'
<1>1. /\ s.what \in Actions /\ s.dev \in Entries /\ s.ws \in Conns /\ conns[s.ws] \in Conn
      /\ sends' \subseteq sends /\ UNCHANGED <<link, entry, commands, provisions>>
  BY ElementOfSeq DEF PInv, SendTypes, PlaneTypes, Conns, EndSend
<1>2. CASE conns' = [conns EXCEPT ![s.ws].toAgent = Append(@, s.what)] /\ UNCHANGED devices
  <2> DEFINE x == [conns[s.ws] EXCEPT !.toAgent = Append(@, s.what)]
  <2>1. x \in Conn /\ x.handler = conns[s.ws].handler
    <3>1. Append(conns[s.ws].toAgent, s.what) \in Seq(Actions)
      BY <1>1, Appended DEF Conn
    <3> QED BY <1>1, <3>1 DEF Conn
  <2>2. conns' = [conns EXCEPT ![s.ws] = x]
    BY <1>2
  <2>3. link' \in 0..Len(conns)
    BY <1>1 DEF PInv, PlaneTypes
  <2> HIDE DEF x
  <2> QED BY <1>1, <1>2, <2>1, <2>2, <2>3, ConnectionChanges
<1>3. CASE devices' = [devices EXCEPT ![s.dev] = NewEntry] /\ UNCHANGED conns
  <2>1. /\ devices' \in Seq(Device) /\ Len(devices') = Len(devices) /\ Entries' = Entries
        /\ ~devices'[s.dev].connected /\ devices'[s.dev].ws = NoConn
        /\ \A e \in Entries : e # s.dev => devices'[e] = devices[e]
    BY <1>1, <1>3, Cleared
  <2>2. PlaneTypes'
    BY <1>1, <1>3, <2>1 DEF PInv, PlaneTypes, NoConn
  <2>3. SendTypes' /\ Listed' /\ ServesKnown'
    BY <1>1, <1>3, <2>1 DEF PInv, SendTypes, Listed, ServesKnown, Conns
  <2>4. NoGhostDevice'
    BY <1>1, <1>3, <2>1 DEF PInv, PlaneTypes, NoGhostDevice, Entries, NoEntry
  <2> QED BY <2>2, <2>3, <2>4 DEF PInv
<1> QED BY <1>2, <1>3 DEF EndSend

LEMMA ProvisionInv == PInv /\ Provision => PInv'
<1> SUFFICES ASSUME PInv, Provision PROVE PInv'
  OBVIOUS
<1> DEFINE n == Len(devices) + 1
<1>1. /\ devices \in Seq(Device) /\ Len(devices) \in Nat /\ NewEntry \in Device
      /\ NewEntry.ws = NoConn /\ ~NewEntry.connected
      /\ devices' = Append(devices, NewEntry) /\ entry' = Len(devices')
      /\ provisions' = provisions + 1 /\ provisions < MaxProvisions
      /\ UNCHANGED <<link, conns, sends, commands>>
  BY DEF PInv, PlaneTypes, Provision, NewEntry, Device, NoConn
<1>2. /\ devices' \in Seq(Device) /\ Len(devices') = n /\ devices'[n] = NewEntry
      /\ \A d \in Entries : devices'[d] = devices[d]
      /\ Entries' = Entries \cup {n} /\ n # NoEntry
  BY <1>1, Appended DEF Entries, NoEntry
<1> HIDE DEF n
<1>3. PlaneTypes'
  <2>1. \A d \in Entries' : devices'[d].ws \in 0..Len(conns')
    <3>1. Len(conns) \in Nat
      BY LenProperties DEF PInv, PlaneTypes
    <3>2. \A d \in Entries : devices[d].ws \in 0..Len(conns)
      BY DEF PInv, PlaneTypes
    <3>3. devices'[n].ws = 0 /\ 0 \in 0..Len(conns)
      BY <1>1, <1>2, <3>1 DEF NoConn
    <3>4. Len(conns') = Len(conns)
      BY <1>1
    <3> QED BY <1>2, <3>2, <3>3, <3>4, Zenon
  <2>2. entry' \in 0..Len(devices') /\ provisions' \in 0..MaxProvisions
    BY <1>1, <1>2, PlaneAssumption DEF PInv, PlaneTypes, n
  <2> QED BY <1>1, <1>2, <2>1, <2>2 DEF PInv, PlaneTypes
<1>4. SendTypes' /\ Listed' /\ ServesKnown'
  BY <1>1, <1>2 DEF PInv, SendTypes, Listed, ServesKnown, Conns
<1>5. NoGhostDevice'
  BY <1>1, <1>2 DEF NoGhostDevice
<1> QED BY <1>3, <1>4, <1>5 DEF PInv

LEMMA LeavesInv ==
  ASSUME PInv, link' \in {link} \cup LinkLeft,
         UNCHANGED <<conns, devices, entry, sends, commands, provisions>>
  PROVE  PInv'
<1>1. link' \in 0..Len(conns)
  BY DEF PInv, PlaneTypes, LinkLeft, NoConn
<1> QED BY <1>1, Zenon DEF PInv, PlaneTypes, SendTypes, ServesKnown, Listed, NoGhostDevice, Entries, Conns

LEMMA PlaneNextInv == PInv /\ [Next]_vars => PInv'
<1> SUFFICES ASSUME PInv, [Next]_vars PROVE PInv'
  OBVIOUS
<1>1. CASE Connect
  BY <1>1, ConnectInv
<1>2. CASE ReceiveCommand
  BY <1>2, ReceiveCommandInv
<1>3. CASE FinishCommand \/ AgentNotices
  BY <1>3, LeavesInv DEF FinishCommand, AgentNotices
<1>4. CASE Local \/ UNCHANGED vars
  BY <1>4, LeavesInv DEF Local, planeVars, vars
<1>5. ASSUME NEW i \in Conns, Break(i) \/ Registry(i) PROVE PInv'
  BY <1>5, BreakInv, RegisterInv, HandlerEndsInv DEF Registry
<1>6. ASSUME NEW what \in Actions, SendCommand(what) PROVE PInv'
  BY <1>6, SendCommandInv
<1>7. ASSUME NEW s \in sends, EndSend(s) PROVE PInv'
  BY <1>7, EndSendInv
<1>8. CASE Provision
  BY <1>8, ProvisionInv
<1> QED BY <1>1, <1>2, <1>3, <1>4, <1>5, <1>6, <1>7, <1>8, Zenon DEF Next

-----------------------------------------------------------------------------
(* The theorems. *)

(***************************************************************************)
(* The registry's inductive invariant, over connections that break and     *)
(* overlap, late handlers and sends that outlive what they were sent on    *)
(* (agent_ws.py:68-176).                                                   *)
(***************************************************************************)
THEOREM PlaneInvariant == Spec => []PInv
BY PlaneInitInv, PlaneNextInv, PTL DEF Spec

(***************************************************************************)
(* The composition implements the agent's life cycle: whatever the network *)
(* and the registry do, each step is a step of edge_agent.py or leaves the *)
(* agent alone.                                                            *)
(***************************************************************************)
THEOREM ImplementsAgent == Spec => AgentSpec
<1>1. Init => AgentInit
  BY DEF Init
<1>2. PInv /\ [Next]_vars => [AgentNext]_agentVars
  BY StepIsAgentStep DEF PInv
<1> QED BY <1>1, <1>2, PlaneInvariant, PTL DEF Spec, AgentSpec

(***************************************************************************)
(* A device listed as connected has a handler that serves its connection   *)
(* (agent_ws.py:74-88, 136-147, 172-176).                                  *)
(***************************************************************************)
THEOREM NoGhosts == Spec => []NoGhostDevice
<1>1. PInv => NoGhostDevice
  BY DEF PInv
<1> QED BY <1>1, PlaneInvariant, PTL

(***************************************************************************)
(* With commands of the VPS among the requests, too, status and tunnel     *)
(* agree while requests come one after another (edge_agent.py:180-313,     *)
(* 376-403).                                                               *)
(***************************************************************************)
THEOREM StatusAgreesUnderVps == Spec => []StatusIsTrue
BY ImplementsAgent, StatusAgrees, PTL

(***************************************************************************)
(* At every moment, in the middle of a request too, what get_status        *)
(* (edge_agent.py:156) answers is so: while requests come one after        *)
(* another at most one tunnel exists, "running" means that it is up and    *)
(* not about to end, "starting" that it exists, and with "stopped" and     *)
(* "error" nothing runs.  StatusIsTrue speaks of the time between.         *)
(***************************************************************************)
StatusTrueThroughout ==
  ~overlapped =>
    /\ Live \subseteq {task}
    /\ status \in {"starting", "running"} => Live = {task}
    /\ status = "running" => tunnels[task].phase = "up" /\ ~tunnels[task].cancelled
    /\ status \in {"stopped", "error"} => Live = {}

LEMMA ThroughoutFromInvariant == AInv => StatusTrueThroughout
<1> SUFFICES ASSUME AInv, ~overlapped
             PROVE  /\ Live \subseteq {task}
                    /\ status \in {"starting", "running"} => task \in Live
                    /\ status = "running" => tunnels[task].phase = "up" /\ ~tunnels[task].cancelled
                    /\ status \in {"stopped", "error"} => Live = {}
  BY DEF StatusTrueThroughout
<1>1. Live \subseteq {task} /\ AgentTypeOK /\ Serial
  BY DEF AInv, Serial, OnlyTask, Live
<1>2. CASE \A c \in Requesters : pc[c].at \in {"idle", "pausing"}
  BY <1>1, <1>2 DEF Serial, Settled, Agree, Live
<1>3. ASSUME NEW c \in Requesters, pc[c].at \notin {"idle", "pausing"}
      PROVE  /\ status \in {"starting", "running"} => task \in Live
             /\ status = "running" => tunnels[task].phase = "up" /\ ~tunnels[task].cancelled
             /\ status \in {"stopped", "error"} => Live = {}
  <2>1. pc[c].at \in {"starting", "stopping"}
    BY <1>1, <1>3 DEF AgentTypeOK, Places
  <2>2. CASE pc[c].at = "stopping"
    BY <1>1, <2>2 DEF Serial, Stopping
  <2>3. CASE pc[c].at = "starting"
    <3>1. task \in Tunnels /\ tunnels[task].phase \in {"created", "up", "ended"}
      <4>1. task \in Tunnels /\ tunnels \in Seq(Tunnel)
        BY <1>1, <2>3 DEF Serial, Starting, AgentTypeOK
      <4>2. tunnels[task] \in Tunnel
        BY <4>1, ElementOfSeq DEF Tunnels
      <4> QED BY <4>1, <4>2 DEF Tunnel, Phases
    <3> QED BY <1>1, <2>3, <3>1 DEF Serial, Starting, Live
  <2> QED BY <2>1, <2>2, <2>3
<1> QED BY <1>1, <1>2, <1>3

(***************************************************************************)
(* What the agent answers is so throughout, commands of the VPS among the  *)
(* requests (edge_agent.py:156-219, 290-313, 376-403).                     *)
(***************************************************************************)
THEOREM TrueThroughout == Spec => []StatusTrueThroughout
BY ImplementsAgent, AgentInvariant, ThroughoutFromInvariant, PTL

LEMMA TypesFromInvariants == AInv /\ PInv => TypeOK
<1> SUFFICES ASSUME AInv, PInv PROVE TypeOK
  OBVIOUS
<1>1. \A i \in Conns : /\ conns[i].up \in BOOLEAN
                       /\ conns[i].toAgent \in Seq(Actions)
                       /\ conns[i].handler \in {"waiting", "serving", "gone"}
                       /\ conns[i].handler = "serving" => entry # NoEntry
  <2>1. \A i \in Conns : conns[i] \in Conn
    BY ElementOfSeq DEF PInv, PlaneTypes, Conns
  <2> QED BY <2>1 DEF Conn, Handlers, PInv, ServesKnown
<1>2. devices \in Seq([ws : 0..Len(conns), connected : BOOLEAN])
  <2>1. /\ devices \in Seq(Device) /\ Len(devices) \in Nat /\ devices \in [1..Len(devices) -> Device]
        /\ \A d \in 1..Len(devices) : devices[d].ws \in 0..Len(conns)
    BY LenProperties DEF PInv, PlaneTypes, Entries
  <2>2. \A d \in 1..Len(devices) : devices[d] \in [ws : 0..Len(conns), connected : BOOLEAN]
    BY <2>1 DEF Device
  <2>3. devices \in [1..Len(devices) -> [ws : 0..Len(conns), connected : BOOLEAN]]
    BY <2>1, <2>2, Zenon
  <2>4. Seq([ws : 0..Len(conns), connected : BOOLEAN])
          = UNION {[1..n -> [ws : 0..Len(conns), connected : BOOLEAN]] : n \in Nat}
    BY SeqDef
  <2> QED BY <2>1, <2>3, <2>4, Zenon
<1> QED BY <1>1, <1>2, Zenon DEF AInv, PInv, PlaneTypes, SendTypes, TypeOK, Entries

(***************************************************************************)
(* Types, and that a connection in service has a registered device: the    *)
(* finally of handle_agent_ws (agent_ws.py:172-176) finds an entry.        *)
(***************************************************************************)
THEOREM TypeCorrect == Spec => []TypeOK
BY PlaneInvariant, ImplementsAgent, AgentInvariant, TypesFromInvariants, PTL
=============================================================================
