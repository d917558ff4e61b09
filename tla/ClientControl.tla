---------------------------- MODULE ClientControl ----------------------------
(***************************************************************************)
(* What regulates the traffic of a tunnel client: bandwidth estimates,     *)
(* pacers and tier budgets (scheduler/bandwidth_estimator.py,              *)
(* scheduler/congestion_control.py), and the choice of the FEC mode        *)
(* (fec/fec_engine.py, fec/adaptive_fec.py), as TunnelClient._send_packet, *)
(* its loops and the SDN controller use them.                              *)
(*                                                                         *)
(* Rates are abstracted to classes.  A path's estimate is "none" (0),      *)
(* "tiny" (50 ms of it are less than a packet), "low" or "high", high      *)
(* being more than the 7 Mbps guaranteed to the realtime and streaming     *)
(* tiers.  Loss rates and burst lengths are named by the mode that         *)
(* _resolve_mode and AdaptiveFecSizer.update choose for them.  All the     *)
(* loops share one event loop; no action below has an await inside.        *)
(***************************************************************************)
EXTENDS Integers, FiniteSets

CONSTANTS
  Paths,     \* the paths, all alive
  Settings,  \* FEC modes that the dashboard sets (bound)
  Losses,    \* modes of the loss rates that occur (bound)
  Bursts     \* modes of the burst lengths that occur (bound)

FecModes == {"none", "xor", "reed_solomon", "reed_solomon_heavy", "replicate"}

ASSUME ControlAssumption ==
  /\ Settings \subseteq FecModes \cup {"auto"}
  /\ Losses \subseteq FecModes \ {"none"} /\ Losses # {}
  /\ Bursts \subseteq {"xor", "reed_solomon", "replicate"}

VARIABLES
  samples,    \* per path, packets counted in the last second: 0, 1 or 2 (more)
  est,        \* per path, the class of _ewma_bw
  rate,       \* per path, the class of the pacer's rate
  tokens,     \* the paths whose pacer has tokens for a packet
  capacity,   \* _total_capacity of the tiers: "low" or "high"
  spent,      \* tiers that have used up their limit
  windowOver, \* a second since the last reset_window?
  sent,       \* history: the tier of the packet just sent, or "none"
  setting, mode,   \* _mode_setting and _current_mode of the FEC engine
  sizer,      \* _current_mode of the adaptive sizer
  loss, burst \* what the monitor and the burst detector measure

budget == <<samples, est, rate, tokens, capacity, spent, windowOver>>
fec    == <<setting, mode, sizer, loss, burst>>
vars   == <<budget, sent, fec>>

Classes == {"none", "tiny", "low", "high"}
Tiers   == {"realtime", "streaming", "bulk"}

Init ==
  /\ samples = [p \in Paths |-> 0] /\ est = [p \in Paths |-> "none"]
  /\ rate = [p \in Paths |-> "high"] /\ tokens = Paths
  /\ capacity = "high"
  /\ spent = {} /\ windowOver = FALSE
  /\ sent = "none"
  /\ setting \in Settings
  /\ mode = IF setting = "auto" THEN "xor" ELSE setting
  /\ sizer = "xor"
  /\ loss \in Losses /\ burst = "xor"

TypeOK ==
  /\ samples \in [Paths -> 0..2] /\ est \in [Paths -> Classes]
  /\ rate \in [Paths -> Classes \ {"none"}]
  /\ tokens \subseteq {p \in Paths : rate[p] # "tiny"}
  /\ capacity \in {"low", "high"}
  /\ spent \subseteq Tiers \ {"realtime"} /\ windowOver \in BOOLEAN
  /\ sent \in Tiers \cup {"none"}
  /\ setting \in Settings /\ mode \in FecModes /\ sizer \in Bursts \cup {"xor"}
  /\ loss \in Losses /\ burst \in Bursts \cup {"xor"}

-----------------------------------------------------------------------------
(* Estimator, pacer and tiers. *)

\* record_ack, of a packet sent as well as of one received.
RecordAck(p) == samples' = [samples EXCEPT ![p] = IF @ < 2 THEN @ + 1 ELSE @]

\* TierBandwidthManager.can_send, not asked for realtime; bulk has what is above 7 Mbps.
CanSend(tier) ==
  tier # "realtime" => tier \notin spent /\ (tier = "bulk" => capacity = "high")

\* get_estimated_bw: measured again only with two samples, some time apart.
Estimates ==
  {e \in [Paths -> Classes] :
     \A p \in Paths : e[p] = est[p] \/ (samples[p] = 2 /\ e[p] # "none")}

\* The classes that the sum of estimates e may have.
Totals(e) ==
  LET counted(C) == {p \in Paths : e[p] \in C}
  IN  CASE counted({"high"}) # {}           -> {"high"}
        [] counted({"none"}) = Paths        -> {}
        [] /\ counted({"high"}) = {} /\ counted({"low"}) # {}
           /\ Cardinality(counted({"tiny", "low"})) > 1 -> {"low", "high"}
        [] OTHER                            -> {"low"}

(* Definitions named X_<flaw> are X with a plausible bug; no action uses them. *)
Measure_Uncapped ==
  /\ est' \in Estimates
  /\ rate' = [p \in Paths |-> IF est'[p] = "none" THEN rate[p] ELSE est'[p]]
  /\ capacity' \in (IF Totals(est') = {} THEN {capacity} ELSE Totals(est'))
  /\ spent' \in (IF capacity' = capacity THEN {spent} ELSE SUBSET {"streaming", "bulk"})
  /\ UNCHANGED <<samples, tokens, windowOver>>

(***************************************************************************)
(* What both _reorder_timeout_loop and _control_tick do with the           *)
(* estimates: set_rate, which caps the bucket, and update_capacity, which  *)
(* leaves the use of the tiers as it is but moves their limits.            *)
(***************************************************************************)
Measure ==
  /\ est' \in Estimates
  /\ rate' = [p \in Paths |-> IF est'[p] = "none" THEN rate[p] ELSE est'[p]]
  /\ tokens' = {p \in tokens : rate'[p] # "tiny"}
  /\ capacity' \in (IF Totals(est') = {} THEN {capacity} ELSE Totals(est'))
  /\ spent' \in (IF capacity' = capacity THEN {spent} ELSE SUBSET {"streaming", "bulk"})
  /\ UNCHANGED <<samples, windowOver>>

-----------------------------------------------------------------------------
(* The FEC mode. *)

\* AdaptiveFecSizer.update: the mode for the bursts, whatever it was before.
Sizer == sizer' = burst

\* _resolve_mode: the mode of the loss rate.
Fallback == mode' = loss

(***************************************************************************)
(* update_mode: nothing unless the setting is auto; otherwise the sizer    *)
(* follows the bursts, and its mode is taken in the call in which it       *)
(* changes, the mode of the loss rate in any other.  So bursts that last   *)
(* do not keep the mode, which the comments of the code have them do.      *)
(***************************************************************************)
UpdateMode ==
  /\ IF setting # "auto"
     THEN UNCHANGED <<sizer, mode>>
     ELSE /\ Sizer
          /\ IF sizer' # sizer /\ sizer' # mode THEN mode' = sizer' ELSE Fallback
  /\ UNCHANGED <<setting, loss, burst>>

-----------------------------------------------------------------------------
(* Actions. *)

\* A round of _reorder_timeout_loop or of _control_tick.
Round == UpdateMode /\ Measure /\ sent' = "none"

\* set_fec_mode.
SetFecMode(m) ==
  /\ setting' = m
  /\ mode' = IF m = "auto" THEN mode ELSE m
  /\ sent' = "none"
  /\ UNCHANGED <<budget, sizer, loss, burst>>

\* Packets are received, or lost, or the links change.
Measured(l, b) ==
  /\ loss' = l /\ burst' = b
  /\ <<l, b>> # <<loss, burst>>
  /\ sent' = "none"
  /\ UNCHANGED <<budget, setting, mode, sizer>>

\* The window over, the tiers start anew: the end of _send_packet, sent or not.
ResetWindow(after) ==
  /\ windowOver' = FALSE
  /\ spent' = IF windowOver THEN {} ELSE after

(***************************************************************************)
(* A packet of a tier is sent on p, assigned to it or to a path whose      *)
(* pacer refuses.  One sent at the second try, the socket's buffer having  *)
(* been full, is not recorded.                                             *)
(***************************************************************************)
SendOn(tier, p) ==
  /\ CanSend(tier) /\ p \in tokens
  /\ tokens' \in {tokens, tokens \ {p}}
  /\ \/ RecordAck(p) /\ \E after \in {spent, spent \cup ({tier} \ {"realtime"})} : ResetWindow(after)
     \/ UNCHANGED samples /\ ResetWindow(spent)
  /\ sent' = tier
  /\ UNCHANGED <<est, rate, capacity, fec>>

Drop_KeepsWindow ==
  /\ sent' = "none"
  /\ UNCHANGED <<budget, fec>>

\* A packet is dropped: refused by its tier's budget or all the pacers, or by a socket.
Drop ==
  /\ ResetWindow(spent)
  /\ sent' = "none"
  /\ UNCHANGED <<samples, est, rate, tokens, capacity, fec>>

Refused(tier) == (~CanSend(tier) \/ tokens = {}) /\ Drop

Receive(p) ==
  /\ RecordAck(p)
  /\ sent' = "none"
  /\ UNCHANGED <<est, rate, tokens, capacity, spent, windowOver, fec>>

\* Time: buckets fill (_refill), ...
Refill ==
  /\ tokens' = {p \in Paths : rate[p] # "tiny"}
  /\ sent' = "none"
  /\ UNCHANGED <<samples, est, rate, capacity, spent, windowOver, fec>>

\* ... and a second goes by, after which samples are pruned.
Second ==
  /\ windowOver' = TRUE
  /\ samples' = [p \in Paths |-> 0]
  /\ sent' = "none"
  /\ UNCHANGED <<est, rate, tokens, capacity, spent, fec>>

Next ==
  \/ Round
  \/ \E m \in Settings : SetFecMode(m)
  \/ \E l \in Losses, b \in Bursts : Measured(l, b)
  \/ \E tier \in Tiers, p \in Paths : SendOn(tier, p)
  \/ Drop
  \/ \E p \in Paths : Receive(p)
  \/ Refill \/ Second

Spec == Init /\ [][Next]_vars

(***************************************************************************)
(* Fairness: the loops and the clock go on, the TUN always has bulk        *)
(* packets, and some of these come when the pacers have tokens.            *)
(***************************************************************************)
SendBulk == \E p \in Paths : SendOn("bulk", p)

FairSpec ==
  /\ Spec
  /\ WF_vars(Round) /\ WF_vars(Refill) /\ WF_vars(Second)
  /\ SF_vars(SendBulk) /\ SF_vars(Refused("bulk"))

-----------------------------------------------------------------------------
(* What the regulation achieves. *)

(***************************************************************************)
(* As long as the client takes its links for fast enough, bulk traffic     *)
(* goes on: a used up budget is restored although only _send_packet itself *)
(* restores it, after having dropped the packet (client.py:347, 419-422).  *)
(***************************************************************************)
BulkFlowsIfHigh ==
  <>[](capacity = "high" /\ \E p \in Paths : rate[p] # "tiny") => []<>(sent = "bulk")
=============================================================================
