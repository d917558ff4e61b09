---------------------------- MODULE PathScheduler ----------------------------
(***************************************************************************)
(* hyperagg/scheduler: what the path monitor records, how likely the       *)
(* predictor says a path is to deliver, and the paths the scheduler gives  *)
(* a packet, as operators.  Module ClientPaths gives them state.           *)
(*                                                                         *)
(* Probabilities are percentages.  RTT, jitter, loss and the predictions   *)
(* made from them are abstracted to: a path that is not alive is given 0,  *)
(* one without history 50, any other one any level.                        *)
(***************************************************************************)
EXTENDS Integers, FiniteSets

CONSTANTS
  Paths,     \* the registered paths
  Dead,      \* keepalive_timeout_count
  Levels     \* the probabilities a path with a history may be given

ASSUME SchedulerAssumption ==
  /\ Dead \in Nat \ {0}
  /\ Levels \subseteq 0..100

-----------------------------------------------------------------------------
(* PathMonitor: the consecutive failures of each path, counted up to Dead. *)

NewMonitor == [p \in Paths |-> 0]

\* record_rtt: one answer clears the failures.
RecordRtt(fails, p) == [fails EXCEPT ![p] = 0]

\* record_loss, for each path of S.  The code counts on; nothing tells counts
\* beyond Dead apart.
RecordLosses(fails, S) ==
  [p \in Paths |-> IF p \in S /\ fails[p] < Dead THEN fails[p] + 1 ELSE fails[p]]

\* get_all_path_states: the paths that are alive.
Alive(fails) == {p \in Paths : fails[p] < Dead}

-----------------------------------------------------------------------------
(* PathPredictor and PathScheduler. *)

Modes == {"ai", "round_robin", "weighted", "replicate"}
Tiers == {"realtime", "streaming", "bulk"}

\* predict_delivery_probability, for the paths that were alive at the refresh.
Predictions(alive) == [alive -> {50} \cup Levels]

\* _pick_from_table, _schedule_round_robin: one alive path, each has a slot.
OneOf(alive) == {{p} : p \in alive}

\* The best two paths, in the orders in which sorted() may put them.
Leaders(alive, prob) ==
  {l \in alive \X alive :
     /\ l[1] # l[2] /\ prob[l[1]] >= prob[l[2]]
     /\ \A q \in alive \ {l[1]} : prob[q] <= prob[l[2]]}

\* The last part of _schedule_ai: two paths or more, b the best and s the next.
Spread(alive, prob, b, s) ==
  CASE prob[b] > 95 /\ prob[b] - prob[s] > 30 -> {{b}}
    [] prob[b] > 70 /\ ~(prob[b] > 95 /\ prob[b] - prob[s] > 30) -> {{b, s}}
    [] prob[b] \in 51..70 /\ prob[s] > 50 -> OneOf(alive)
    [] OTHER -> {alive}

ScheduleAi(tier, alive, prob) ==
  IF tier = "realtime" \/ Cardinality(alive) = 1
  THEN {alive}
  ELSE UNION {Spread(alive, prob, l[1], l[2]) : l \in Leaders(alive, prob)}

\* schedule: the sets of paths a packet may be assigned to.
Schedule(mode, tier, alive, prob) ==
  CASE alive = {} -> {{}}
    [] alive # {} /\ mode = "ai" -> ScheduleAi(tier, alive, prob)
    [] alive # {} /\ mode = "replicate" -> {alive}
    [] OTHER -> OneOf(alive)
=============================================================================
