----------------------------- MODULE PathBalancer -----------------------------
(***************************************************************************)
(* The pure part of engine/health_monitor.py and engine/path_balancer.py:  *)
(* the health record of a path, what a probe may make of it, and the       *)
(* paths a rebalance may put in use.  Module Engine gives them state,      *)
(* threads and locks.                                                      *)
(*                                                                         *)
(* A score stands for tenths.  How it comes out of RTT, loss and jitter    *)
(* is abstracted: a probe may give any of Scores, or leave the score as it *)
(* is (too few probes, _recalculate_score).  last_probe_at has just been   *)
(* set when _update_state looks at it, so the two timeouts of that         *)
(* function never apply and are left out.                                  *)
(*                                                                         *)
(* The API writes any value to the configuration.  A threshold is a number *)
(* (of tenths) or malformed, one that raises when it is compared.          *)
(***************************************************************************)
EXTENDS Integers

CONSTANTS
  Paths,            \* the path ids
  Scores,           \* the scores a measurement may give
  Demotion,         \* path_demotion_threshold
  Promotion,        \* path_promotion_threshold
  ZombieFailures,   \* zombie_consecutive_failures
  DeadFailures,     \* dead_consecutive_failures
  Malformed         \* stands for any value with which nothing can be computed

ASSUME BalancerAssumption ==
  /\ Scores \subseteq 0..10
  /\ Demotion \in 0..10 /\ Promotion \in Demotion..10
  /\ ZombieFailures \in Nat /\ DeadFailures \in Nat
  /\ ZombieFailures < DeadFailures
  /\ Malformed \notin Int

PathStates == {"active", "degraded", "zombie", "dead", "recovering"}

\* PathHealth, with "unknown" for a path that is not registered.
Health == [state : PathStates \cup {"unknown"}, score : 0..10, fails : 0..(DeadFailures + 1)]

Unknown    == [state |-> "unknown", score |-> 10, fails |-> 0]
Registered == [Unknown EXCEPT !.state = "active"]

\* _update_state.  Whether the hysteresis time is over is left open.
NewStates(h, trigger) ==
  IF h.fails > DeadFailures THEN {"dead"}
  ELSE IF h.fails > ZombieFailures THEN {"zombie"}
  ELSE IF h.score < trigger THEN {"dead"}
  ELSE IF h.score < Demotion THEN {"degraded"}
  ELSE IF h.score > Promotion /\ h.state \in {"dead", "zombie"} THEN {"recovering"}
  ELSE IF h.score > Promotion /\ h.state = "recovering" THEN {"recovering", "active"}
  ELSE IF h.state = "recovering" THEN {"recovering"}
  ELSE {"active"}

\* consecutive_failures, which nothing tells apart beyond DeadFailures + 1.
Count(fails, ok) ==
  IF ok THEN 0 ELSE IF fails > DeadFailures THEN fails ELSE fails + 1

\* record_probe and _recalculate_score: what a probe may make of record h,
\* before its state is looked at.
Measured(h, ok) ==
  {[h EXCEPT !.score = s, !.fails = Count(h.fails, ok)] : s \in Scores \cup {h.score}}

\* _update_state raises TypeError when it comes to the trigger.
Unstated(h, trigger) == h.fails <= ZombieFailures /\ trigger = Malformed

-----------------------------------------------------------------------------
(* A rebalance, of the scores, mode, trigger and weights it has read, v. *)

SchedulerModes == {"weighted", "min_rtt", "redundant", "adaptive"}

\* The paths whose score lets them carry traffic.
Usable(scores, trigger) == {p \in DOMAIN scores : scores[p] > trigger}

\* What a mode computes a usable path's directive with: subflow_weights and
\* reinjection_threshold_ms, or neither.
Weighs(v) == v.mode \in {"weighted", "adaptive"} /\ Usable(v.scores, v.trigger) # {}

\* TypeError: of the comparison of a score with the trigger, which every mode
\* begins with; or of the weights.
Fails(v) == v.trigger = Malformed \/ (Weighs(v) /\ v.weights = Malformed)

\* _schedule_adaptive asks the configuration again, for every usable path.
AsksAgain(v) == v.mode = "adaptive" /\ v.trigger # Malformed /\ Weighs(v)

\* With these settings a rebalance raises nothing, whatever the scores are.
Schedulable(c) ==
  /\ c.mode \in SchedulerModes /\ c.trigger # Malformed
  /\ c.mode \in {"weighted", "adaptive"} => c.weights # Malformed

\* _schedule_weighted, _redundant, _adaptive use them all, _schedule_min_rtt
\* the one with the lowest RTT: the sets of paths that may be made active.
ActiveSets(mode, scores, trigger) ==
  LET usable == Usable(scores, trigger)
  IN  IF mode = "min_rtt" /\ usable # {} THEN {{p} : p \in usable} ELSE {usable}
=============================================================================
