--------------------------------- MODULE Engine ---------------------------------
(***************************************************************************)
(* The engine of src/engine in server mode (main.py, run_server) without   *)
(* its tunnel: the configuration store, the health monitor with one probe  *)
(* thread per path, the path balancer with its thread, the metrics         *)
(* collector with its thread, and the event loop, on which the handlers of *)
(* the API and the AI optimizer run.  Module EngineTunnel adds the tunnel. *)
(*                                                                         *)
(* Every call that takes a lock is a sequence of instructions of module    *)
(* Threads.  Of the configuration there are the values a rebalance decides *)
(* on: mptcp_scheduling.scheduler_mode, failover.trigger_threshold, and    *)
(* weights, for mptcp_scheduling.subflow_weights and                       *)
(* .reinjection_threshold_ms.  PUT /config writes whatever it is given: a  *)
(* mode that is none (or a section that is no dictionary), a trigger or    *)
(* weights that cannot be computed with.  Every other key of the two       *)
(* sections makes the balancer rebalance as well; writing the same weights *)
(* again stands for that.  path_health.loss_window_size is written without *)
(* a value.  The keys that remain reach no listener that does anything; a  *)
(* malformed section of those that record_probe reads makes it raise, as a *)
(* malformed trigger does, and is left out.                                *)
(*                                                                         *)
(* A path that is registered again, by a client that has restarted, gets a *)
(* new probe thread, and the old one goes on (health_monitor.py:95-96).    *)
(* Here one thread stands for both: they execute the same program.         *)
(***************************************************************************)
EXTENDS PathBalancer, Threads

CONSTANTS
  Modes,        \* the modes PUT /config may write; what it writes is not checked
  Triggers,     \* the trigger thresholds it may write, nor is this
  Weights,      \* the weights it may write, nor are these
  MaxChanges,   \* max_changes_per_cycle
  MaxInputs     \* bound: settings and other calls, answers, connections, packets and faults in all

Loop      == "loop"
Balancer  == "path-balancer"
Collector == "metrics-collector"
AllThreads == {Loop, Balancer, Collector} \cup Paths   \* a path stands for its probe thread

ASSUME EngineAssumption ==
  Threads = AllThreads /\ Triggers \subseteq Int \cup {Malformed} /\ MaxChanges \in Nat

VARIABLES
  config,       \* ConfigStore._config
  health,       \* HealthMonitor.paths
  active,       \* the paths whose directive is active
  view,         \* what the rebalance under way has read
  basis,        \* the settings the directives were computed from
  running,      \* the threads that have been started and have not died
  asked,        \* the cycles of the optimizer that await the answer of the model
  unannounced,  \* history: nothing scheduled yet, or a reset since
  inputs        \* the bound's counter

storeVars == <<config, health, active, view, basis, running, asked, unannounced>>
engineVars == <<storeVars, inputs>>

Defaults == [mode |-> "weighted", trigger |-> 2, weights |-> "even"]

NoView == [scores |-> <<>>, mode |-> "none", trigger |-> 0, weights |-> "even"]

EngineInit ==
  /\ ThreadsInit
  /\ config = Defaults
  /\ health = [p \in Paths |-> Unknown]
  /\ active = {}
  /\ view = NoView
  /\ basis = Defaults
  /\ running = {Loop, Balancer, Collector}
  /\ asked = {} /\ unannounced = TRUE
  /\ inputs = 0

Known == {p \in Paths : health[p].state # "unknown"}

-----------------------------------------------------------------------------
(* The calls, as instructions. *)

Rebalance == <<<<"take", "balancer">>, <<"scores">>>>
Decide    == <<<<"sched">>, <<"failover">>, <<"states">>, <<"drop", "balancer">>>>
Notified(s) == s \o <<<<"return">>>>

(* Definitions named X_<flaw> are X with a plausible bug; no action uses them. *)
RecordProbe_CountsBytes(p, ok) ==
  <<<<"take", "health">>, <<"probe", p, ok>>, <<"touch", "balancer">>, <<"drop", "health">>>>

RecordProbe(p, ok) == <<<<"take", "health">>, <<"probe", p, ok>>, <<"drop", "health">>>>

\* The probe loop catches what record_probe raises, and records a failure.
Instead(p) == <<<<"drop", "health">>, <<"take", "health">>, <<"probe", p, FALSE>>>>

RegisterPath(p) == <<<<"take", "health">>, <<"register", p>>, <<"drop", "health">>>>

Settings ==
  {<<"mode", m>> : m \in Modes} \cup {<<"trigger", g>> : g \in Triggers}
    \cup {<<"weights", w>> : w \in Weights} \cup {<<"window">>}

SetConfig(s) == <<<<"take", "config">>, <<"set">> \o s, <<"drop", "config">>>>
BatchSet(s, r) == <<<<"take", "config">>, <<"set">> \o s, <<"set">> \o r, <<"drop", "config">>>>
ResetToDefaults == <<<<"take", "config">>, <<"reset">>, <<"drop", "config">>>>

\* A set for each of the n settings in s, one after the other.
SetEach(n, s) == [k \in 1..(3 * n) |-> SetConfig(s[(k + 2) \div 3])[((k - 1) % 3) + 1]]

\* MetricsCollector.record, for a series that is new.
Record == <<<<"take", "metrics">>, <<"touch", "config">>, <<"drop", "metrics">>>>

\* The calls that only read, and give back the lock they took.
ReadHealth     == <<<<"touch", "health">>>>
ReadDirectives == <<<<"touch", "balancer">>>>
ReadMetrics    == <<<<"touch", "metrics">>>>

\* What a cycle of the optimizer reads before it asks the model.
CollectState == <<<<"touch", "health">>, <<"touch", "balancer">>, <<"touch", "config">>>>

\* The optimizer's own cycle, and one that a handler forces.  Of those there
\* may be several; one is enough to overlap with the other.
Cycles == {"periodic", "forced"}

Listeners_ModeOnly(key) == IF key = "mode" THEN Notified(Rebalance) ELSE <<>>

\* HealthMonitor resizes its windows.
ResizeWindows == <<<<"touch", "health">>>>

\* set calls the listeners: that of HealthMonitor, PathBalancer, which
\* rebalances, and MetricsCollector, which adds a marker without a lock.
Listeners(key) ==
  CASE key \in {"mode", "trigger", "weights"} -> Notified(Rebalance)
    [] key = "window" -> Notified(ResizeWindows)
    [] OTHER -> <<>>

\* ValueError or TypeError in the call that holds l, which is given back; a
\* listener is left, a handler of the loop fails, a thread dies.  The lock of a
\* caller is given back by it.
Raise(t, l) ==
  LET returns == {i \in 1..Len(todo[t]) : todo[t][i][1] = "return"}
      first   == CHOOSE i \in returns : \A j \in returns : i <= j
      rest    == IF returns = {} THEN <<>> ELSE SubSeq(todo[t], first, Len(todo[t]))
      left    == Leaving(rest)
  IN  /\ holder' = [k \in Locks |->
           IF k = l \/ \E i \in 1..Len(left) : left[i] = <<"drop", k>> THEN Free ELSE holder[k]]
      /\ todo' = [todo EXCEPT ![t] = SubSeq(rest, Len(left) + 1, Len(rest))]
      /\ running' = IF returns = {} /\ t # Loop THEN running \ {t} ELSE running

-----------------------------------------------------------------------------
(* The instructions. *)

\* record_probe: a change of the state is told to the balancer at once.  With a
\* trigger that is malformed it raises when the record is written: a handler of
\* the tunnel ends, a probe thread records a failure, and dies of the next.
Probe(t) ==
  /\ At(t, "probe") /\ Available(t, "config")
  /\ LET p == Head(todo[t])[2]  ok == Head(todo[t])[3]
     IN  \/ /\ p \notin Known
            /\ Continue(t, <<>>) /\ UNCHANGED <<health, running>>
         \/ /\ p \in Known
            /\ \E m \in Measured(health[p], ok) :
                 \/ /\ ~Unstated(m, config.trigger)
                    /\ \E s \in NewStates(m, config.trigger) :
                         /\ health' = [health EXCEPT ![p] = [m EXCEPT !.state = s]]
                         /\ Continue(t, IF s # m.state THEN Notified(Rebalance) ELSE <<>>)
                    /\ UNCHANGED running
                 \/ /\ Unstated(m, config.trigger)
                    /\ health' = [health EXCEPT ![p] = m]
                    /\ IF ok /\ t # Loop THEN Continue(t, Instead(p)) /\ UNCHANGED running
                                         ELSE Raise(t, "health")
  /\ UNCHANGED <<config, active, view, basis, asked, unannounced, inputs>>

\* register_path: the record is new, and a probe thread is started.
Register(t) ==
  /\ At(t, "register") /\ Available(t, "config")
  /\ LET p == Head(todo[t])[2]
     IN  health' = [health EXCEPT ![p] = Registered] /\ running' = running \cup {p}
  /\ Continue(t, <<>>)
  /\ UNCHANGED <<config, active, view, basis, asked, unannounced, inputs>>

\* _do_rebalance, its first read: without paths there is nothing to do.
ReadScores(t) ==
  /\ At(t, "scores") /\ Available(t, "health")
  /\ view' = [NoView EXCEPT !.scores = [p \in Known |-> health[p].score]]
  /\ Continue(t, IF Known = {} THEN <<<<"drop", "balancer">>>> ELSE Decide)
  /\ UNCHANGED <<config, health, active, basis, running, asked, unannounced, inputs>>

\* Its second and third.  SchedulerMode(...) raises when the third is done.
ReadScheduling(t) ==
  /\ At(t, "sched") /\ Available(t, "config")
  /\ view' = [view EXCEPT !.mode = config.mode, !.weights = config.weights]
  /\ Continue(t, <<>>)
  /\ UNCHANGED <<config, health, active, basis, running, asked, unannounced, inputs>>

ReadFailover_Unchecked(t) ==
  /\ At(t, "failover") /\ Available(t, "config")
  /\ view' = [view EXCEPT !.trigger = config.trigger]
  /\ Continue(t, <<>>)
  /\ UNCHANGED <<config, health, active, basis, running, asked, unannounced, inputs>>

ReadFailover(t) ==
  /\ At(t, "failover") /\ Available(t, "config")
  /\ IF view.mode \in SchedulerModes
     THEN /\ view' = [view EXCEPT !.trigger = config.trigger]
          /\ Continue(t, <<>>)
          /\ UNCHANGED running
     ELSE Raise(t, "balancer") /\ view' = NoView
  /\ UNCHANGED <<config, health, active, basis, asked, unannounced, inputs>>

\* The new directives; or none, but for paths that got one as not usable
\* before the first that is made the computation raise.
Direct(t) ==
  /\ IF Fails(view)
     THEN /\ \E W \in SUBSET DOMAIN view.scores :
               /\ W # {} => view.trigger # Malformed /\ W \cap Usable(view.scores, view.trigger) = {}
               /\ active' = active \ W
          /\ Raise(t, "balancer")
          /\ UNCHANGED <<basis, unannounced>>
     ELSE /\ \E S \in ActiveSets(view.mode, view.scores, view.trigger) : active' = S
          /\ basis' = [mode |-> view.mode, trigger |-> view.trigger, weights |-> view.weights]
          /\ unannounced' = (unannounced /\ basis' # config)
          /\ Continue(t, <<>>)
          /\ UNCHANGED running
  /\ view' = NoView

\* The last read, of get_all_health, and the directives, for which the adaptive
\* mode takes the lock of the configuration again, perhaps several times in a row.
Schedule(t) ==
  /\ At(t, "states") /\ Available(t, "health")
  /\ \/ /\ AsksAgain(view)
        /\ Continue(t, <<<<"internals">>>>)
        /\ UNCHANGED <<active, view, basis, running, unannounced>>
     \/ (AsksAgain(view) => Fails(view)) /\ Direct(t)
  /\ UNCHANGED <<config, health, asked, inputs>>

ScheduleAdaptive(t) ==
  /\ At(t, "internals") /\ Available(t, "config")
  /\ Direct(t)
  /\ UNCHANGED <<config, health, asked, inputs>>

\* set: the value is written as it is, and the listeners are called.
Set(t) ==
  /\ At(t, "set")
  /\ LET i == Head(todo[t])
     IN  /\ config' = IF i[2] \in DOMAIN config THEN [config EXCEPT ![i[2]] = i[3]] ELSE config
         /\ Continue(t, Listeners(i[2]))
  /\ UNCHANGED <<health, active, view, basis, running, asked, unannounced, inputs>>

\* reset_to_defaults tells nobody.
Reset(t) ==
  /\ At(t, "reset")
  /\ config' = Defaults
  /\ unannounced' = TRUE
  /\ Continue(t, <<>>)
  /\ UNCHANGED <<health, active, view, basis, running, asked, inputs>>

Execute(t) ==
  \/ (Take(t) \/ Touch(t)) /\ UNCHANGED engineVars
  \/ Probe(t) \/ Register(t)
  \/ ReadScores(t) \/ ReadScheduling(t) \/ ReadFailover(t) \/ Schedule(t) \/ ScheduleAdaptive(t)
  \/ Set(t) \/ Reset(t)

-----------------------------------------------------------------------------
\* Something comes from outside, or n things in one call.
Inputs(n) == inputs + n <= MaxInputs /\ inputs' = inputs + n
Input     == Inputs(1)

(* The threads and what they start. *)

\* _rebalance_loop wakes up.
BalancerWakes ==
  /\ Balancer \in running
  /\ Wake(Balancer, Rebalance)
  /\ UNCHANGED engineVars

\* collect_loop goes on and records a value.  What it reads of the monitor and
\* the balancer in between it reads without holding a lock.
CollectorWakes ==
  /\ Wake(Collector, Record)
  /\ UNCHANGED engineVars

\* The probe thread of p has an answer, or its socket has timed out.
ProbeReturns(p) ==
  /\ p \in running /\ Input
  /\ \E ok \in BOOLEAN : Wake(p, RecordProbe(p, ok))
  /\ UNCHANGED <<config, health, active, view, basis, running, asked, unannounced>>

\* POST /scheduling/rebalance.
ForceRebalance == Rebalance \o ReadDirectives

\* A handler of the API runs: the settings, the batch, the reset, a rebalance,
\* and those that only read the paths, the directives or the metrics.
ApiCall ==
  /\ \/ \E s, r \in Settings : s[1] # r[1] /\ Begin(Loop, BatchSet(s, r)) /\ Inputs(2)
     \/ /\ \/ \E s \in Settings : Begin(Loop, SetConfig(s))
           \/ Begin(Loop, ResetToDefaults)
           \/ Begin(Loop, ForceRebalance)
           \/ Begin(Loop, ReadHealth) \/ Begin(Loop, ReadDirectives) \/ Begin(Loop, ReadMetrics)
        /\ Input
  /\ UNCHANGED <<holder, config, health, active, view, basis, running, asked, unannounced>>

\* The optimizer's loop wakes up, reads the state of everything and asks the model.
OptimizerAsks ==
  /\ "periodic" \notin asked /\ Input
  /\ Begin(Loop, <<<<"touch", "config">>>> \o CollectState)
  /\ asked' = asked \cup {"periodic"}
  /\ UNCHANGED <<holder, config, health, active, view, basis, running, unannounced>>

\* POST /ai/recommend does so at any time.
OptimizerForced ==
  /\ "forced" \notin asked /\ Input
  /\ Begin(Loop, CollectState)
  /\ asked' = asked \cup {"forced"}
  /\ UNCHANGED <<holder, config, health, active, view, basis, running, unannounced>>

\* The answer to one of them: at most MaxChanges settings, or none.
OptimizerAnswered ==
  /\ \E c \in asked : asked' = asked \ {c}
  /\ \E n \in 0..MaxChanges : \E s \in [1..n -> Settings] :
       /\ \A i, j \in 1..n : i # j => s[i][1] # s[j][1]
       /\ Begin(Loop, <<<<"touch", "config">>>> \o SetEach(n, s))
  /\ UNCHANGED <<holder, config, health, active, view, basis, running, unannounced, inputs>>

EngineNext ==
  \/ BalancerWakes \/ CollectorWakes
  \/ \E p \in Paths : ProbeReturns(p)
  \/ ApiCall \/ OptimizerAsks \/ OptimizerForced \/ OptimizerAnswered
  \/ \E t \in Threads : Execute(t)
=============================================================================
