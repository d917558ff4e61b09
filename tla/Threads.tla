-------------------------------- MODULE Threads --------------------------------
(***************************************************************************)
(* The threads of the engine process and its locks.  Each thread has the   *)
(* instructions it still has to execute; a listener that it must call is   *)
(* put in front of them, followed by <<"return">>.  An instruction that    *)
(* only takes a lock, reads or writes under it and gives it back is one    *)
(* step, possible when the thread could take the lock.                     *)
(*                                                                         *)
(* The lock of ConfigStore is an RLock (config_store.py:30), those of      *)
(* HealthMonitor, PathBalancer and MetricsCollector are not.               *)
(***************************************************************************)
EXTENDS Integers, Sequences

CONSTANTS
  Threads,   \* the threads
  Free       \* stands for "no thread"

ASSUME ThreadsAssumption == Free \notin Threads

VARIABLES
  holder,    \* the thread that holds each lock
  todo       \* what each thread still has to execute

Locks == {"config", "health", "balancer", "metrics"}

ThreadsInit ==
  /\ holder = [l \in Locks |-> Free]
  /\ todo = [t \in Threads |-> <<>>]

Idle(t) == todo[t] = <<>>

\* Thread t has nothing to do and starts on the instructions s.
Begin(t, s) == Idle(t) /\ todo' = [todo EXCEPT ![t] = s]

\* Could t take lock l now?
Available(t, l) == holder[l] = Free \/ (l = "config" /\ holder[l] = t)

\* The next instruction of t is op.
At(t, op) == ~Idle(t) /\ Head(todo[t])[1] = op

\* The instructions at the front of s that only give a lock back or leave a
\* listener.  They never wait: t executes them in the step before.
Leaving(s) ==
  LET n == CHOOSE k \in 0..Len(s) :
             /\ \A i \in 1..k : s[i][1] \in {"drop", "return"}
             /\ k < Len(s) => s[k + 1][1] \notin {"drop", "return"}
  IN  SubSeq(s, 1, n)

\* Thread t has executed its instruction, with locks held as h says, and goes
\* on, first with the instructions s.
ContinueHolding(t, h, s) ==
  LET rest == s \o Tail(todo[t])
      left == Leaving(rest)
  IN  /\ holder' = [l \in Locks |-> IF \E i \in 1..Len(left) : left[i] = <<"drop", l>> THEN Free ELSE h[l]]
      /\ todo' = [todo EXCEPT ![t] = SubSeq(rest, Len(left) + 1, Len(rest))]

Continue(t, s) == ContinueHolding(t, holder, s)

-----------------------------------------------------------------------------
\* `with lock:' is entered.
Take(t) ==
  /\ At(t, "take")
  /\ LET l == Head(todo[t])[2]
     IN  Available(t, l) /\ ContinueHolding(t, [holder EXCEPT ![l] = t], <<>>)

\* Thread t, which holds nothing, has slept and enters the `with lock:' that
\* the instructions s begin with.  Asleep or waiting for this lock, it is in
\* nobody's way, so both are one state.
Wake(t, s) ==
  /\ Idle(t)
  /\ Available(t, Head(s)[2])
  /\ holder' = [holder EXCEPT ![Head(s)[2]] = t]
  /\ todo' = [todo EXCEPT ![t] = Tail(s)]

\* A lock taken and given back, for a read or a write that nothing here needs.
Touch(t) ==
  /\ At(t, "touch")
  /\ Available(t, Head(todo[t])[2])
  /\ Continue(t, <<>>)

-----------------------------------------------------------------------------
\* The lock each instruction needs: "none" for none.
Needs(i) ==
  CASE i[1] \in {"take", "touch"} -> i[2]
    [] i[1] \in {"probe", "register", "sched", "failover", "internals"} -> "config"
    [] i[1] \in {"scores", "states"} -> "health"
    [] OTHER -> "none"

\* t cannot go on before u gives back a lock (t may be u itself).
WaitsFor(t, u) ==
  /\ ~Idle(t)
  /\ LET l == Needs(Head(todo[t]))
     IN  l # "none" /\ ~Available(t, l) /\ holder[l] = u

\* The set S of threads is a ring: each waits for one of them.
Deadlocked(S) == S # {} /\ \A t \in S : \E u \in S : WaitsFor(t, u)

\* t is executing a listener.
InListener(t) == \E i \in 1..Len(todo[t]) : todo[t][i][1] = "return"
=============================================================================
