--------------------------- MODULE ReorderBuffer ---------------------------
(***************************************************************************)
(* hyperagg/tunnel/reorder_buffer.py: the buffer that puts packets which   *)
(* crossed different WAN links back into the order of their global         *)
(* sequence numbers.  A gap is waited for until the oldest buffered packet *)
(* behind it has been held for an adaptive timeout; then the gap is        *)
(* skipped ("flushed").                                                    *)
(*                                                                         *)
(* A payload is determined by its sequence number, so a packet is its      *)
(* number.  Time is the age of the buffered packets, counted in ticks of   *)
(* TickMs and saturating above the largest timeout: the code compares      *)
(* nothing but now - timestamp with the timeout.                           *)
(***************************************************************************)
EXTENDS Integers, Sequences, FiniteSets, FiniteSetsExt, Functions

CONSTANTS
  MaxSeq,        \* largest global sequence number used by the sender (bound)
  Window,        \* window_size: bounds `seen' and `flushed'
  Paths,         \* WAN paths whose metrics feed update_timeout
  Rtts,          \* smoothed RTTs a path may report, in ms (bound)
  Jitters,       \* smoothed jitters a path may report, in ms (bound)
  MinTimeout,    \* min_timeout_ms
  MaxTimeout,    \* max_timeout_ms
  InitTimeout,   \* initial_timeout_ms
  TickMs,        \* ms that pass in one tick of the model's clock (bound)
  RecentMax,     \* maxlen of _recent_deliveries
  MaxLate        \* cap on _late_count (bound)

\* RTT samples of 10 s and more are refused (client.py:559), in ms.
MaxMetric == 10000

ASSUME ConstAssumption ==
  /\ MaxSeq \in Nat /\ Window \in Nat \ {0}
  /\ IsFiniteSet(Paths)
  /\ Rtts \subseteq 0..MaxMetric /\ Jitters \subseteq 0..MaxMetric
  /\ MinTimeout \in Nat /\ MaxTimeout \in Nat /\ InitTimeout \in Nat
  /\ MinTimeout <= InitTimeout /\ InitTimeout <= MaxTimeout
  /\ TickMs \in Nat \ {0} /\ RecentMax \in Nat \ {0} /\ MaxLate \in Nat

VARIABLES
  nextSeq,     \* _next_seq
  buffer,      \* the keys of _buffer
  age,         \* [buffer -> ticks since _timestamps[s]]
  seen,        \* _seen
  flushed,     \* _flushed_seqs
  timeout,     \* _timeout_ms
  recent,      \* _recent_deliveries, newest last
  lateCount,   \* _late_count
  delivered    \* history: everything insert and check_timeouts returned

vars == <<nextSeq, buffer, age, seen, flushed, timeout, recent, lateCount, delivered>>

Seqs   == 0..MaxSeq
AgeCap == (MaxTimeout \div TickMs) + 1

TypeOK ==
  /\ nextSeq \in 0..(MaxSeq + 1)
  /\ buffer \subseteq Seqs
  /\ age \in [buffer -> 0..AgeCap]
  /\ seen \subseteq Seqs
  /\ flushed \subseteq Seqs
  /\ timeout \in MinTimeout..MaxTimeout
  /\ recent \in Seq(BOOLEAN) /\ Len(recent) <= RecentMax
  /\ lateCount \in 0..MaxLate
  /\ delivered \in Seq(Seqs)

-----------------------------------------------------------------------------
(* Definitions named X_<flaw> are X with a plausible bug.  No action uses    *)
(* them: they show that the property which watches X would notice.          *)

IsDuplicate_SeenOnly(s) == s \in seen
IsDuplicate_PassedOnly(s) == s < nextSeq
IsDuplicate_OneTooMany(s) == s <= nextSeq \/ s \in seen
IsDuplicate(s) == s < nextSeq \/ s \in seen

\* The first number from n on that is not in b: where in-order delivery stops.
RunEnd(b, n) == Min({m \in n..(MaxSeq + 1) : m \notin b})

LastOf_Unbounded(q) == q

\* What a deque(maxlen=RecentMax) keeps of q.
LastOf(q) == IF Len(q) <= RecentMax THEN q
             ELSE SubSeq(q, Len(q) - RecentMax + 1, Len(q))

DeliverInOrder_OneShort(b, a, n) ==
  LET m == RunEnd(b, n)
  IN  /\ nextSeq' = IF m > n THEN m - 1 ELSE n
      /\ buffer' = b \ (n..(m - 1))
      /\ age' = [s \in b \ (n..(m - 1)) |-> a[s]]
      /\ delivered' = delivered \o [i \in 1..(m - n) |-> n + i - 1]
      /\ recent' = LastOf(recent \o [i \in 1..(m - n) |-> TRUE])

(***************************************************************************)
(* _deliver_in_order with _next_seq = n, _buffer = b and the ages in a,    *)
(* and the bookkeeping both callers do for each delivered packet.          *)
(***************************************************************************)
DeliverInOrder(b, a, n) ==
  LET m == RunEnd(b, n)
  IN  /\ nextSeq' = m
      /\ buffer' = b \ (n..(m - 1))
      /\ age' = [s \in b \ (n..(m - 1)) |-> a[s]]
      /\ delivered' = delivered \o [i \in 1..(m - n) |-> n + i - 1]
      /\ recent' = LastOf(recent \o [i \in 1..(m - n) |-> TRUE])

Insert_ClearsSeen(s) ==
  /\ ~IsDuplicate(s)
  /\ seen' = IF Cardinality(seen) >= 2 * Window THEN {s} ELSE seen \cup {s}
  /\ DeliverInOrder(buffer \cup {s},
                    [t \in buffer \cup {s} |-> IF t = s THEN 0 ELSE age[t]],
                    nextSeq)
  /\ UNCHANGED <<flushed, timeout, lateCount>>

\* insert(s) of a packet that is not a duplicate.
Insert(s) ==
  /\ ~IsDuplicate(s)
  /\ seen' = LET grown == seen \cup {s}
             IN  IF Cardinality(grown) > 2 * Window
                 THEN {t \in grown : t >= nextSeq}
                 ELSE grown
  /\ DeliverInOrder(buffer \cup {s},
                    [t \in buffer \cup {s} |-> IF t = s THEN 0 ELSE age[t]],
                    nextSeq)
  /\ UNCHANGED <<flushed, timeout, lateCount>>

\* insert(s) of a duplicate: only one that was flushed leaves a trace.
InsertDuplicate(s) ==
  /\ IsDuplicate(s)
  /\ s \in flushed
  /\ lateCount < MaxLate
  /\ lateCount' = lateCount + 1
  /\ recent' = LastOf(Append(recent, FALSE))
  /\ UNCHANGED <<nextSeq, buffer, age, seen, flushed, timeout, delivered>>

\* ts <= cutoff
Stale(s) == age[s] * TickMs >= timeout

SkipTo_AtOnce == IF buffer # {} /\ nextSeq \notin buffer THEN Min(buffer) ELSE nextSeq

SkipTo_ToNewest == IF buffer # {} /\ nextSeq \notin buffer /\ Stale(Min(buffer))
                   THEN Max(buffer) ELSE nextSeq

SkipTo_OneOnly == IF nextSeq + 1 \in buffer /\ nextSeq \notin buffer /\ Stale(nextSeq + 1)
                  THEN nextSeq + 1 ELSE nextSeq

\* Where the skipping loop of check_timeouts leaves _next_seq.
SkipTo == IF buffer # {} /\ nextSeq \notin buffer /\ Stale(Min(buffer))
          THEN Min(buffer) ELSE nextSeq

Newest_KeepsOldest(S, n) == {s \in S : Cardinality({t \in S : t < s}) < n}

\* The n largest elements of S: adding S one by one, dropping the minimum above n.
Newest(S, n) == {s \in S : Cardinality({t \in S : t > s}) < n}

CheckTimeouts_FlushesOneMore ==
  /\ flushed' = Newest(flushed \cup (nextSeq..SkipTo), Window)
  /\ DeliverInOrder(buffer, age, SkipTo)
  /\ UNCHANGED <<seen, timeout, lateCount>>

\* check_timeouts(), called every 50 ms by both tunnel ends.
CheckTimeouts ==
  /\ flushed' = Newest(flushed \cup (nextSeq..(SkipTo - 1)), Window)
  /\ DeliverInOrder(buffer, age, SkipTo)
  /\ UNCHANGED <<seen, timeout, lateCount>>

-----------------------------------------------------------------------------
\* late_delivery_pct > 0.05
ManyLate == 20 * Cardinality({i \in 1..Len(recent) : ~recent[i]}) > Len(recent)

Clamp_NoMaximum(t) == IF t < MinTimeout THEN MinTimeout ELSE t

Clamp(t) == IF t < MinTimeout THEN MinTimeout
            ELSE IF t > MaxTimeout THEN MaxTimeout ELSE t

\* path_differential + jitter_margin, from the positive RTTs and jitters.
Spread(rtts, jitters) ==
  (Max(rtts) - Min(rtts)) + (IF jitters = {} THEN 0 ELSE 2 * Max(jitters))

\* update_timeout: RTTs and jitters of the paths that are alive.
UpdateTimeout(rtt, jitter) ==
  LET rtts == {r \in Range(rtt) : r > 0}
      jitters == {j \in Range(jitter) : j > 0}
      base == Spread(rtts, jitters)
  IN  /\ Cardinality(DOMAIN rtt) >= 2
      /\ rtts # {}
      /\ timeout' = Clamp(IF ManyLate THEN (base * 6) \div 5 ELSE base)
      /\ UNCHANGED <<nextSeq, buffer, age, seen, flushed, recent, lateCount, delivered>>

\* The ages after a tick of the clock.
Aged == [s \in buffer |-> IF age[s] < AgeCap THEN age[s] + 1 ELSE age[s]]

\* Time passes.
Tick ==
  /\ \E s \in buffer : age[s] < AgeCap
  /\ age' = Aged
  /\ UNCHANGED <<nextSeq, buffer, seen, flushed, timeout, recent, lateCount, delivered>>

-----------------------------------------------------------------------------
Init ==
  /\ nextSeq = 0
  /\ buffer = {}
  /\ age = << >>
  /\ seen = {}
  /\ flushed = {}
  /\ timeout = InitTimeout
  /\ recent = << >>
  /\ lateCount = 0
  /\ delivered = << >>

Next ==
  \/ \E s \in Seqs : Insert(s) \/ InsertDuplicate(s)
  \/ CheckTimeouts
  \/ \E alive \in SUBSET Paths :
       \E rtt \in [alive -> Rtts], jitter \in [alive -> Jitters] :
         UpdateTimeout(rtt, jitter)
  \/ Tick

Spec == Init /\ [][Next]_vars

(***************************************************************************)
(* _reorder_timeout_loop is a task of its own that sleeps 50 ms between    *)
(* calls of check_timeouts, and the clock never stops: both are weakly     *)
(* fair.  Nothing is assumed of arrivals or of the metrics.                *)
(***************************************************************************)
FairSpec == Spec /\ WF_vars(CheckTimeouts) /\ WF_vars(Tick)

-----------------------------------------------------------------------------
(* What the buffer guarantees. *)

(***************************************************************************)
(* Packets leave the buffer in strictly ascending order, so none leaves it *)
(* twice (insert, check_timeouts: reorder_buffer.py:111-166), and nothing  *)
(* at or above the frontier has left yet.                                  *)
(***************************************************************************)
InOrder ==
  /\ \A i, j \in 1..Len(delivered) : i < j => delivered[i] < delivered[j]
  /\ \A i \in 1..Len(delivered) : delivered[i] < nextSeq

(***************************************************************************)
(* The loop of check_timeouts ends (reorder_buffer.py:140-152).  It runs   *)
(* `while _next_seq not in _buffer' and only ever increments _next_seq: a  *)
(* buffered number below _next_seq would make it run forever, holding the  *)
(* event loop of the tunnel.  So everything buffered is above _next_seq.   *)
(***************************************************************************)
FlushLoopEnds == \A s \in buffer : s > nextSeq

(***************************************************************************)
(* Above the frontier, seen and buffered are the same thing, whatever the  *)
(* pruning of _seen dropped (reorder_buffer.py:120-123).  Were a buffered  *)
(* number forgotten, a second copy from another path would be taken in     *)
(* again and restart its timeout; were a number remembered that is not     *)
(* buffered, its packet would be refused as a duplicate of nothing.        *)
(***************************************************************************)
SeenIsHeld == {s \in seen : s >= nextSeq} = buffer

(***************************************************************************)
(* A flushed number is one the TUN never got: a packet counts as late      *)
(* (reorder_buffer.py:113-118) only if it really missed its turn.          *)
(***************************************************************************)
FlushedWasSkipped ==
  \A s \in flushed : s < nextSeq /\ s \notin Range(delivered)

(***************************************************************************)
(* A packet that is held only grows older until it is delivered: no        *)
(* operation restarts its timeout or drops it.                             *)
(***************************************************************************)
HeldUntilDelivered ==
  [][\A s \in buffer : \/ s \in buffer' /\ age'[s] >= age[s]
                       \/ s \in Range(delivered')]_vars

(***************************************************************************)
(* A number is given up only for a packet that waited out the timeout: the *)
(* frontier never passes a missing number while the oldest packet behind   *)
(* the gap is younger than the timeout.                                    *)
(***************************************************************************)
GapOutwaited ==
  [][\A s \in nextSeq..(nextSeq' - 1) :
       s \notin Range(delivered') => \E t \in buffer : t > s /\ Stale(t)]_vars

\* The buffer does what OrderedDelivery promises.
OD == INSTANCE OrderedDelivery
        WITH Numbers <- Seqs, frontier <- nextSeq, pending <- buffer, out <- delivered

ImplementsOrderedDelivery == OD!Spec

(***************************************************************************)
(* Nothing stays in the buffer: however many gaps lie before it, a packet  *)
(* is handed to the TUN in the end.                                        *)
(***************************************************************************)
EventuallyDelivered == \A s \in Seqs : s \in buffer ~> s \in Range(delivered)
=============================================================================
