------------------------ MODULE ReorderBuffer_proofs ------------------------
(***************************************************************************)
(* Proofs about the reorder buffer, for every window, timeout, metric and  *)
(* range of sequence numbers.                                              *)
(***************************************************************************)
EXTENDS ReorderBuffer, TLAPS, FiniteSetTheorems, SequenceTheorems, WellFoundedInduction

-----------------------------------------------------------------------------
(* Least elements, and the operators of the buffer. *)

(***************************************************************************)
(* A nonempty set of naturals has a least element.                         *)
(***************************************************************************)
LEMMA LeastNat ==
  ASSUME NEW S \in SUBSET Nat, S # {}
  PROVE  \E x \in S : \A y \in S : x <= y
<1>1. PICK x \in S : \A y \in S : <<y, x>> \notin OpToRel(<, Nat)
  BY NatLessThanWellFounded, WFMin
<1>2. ASSUME NEW y \in S PROVE x <= y
  <2>1. ~(y < x) BY <1>1 DEF OpToRel
  <2> QED BY <2>1
<1> QED BY <1>2

(***************************************************************************)
(* Min(S), the element check_timeouts looks at first, is the least one.    *)
(***************************************************************************)
LEMMA MinIsLeast ==
  ASSUME NEW S \in SUBSET Nat, S # {}
  PROVE  Min(S) \in S /\ \A y \in S : Min(S) <= y
BY LeastNat DEF Min

(***************************************************************************)
(* Max(S) of a nonempty set of naturals below a bound is in the set.       *)
(***************************************************************************)
LEMMA MaxIsMember ==
  ASSUME NEW top \in Nat, NEW S \in SUBSET (0..top), S # {}
  PROVE  Max(S) \in S /\ \A y \in S : Max(S) >= y
<1> DEFINE Bounds == {u \in Nat : \A y \in S : y <= u}
<1>1. Bounds \in SUBSET Nat /\ top \in Bounds OBVIOUS
<1>2. PICK u \in Bounds : \A v \in Bounds : u <= v BY <1>1, LeastNat
<1>3. u \in S
  <2> SUFFICES ASSUME u \notin S PROVE FALSE OBVIOUS
  <2>1. \A y \in S : y < u BY <1>2
  <2>2. u - 1 \in Nat
    <3>1. PICK y \in S : TRUE OBVIOUS
    <3>2. y \in Nat /\ y < u /\ u \in Nat BY <2>1
    <3> QED BY <3>2
  <2>3. \A y \in S : y <= u - 1 BY <2>1, <2>2
  <2>4. u - 1 \in Bounds BY <2>2, <2>3
  <2> QED BY <1>2, <2>4
<1>4. \E x \in S : \A y \in S : x >= y BY <1>2, <1>3
<1> QED BY <1>4 DEF Max

(***************************************************************************)
(* RunEnd(b, n) is where the contiguous run of b from n on stops.          *)
(***************************************************************************)
LEMMA RunEndStops ==
  ASSUME NEW b \in SUBSET Seqs, NEW n \in 0..(MaxSeq + 1)
  PROVE  /\ RunEnd(b, n) \in n..(MaxSeq + 1)
         /\ RunEnd(b, n) \notin b
         /\ n..(RunEnd(b, n) - 1) \subseteq b
<1> DEFINE Gaps == {m \in n..(MaxSeq + 1) : m \notin b}
<1>1. Gaps \in SUBSET Nat BY ConstAssumption
<1>2. MaxSeq + 1 \in Gaps BY ConstAssumption DEF Seqs
<1>3. Min(Gaps) \in Gaps /\ \A y \in Gaps : Min(Gaps) <= y
  BY <1>1, <1>2, MinIsLeast
<1>4. n..(Min(Gaps) - 1) \subseteq b
  <2> SUFFICES ASSUME NEW k \in n..(Min(Gaps) - 1), k \notin b PROVE FALSE OBVIOUS
  <2>1. k \in Gaps BY <1>3, ConstAssumption
  <2> QED BY <1>3, <2>1, <1>1
<1> QED BY <1>3, <1>4 DEF RunEnd

(***************************************************************************)
(* A deque of bounded length stays a bounded sequence.                     *)
(***************************************************************************)
LEMMA LastOfType ==
  ASSUME NEW S, NEW q \in Seq(S)
  PROVE  LastOf(q) \in Seq(S) /\ Len(LastOf(q)) <= RecentMax
<1>1. RecentMax \in Nat \ {0} /\ Len(q) \in Nat BY ConstAssumption
<1>2. CASE Len(q) <= RecentMax BY <1>2 DEF LastOf
<1>3. CASE ~(Len(q) <= RecentMax)
  <2>1. \A i \in (Len(q) - RecentMax + 1)..Len(q) : q[i] \in S
    BY <1>1, <1>3
  <2>2. /\ SubSeq(q, Len(q) - RecentMax + 1, Len(q)) \in Seq(S)
        /\ Len(SubSeq(q, Len(q) - RecentMax + 1, Len(q))) = RecentMax
    BY <1>1, <1>3, <2>1, SubSeqProperties
  <2>3. LastOf(q) = SubSeq(q, Len(q) - RecentMax + 1, Len(q))
    BY <1>3 DEF LastOf
  <2> QED BY <1>1, <2>2, <2>3
<1> QED BY <1>2, <1>3

(***************************************************************************)
(* A number below an interval is not in it.                                *)
(***************************************************************************)
LEMMA BelowInterval ==
  ASSUME NEW t \in Int, NEW a \in Int, NEW c \in Int, t < a
  PROVE  t \notin a..(c - 1)
OBVIOUS

(***************************************************************************)
(* What an interval up to, but not including, c contains.                  *)
(***************************************************************************)
LEMMA InInterval ==
  ASSUME NEW a \in Int, NEW c \in Int
  PROVE  \A t : t \in a..(c - 1) <=> t \in Int /\ t >= a /\ ~(t >= c)
OBVIOUS

(***************************************************************************)
(* Repeating a value gives a sequence of its type.                         *)
(***************************************************************************)
LEMMA ConstantSeqType ==
  ASSUME NEW S, NEW x \in S, NEW k \in Nat
  PROVE  [i \in 1..k |-> x] \in Seq(S)
OBVIOUS

(***************************************************************************)
(* Age caps and clamped timeouts are what they should be.                  *)
(***************************************************************************)
LEMMA AgeCapType == AgeCap \in Nat
BY ConstAssumption DEF AgeCap

LEMMA ClampType ==
  ASSUME NEW t \in Int
  PROVE  Clamp(t) \in MinTimeout..MaxTimeout
BY ConstAssumption DEF Clamp

-----------------------------------------------------------------------------
(* The inductive invariant. *)

IInv == TypeOK /\ InOrder /\ FlushLoopEnds /\ SeenIsHeld /\ FlushedWasSkipped

(***************************************************************************)
(* What one call of _deliver_in_order does when nothing buffered lies      *)
(* below n: the frontier moves to m, everything buffered below m is        *)
(* appended in order, and m itself is missing.                             *)
(***************************************************************************)
LEMMA DeliverInOrderStep ==
  ASSUME TypeOK, InOrder,
         NEW b \in SUBSET Seqs, NEW a \in [b -> 0..AgeCap],
         NEW n \in nextSeq..(MaxSeq + 1), \A s \in b : s >= n,
         DeliverInOrder(b, a, n)
  PROVE  /\ nextSeq' \in n..(MaxSeq + 1)
         /\ buffer' = {s \in b : s >= nextSeq'}
         /\ FlushLoopEnds'
         /\ age' \in [buffer' -> 0..AgeCap]
         /\ \A s \in buffer' : age'[s] = a[s]
         /\ recent' \in Seq(BOOLEAN) /\ Len(recent') <= RecentMax
         /\ delivered' \in Seq(Seqs)
         /\ Range(delivered') = Range(delivered) \cup (n..(nextSeq' - 1))
         /\ InOrder'
<1> DEFINE m == RunEnd(b, n)
           run == [i \in 1..(m - n) |-> n + i - 1]
<1>1. n \in 0..(MaxSeq + 1) /\ nextSeq \in Nat BY ConstAssumption DEF TypeOK
<1>2. m \in n..(MaxSeq + 1) /\ m \notin b /\ n..(m - 1) \subseteq b
  BY <1>1, RunEndStops
<1>3. nextSeq' = m /\ buffer' = b \ (n..(m - 1))
  BY DEF DeliverInOrder
<1> HIDE DEF m
<1>4. buffer' = {s \in b : s >= m} /\ \A s \in buffer' : s > m
  <2>1. n \in Int /\ m \in Int /\ \A s \in b : s \in Int
    BY <1>1, <1>2, ConstAssumption DEF Seqs
  <2>2. \A s \in b : s \in n..(m - 1) <=> ~(s >= m)
    BY <2>1
  <2>3. \A s \in b : s >= m => s > m
    BY <2>1, <1>2
  <2> QED BY <2>2, <2>3, <1>3
<1>5. run \in Seq(Seqs) /\ Len(run) = m - n
      /\ \A i \in 1..(m - n) : run[i] = n + i - 1
  <2>1. m - n \in Nat BY <1>1, <1>2
  <2>2. \A i \in 1..(m - n) : n + i - 1 \in Seqs
    BY <1>1, <1>2, ConstAssumption DEF Seqs
  <2> QED BY <2>1, <2>2
<1>6. delivered' = delivered \o run
  BY DEF DeliverInOrder, m
<1> HIDE DEF run
<1>7. /\ delivered' \in Seq(Seqs)
      /\ Len(delivered') = Len(delivered) + Len(run)
      /\ \A i \in 1..(Len(delivered) + Len(run)) : delivered'[i] =
            IF i <= Len(delivered) THEN delivered[i] ELSE run[i - Len(delivered)]
  BY <1>5, <1>6, ConcatProperties DEF TypeOK
<1>8. InOrder'
  <2> DEFINE k == Len(delivered)
  <2>1. k \in Nat /\ Len(run) \in Nat /\ Len(run) = m - n
    BY <1>5 DEF TypeOK
  <2>2. \A i \in 1..k : delivered'[i] = delivered[i] /\ delivered[i] \in Nat
                         /\ delivered[i] < nextSeq
    <3> SUFFICES ASSUME NEW i \in 1..k
                 PROVE  /\ delivered'[i] = delivered[i]
                        /\ delivered[i] \in Nat
                        /\ delivered[i] < nextSeq
      OBVIOUS
    <3>1. i \in 1..(k + Len(run)) /\ i <= k BY <2>1
    <3>2. delivered[i] \in Seqs BY DEF TypeOK
    <3> QED BY <3>1, <3>2, <1>7, ConstAssumption DEF InOrder, Seqs
  <2>3. \A i \in (k + 1)..(k + (m - n)) : delivered'[i] = n + (i - k) - 1
    <3> SUFFICES ASSUME NEW i \in (k + 1)..(k + (m - n))
                 PROVE  delivered'[i] = n + (i - k) - 1
      OBVIOUS
    <3>1. i \in 1..(k + Len(run)) /\ ~(i <= k) /\ i - k \in 1..(m - n)
      BY <2>1, <1>1, <1>2
    <3> QED BY <3>1, <1>5, <1>7
  <2> HIDE DEF k
  <2>4. \A i, j \in 1..(k + (m - n)) : i < j => delivered'[i] < delivered'[j]
    <3> SUFFICES ASSUME NEW i \in 1..(k + (m - n)), NEW j \in 1..(k + (m - n)), i < j
                 PROVE  delivered'[i] < delivered'[j]
      OBVIOUS
    <3>1. CASE j <= k
      BY <3>1, <2>1, <2>2 DEF InOrder, k
    <3>2. CASE i <= k /\ j > k
      <4>1. delivered'[i] < nextSeq /\ delivered'[i] \in Nat BY <3>2, <2>1, <2>2
      <4>2. j \in (k + 1)..(k + (m - n)) BY <3>2, <2>1, <1>1, <1>2
      <4>3. delivered'[j] = n + (j - k) - 1 BY <4>2, <2>3
      <4> QED BY <4>1, <4>2, <4>3, <1>1, <2>1
    <3>3. CASE i > k
      BY <3>3, <2>1, <2>3, <1>1, <1>2
    <3> QED BY <3>1, <3>2, <3>3, <2>1
  <2>5. \A i \in 1..(k + (m - n)) : delivered'[i] < m
    <3> SUFFICES ASSUME NEW i \in 1..(k + (m - n)) PROVE delivered'[i] < m
      OBVIOUS
    <3>1. CASE i <= k BY <3>1, <2>1, <2>2, <1>1, <1>2
    <3>2. CASE i > k BY <3>2, <2>1, <2>3, <1>1, <1>2
    <3> QED BY <3>1, <3>2, <2>1
  <2> QED BY <2>1, <2>4, <2>5, <1>3, <1>7 DEF InOrder, k
<1>9. Range(delivered') = Range(delivered) \cup (n..(m - 1))
  <2>1. Range(delivered') = {delivered'[i] : i \in 1..Len(delivered')}
    <3>1. DOMAIN delivered' = 1..Len(delivered') BY <1>7
    <3> QED BY <3>1 DEF Range
  <2>2. Range(delivered) = {delivered[i] : i \in 1..Len(delivered)}
    BY DEF Range, TypeOK
  <2>3. ASSUME NEW x \in n..(m - 1)
        PROVE  \E i \in 1..Len(delivered') : delivered'[i] = x
    <3> DEFINE i == Len(delivered) + (x - n + 1)
    <3>1. i \in 1..Len(delivered') /\ i > Len(delivered)
      BY <1>1, <1>2, <1>5, <1>7 DEF TypeOK
    <3>2. delivered'[i] = x
      <4>1. i - Len(delivered) = x - n + 1 /\ x - n + 1 \in 1..(m - n)
        BY <1>1, <1>2 DEF TypeOK
      <4>2. i \in 1..(Len(delivered) + Len(run)) /\ ~(i <= Len(delivered))
        BY <3>1, <1>7 DEF TypeOK
      <4>3. delivered'[i] = run[i - Len(delivered)] BY <4>2, <1>7
      <4> HIDE DEF i
      <4>4. delivered'[i] = run[x - n + 1] BY <4>1, <4>3
      <4> QED BY <4>1, <4>4, <1>1, <1>5
    <3> QED BY <3>1, <3>2
  <2>4. ASSUME NEW i \in 1..Len(delivered')
        PROVE  delivered'[i] \in Range(delivered) \cup (n..(m - 1))
    <3>1. CASE i <= Len(delivered)
      <4>1. i \in 1..Len(delivered) /\ i \in 1..(Len(delivered) + Len(run))
        BY <3>1, <1>7 DEF TypeOK
      <4>2. delivered'[i] = delivered[i] BY <3>1, <4>1, <1>7
      <4> QED BY <2>2, <4>1, <4>2
    <3>2. CASE i > Len(delivered)
      <4>1. i - Len(delivered) \in 1..(m - n)
        BY <3>2, <1>5, <1>7, <1>1, <1>2 DEF TypeOK
      <4>2. delivered'[i] = n + (i - Len(delivered)) - 1
        BY <3>2, <4>1, <1>5, <1>7 DEF TypeOK
      <4> QED BY <4>1, <4>2, <1>1, <1>2
    <3> QED BY <3>1, <3>2, <1>7 DEF TypeOK
  <2>5. ASSUME NEW i \in 1..Len(delivered)
        PROVE  delivered[i] = delivered'[i] /\ i \in 1..Len(delivered')
    BY <1>5, <1>7, <1>1, <1>2 DEF TypeOK
  <2> QED BY <2>1, <2>2, <2>3, <2>4, <2>5
<1>10. /\ age' \in [buffer' -> 0..AgeCap]
       /\ \A s \in buffer' : age'[s] = a[s]
  BY <1>3 DEF DeliverInOrder, m
<1>11. recent' \in Seq(BOOLEAN) /\ Len(recent') <= RecentMax
  <2> DEFINE trues == [i \in 1..(m - n) |-> TRUE]
  <2>1. m - n \in Nat BY <1>1, <1>2
  <2>2. trues \in Seq(BOOLEAN)
    <3>1. TRUE \in BOOLEAN OBVIOUS
    <3> QED BY <2>1, <3>1, ConstantSeqType
  <2>3. recent \o trues \in Seq(BOOLEAN)
    BY <2>2, ConcatProperties DEF TypeOK
  <2>4. recent' = LastOf(recent \o trues) BY DEF DeliverInOrder, m
  <2> QED BY <2>3, <2>4, LastOfType
<1> QED
  BY <1>2, <1>3, <1>4, <1>7, <1>8, <1>9, <1>10, <1>11 DEF FlushLoopEnds

(***************************************************************************)
(* The invariant holds initially.                                          *)
(***************************************************************************)
LEMMA InitIInv == Init => IInv
<1> SUFFICES ASSUME Init PROVE IInv OBVIOUS
<1>1. << >> \in Seq(Seqs) /\ << >> \in Seq(BOOLEAN) /\ Len(<< >>) = 0 OBVIOUS
<1>2. << >> \in [{} -> 0..AgeCap] OBVIOUS
<1>3. TypeOK
  <2>1. age \in [buffer -> 0..AgeCap] BY <1>2 DEF Init
  <2>2. recent \in Seq(BOOLEAN) /\ Len(recent) <= RecentMax /\ delivered \in Seq(Seqs)
    BY <1>1, ConstAssumption DEF Init
  <2> QED BY <2>1, <2>2, ConstAssumption DEF Init, TypeOK
<1>4. InOrder BY DEF Init, InOrder
<1> QED BY <1>3, <1>4 DEF Init, IInv, FlushLoopEnds, SeenIsHeld, FlushedWasSkipped

(***************************************************************************)
(* What was delivered lies below the frontier.                             *)
(***************************************************************************)
LEMMA DeliveredIsPassed ==
  ASSUME TypeOK, InOrder
  PROVE  \A x \in Range(delivered) : x < nextSeq
<1>1. DOMAIN delivered = 1..Len(delivered) BY DEF TypeOK
<1> QED BY <1>1 DEF Range, InOrder

(***************************************************************************)
(* A new packet preserves it: insert, reorder_buffer.py:111-132.           *)
(***************************************************************************)
LEMMA InsertIInv ==
  ASSUME IInv, NEW s \in Seqs, Insert(s)
  PROVE  IInv'
<1> DEFINE b == buffer \cup {s}
           a == [t \in b |-> IF t = s THEN 0 ELSE age[t]]
<1>1. b \in SUBSET Seqs /\ nextSeq \in Nat /\ nextSeq \in nextSeq..(MaxSeq + 1)
  BY ConstAssumption DEF IInv, TypeOK
<1>2. a \in [b -> 0..AgeCap]
  BY AgeCapType DEF IInv, TypeOK
<1>3. s >= nextSeq /\ s \notin seen
  BY ConstAssumption DEF Insert, IsDuplicate, Seqs, IInv, TypeOK
<1>4. \A t \in b : t >= nextSeq
  BY <1>3, ConstAssumption DEF IInv, TypeOK, FlushLoopEnds, Seqs
<1>5. /\ DeliverInOrder(b, a, nextSeq)
      /\ flushed' = flushed /\ timeout' = timeout /\ lateCount' = lateCount
  BY DEF Insert
<1> HIDE DEF a
<1>6. /\ nextSeq' \in nextSeq..(MaxSeq + 1)
      /\ buffer' = {t \in b : t >= nextSeq'}
      /\ FlushLoopEnds'
      /\ age' \in [buffer' -> 0..AgeCap]
      /\ recent' \in Seq(BOOLEAN) /\ Len(recent') <= RecentMax
      /\ delivered' \in Seq(Seqs)
      /\ Range(delivered') = Range(delivered) \cup (nextSeq..(nextSeq' - 1))
      /\ InOrder'
  BY <1>1, <1>2, <1>4, <1>5, DeliverInOrderStep DEF IInv
<1>7. \/ seen' = seen \cup {s}
      \/ seen' = {t \in seen \cup {s} : t >= nextSeq}
  BY DEF Insert
<1>8. TypeOK'
  <2>1. nextSeq' \in 0..(MaxSeq + 1) /\ buffer' \subseteq Seqs /\ seen' \subseteq Seqs
    BY <1>1, <1>6, <1>7, ConstAssumption DEF IInv, TypeOK
  <2> QED BY <1>5, <1>6, <2>1 DEF IInv, TypeOK
<1>9. SeenIsHeld'
  <2>1. seen \subseteq Seqs /\ {t \in seen : t >= nextSeq} = buffer
    BY DEF IInv, TypeOK, SeenIsHeld
  <2>2. \A t \in Seqs : t \in Int
    BY DEF Seqs
  <2>3. nextSeq \in Int /\ nextSeq' \in Int /\ nextSeq' >= nextSeq
    BY <1>1, <1>6
  <2>4. \A t \in Seqs : t >= nextSeq' => t >= nextSeq
    BY <2>2, <2>3
  <2>5. \A t \in Seqs : t \in seen' /\ t >= nextSeq' <=> t \in buffer'
    BY <1>3, <1>6, <1>7, <2>1, <2>4
  <2> QED BY <2>1, <2>5, <1>1, <1>6, <1>7 DEF SeenIsHeld
<1>10. FlushedWasSkipped'
  <2> SUFFICES ASSUME NEW t \in flushed
               PROVE  t < nextSeq' /\ t \notin Range(delivered')
    BY <1>5 DEF FlushedWasSkipped, Range
  <2>1. t < nextSeq /\ t \notin Range(delivered) /\ t \in Nat
    BY ConstAssumption DEF IInv, FlushedWasSkipped, TypeOK, Seqs
  <2>2. nextSeq' \in Int /\ nextSeq' >= nextSeq BY <1>1, <1>6
  <2>3. t < nextSeq' BY <2>1, <2>2, <1>1
  <2>4. t \notin nextSeq..(nextSeq' - 1)
    <3>1. t \in Int /\ nextSeq \in Int /\ t < nextSeq BY <2>1, <1>1
    <3> QED BY <3>1, <2>2, BelowInterval
  <2> QED BY <2>1, <2>3, <2>4, <1>6
<1> QED BY <1>6, <1>8, <1>9, <1>10 DEF IInv

(***************************************************************************)
(* A timeout pass preserves it: check_timeouts, reorder_buffer.py:134-158. *)
(***************************************************************************)
LEMMA SkipToIsFirst ==
  ASSUME IInv
  PROVE  SkipTo \in nextSeq..(MaxSeq + 1) /\ \A s \in buffer : s >= SkipTo
<1>1. buffer \in SUBSET Nat /\ nextSeq \in Nat /\ nextSeq <= MaxSeq + 1
      /\ \A s \in buffer : s > nextSeq /\ s <= MaxSeq
  BY ConstAssumption DEF IInv, TypeOK, Seqs, FlushLoopEnds
<1>2. CASE SkipTo = nextSeq BY <1>1, <1>2, ConstAssumption
<1>3. CASE buffer # {} /\ SkipTo = Min(buffer)
  <2>1. Min(buffer) \in buffer /\ \A y \in buffer : Min(buffer) <= y
    BY <1>1, <1>3, MinIsLeast
  <2>2. PICK m \in buffer : m = Min(buffer) BY <2>1
  <2>3. m \in Nat /\ m >= nextSeq /\ m <= MaxSeq + 1
    BY <1>1, ConstAssumption
  <2>4. \A s \in buffer : s >= m BY <1>1, <2>1, <2>2
  <2> QED BY <1>1, <1>3, <2>2, <2>3, <2>4, ConstAssumption
<1> QED BY <1>2, <1>3 DEF SkipTo

LEMMA CheckTimeoutsIInv ==
  ASSUME IInv, CheckTimeouts
  PROVE  IInv'
<1>1. SkipTo \in nextSeq..(MaxSeq + 1) /\ (\A s \in buffer : s >= SkipTo)
      /\ nextSeq \in Nat
  BY SkipToIsFirst, ConstAssumption DEF IInv, TypeOK
<1>2. DeliverInOrder(buffer, age, SkipTo) BY DEF CheckTimeouts
<1>3. buffer \in SUBSET Seqs /\ age \in [buffer -> 0..AgeCap]
  BY DEF IInv, TypeOK
<1>4. /\ nextSeq' \in SkipTo..(MaxSeq + 1)
      /\ buffer' = {t \in buffer : t >= nextSeq'}
      /\ FlushLoopEnds'
      /\ age' \in [buffer' -> 0..AgeCap]
      /\ recent' \in Seq(BOOLEAN) /\ Len(recent') <= RecentMax
      /\ delivered' \in Seq(Seqs)
      /\ Range(delivered') = Range(delivered) \cup (SkipTo..(nextSeq' - 1))
      /\ InOrder'
  BY <1>1, <1>2, <1>3, DeliverInOrderStep DEF IInv
<1>5. /\ flushed' \subseteq flushed \cup (nextSeq..(SkipTo - 1))
      /\ seen' = seen /\ timeout' = timeout /\ lateCount' = lateCount
  BY DEF CheckTimeouts, Newest
<1>6. TypeOK'
  <2>1. flushed' \subseteq Seqs
    BY <1>1, <1>5, ConstAssumption DEF IInv, TypeOK, Seqs
  <2>2. nextSeq' \in 0..(MaxSeq + 1) /\ buffer' \subseteq Seqs
    BY <1>1, <1>3, <1>4, ConstAssumption
  <2> QED BY <1>4, <1>5, <2>1, <2>2 DEF IInv, TypeOK
<1>7. SeenIsHeld'
  <2>1. seen \subseteq Seqs /\ {t \in seen : t >= nextSeq} = buffer
    BY DEF IInv, TypeOK, SeenIsHeld
  <2>2. \A t \in Seqs : t \in Int
    BY DEF Seqs
  <2>3. nextSeq \in Int /\ nextSeq' \in Int /\ nextSeq' >= nextSeq
    BY <1>1, <1>4
  <2>4. \A t \in Seqs : t >= nextSeq' => t >= nextSeq
    BY <2>2, <2>3
  <2> QED BY <1>4, <1>5, <2>1, <2>4 DEF SeenIsHeld
<1>8. FlushedWasSkipped'
  <2> SUFFICES ASSUME NEW t \in flushed'
               PROVE  t < nextSeq' /\ t \notin Range(delivered')
    BY DEF FlushedWasSkipped, Range
  <2>1. CASE t \in flushed
    <3>1. t < nextSeq /\ t \notin Range(delivered) /\ t \in Nat
      BY <2>1, ConstAssumption DEF IInv, FlushedWasSkipped, TypeOK, Seqs
    <3>2. SkipTo \in Int /\ nextSeq' \in Int /\ SkipTo >= nextSeq /\ nextSeq' >= SkipTo
      BY <1>1, <1>4
    <3>3. t < SkipTo BY <3>1, <3>2, <1>1
    <3>4. t < nextSeq' BY <3>1, <3>2, <3>3
    <3>5. t \notin SkipTo..(nextSeq' - 1)
      <4>1. t \in Int /\ SkipTo \in Int /\ nextSeq' \in Int /\ t < SkipTo
        BY <3>1, <3>2, <3>3
      <4> QED BY <4>1, BelowInterval
    <3> QED BY <3>1, <3>4, <3>5, <1>4
  <2>2. CASE t \in nextSeq..(SkipTo - 1)
    <3>1. t < SkipTo /\ t >= nextSeq /\ t \in Nat BY <2>2, <1>1
    <3>2. t \notin Range(delivered) BY <3>1, <1>1, DeliveredIsPassed DEF IInv
    <3>3. SkipTo \in Int /\ nextSeq' \in Int /\ nextSeq' >= SkipTo
      BY <1>1, <1>4
    <3>4. t < nextSeq' BY <3>1, <3>3
    <3>5. t \notin SkipTo..(nextSeq' - 1)
      <4>1. t \in Int /\ SkipTo \in Int /\ nextSeq' \in Int /\ t < SkipTo
        BY <3>1, <3>3
      <4> QED BY <4>1, BelowInterval
    <3> QED BY <3>2, <3>4, <3>5, <1>4
  <2> QED BY <2>1, <2>2, <1>5
<1> QED BY <1>4, <1>6, <1>7, <1>8 DEF IInv

(***************************************************************************)
(* A late duplicate, a new timeout and the passing of time preserve it:    *)
(* none of them moves a packet.                                            *)
(***************************************************************************)
LEMMA InsertDuplicateIInv ==
  ASSUME IInv, NEW s \in Seqs, InsertDuplicate(s)
  PROVE  IInv'
<1>1. UNCHANGED <<nextSeq, buffer, age, seen, flushed, timeout, delivered>>
  BY DEF InsertDuplicate
<1>2. lateCount' \in 0..MaxLate
  BY ConstAssumption DEF InsertDuplicate, IInv, TypeOK
<1>3. recent' \in Seq(BOOLEAN) /\ Len(recent') <= RecentMax
  <2>1. FALSE \in BOOLEAN OBVIOUS
  <2>2. recent \in Seq(BOOLEAN) BY DEF IInv, TypeOK
  <2>3. Append(recent, FALSE) \in Seq(BOOLEAN) BY <2>1, <2>2, AppendProperties
  <2>4. recent' = LastOf(Append(recent, FALSE)) BY DEF InsertDuplicate
  <2> QED BY <2>3, <2>4, LastOfType
<1> QED
  BY <1>1, <1>2, <1>3
  DEF IInv, TypeOK, InOrder, FlushLoopEnds, SeenIsHeld, FlushedWasSkipped, Range

LEMMA UpdateTimeoutIInv ==
  ASSUME IInv, NEW alive \in SUBSET Paths,
         NEW rtt \in [alive -> Rtts], NEW jitter \in [alive -> Jitters],
         UpdateTimeout(rtt, jitter)
  PROVE  IInv'
<1> DEFINE rtts == {r \in Range(rtt) : r > 0}
           jitters == {j \in Range(jitter) : j > 0}
           base == Spread(rtts, jitters)
<1>1. UNCHANGED <<nextSeq, buffer, age, seen, flushed, recent, lateCount, delivered>>
  BY DEF UpdateTimeout
<1>2. timeout' \in MinTimeout..MaxTimeout
  <2>1. Range(rtt) \subseteq 0..MaxMetric /\ Range(jitter) \subseteq 0..MaxMetric
    <3>1. \A p \in DOMAIN rtt : rtt[p] \in Rtts OBVIOUS
    <3>2. \A p \in DOMAIN jitter : jitter[p] \in Jitters OBVIOUS
    <3> QED BY <3>1, <3>2, ConstAssumption DEF Range
  <2>2. rtts \in SUBSET (0..MaxMetric) /\ jitters \in SUBSET (0..MaxMetric)
        /\ rtts \in SUBSET Nat /\ MaxMetric \in Nat
    <3>1. MaxMetric \in Nat BY DEF MaxMetric
    <3>2. rtts \subseteq 0..MaxMetric /\ jitters \subseteq 0..MaxMetric BY <2>1
    <3>3. \A x \in 0..MaxMetric : x \in Nat BY <3>1
    <3> QED BY <3>1, <3>2, <3>3
  <2>3. rtts # {} BY DEF UpdateTimeout
  <2> HIDE DEF rtts, jitters
  <2>4. Max(rtts) \in rtts /\ Min(rtts) \in rtts
    BY <2>2, <2>3, MaxIsMember, MinIsLeast
  <2>5. Max(rtts) \in Int /\ Min(rtts) \in Int
    <3>1. rtts \subseteq Int BY <2>2
    <3> QED BY <2>4, <3>1
  <2>6. (IF jitters = {} THEN 0 ELSE 2 * Max(jitters)) \in Int
    <3>1. CASE jitters = {} BY <3>1
    <3>2. CASE jitters # {}
      <4>1. Max(jitters) \in jitters BY <2>2, <3>2, MaxIsMember
      <4>2. jitters \subseteq Int BY <2>2
      <4>3. Max(jitters) \in Int BY <4>1, <4>2
      <4> QED BY <3>2, <4>3
    <3> QED BY <3>1, <3>2
  <2>7. base \in Int BY <2>5, <2>6 DEF Spread
  <2> HIDE DEF base
  <2>8. (base * 6) \div 5 \in Int BY <2>7
  <2>9. timeout' = Clamp(base) \/ timeout' = Clamp((base * 6) \div 5)
    BY DEF UpdateTimeout, base, rtts, jitters
  <2> QED BY <2>7, <2>8, <2>9, ClampType
<1> QED
  BY <1>1, <1>2
  DEF IInv, TypeOK, InOrder, FlushLoopEnds, SeenIsHeld, FlushedWasSkipped, Range

LEMMA TickIInv ==
  ASSUME IInv, Tick
  PROVE  IInv'
<1>1. UNCHANGED <<nextSeq, buffer, seen, flushed, timeout, recent, lateCount, delivered>>
  BY DEF Tick, Aged
<1>2. age' \in [buffer' -> 0..AgeCap]
  BY AgeCapType DEF Tick, Aged, IInv, TypeOK
<1> QED
  BY <1>1, <1>2
  DEF IInv, TypeOK, InOrder, FlushLoopEnds, SeenIsHeld, FlushedWasSkipped, Range

LEMMA StepIInv ==
  ASSUME IInv, [Next]_vars
  PROVE  IInv'
<1>1. ASSUME NEW s \in Seqs, Insert(s) PROVE IInv' BY <1>1, InsertIInv
<1>2. ASSUME NEW s \in Seqs, InsertDuplicate(s) PROVE IInv'
  BY <1>2, InsertDuplicateIInv
<1>3. CASE CheckTimeouts BY <1>3, CheckTimeoutsIInv
<1>4. ASSUME NEW alive \in SUBSET Paths, NEW rtt \in [alive -> Rtts],
             NEW jitter \in [alive -> Jitters], UpdateTimeout(rtt, jitter)
      PROVE  IInv'
  BY <1>4, UpdateTimeoutIInv
<1>5. CASE Tick BY <1>5, TickIInv
<1>6. CASE UNCHANGED vars
  BY <1>6
  DEF vars, IInv, TypeOK, InOrder, FlushLoopEnds, SeenIsHeld, FlushedWasSkipped, Range
<1> QED BY <1>1, <1>2, <1>3, <1>4, <1>5, <1>6 DEF Next

-----------------------------------------------------------------------------
(***************************************************************************)
(* The invariant is inductive.                                             *)
(***************************************************************************)
THEOREM InductiveInvariant == Spec => []IInv
<1>1. Init => IInv BY InitIInv
<1>2. IInv /\ [Next]_vars => IInv' BY StepIInv
<1> QED BY <1>1, <1>2, PTL DEF Spec

(***************************************************************************)
(* The buffer's state is well typed: in particular the adaptive timeout    *)
(* stays between min_timeout_ms and max_timeout_ms whatever the metrics.   *)
(***************************************************************************)
THEOREM TypeCorrect == Spec => []TypeOK
BY InductiveInvariant, PTL DEF IInv

(***************************************************************************)
(* insert and check_timeouts return packets in strictly ascending order,   *)
(* each at most once, for every arrival order, loss and timeout.           *)
(***************************************************************************)
THEOREM DeliveryInOrder == Spec => []InOrder
BY InductiveInvariant, PTL DEF IInv

(***************************************************************************)
(* The skipping loop of check_timeouts always ends.                        *)
(***************************************************************************)
THEOREM FlushLoopTerminates == Spec => []FlushLoopEnds
BY InductiveInvariant, PTL DEF IInv

(***************************************************************************)
(* Pruning _seen never changes what counts as a duplicate.                 *)
(***************************************************************************)
THEOREM PruningIsHarmless == Spec => []SeenIsHeld
BY InductiveInvariant, PTL DEF IInv

(***************************************************************************)
(* A number recorded as flushed was never delivered.                       *)
(***************************************************************************)
THEOREM FlushedNotDelivered == Spec => []FlushedWasSkipped
BY InductiveInvariant, PTL DEF IInv

-----------------------------------------------------------------------------
(* What a step may never do. *)

Kept == \A s \in buffer : \/ s \in buffer' /\ age'[s] >= age[s]
                          \/ s \in Range(delivered')

Outwaited == \A s \in nextSeq..(nextSeq' - 1) :
               s \notin Range(delivered') => \E t \in buffer : t > s /\ Stale(t)

(***************************************************************************)
(* A call of _deliver_in_order keeps or delivers everything it was given,  *)
(* and what it passes from n on it delivers.                               *)
(***************************************************************************)
LEMMA DeliverInOrderKeeps ==
  ASSUME TypeOK, InOrder,
         NEW b \in SUBSET Seqs, NEW a \in [b -> 0..AgeCap],
         NEW n \in nextSeq..(MaxSeq + 1), \A s \in b : s >= n,
         DeliverInOrder(b, a, n)
  PROVE  /\ \A s \in b : (s \in buffer' /\ age'[s] = a[s]) \/ s \in Range(delivered')
         /\ n..(nextSeq' - 1) \subseteq Range(delivered')
<1>1. /\ nextSeq' \in n..(MaxSeq + 1)
      /\ buffer' = {s \in b : s >= nextSeq'}
      /\ \A s \in buffer' : age'[s] = a[s]
      /\ Range(delivered') = Range(delivered) \cup (n..(nextSeq' - 1))
  BY DeliverInOrderStep
<1>2. n \in Int /\ nextSeq' \in Int BY <1>1, ConstAssumption DEF TypeOK
<1>3. ASSUME NEW s \in b
      PROVE  (s \in buffer' /\ age'[s] = a[s]) \/ s \in Range(delivered')
  <2>1. s \in Int /\ s >= n BY ConstAssumption DEF Seqs
  <2>2. CASE s >= nextSeq' BY <1>1, <2>2
  <2>3. CASE ~(s >= nextSeq')
    <3>1. s \in n..(nextSeq' - 1) BY <1>2, <2>1, <2>3, InInterval
    <3> QED BY <1>1, <3>1
  <2> QED BY <2>2, <2>3
<1> QED BY <1>1, <1>3

LEMMA InsertKeeps ==
  ASSUME IInv, NEW s \in Seqs, Insert(s)
  PROVE  Kept /\ Outwaited
<1> DEFINE b == buffer \cup {s}
           a == [t \in b |-> IF t = s THEN 0 ELSE age[t]]
<1>1. b \in SUBSET Seqs /\ nextSeq \in Nat /\ nextSeq \in nextSeq..(MaxSeq + 1)
  BY ConstAssumption DEF IInv, TypeOK
<1>2. a \in [b -> 0..AgeCap]
  BY AgeCapType DEF IInv, TypeOK
<1>3. s >= nextSeq /\ s \notin seen
  BY ConstAssumption DEF Insert, IsDuplicate, Seqs, IInv, TypeOK
<1>4. s \notin buffer BY <1>3 DEF IInv, SeenIsHeld
<1>5. \A t \in b : t >= nextSeq
  BY <1>3, ConstAssumption DEF IInv, TypeOK, FlushLoopEnds, Seqs
<1>6. \A t \in buffer : t \in b /\ a[t] = age[t] /\ age[t] \in Int
  BY <1>4, AgeCapType DEF IInv, TypeOK
<1>7. DeliverInOrder(b, a, nextSeq) BY DEF Insert
<1> HIDE DEF a
<1>8. /\ \A t \in b : (t \in buffer' /\ age'[t] = a[t]) \/ t \in Range(delivered')
      /\ nextSeq..(nextSeq' - 1) \subseteq Range(delivered')
  BY <1>1, <1>2, <1>5, <1>7, DeliverInOrderKeeps DEF IInv
<1> QED BY <1>6, <1>8 DEF Kept, Outwaited

LEMMA CheckTimeoutsKeeps ==
  ASSUME IInv, CheckTimeouts
  PROVE  Kept /\ Outwaited
<1>1. SkipTo \in nextSeq..(MaxSeq + 1) /\ (\A s \in buffer : s >= SkipTo)
      /\ nextSeq \in Nat /\ SkipTo \in Int
  BY SkipToIsFirst, ConstAssumption DEF IInv, TypeOK
<1>2. DeliverInOrder(buffer, age, SkipTo) BY DEF CheckTimeouts
<1>3. /\ buffer \in SUBSET Seqs /\ age \in [buffer -> 0..AgeCap]
      /\ \A t \in buffer : age[t] \in Int
  BY AgeCapType DEF IInv, TypeOK
<1>4. /\ \A t \in buffer : (t \in buffer' /\ age'[t] = age[t]) \/ t \in Range(delivered')
      /\ SkipTo..(nextSeq' - 1) \subseteq Range(delivered')
      /\ nextSeq' \in SkipTo..(MaxSeq + 1)
  BY <1>1, <1>2, <1>3, DeliverInOrderKeeps, DeliverInOrderStep DEF IInv
<1>5. Kept BY <1>3, <1>4 DEF Kept
<1>6. ASSUME NEW s \in nextSeq..(nextSeq' - 1), s \notin Range(delivered')
      PROVE  \E t \in buffer : t > s /\ Stale(t)
  <2>1. s \in Int /\ s >= nextSeq /\ nextSeq' \in Int /\ ~(s >= nextSeq')
    <3>1. nextSeq' \in Int /\ nextSeq \in Int BY <1>1, <1>4, ConstAssumption
    <3>2. s \in Int /\ s >= nextSeq /\ ~(s >= nextSeq')
      BY <3>1, InInterval, Zenon
    <3> QED BY <3>1, <3>2
  <2>2. s < SkipTo
    <3>1. s \notin SkipTo..(nextSeq' - 1) BY <1>4, <1>6
    <3>2. ~(s >= SkipTo) BY <1>1, <2>1, <3>1, InInterval, Zenon
    <3> QED BY <1>1, <2>1, <3>2
  <2>3. SkipTo # nextSeq BY <1>1, <2>1, <2>2
  <2>4. SkipTo = Min(buffer) /\ buffer # {} /\ Stale(Min(buffer))
    BY <2>3 DEF SkipTo
  <2>5. Min(buffer) \in buffer
    <3>1. buffer \in SUBSET Nat BY <1>3, ConstAssumption DEF Seqs
    <3> QED BY <2>4, <3>1, MinIsLeast
  <2> QED BY <2>1, <2>2, <2>4, <2>5
<1> QED BY <1>5, <1>6 DEF Outwaited

LEMMA StepKeeps ==
  ASSUME IInv, [Next]_vars
  PROVE  Kept /\ Outwaited
<1>0. nextSeq \in Int /\ \A s \in buffer : age[s] \in Int
  BY AgeCapType, ConstAssumption DEF IInv, TypeOK
<1>1. ASSUME NEW s \in Seqs, Insert(s) PROVE Kept /\ Outwaited BY <1>1, InsertKeeps
<1>2. CASE CheckTimeouts BY <1>2, CheckTimeoutsKeeps
<1>3. ASSUME UNCHANGED <<nextSeq, buffer, age>> PROVE Kept /\ Outwaited
  BY <1>0, <1>3 DEF Kept, Outwaited
<1>4. CASE Tick BY <1>0, <1>4, AgeCapType DEF Tick, Aged, Kept, Outwaited
<1>5. ASSUME NEW s \in Seqs, InsertDuplicate(s) PROVE Kept /\ Outwaited
  BY <1>3, <1>5 DEF InsertDuplicate
<1>6. ASSUME NEW rtt, NEW jitter, UpdateTimeout(rtt, jitter) PROVE Kept /\ Outwaited
  BY <1>3, <1>6 DEF UpdateTimeout
<1>7. CASE UNCHANGED vars BY <1>3, <1>7 DEF vars
<1> QED BY <1>1, <1>2, <1>4, <1>5, <1>6, <1>7 DEF Next

(***************************************************************************)
(* No operation drops a held packet or restarts its timeout: pruning,      *)
(* flushing and copies from other paths included                           *)
(* (reorder_buffer.py:111-158).                                            *)
(***************************************************************************)
THEOREM HoldsUntilDelivery == Spec => HeldUntilDelivered
<1>1. IInv /\ [Next]_vars => [Kept]_vars BY StepKeeps
<1> QED BY <1>1, InductiveInvariant, PTL DEF Spec, HeldUntilDelivered, Kept

(***************************************************************************)
(* A gap is given up only for a packet that has waited out the timeout     *)
(* (reorder_buffer.py:140-152): the frontier passes nothing else that was  *)
(* not delivered, however the timeout adapts and the packets arrive.       *)
(***************************************************************************)
THEOREM GapsOutwaited == Spec => GapOutwaited
<1>1. IInv /\ [Next]_vars => [Outwaited]_vars BY StepKeeps
<1> QED BY <1>1, InductiveInvariant, PTL DEF Spec, GapOutwaited, Outwaited

OutwaitedIsDelivered ==
  [][CheckTimeouts => \A s \in buffer :
       Stale(s) /\ (\A t \in buffer : t >= s) => s \in Range(delivered')]_vars

(***************************************************************************)
(* One call of check_timeouts is enough: the packet next in line behind a  *)
(* gap, once it has waited for the timeout, is delivered by it, however    *)
(* wide the gap is (reorder_buffer.py:134-166).                            *)
(***************************************************************************)
THEOREM OutwaitedDelivered == Spec => OutwaitedIsDelivered
<1>1. IInv /\ [Next]_vars =>
        [CheckTimeouts => \A s \in buffer :
           Stale(s) /\ (\A t \in buffer : t >= s) => s \in Range(delivered')]_vars
  <2> SUFFICES ASSUME IInv, CheckTimeouts, NEW s \in buffer, Stale(s), \A t \in buffer : t >= s
               PROVE  s \in Range(delivered')
    OBVIOUS
  <2>1. /\ buffer \in SUBSET Nat /\ buffer \in SUBSET Seqs /\ age \in [buffer -> 0..AgeCap]
        /\ nextSeq \in Nat /\ \A t \in buffer : t > nextSeq
    BY DEF IInv, TypeOK, Seqs, FlushLoopEnds
  <2>2. Min(buffer) = s
    <3>1. Min(buffer) \in buffer /\ \A t \in buffer : Min(buffer) <= t BY <2>1, MinIsLeast
    <3>2. Min(buffer) \in Nat /\ s \in Nat /\ Min(buffer) <= s /\ s <= Min(buffer) BY <2>1, <3>1
    <3> QED BY <3>2
  <2>3. SkipTo = s BY <2>1, <2>2 DEF SkipTo
  <2>4. /\ nextSeq' \in s..(MaxSeq + 1) /\ FlushLoopEnds'
        /\ buffer' = {t \in buffer : t >= nextSeq'}
        /\ Range(delivered') = Range(delivered) \cup (s..(nextSeq' - 1))
    <3>1. DeliverInOrder(buffer, age, s) BY <2>3 DEF CheckTimeouts
    <3>2. s \in nextSeq..(MaxSeq + 1) BY <2>3, SkipToIsFirst
    <3> QED BY <2>1, <3>1, <3>2, DeliverInOrderStep DEF IInv
  <2>5. nextSeq' # s
    <3> SUFFICES ASSUME nextSeq' = s PROVE FALSE OBVIOUS
    <3>1. s \in buffer' /\ s \in Nat BY <2>1, <2>4
    <3> QED BY <2>4, <3>1 DEF FlushLoopEnds
  <2>6. s \in s..(nextSeq' - 1)
    <3>1. s \in Int /\ nextSeq' \in Int /\ nextSeq' >= s BY <2>1, <2>4, ConstAssumption
    <3>2. \A a, c \in Int : a <= c /\ c # a => a \in a..(c - 1) OBVIOUS
    <3> QED BY <2>5, <3>1, <3>2
  <2> QED BY <2>4, <2>6
<1> QED BY <1>1, InductiveInvariant, PTL DEF Spec, OutwaitedIsDelivered

-----------------------------------------------------------------------------
(* The buffer implements OrderedDelivery. *)

(***************************************************************************)
(* A call of _deliver_in_order is an Advance of the abstract frontier over *)
(* the packets the call starts from.                                       *)
(***************************************************************************)
LEMMA DeliverInOrderAdvances ==
  ASSUME TypeOK, InOrder,
         NEW b \in SUBSET Seqs, NEW a \in [b -> 0..AgeCap],
         NEW n \in nextSeq..(MaxSeq + 1), \A s \in b : s >= n,
         DeliverInOrder(b, a, n)
  PROVE  OD!Advance(b)
<1> DEFINE m == RunEnd(b, n)
           run == [i \in 1..(m - n) |-> n + i - 1]
<1>1. n \in 0..(MaxSeq + 1) /\ nextSeq \in Nat /\ n \in Int /\ n >= nextSeq
  BY ConstAssumption DEF TypeOK
<1>2. m \in n..(MaxSeq + 1) /\ m \notin b /\ n..(m - 1) \subseteq b
  BY <1>1, RunEndStops
<1>3. nextSeq' = m /\ buffer' = b \ (n..(m - 1)) /\ delivered' = delivered \o run
  BY DEF DeliverInOrder
<1> HIDE DEF m
<1>4. m \in Int /\ m >= n /\ m \in Nat /\ m >= nextSeq BY <1>1, <1>2, ConstAssumption
<1>5. run \in Seq(Seqs) /\ Len(run) = m - n
      /\ \A i \in 1..(m - n) : run[i] = n + i - 1
  <2>1. m - n \in Nat BY <1>1, <1>2
  <2>2. \A i \in 1..(m - n) : n + i - 1 \in Seqs
    BY <1>1, <1>2, ConstAssumption DEF Seqs
  <2> QED BY <2>1, <2>2
<1> HIDE DEF run
<1>6. OD!Appended = run
  <2> DEFINE k == Len(delivered)
  <2>1. k \in Nat /\ Len(run) \in Nat BY <1>5 DEF TypeOK
  <2>2. /\ delivered' \in Seq(Seqs) /\ Len(delivered') = k + Len(run)
        /\ \A i \in 1..(k + Len(run)) : delivered'[i] =
              IF i <= k THEN delivered[i] ELSE run[i - k]
    BY <1>3, <1>5, ConcatProperties DEF TypeOK
  <2>3. \A i \in (k + 1)..(k + Len(run)) : delivered'[i] \in Seqs
    BY <2>1, <2>2
  <2> HIDE DEF k
  <2>4. /\ SubSeq(delivered', k + 1, k + Len(run)) \in Seq(Seqs)
        /\ Len(SubSeq(delivered', k + 1, k + Len(run))) = Len(run)
        /\ \A i \in 1..Len(run) :
              SubSeq(delivered', k + 1, k + Len(run))[i] = delivered'[k + i]
    <3> DEFINE sub == SubSeq(delivered', k + 1, k + Len(run))
    <3>1. /\ sub \in Seq(Seqs)
          /\ Len(sub) = IF k + 1 <= k + Len(run)
                        THEN (k + Len(run)) - (k + 1) + 1 ELSE 0
          /\ \A i \in 1..((k + Len(run)) - (k + 1) + 1) :
                sub[i] = delivered'[(k + 1) + i - 1]
      BY <2>1, <2>3, SubSeqProperties
    <3> HIDE DEF sub
    <3>2. Len(sub) = Len(run) BY <2>1, <3>1
    <3>3. ASSUME NEW i \in 1..Len(run) PROVE sub[i] = delivered'[k + i]
      <4>1. i \in 1..((k + Len(run)) - (k + 1) + 1) /\ (k + 1) + i - 1 = k + i
        BY <2>1
      <4> QED BY <3>1, <4>1
    <3> QED BY <3>1, <3>2, <3>3 DEF sub
  <2>5. ASSUME NEW i \in 1..Len(run) PROVE delivered'[k + i] = run[i]
    <3>1. k + i \in 1..(k + Len(run)) /\ ~(k + i <= k) /\ (k + i) - k = i
      BY <2>1
    <3> QED BY <2>2, <3>1 DEF k
  <2>6. SubSeq(delivered', k + 1, k + Len(run)) = run
    BY <1>5, <2>4, <2>5, SeqEqual
  <2> QED BY <2>2, <2>6 DEF OD!Appended, k
<1>7. OD!Ascending(run)
  BY <1>1, <1>4, <1>5 DEF OD!Ascending
<1>8. buffer' = {s \in b : s >= m}
  <2>1. \A s \in b : s \in Int /\ s >= n
    BY ConstAssumption DEF Seqs
  <2>2. \A s \in b : s \in n..(m - 1) <=> ~(s >= m)
    BY <2>1, <1>1, <1>4
  <2> QED BY <2>2, <1>3
<1>9. {run[i] : i \in 1..Len(run)} = b \ buffer'
  <2>1. {run[i] : i \in 1..Len(run)} = n..(m - 1)
    <3>1. ASSUME NEW x \in n..(m - 1) PROVE \E i \in 1..Len(run) : run[i] = x
      <4>1. x - n + 1 \in 1..Len(run) /\ n + (x - n + 1) - 1 = x
        BY <1>1, <1>4, <1>5
      <4> QED BY <4>1, <1>5
    <3>2. ASSUME NEW i \in 1..Len(run) PROVE run[i] \in n..(m - 1)
      BY <1>1, <1>4, <1>5
    <3> QED BY <3>1, <3>2
  <2> QED BY <2>1, <1>2, <1>3
<1> QED BY <1>3, <1>4, <1>6, <1>7, <1>8, <1>9 DEF OD!Advance

\* Every step of the buffer is one of ordered delivery, or leaves frontier, held and delivered alone.
LEMMA StepDelivers == IInv /\ [Next]_vars => [OD!Next]_OD!vars
<1> SUFFICES ASSUME IInv, [Next]_vars PROVE [OD!Next]_OD!vars OBVIOUS
<1>1. ASSUME NEW s \in Seqs, Insert(s) PROVE OD!Receive(s)
  <2> DEFINE b == buffer \cup {s}
             a == [t \in b |-> IF t = s THEN 0 ELSE age[t]]
  <2>1. b \in SUBSET Seqs /\ nextSeq \in Nat /\ nextSeq \in nextSeq..(MaxSeq + 1)
    BY ConstAssumption DEF IInv, TypeOK
  <2>2. a \in [b -> 0..AgeCap] BY AgeCapType DEF IInv, TypeOK
  <2>3. s >= nextSeq /\ s \notin seen
    BY <1>1, ConstAssumption DEF Insert, IsDuplicate, Seqs, IInv, TypeOK
  <2>4. \A t \in b : t >= nextSeq
    BY <2>3, ConstAssumption DEF IInv, TypeOK, FlushLoopEnds, Seqs
  <2>5. DeliverInOrder(b, a, nextSeq) BY <1>1 DEF Insert
  <2>6. OD!Advance(b)
    <3> HIDE DEF a, b
    <3> QED BY <2>1, <2>2, <2>4, <2>5, DeliverInOrderAdvances DEF IInv
  <2>7. s \notin buffer BY <2>3 DEF IInv, SeenIsHeld
  <2> QED BY <2>3, <2>6, <2>7 DEF OD!Receive
<1>2. CASE CheckTimeouts
  <2>1. buffer \in SUBSET Seqs /\ age \in [buffer -> 0..AgeCap]
    BY DEF IInv, TypeOK
  <2>2. DeliverInOrder(buffer, age, SkipTo) BY <1>2 DEF CheckTimeouts
  <2> QED BY <2>1, <2>2, SkipToIsFirst, DeliverInOrderAdvances DEF IInv, OD!GiveUp, OD!Next
<1>3. ASSUME NEW s \in Seqs, InsertDuplicate(s) PROVE UNCHANGED OD!vars
  BY <1>3 DEF InsertDuplicate, OD!vars
<1>4. ASSUME NEW rtt, NEW jitter, UpdateTimeout(rtt, jitter) PROVE UNCHANGED OD!vars
  BY <1>4 DEF UpdateTimeout, OD!vars
<1>5. CASE Tick BY <1>5 DEF Tick, Aged, OD!vars
<1>6. CASE UNCHANGED vars BY <1>6 DEF vars, OD!vars
<1> QED BY <1>1, <1>2, <1>3, <1>4, <1>5, <1>6 DEF Next, OD!Next
(***************************************************************************)
(* The reorder buffer implements ordered delivery: whatever insert and     *)
(* check_timeouts do, an observer of the TUN sees a frontier that only     *)
(* advances and releases what it passes, in order.                         *)
(***************************************************************************)
THEOREM Implements == Spec => ImplementsOrderedDelivery
<1>1. Init => OD!Init BY DEF Init, OD!Init
<1>2. IInv /\ [Next]_vars => [OD!Next]_OD!vars BY StepDelivers
<1> QED BY <1>1, <1>2, InductiveInvariant, PTL DEF Spec, ImplementsOrderedDelivery, OD!Spec
=============================================================================
