----------------------------- MODULE Tunnel_proofs -----------------------------
(***************************************************************************)
(* Proofs about Tunnel, for both directions, any bounds, any sizes of the  *)
(* codes and any network: the pipeline around the reorder buffer uses it   *)
(* as module ReorderBuffer says it is used, every packet it writes was     *)
(* read at the other end, what it writes in turn is in the order in which  *)
(* it was read, and a group the decoder was given enough of is complete.   *)
(***************************************************************************)
EXTENDS Tunnel, FecEngine_proofs

-----------------------------------------------------------------------------
(* The reorder buffer.  RBP are the lemmas of ReorderBuffer_proofs about the *)
(* buffer of the tunnel; its operators are those of RB, by their            *)
(* definitions.                                                             *)

RBP == INSTANCE ReorderBuffer_proofs

LEMMA SameCardinality == \A S : RB!Cardinality(S) = RBP!Cardinality(S)
BY DEF RB!Cardinality, RBP!Cardinality

LEMMA SameFinite == \A S : IsFiniteSet(S) = RBP!IsFiniteSet(S)
BY DEF IsFiniteSet, RBP!IsFiniteSet

\* What ReorderBuffer assumes of its constants.
LEMMA BufferConstants ==
  /\ MaxSeq \in Nat /\ Window \in Nat \ {0}
  /\ RBP!IsFiniteSet(Paths)
  /\ Rtts \subseteq 0..RBP!MaxMetric /\ Jitters \subseteq 0..RBP!MaxMetric
  /\ MinTimeout \in Nat /\ MaxTimeout \in Nat /\ InitTimeout \in Nat
  /\ MinTimeout <= InitTimeout /\ InitTimeout <= MaxTimeout
  /\ TickMs \in Nat \ {0} /\ RecentMax \in Nat \ {0} /\ MaxLate \in Nat
BY SameFinite, TunnelAssumption DEF RB!MaxMetric, RBP!MaxMetric

LEMMA SameStep == ASSUME RB!Next PROVE RBP!Next
<1> USE SameCardinality
    DEF RB!IsDuplicate, RBP!IsDuplicate, RB!DeliverInOrder, RBP!DeliverInOrder,
        RB!LastOf, RBP!LastOf, RB!RunEnd, RBP!RunEnd, RB!Seqs, RBP!Seqs,
        RB!Min, RBP!Min, RB!Max, RBP!Max
<1>1. ASSUME NEW s \in RB!Seqs, RB!Insert(s) PROVE RBP!Next
  BY <1>1 DEF RB!Insert, RBP!Insert, RBP!Next
<1>2. ASSUME NEW s \in RB!Seqs, RB!InsertDuplicate(s) PROVE RBP!Next
  BY <1>2 DEF RB!InsertDuplicate, RBP!InsertDuplicate, RBP!Next
<1>3. CASE RB!CheckTimeouts
  BY <1>3 DEF RB!CheckTimeouts, RBP!CheckTimeouts, RBP!Next, RB!SkipTo, RBP!SkipTo,
              RB!Stale, RBP!Stale, RB!Newest, RBP!Newest
<1>4. ASSUME NEW alive \in SUBSET Paths,
             NEW rtt \in [alive -> Rtts], NEW jitter \in [alive -> Jitters],
             RB!UpdateTimeout(rtt, jitter)
      PROVE  RBP!Next
  <2>1. RBP!UpdateTimeout(rtt, jitter)
    BY <1>4 DEF RB!UpdateTimeout, RBP!UpdateTimeout, RB!Spread, RBP!Spread,
                RB!Range, RBP!Range, RB!ManyLate, RBP!ManyLate, RB!Clamp, RBP!Clamp
  <2> QED BY <2>1 DEF RBP!Next
<1>5. CASE RB!Tick
  BY <1>5 DEF RB!Tick, RBP!Tick, RB!Aged, RBP!Aged, RB!AgeCap, RBP!AgeCap, RBP!Next
<1> QED BY <1>1, <1>2, <1>3, <1>4, <1>5 DEF RB!Next

\* The invariant of the buffer holds of a new one and is kept by its steps.
LEMMA BufferStep == ASSUME RBP!IInv, RB!Next PROVE RBP!IInv'
BY SameStep, RBP!StepIInv, BufferConstants

LEMMA BufferInit == ASSUME RB!Init PROVE RBP!IInv
<1>1. RBP!Init BY DEF RB!Init, RBP!Init
<1> QED BY <1>1, RBP!InitIInv, BufferConstants

LEMMA BufferSame == ASSUME RBP!IInv, UNCHANGED bufferVars PROVE RBP!IInv'
<1>1. UNCHANGED RBP!vars BY DEF bufferVars, RBP!vars
<1> QED BY <1>1, RBP!StepIInv, BufferConstants

\* What it says in the terms of RB.
LEMMA BufferIs ==
  ASSUME RBP!IInv
  PROVE  /\ RB!TypeOK /\ RB!InOrder /\ RB!FlushLoopEnds /\ RB!SeenIsHeld
         /\ RB!FlushedWasSkipped
<1>1. RB!TypeOK
  BY DEF RBP!IInv, RBP!TypeOK, RB!TypeOK, RB!Seqs, RBP!Seqs, RB!AgeCap, RBP!AgeCap
<1> QED BY <1>1 DEF RBP!IInv, RB!InOrder, RBP!InOrder, RB!FlushLoopEnds, RBP!FlushLoopEnds,
                    RB!SeenIsHeld, RBP!SeenIsHeld, RB!FlushedWasSkipped,
                    RBP!FlushedWasSkipped, RB!Range, RBP!Range

-----------------------------------------------------------------------------
(* How the tunnel uses the buffer: the numbers on the wire are numbers of  *)
(* the buffer, and its invariant holds.                                    *)

NumbersFit == globalSeq \in 0..(MaxSeq + 1) /\ \A p \in BagToSet(net) : p.seq \in RB!Seqs

TInv ==
  /\ direction \in Directions
  /\ restarts \in [sender : Nat, receiver : Nat]
  /\ NumbersFit
  /\ RBP!IInv

-----------------------------------------------------------------------------
(* Facts about lengths, bags and what the sender puts on the wire.          *)

LEMMA LenIsNat == ASSUME NEW S, NEW s \in Seq(S) PROVE Len(s) \in Nat
OBVIOUS

LEMMA SeqMonotone == ASSUME NEW S, NEW T, S \subseteq T, NEW s \in Seq(S) PROVE s \in Seq(T)
OBVIOUS

LEMMA SumIsNat == ASSUME NEW x \in Nat, NEW y \in Nat PROVE x + y \in Nat /\ x <= x + y
OBVIOUS

LEMMA TakenFromBag ==
  ASSUME NEW B, NEW C
  PROVE  BagToSet(B (-) C) \subseteq BagToSet(B)
  BY DEF BagToSet, (-)

LEMMA PutIntoBag ==
  ASSUME NEW B, NEW C
  PROVE  BagToSet(B (+) C) = BagToSet(B) \cup BagToSet(C)
  BY DEF BagToSet, (+)

\* Is s without FEC or a shard, and does it carry one of the first n packets
\* of the TUN if it is no parity?
WireShard(s, n) ==
  /\ s.code = "none" \/ IsShard(s, 0..(n - 1) \cup {Garbage})
  /\ ~IsFecParity(s) => s.body[1] \in 0..(n - 1)

\* The i-th datagram of the packet that is sent with code c.
Datagram(c, i) == [seq |-> globalSeq + i - 1, shard |-> Sealed(Outputs(c, read)[i])]
SentNow(c) == {Datagram(c, i) : i \in 1..Len(Outputs(c, read))}

\* Of the outputs the first carries the packet, the others are parity.
LEMMA OutputsAre ==
  ASSUME read \in Nat, EncoderOK(enc, 0..read), NEW c \in Codes \cup {"none"}
  PROVE  LET out == Outputs(c, read)
         IN  /\ Len(out) \in Nat \ {0}
             /\ ~IsFecParity(out[1]) /\ out[1].body = <<read>>
             /\ c = "none" => out[1].code = "none"
             /\ c # "none" => IsShard(out[1], 0..read)
             /\ \A i \in 2..Len(out) :
                  /\ IsFecParity(out[i]) /\ IsShard(out[i], 0..read)
                  /\ out[i] = [code |-> out[i].code, gid |-> out[i].gid,
                               idx |-> out[i].idx, body |-> out[i].body]
<1>1. CASE c = "none"
  <2>1. Outputs(c, read) = <<[code |-> "none", gid |-> 0, idx |-> 0, body |-> <<read>>]>>
    BY <1>1 DEF Outputs
  <2> QED BY <1>1, <2>1 DEF IsFecParity
<1>2. CASE c # "none"
  <2>1. c \in Codes /\ read \in 0..read BY <1>2
  <2>2. Outputs(c, read) = EncodeOut(enc, c, read) BY <1>2 DEF Outputs
  <2>3. Len(EncodeOut(enc, c, read)) \in Nat \ {0} BY <2>1, EncodeOutIs
  <2> DEFINE data == EncodeOut(enc, c, read)[1]
  <2>4. data = DataOut(enc, c, read) /\ IsShard(data, 0..read) /\ ~IsParity(data)
    BY <2>1, DataOutIs
  <2>5. data.body = <<read>> BY <2>4 DEF DataOut
  <2>6. ~IsFecParity(data) BY <2>4 DEF IsFecParity
  <2>7. ASSUME NEW i \in 2..Len(EncodeOut(enc, c, read))
        PROVE  LET s == EncodeOut(enc, c, read)[i]
               IN  /\ IsFecParity(s) /\ IsShard(s, 0..read)
                   /\ s = [code |-> s.code, gid |-> s.gid, idx |-> s.idx, body |-> s.body]
    <3> DEFINE s == EncodeOut(enc, c, read)[i]
    <3>1. s = ParityOut(enc, c, read, s.idx) /\ IsShard(s, 0..read) /\ IsParity(s) /\ s.code = c
      BY <2>1, ParityOutIs
    <3> HIDE DEF s
    <3>2. s = [code |-> s.code, gid |-> s.gid, idx |-> s.idx, body |-> s.body]
      BY <3>1 DEF ParityOut
    <3> QED BY <1>2, <3>1, <3>2 DEF IsFecParity, s
  <2> HIDE DEF data
  <2> QED BY <1>2, <2>2, <2>3, <2>4, <2>5, <2>6, <2>7 DEF data
<1> QED BY <1>1, <1>2

\* So a datagram that is no parity is the first, with the packet.
LEMMA DatagramIs ==
  ASSUME read \in Nat, EncoderOK(enc, 0..read), NEW c \in Codes \cup {"none"},
         NEW i \in 1..Len(Outputs(c, read))
  PROVE  LET p == Datagram(c, i)
         IN  /\ p.seq = globalSeq + i - 1
             /\ WireShard(p.shard, read + 1)
             /\ ~IsFecParity(p.shard) => i = 1 /\ p.shard.body[1] = read
<1> DEFINE out == Outputs(c, read)
           p == Datagram(c, i)
           s == p.shard
<1>1. p.seq = globalSeq + i - 1 /\ s = Sealed(out[i]) BY DEF Datagram
<1>2. (read + 1) - 1 = read /\ 0..read \subseteq 0..read \cup {Garbage} OBVIOUS
<1>3. CASE i = 1
  <2>1. /\ ~IsFecParity(out[1]) /\ out[1].body = <<read>>
        /\ c = "none" => out[1].code = "none"
        /\ c # "none" => IsShard(out[1], 0..read)
    BY OutputsAre
  <2>2. s = out[1] BY <1>1, <1>3, <2>1 DEF Sealed
  <2>3. c # "none" => IsShard(out[1], 0..read \cup {Garbage}) BY <1>2, <2>1, ShardMonotone
  <2>4. out[1].body[1] = read BY <2>1
  <2> HIDE DEF out, s
  <2>5. WireShard(s, read + 1) BY <1>2, <2>1, <2>2, <2>3, <2>4 DEF WireShard
  <2> HIDE DEF p
  <2> QED BY <1>1, <1>3, <2>2, <2>4, <2>5 DEF s, p
<1>4. CASE i # 1
  <2> DEFINE t == out[i]
  <2>1. i \in 2..Len(out) BY <1>4, OutputsAre
  <2>2. /\ IsFecParity(t) /\ IsShard(t, 0..read)
        /\ t = [code |-> t.code, gid |-> t.gid, idx |-> t.idx, body |-> t.body]
    BY <2>1, OutputsAre
  <2> HIDE DEF out, p
  <2>3. s.code = t.code /\ s.gid = t.gid /\ s.idx = t.idx
        /\ (s.body = t.body \/ s.body = <<Garbage>>)
    <3>1. CASE Encrypted
      <4>1. s = [t EXCEPT !.body = <<Garbage>>] BY <1>1, <2>2, <3>1 DEF Sealed
      <4> HIDE DEF s, t
      <4>2. s = [code |-> t.code, gid |-> t.gid, idx |-> t.idx, body |-> <<Garbage>>]
        BY <2>2, <4>1
      <4> QED BY <4>2
    <3>2. CASE ~Encrypted
      <4>1. s = t BY <1>1, <2>2, <3>2 DEF Sealed
      <4> QED BY <4>1
    <3> QED BY <3>1, <3>2
  <2> HIDE DEF t, s
  <2>4. IsFecParity(s) BY <2>2, <2>3 DEF IsFecParity, IsParity
  <2>5. IsShard(t, 0..read \cup {Garbage}) BY <1>2, <2>2, ShardMonotone
  <2>6. <<Garbage>> \in Seq(0..read \cup {Garbage}) OBVIOUS
  <2>7. IsShard(s, 0..read \cup {Garbage}) BY <2>3, <2>5, <2>6 DEF IsShard
  <2>8. WireShard(s, read + 1) BY <1>2, <2>4, <2>7 DEF WireShard
  <2> QED BY <1>1, <2>4, <2>8 DEF s, p
<1> QED BY <1>3, <1>4

\* What Send does to the network and to the numbers.
LEMMA SendIs ==
  ASSUME direction \in Directions, read \in Nat, EncoderOK(enc, 0..read), globalSeq \in Nat,
         IsABag(net), NEW mode \in Limit.modes, NEW tier, Send(mode, tier)
  PROVE  LET c == CodeFor(mode, tier)
         IN  /\ c \in Codes \cup {"none"}
             /\ IsABag(net') /\ BagToSet(net') \subseteq BagToSet(net) \cup SentNow(c)
             /\ globalSeq' = globalSeq + Len(Outputs(c, read)) /\ globalSeq' \in 0..(MaxSeq + 1)
             /\ globalSeq' > globalSeq
             /\ \A p \in SentNow(c) :
                  /\ p.seq \in RB!Seqs /\ WireShard(p.shard, read + 1)
                  /\ ~IsFecParity(p.shard) => p.seq = globalSeq /\ p.shard.body[1] = read
<1> DEFINE c == CodeFor(mode, tier)
           n == Len(Outputs(c, read))
           packet(i) == [seq |-> globalSeq + i - 1, shard |-> Sealed(Outputs(c, read)[i])]
<1>1. Limit.outputs \in 0..(MaxSeq + 1) /\ Limit.modes \subseteq Modes /\ MaxSeq \in Nat
  BY TunnelAssumption DEF Limit
<1>2. c \in Codes \cup {"none"} BY <1>1, CodeType
<1>3. globalSeq + n <= Limit.outputs /\ globalSeq' = globalSeq + n BY DEF Send
<1>4. PICK copies \in [1..n -> 0..Cardinality(Paths)] :
        net' = net (+) [p \in {packet(i) : i \in {j \in 1..n : copies[j] > 0}}
                          |-> copies[p.seq - globalSeq + 1]]
  BY DEF Send
<1> HIDE DEF c
<1>5. n \in Nat \ {0} BY <1>2, OutputsAre
<1>6. globalSeq' \in 0..(MaxSeq + 1) /\ globalSeq' > globalSeq BY <1>1, <1>3, <1>5
<1>7. ASSUME NEW i \in 1..n
      PROVE  /\ Datagram(c, i).seq \in RB!Seqs /\ WireShard(Datagram(c, i).shard, read + 1)
             /\ ~IsFecParity(Datagram(c, i).shard) =>
                  Datagram(c, i).seq = globalSeq /\ Datagram(c, i).shard.body[1] = read
  <2>1. /\ Datagram(c, i).seq = globalSeq + i - 1
        /\ WireShard(Datagram(c, i).shard, read + 1)
        /\ ~IsFecParity(Datagram(c, i).shard) => i = 1 /\ Datagram(c, i).shard.body[1] = read
    BY <1>2, DatagramIs
  <2>2. globalSeq + i - 1 \in 0..MaxSeq BY <1>1, <1>3, <1>5
  <2>3. i = 1 => globalSeq + i - 1 = globalSeq OBVIOUS
  <2> QED BY <2>1, <2>2, <2>3 DEF RB!Seqs
<1> DEFINE S == {packet(i) : i \in {j \in 1..n : copies[j] > 0}}
           new == [p \in S |-> copies[p.seq - globalSeq + 1]]
<1>8. S \subseteq SentNow(c) BY DEF SentNow, Datagram
<1>9. \A p \in S : new[p] \in Nat /\ new[p] > 0
  <2> SUFFICES ASSUME NEW i \in 1..n, copies[i] > 0
               PROVE  new[packet(i)] \in Nat /\ new[packet(i)] > 0
    OBVIOUS
  <2>1. (globalSeq + i - 1) - globalSeq + 1 = i OBVIOUS
  <2>2. new[packet(i)] = copies[i] BY <2>1
  <2>3. copies[i] \in Nat
    <3>1. Cardinality(Paths) \in Nat BY TunnelAssumption, FS_CardinalityType
    <3>2. copies[i] \in 0..Cardinality(Paths) OBVIOUS
    <3> QED BY <3>1, <3>2
  <2> QED BY <2>2, <2>3
<1>10. net' = net (+) new /\ DOMAIN new = S BY <1>4
<1> HIDE DEF S, new
<1>11. BagToSet(net') = BagToSet(net) \cup S
  <2>1. BagToSet(new) = S BY <1>10 DEF BagToSet
  <2> QED BY <1>10, <2>1, PutIntoBag
<1>12. IsABag(net')
  <2>1. \A p \in DOMAIN net : net[p] \in Nat /\ net[p] > 0 BY DEF IsABag
  <2> QED BY <1>9, <1>10, <2>1 DEF IsABag, (+)
<1>13. \A p \in SentNow(c) :
         /\ p.seq \in RB!Seqs /\ WireShard(p.shard, read + 1)
         /\ ~IsFecParity(p.shard) => p.seq = globalSeq /\ p.shard.body[1] = read
  BY <1>7 DEF SentNow
<1> HIDE DEF n
<1>14. globalSeq' = globalSeq + Len(Outputs(c, read)) BY <1>3 DEF n
<1> QED BY <1>2, <1>6, <1>8, <1>11, <1>12, <1>13, <1>14 DEF c

\* What taking a datagram leaves.
LEMMA TakeIs ==
  ASSUME IsABag(net), NEW p, Take(p)
  PROVE  IsABag(net') /\ BagToSet(net') \subseteq BagToSet(net)
<1>1. BagToSet(net') \subseteq BagToSet(net) BY TakenFromBag DEF Take
<1>2. IsABag(net')
  <2> DEFINE C == SetToBag({p})
             B == [e \in DOMAIN net |-> IF e \in DOMAIN C THEN net[e] - C[e] ELSE net[e]]
  <2>1. \A e \in DOMAIN net : net[e] \in Nat BY DEF IsABag
  <2>2. \A e \in DOMAIN C : C[e] = 1 BY DEF SetToBag
  <2> HIDE DEF C
  <2>3. \A e \in DOMAIN net : B[e] \in Int BY <2>1, <2>2
  <2>4. net' = [e \in {f \in DOMAIN B : B[f] > 0} |-> B[e]] BY DEF Take, (-), C
  <2>5. DOMAIN B = DOMAIN net OBVIOUS
  <2> HIDE DEF B
  <2> QED BY <2>3, <2>4, <2>5 DEF IsABag
<1> QED BY <1>1, <1>2

-----------------------------------------------------------------------------
(* Number and body of a data packet: what has to be in order.              *)
(*                                                                         *)
(* Two packets that one run of the sender read have their numbers in the   *)
(* order in which they were read.  That is so of those on the wire, in the *)
(* buffer and handed on by it; the numbers of the last are ascending, and  *)
(* below the buffer's frontier.                                            *)

\* born says which run read a packet, n packets were read, the current run
\* has used the numbers below g, the earlier ones numbers below c.
Coherent(born, n, run, g, c, S) ==
  /\ \A x \in S : /\ x[1] \in Nat /\ x[2] \in 0..(n - 1)
                  /\ born[x[2] + 1] = run => x[1] < g
                  /\ born[x[2] + 1] # run => x[1] < c
  /\ \A x, y \in S :
       born[x[2] + 1] = born[y[2] + 1] =>
         (x[1] < y[1] => x[2] < y[2]) /\ (x[1] = y[1] => x[2] = y[2])

\* The positions T of t were handed on in turn, the last of them just below
\* the frontier `next': num are their numbers.  W waits.
TurnsOK(T, t, next, W, born, n, run, g, c) ==
  \E num \in [T -> RB!Seqs] :
    /\ \A i, j \in T : i < j => num[i] < num[j]
    /\ \A i \in T : num[i] < next
    /\ next = 0 \/ \E i \in T : num[i] = next - 1
    /\ Coherent(born, n, run, g, c, W \cup {<<num[i], t[i]>> : i \in T})

LEMMA CoherentSubset ==
  ASSUME NEW born, NEW n, NEW run, NEW g, NEW c, NEW S, NEW V, Coherent(born, n, run, g, c, S), V \subseteq S
  PROVE  Coherent(born, n, run, g, c, V)
BY DEF Coherent

\* A packet is read and gets the next number.
LEMMA CoherentSent ==
  ASSUME NEW run \in Nat, NEW n \in Nat, NEW born \in Seq(0..run), Len(born) = n,
         NEW g \in Nat, NEW h \in Nat, NEW c, g < h, NEW S, Coherent(born, n, run, g, c, S)
  PROVE  Coherent(Append(born, run), n + 1, run, h, c, S \cup {<<g, n>>})
<1> DEFINE new == Append(born, run)
           x0 == <<g, n>>
<1>1. new[n + 1] = run /\ \A i \in 1..n : new[i] = born[i] BY AppendProperties
<1>2. ASSUME NEW x \in S
      PROVE  /\ x[1] \in Nat /\ x[2] \in Nat /\ x[2] < n /\ x[2] \in 0..((n + 1) - 1)
             /\ new[x[2] + 1] = born[x[2] + 1]
             /\ new[x[2] + 1] = run => x[1] < g
             /\ new[x[2] + 1] # run => x[1] < c
  <2>1. /\ x[1] \in Nat /\ x[2] \in 0..(n - 1)
        /\ born[x[2] + 1] = run => x[1] < g
        /\ born[x[2] + 1] # run => x[1] < c
    BY DEF Coherent
  <2>2. x[2] + 1 \in 1..n BY <2>1
  <2> HIDE DEF new
  <2> QED BY <1>1, <2>1, <2>2
<1>3. x0[1] = g /\ x0[2] = n /\ n \in 0..((n + 1) - 1) OBVIOUS
<1> HIDE DEF new, x0
<1>4. ASSUME NEW x \in S \cup {x0}
      PROVE  /\ x[1] \in Nat /\ x[2] \in 0..((n + 1) - 1)
             /\ new[x[2] + 1] = run => x[1] < h
             /\ new[x[2] + 1] # run => x[1] < c
  <2>1. CASE x \in S BY <1>2, <2>1
  <2>2. CASE x = x0 BY <1>1, <1>3, <2>2
  <2> QED BY <2>1, <2>2
<1>5. ASSUME NEW x \in S \cup {x0}, NEW y \in S \cup {x0},
             new[x[2] + 1] = new[y[2] + 1]
      PROVE  (x[1] < y[1] => x[2] < y[2]) /\ (x[1] = y[1] => x[2] = y[2])
  <2>1. CASE x \in S /\ y \in S BY <1>2, <1>5, <2>1 DEF Coherent
  <2>2. CASE x \in S /\ y = x0
    <3>1. new[x[2] + 1] = run BY <1>1, <1>3, <1>5, <2>2
    <3>2. x[1] < g /\ x[1] \in Nat /\ x[2] < n BY <1>2, <2>2, <3>1
    <3> QED BY <1>3, <2>2, <3>2
  <2>3. CASE x = x0 /\ y \in S
    <3>1. new[y[2] + 1] = run BY <1>1, <1>3, <1>5, <2>3
    <3>2. y[1] < g /\ y[1] \in Nat BY <1>2, <2>3, <3>1
    <3> QED BY <1>3, <2>3, <3>2
  <2>4. CASE x = x0 /\ y = x0 BY <1>3, <1>5, <2>4
  <2> QED BY <2>1, <2>2, <2>3, <2>4
<1>6. Coherent(new, n + 1, run, h, c, S \cup {x0}) BY <1>4, <1>5 DEF Coherent
<1> QED BY <1>6 DEF new, x0

\* A new run of the sender has read nothing yet.
LEMMA CoherentRestarted ==
  ASSUME NEW run \in Nat, NEW n \in Nat, NEW born \in Seq(0..run), Len(born) = n,
         NEW g \in Nat, NEW c \in Nat, NEW S, Coherent(born, n, run, g, c, S)
  PROVE  Coherent(born, n, run + 1, 0, IF g > c THEN g ELSE c, S)
<1>1. ASSUME NEW x \in S
      PROVE  /\ x[1] \in Nat /\ x[2] \in 0..(n - 1) /\ born[x[2] + 1] # run + 1
             /\ x[1] < IF g > c THEN g ELSE c
  <2>1. x[1] \in Nat /\ x[2] \in 0..(n - 1) /\ (x[1] < g \/ x[1] < c) BY DEF Coherent
  <2>2. x[2] + 1 \in 1..n BY <2>1
  <2>3. born[x[2] + 1] \in 0..run BY <2>2
  <2> QED BY <2>1, <2>3
<1> QED BY <1>1 DEF Coherent

LEMMA TurnsWeaker ==
  ASSUME NEW T, NEW t, NEW u, NEW next, NEW W, NEW V, NEW born, NEW n, NEW run, NEW g, NEW c,
         TurnsOK(T, t, next, W, born, n, run, g, c), V \subseteq W, \A i \in T : u[i] = t[i]
  PROVE  TurnsOK(T, u, next, V, born, n, run, g, c)
<1>1. PICK num \in [T -> RB!Seqs] :
        /\ \A i, j \in T : i < j => num[i] < num[j]
        /\ \A i \in T : num[i] < next
        /\ next = 0 \/ \E i \in T : num[i] = next - 1
        /\ Coherent(born, n, run, g, c, W \cup {<<num[i], t[i]>> : i \in T})
  BY DEF TurnsOK
<1>2. V \cup {<<num[i], u[i]>> : i \in T} \subseteq W \cup {<<num[i], t[i]>> : i \in T} OBVIOUS
<1>3. Coherent(born, n, run, g, c, V \cup {<<num[i], u[i]>> : i \in T})
  BY <1>1, <1>2, CoherentSubset
<1> QED BY <1>1, <1>3 DEF TurnsOK

LEMMA TurnsSent ==
  ASSUME NEW T, NEW t, NEW next, NEW W, NEW run \in Nat, NEW n \in Nat,
         NEW born \in Seq(0..run), Len(born) = n, NEW g \in Nat, NEW h \in Nat, NEW c, g < h,
         TurnsOK(T, t, next, W, born, n, run, g, c)
  PROVE  TurnsOK(T, t, next, W \cup {<<g, n>>}, Append(born, run), n + 1, run, h, c)
<1>1. PICK num \in [T -> RB!Seqs] :
        /\ \A i, j \in T : i < j => num[i] < num[j]
        /\ \A i \in T : num[i] < next
        /\ next = 0 \/ \E i \in T : num[i] = next - 1
        /\ Coherent(born, n, run, g, c, W \cup {<<num[i], t[i]>> : i \in T})
  BY DEF TurnsOK
<1> DEFINE S == W \cup {<<num[i], t[i]>> : i \in T}
<1>2. Coherent(born, n, run, g, c, S) BY <1>1
<1>3. (W \cup {<<g, n>>}) \cup {<<num[i], t[i]>> : i \in T} = S \cup {<<g, n>>} OBVIOUS
<1> HIDE DEF S
<1>4. Coherent(Append(born, run), n + 1, run, h, c, S \cup {<<g, n>>}) BY <1>2, CoherentSent
<1>5. Coherent(Append(born, run), n + 1, run, h, c,
               (W \cup {<<g, n>>}) \cup {<<num[i], t[i]>> : i \in T})
  BY <1>3, <1>4
<1> QED BY <1>1, <1>5 DEF TurnsOK

LEMMA TurnsRestarted ==
  ASSUME NEW T, NEW t, NEW next, NEW W, NEW run \in Nat, NEW n \in Nat,
         NEW born \in Seq(0..run), Len(born) = n, NEW g \in Nat, NEW c \in Nat,
         TurnsOK(T, t, next, W, born, n, run, g, c)
  PROVE  TurnsOK(T, t, next, W, born, n, run + 1, 0, IF g > c THEN g ELSE c)
<1>1. PICK num \in [T -> RB!Seqs] :
        /\ \A i, j \in T : i < j => num[i] < num[j]
        /\ \A i \in T : num[i] < next
        /\ next = 0 \/ \E i \in T : num[i] = next - 1
        /\ Coherent(born, n, run, g, c, W \cup {<<num[i], t[i]>> : i \in T})
  BY DEF TurnsOK
<1>2. Coherent(born, n, run + 1, 0, IF g > c THEN g ELSE c,
               W \cup {<<num[i], t[i]>> : i \in T})
  BY <1>1, CoherentRestarted
<1> QED BY <1>1, <1>2 DEF TurnsOK

\* A new buffer has handed nothing on.
LEMMA TurnsForgotten ==
  ASSUME NEW T, NEW t, NEW u, NEW next, NEW W, NEW V, NEW born, NEW n, NEW run, NEW g, NEW c,
         TurnsOK(T, t, next, W, born, n, run, g, c), V \subseteq W
  PROVE  TurnsOK({}, u, 0, V, born, n, run, g, c)
<1>1. PICK num \in [T -> RB!Seqs] :
        Coherent(born, n, run, g, c, W \cup {<<num[i], t[i]>> : i \in T})
  BY DEF TurnsOK
<1> DEFINE none == [i \in {} |-> 0]
<1>2. none \in [{} -> RB!Seqs] OBVIOUS
<1>3. V \cup {<<none[i], u[i]>> : i \in {}} \subseteq W \cup {<<num[i], t[i]>> : i \in T} OBVIOUS
<1>4. Coherent(born, n, run, g, c, V \cup {<<none[i], u[i]>> : i \in {}})
  BY <1>1, <1>3, CoherentSubset
<1> QED BY <1>2, <1>4 DEF TurnsOK

\* The buffer hands on what waits with the numbers from..to-1, after position m.
LEMMA TurnsHandedOn ==
  ASSUME NEW k \in Nat, NEW T, T \subseteq 1..k, NEW t, NEW u, NEW m \in Nat, k <= m,
         NEW next \in Nat, NEW from \in Nat, NEW to \in Nat, next <= from, from <= to,
         to <= MaxSeq + 1, from = next \/ from < to, NEW W, NEW V, NEW born, NEW n, NEW run, NEW g, NEW c,
         TurnsOK(T, t, next, W, born, n, run, g, c), V \subseteq W, \A i \in T : u[i] = t[i],
         \A i \in 1..(to - from) : <<from + i - 1, u[m + i]>> \in W
  PROVE  TurnsOK(T \cup (m + 1 .. m + (to - from)), u, to, V, born, n, run, g, c)
<1>1. PICK num \in [T -> RB!Seqs] :
        /\ \A i, j \in T : i < j => num[i] < num[j]
        /\ \A i \in T : num[i] < next
        /\ next = 0 \/ \E i \in T : num[i] = next - 1
        /\ Coherent(born, n, run, g, c, W \cup {<<num[i], t[i]>> : i \in T})
  BY DEF TurnsOK
<1> DEFINE New == m + 1 .. m + (to - from)
           T2 == T \cup New
           num2 == [i \in T2 |-> IF i \in T THEN num[i] ELSE from + (i - m) - 1]
<1>2. MaxSeq \in Nat /\ RB!Seqs = 0..MaxSeq BY TunnelAssumption DEF RB!Seqs
<1>3. ASSUME NEW i \in New
      PROVE  /\ i \notin T /\ i - m \in 1..(to - from) /\ m + (i - m) = i /\ i \in Int
             /\ \A j \in T : j < i /\ j \in Int
  BY <1>3
<1>4. ASSUME NEW i \in T PROVE num2[i] = num[i] /\ num[i] \in 0..MaxSeq /\ num[i] < next
  BY <1>1, <1>2
<1>5. ASSUME NEW i \in New
      PROVE  /\ num2[i] = from + (i - m) - 1 /\ num2[i] \in 0..MaxSeq
             /\ from <= num2[i] /\ num2[i] < to
  <2>1. num2[i] = from + (i - m) - 1 BY <1>3
  <2>2. from + (i - m) - 1 \in 0..MaxSeq /\ from <= from + (i - m) - 1
        /\ from + (i - m) - 1 < to
    BY <1>2, <1>3
  <2> HIDE DEF num2
  <2> QED BY <2>1, <2>2
<1>6. num2 \in [T2 -> RB!Seqs]
  <2>1. \A i \in T2 : num2[i] \in 0..MaxSeq BY <1>4, <1>5
  <2> QED BY <1>2, <2>1
<1>7. DOMAIN num2 = T2 OBVIOUS
<1> HIDE DEF num2, New
<1>8. ASSUME NEW i \in T2, NEW j \in T2, i < j PROVE num2[i] < num2[j]
  <2>1. CASE i \in T /\ j \in T BY <1>1, <1>4, <1>8, <2>1
  <2>2. CASE i \in T /\ j \in New
    <3>1. num2[i] < next /\ num2[i] \in Int BY <1>4, <2>2
    <3>2. from <= num2[j] /\ num2[j] \in Int BY <1>5, <2>2
    <3> QED BY <3>1, <3>2
  <2>3. CASE i \in New /\ j \in T
    <3>1. j < i /\ i \in Int /\ j \in Int BY <1>3, <2>3
    <3> QED BY <1>8, <3>1
  <2>4. CASE i \in New /\ j \in New
    <3>1. num2[i] = from + (i - m) - 1 /\ num2[j] = from + (j - m) - 1 BY <1>5, <2>4
    <3>2. i \in Int /\ j \in Int BY <1>3, <2>4
    <3> QED BY <1>8, <3>1, <3>2
  <2> QED BY <2>1, <2>2, <2>3, <2>4
<1>9. ASSUME NEW i \in T2 PROVE num2[i] < to
  <2>1. CASE i \in T
    <3>1. num2[i] < next /\ num2[i] \in Int BY <1>4, <2>1
    <3> QED BY <3>1
  <2>2. CASE i \in New BY <1>5, <2>2
  <2> QED BY <2>1, <2>2
<1>13. to = 0 \/ \E i \in T2 : num2[i] = to - 1
  <2>1. CASE from < to
    <3> DEFINE i == m + (to - from)
    <3>1. i \in m + 1 .. m + (to - from) /\ from + (i - m) - 1 = to - 1 BY <2>1
    <3>2. i \in New BY <3>1 DEF New
    <3> HIDE DEF i
    <3>3. num2[i] = to - 1 BY <1>5, <3>1, <3>2
    <3> QED BY <3>2, <3>3
  <2>2. CASE ~(from < to)
    <3>1. to = next BY <2>2
    <3> QED BY <1>1, <1>4, <3>1
  <2> QED BY <2>1, <2>2
<1>10. V \cup {<<num2[i], u[i]>> : i \in T2} \subseteq W \cup {<<num[i], t[i]>> : i \in T}
  <2>1. ASSUME NEW i \in T2
        PROVE  <<num2[i], u[i]>> \in W \cup {<<num[j], t[j]>> : j \in T}
    <3>1. CASE i \in T BY <1>4, <3>1
    <3>2. CASE i \in New
      <4>1. <<from + (i - m) - 1, u[m + (i - m)]>> \in W BY <1>3, <3>2
      <4>2. num2[i] = from + (i - m) - 1 /\ m + (i - m) = i BY <1>3, <1>5, <3>2
      <4> QED BY <4>1, <4>2
    <3> QED BY <3>1, <3>2
  <2> QED BY <2>1
<1>11. Coherent(born, n, run, g, c, V \cup {<<num2[i], u[i]>> : i \in T2})
  BY <1>1, <1>10, CoherentSubset
<1>12. TurnsOK(T2, u, to, V, born, n, run, g, c) BY <1>6, <1>8, <1>9, <1>11, <1>13 DEF TurnsOK
<1> QED BY <1>12 DEF New

-----------------------------------------------------------------------------
(* The invariant of the pipeline.                                          *)

SenderInv ==
  /\ read \in 0..Limit.sources
  /\ bornIn \in Seq(0..restarts.sender) /\ Len(bornIn) = read
  /\ EncoderOK(enc, Sources) /\ ceiling \in Nat

WireInv ==
  /\ IsABag(net)
  /\ \A p \in BagToSet(net) : WireShard(p.shard, read)
  /\ \A s \in fed : WireShard(s, read)

Coded(S) == {s \in S : s.code # "none"}

ReceiverInv ==
  /\ DecoderOK(dec, Coded(fed))
  /\ payload \in [buffer -> Sources]
  /\ tun \in Seq(Sources \cup {Garbage})
  /\ byFec \subseteq 1..Len(tun) /\ bootAt \in 0..Len(tun)

\* Number and body of the packets in N and, with their values v, in b.
Pending(N, b, v) ==
  {<<p.seq, p.shard.body[1]>> : p \in {q \in N : ~IsFecParity(q.shard)}}
    \cup {<<s, v[s]>> : s \in b}

Waiting == Pending(BagToSet(net), buffer, payload)

\* What the buffer, as opposed to FEC, wrote since the receiver started.
InTurn == (bootAt + 1 .. Len(tun)) \ byFec

OrderInv ==
  TurnsOK(InTurn, tun, nextSeq, Waiting, bornIn, read, restarts.sender, globalSeq, ceiling)

PInv == TInv /\ SenderInv /\ WireInv /\ ReceiverInv /\ OrderInv

-----------------------------------------------------------------------------
(* What the receiver does with a shard.                                    *)

LEMMA PendingShrinks ==
  ASSUME NEW N, NEW M, NEW b, NEW c, NEW v, NEW w, M \subseteq N, c \subseteq b,
         \A s \in c : w[s] = v[s]
  PROVE  Pending(M, c, w) \subseteq Pending(N, b, v)
BY DEF Pending

\* More packets read: the shards on the wire still fit.
LEMMA WireMonotone ==
  ASSUME NEW s, NEW n \in Nat, WireShard(s, n)
  PROVE  WireShard(s, n + 1)
<1>1. 0..(n - 1) \subseteq 0..((n + 1) - 1) OBVIOUS
<1>2. IsShard(s, 0..(n - 1) \cup {Garbage}) => IsShard(s, 0..((n + 1) - 1) \cup {Garbage})
  <2> DEFINE B == 0..(n - 1) \cup {Garbage}
             C == 0..((n + 1) - 1) \cup {Garbage}
  <2>1. B \subseteq C BY <1>1
  <2> HIDE DEF B, C
  <2>2. IsShard(s, B) => IsShard(s, C) BY <2>1, ShardMonotone
  <2> QED BY <2>2 DEF B, C
<1> QED BY <1>1, <1>2 DEF WireShard

\* The decoders hold what they were fed.
LEMMA DecodedOK ==
  ASSUME WireInv, ReceiverInv, NEW s, WireShard(s, read)
  PROVE  DecoderOK(Decoded(s), Coded(fed \cup {s}))
<1>1. DecoderOK(dec, Coded(fed \cup {s}))
  <2>1. Coded(fed) \subseteq Coded(fed \cup {s}) BY DEF Coded
  <2> QED BY <2>1, DecoderMonotone DEF ReceiverInv
<1>2. CASE s.code = "none" BY <1>1, <1>2 DEF Decoded
<1>3. CASE s.code # "none"
  <2>1. s \in Coded(fed \cup {s}) BY <1>3 DEF Coded
  <2>2. s.code \in Codes /\ s.gid \in Nat BY <1>3 DEF WireShard, IsShard
  <2>3. DecoderOK(DecodeNext(dec, s), Coded(fed \cup {s})) BY <1>1, <2>1, <2>2, DecodeNextOK
  <2> QED BY <1>3, <2>3 DEF Decoded
<1> QED BY <1>2, <1>3

\* A shard and its group, as the decoders will hold it.
LEMMA FedShard ==
  ASSUME WireInv, ReceiverInv, NEW s, WireShard(s, read), s.code # "none"
  PROVE  LET K == Coded(fed \cup {s})
         IN  /\ s \in K /\ DecoderOK(dec, K)
             /\ \A t \in K : IsShard(t, Sources \cup {Garbage})
<1>1. Coded(fed) \subseteq Coded(fed \cup {s}) BY DEF Coded
<1>2. DecoderOK(dec, Coded(fed \cup {s})) BY <1>1, DecoderMonotone DEF ReceiverInv
<1>3. s \in Coded(fed \cup {s}) BY DEF Coded
<1>4. \A t \in Coded(fed \cup {s}) : IsShard(t, Sources \cup {Garbage})
  BY DEF Coded, WireInv, WireShard, Sources
<1> QED BY <1>2, <1>3, <1>4

GivenBack(s) == IF s.code = "none" THEN {} ELSE DecodeOut(dec, s)

LEMMA GivenBackIs ==
  ASSUME WireInv, ReceiverInv, NEW s, WireShard(s, read)
  PROVE  /\ IsFiniteSet(GivenBack(s))
         /\ \A q \in GivenBack(s) : q.idx \in Nat /\ q.body \in Sources \cup {Garbage}
         /\ \A q, r \in GivenBack(s) : q.idx = r.idx => q = r
<1> DEFINE B == Sources \cup {Garbage}
           K == Coded(fed \cup {s})
<1>1. CASE s.code = "none"
  <2>1. GivenBack(s) = {} BY <1>1 DEF GivenBack
  <2> QED BY <2>1, FS_EmptySet
<1>2. CASE s.code # "none"
  <2>1. (\A t \in K : IsShard(t, B)) /\ s \in K /\ DecoderOK(dec, K) BY <1>2, FedShard
  <2>2. GivenBack(s) = DecodeOut(dec, s) BY <1>2 DEF GivenBack
  <2> HIDE DEF K, B
  <2>3. /\ IsFiniteSet(DecodeOut(dec, s))
        /\ \A q \in DecodeOut(dec, s) : q.idx \in Nat /\ q.body \in B \cup {Garbage}
        /\ \A q, r \in DecodeOut(dec, s) : q.idx = r.idx => q = r
    BY <2>1, DecodeOutIs
  <2>4. B \cup {Garbage} = B BY DEF B
  <2> QED BY <2>2, <2>3, <2>4 DEF B
<1> QED BY <1>1, <1>2

\* Each of its bodies is written.
LEMMA AllRecovered ==
  ASSUME WireInv, ReceiverInv, NEW s, WireShard(s, read), NEW r \in GivenBack(s)
  PROVE  \E i \in 1..Len(Recovered(s)) : Recovered(s)[i] = r.body
<1> DEFINE out == GivenBack(s)
           nth(i) == CHOOSE q \in out : Cardinality({u \in out : u.idx < q.idx}) = i - 1
<1>1. Recovered(s) = [i \in 1..Cardinality(out) |-> nth(i).body] BY DEF Recovered, GivenBack
<1>2. /\ IsFiniteSet(out) /\ \A q \in out : q.idx \in Nat
      /\ \A q, u \in out : q.idx = u.idx => q = u
  BY GivenBackIs
<1>3. r \in out OBVIOUS
<1> HIDE DEF out
<1>4. PICK k \in 1..Cardinality(out) :
        \A q \in out : Cardinality({u \in out : u.idx < q.idx}) = k - 1 <=> q = r
  BY <1>2, <1>3, EachIsNth
<1>5. nth(k) = r BY <1>3, <1>4
<1>6. Cardinality(out) \in Nat BY <1>2, FS_CardinalityType
<1> HIDE DEF nth
<1>7. Len(Recovered(s)) = Cardinality(out) /\ Recovered(s)[k] = nth(k).body BY <1>1, <1>6
<1> QED BY <1>5, <1>7

\* What is written of it is a sequence of its bodies.
LEMMA RecoveredBodies ==
  ASSUME WireInv, ReceiverInv, NEW s, WireShard(s, read),
         NEW B, \A q \in GivenBack(s) : q.body \in B
  PROVE  Recovered(s) \in Seq(B)
<1> DEFINE out == GivenBack(s)
           nth(i) == CHOOSE r \in out : Cardinality({q \in out : q.idx < r.idx}) = i - 1
<1>1. Recovered(s) = [i \in 1..Cardinality(out) |-> nth(i).body] BY DEF Recovered, GivenBack
<1>2. /\ IsFiniteSet(out) /\ \A q \in out : q.idx \in Nat
      /\ \A q, r \in out : q.idx = r.idx => q = r
  BY GivenBackIs
<1> HIDE DEF out
<1>3. ASSUME NEW i \in 1..Cardinality(out) PROVE nth(i).body \in B
  <2>1. \E r \in out : Cardinality({q \in out : q.idx < r.idx}) = i - 1 BY <1>2, NthExists
  <2>2. nth(i) \in out BY <2>1
  <2> HIDE DEF nth
  <2> QED BY <2>2 DEF out
<1>4. Cardinality(out) \in Nat BY <1>2, FS_CardinalityType
<1> HIDE DEF nth
<1>5. [i \in 1..Cardinality(out) |-> nth(i).body] \in Seq(B) BY <1>3, <1>4
<1> QED BY <1>1, <1>5

\* What decode_packet gives back was read, or is garbage.
LEMMA RecoveredOK ==
  ASSUME WireInv, ReceiverInv, NEW s, WireShard(s, read)
  PROVE  Recovered(s) \in Seq(Sources \cup {Garbage})
<1> DEFINE B == Sources \cup {Garbage}
<1>1. \A q \in GivenBack(s) : q.body \in B BY GivenBackIs
<1> HIDE DEF B
<1>2. Recovered(s) \in Seq(B) BY <1>1, RecoveredBodies
<1> QED BY <1>2 DEF B

\* The buffer delivers what b has from number n on, without a gap.
HandsOn(b, n, held, B) ==
  /\ nextSeq' \in n..(MaxSeq + 1) /\ nextSeq' \notin b /\ buffer' \subseteq b
  /\ b \subseteq buffer' \cup (n..(nextSeq' - 1))
  /\ Released(held) \in Seq(B) /\ Len(Released(held)) = nextSeq' - n
  /\ \A i \in 1..(nextSeq' - n) :
       n + i - 1 \in b /\ Released(held)[i] = held[n + i - 1]

LEMMA ReleasedIs ==
  ASSUME RBP!IInv, NEW b \in SUBSET RB!Seqs, NEW a, NEW n \in 0..(MaxSeq + 1),
         RB!DeliverInOrder(b, a, n), NEW B, NEW held \in [b -> B]
  PROVE  HandsOn(b, n, held, B)
<1> DEFINE m == RB!RunEnd(b, n)
           run == [i \in 1..(m - n) |-> n + i - 1]
<1>1. MaxSeq \in Nat /\ n \in Nat BY TunnelAssumption
<1>2. m \in n..(MaxSeq + 1) /\ m \notin b /\ n..(m - 1) \subseteq b
  <2>1. b \in SUBSET RBP!Seqs BY DEF RB!Seqs, RBP!Seqs
  <2>2. /\ RBP!RunEnd(b, n) \in n..(MaxSeq + 1) /\ RBP!RunEnd(b, n) \notin b
        /\ n..(RBP!RunEnd(b, n) - 1) \subseteq b
    BY <2>1, RBP!RunEndStops, BufferConstants
  <2>3. RB!RunEnd(b, n) = RBP!RunEnd(b, n) BY DEF RB!RunEnd, RBP!RunEnd, RB!Min, RBP!Min
  <2> QED BY <2>2, <2>3
<1>3. /\ nextSeq' = m /\ buffer' \subseteq b /\ delivered' = delivered \o run
      /\ b \subseteq buffer' \cup (n..(m - 1))
  BY DEF RB!DeliverInOrder
<1> HIDE DEF m
<1>4. m - n \in Nat /\ m \in Nat BY <1>1, <1>2
<1>5. run \in Seq(RB!Seqs) /\ Len(run) = m - n /\ \A i \in 1..(m - n) : run[i] = n + i - 1
  <2>1. \A i \in 1..(m - n) : n + i - 1 \in n..(m - 1) BY <1>1, <1>4
  <2>2. \A i \in 1..(m - n) : n + i - 1 \in RB!Seqs BY <1>2, <2>1
  <2> QED BY <1>4, <2>2
<1>6. delivered \in Seq(RB!Seqs) BY BufferIs DEF RB!TypeOK
<1> HIDE DEF run
<1>7. /\ Len(delivered') = Len(delivered) + (m - n) /\ Len(delivered) \in Nat
      /\ \A i \in 1..(m - n) : delivered'[Len(delivered) + i] = n + i - 1
  <2>1. /\ Len(delivered') = Len(delivered) + Len(run)
        /\ \A i \in 1..(Len(delivered) + Len(run)) : delivered'[i] =
             IF i <= Len(delivered) THEN delivered[i] ELSE run[i - Len(delivered)]
    BY <1>3, <1>5, <1>6, ConcatProperties
  <2>2. Len(delivered) \in Nat BY <1>6
  <2>3. ASSUME NEW i \in 1..(m - n) PROVE delivered'[Len(delivered) + i] = n + i - 1
    <3> DEFINE j == Len(delivered) + i
    <3>1. j \in 1..(Len(delivered) + Len(run)) /\ ~(j <= Len(delivered))
          /\ j - Len(delivered) = i
      BY <1>4, <1>5, <2>2
    <3> HIDE DEF j
    <3>2. delivered'[j] = run[i] BY <2>1, <3>1
    <3> QED BY <1>5, <3>2 DEF j
  <2> QED BY <1>5, <2>1, <2>2, <2>3
<1>8. Len(delivered') - Len(delivered) = m - n BY <1>4, <1>7
<1>9. Released(held) = [i \in 1..(m - n) |-> held[n + i - 1]]
  <2>1. Released(held) = [i \in 1..(m - n) |-> held[delivered'[Len(delivered) + i]]]
    BY <1>8 DEF Released
  <2> QED BY <1>7, <2>1
<1>10. \A i \in 1..(m - n) : n + i - 1 \in b
  <2>1. \A i \in 1..(m - n) : n + i - 1 \in n..(m - 1) BY <1>1, <1>4
  <2> QED BY <1>2, <2>1
<1>11. \A i \in 1..(m - n) : held[n + i - 1] \in B BY <1>10
<1>12. [i \in 1..(m - n) |-> held[n + i - 1]] \in Seq(B) BY <1>4, <1>11
<1> QED BY <1>2, <1>3, <1>4, <1>9, <1>10, <1>12 DEF HandsOn

\* What is written to the TUN, and by whom.
LEMMA WriteIs ==
  ASSUME NEW B, tun \in Seq(B), NEW rec \in Seq(B), NEW rel \in Seq(B), Write(rec, rel),
         byFec \subseteq 1..Len(tun), bootAt \in 0..Len(tun), bootAt' = bootAt
  PROVE  /\ tun' \in Seq(B) /\ Len(tun') = (Len(tun) + Len(rec)) + Len(rel)
         /\ byFec' \subseteq 1..Len(tun') /\ bootAt' \in 0..Len(tun')
         /\ \A i \in 1..Len(tun) : tun'[i] = tun[i]
         /\ \A i \in 1..Len(rel) : tun'[(Len(tun) + Len(rec)) + i] = rel[i]
         /\ InTurn' = InTurn \cup ((Len(tun) + Len(rec)) + 1 .. (Len(tun) + Len(rec)) + Len(rel))
<1> DEFINE all == tun \o rec
           k == Len(tun)
           r == Len(rec)
           l == Len(rel)
<1>1. k \in Nat /\ r \in Nat /\ l \in Nat OBVIOUS
<1>2. /\ all \in Seq(B) /\ Len(all) = k + r
      /\ \A i \in 1..(k + r) : all[i] = IF i <= k THEN tun[i] ELSE rec[i - k]
  BY ConcatProperties
<1>3. /\ tun' = all \o rel
      /\ byFec' = byFec \cup (k + 1 .. k + r)
  BY DEF Write
<1> HIDE DEF all
<1>4. /\ tun' \in Seq(B) /\ Len(tun') = (k + r) + l
      /\ \A i \in 1..((k + r) + l) : tun'[i] = IF i <= k + r THEN all[i] ELSE rel[i - (k + r)]
  <2>1. /\ all \o rel \in Seq(B) /\ Len(all \o rel) = Len(all) + l
        /\ \A i \in 1..(Len(all) + l) : (all \o rel)[i] =
             IF i <= Len(all) THEN all[i] ELSE rel[i - Len(all)]
    <3>1. all \in Seq(B) BY <1>2
    <3> QED BY <3>1, ConcatProperties
  <2> HIDE DEF k, r, l
  <2> QED BY <1>2, <1>3, <2>1
<1>5. ASSUME NEW i \in 1..k PROVE tun'[i] = tun[i]
  <2>1. i \in 1..(k + r) /\ i \in 1..((k + r) + l) /\ i <= k + r /\ i <= k BY <1>1
  <2> HIDE DEF k, r, l
  <2> QED BY <1>2, <1>4, <2>1
<1>6. ASSUME NEW i \in 1..l PROVE tun'[(k + r) + i] = rel[i]
  <2> DEFINE j == (k + r) + i
  <2>1. j \in 1..((k + r) + l) /\ ~(j <= k + r) /\ j - (k + r) = i BY <1>1
  <2> HIDE DEF k, r, l, j
  <2>2. tun'[j] = rel[i] BY <1>4, <2>1
  <2> QED BY <2>2 DEF j
<1>7. byFec \subseteq 1..k /\ bootAt \in 0..k OBVIOUS
<1> HIDE DEF k, r, l
<1>8. byFec' \subseteq 1..((k + r) + l) /\ bootAt \in 0..((k + r) + l)
  BY <1>1, <1>3, <1>7
<1>9. (bootAt + 1 .. (k + r) + l) \ byFec' =
         ((bootAt + 1 .. k) \ byFec) \cup ((k + r) + 1 .. (k + r) + l)
  BY <1>1, <1>3, <1>7
<1>10. InTurn' = (bootAt + 1 .. (k + r) + l) \ byFec' BY <1>4 DEF InTurn
<1>11. InTurn = (bootAt + 1 .. k) \ byFec BY DEF InTurn, k
<1> QED BY <1>4, <1>5, <1>6, <1>8, <1>9, <1>10, <1>11 DEF k, r, l

\* What was written stays written, and the rest joins it.
LEMMA WrittenAfter ==
  ASSUME NEW B, tun \in Seq(B), NEW rec \in Seq(B), NEW rel \in Seq(B), Write(rec, rel)
  PROVE  /\ Written \subseteq Written'
         /\ \A i \in 1..Len(rec) : rec[i] \in Written'
         /\ \A i \in 1..Len(rel) : rel[i] \in Written'
<1> DEFINE k == Len(tun)
           r == Len(rec)
           l == Len(rel)
           all == tun \o rec
<1>1. k \in Nat /\ r \in Nat /\ l \in Nat OBVIOUS
<1>2. /\ all \in Seq(B) /\ Len(all) = k + r
      /\ \A i \in 1..(k + r) : all[i] = IF i <= k THEN tun[i] ELSE rec[i - k]
  BY ConcatProperties
<1>3. tun' = all \o rel BY DEF Write
<1> HIDE DEF all
<1>4. /\ Len(tun') = (k + r) + l
      /\ \A i \in 1..((k + r) + l) : tun'[i] = IF i <= k + r THEN all[i] ELSE rel[i - (k + r)]
  <2>1. /\ Len(all \o rel) = Len(all) + l
        /\ \A i \in 1..(Len(all) + l) : (all \o rel)[i] =
             IF i <= Len(all) THEN all[i] ELSE rel[i - Len(all)]
    <3>1. all \in Seq(B) BY <1>2
    <3> QED BY <3>1, ConcatProperties
  <2> HIDE DEF k, r, l
  <2> QED BY <1>2, <1>3, <2>1
<1>5. Written = {tun[i] : i \in 1..k} /\ Written' = {tun'[i] : i \in 1..((k + r) + l)}
  BY <1>4 DEF Written
<1> HIDE DEF k, r, l
<1>6. ASSUME NEW i \in 1..k PROVE tun[i] \in Written'
  <2>1. i \in 1..(k + r) /\ i \in 1..((k + r) + l) /\ i <= k + r /\ i <= k BY <1>1
  <2>2. tun'[i] = tun[i] BY <1>2, <1>4, <2>1
  <2> QED BY <1>5, <2>1, <2>2
<1>7. ASSUME NEW i \in 1..r PROVE rec[i] \in Written'
  <2> DEFINE j == k + i
  <2>1. j \in 1..(k + r) /\ j \in 1..((k + r) + l) /\ j <= k + r /\ ~(j <= k) /\ j - k = i
    BY <1>1
  <2> HIDE DEF j
  <2>2. tun'[j] = rec[i] BY <1>2, <1>4, <2>1
  <2> QED BY <1>5, <2>1, <2>2
<1>8. ASSUME NEW i \in 1..l PROVE rel[i] \in Written'
  <2> DEFINE j == (k + r) + i
  <2>1. j \in 1..((k + r) + l) /\ ~(j <= k + r) /\ j - (k + r) = i BY <1>1
  <2> HIDE DEF j
  <2>2. tun'[j] = rel[i] BY <1>4, <2>1
  <2> QED BY <1>5, <2>1, <2>2
<1> QED BY <1>5, <1>6, <1>7, <1>8 DEF r, l

-----------------------------------------------------------------------------
(* The steps. *)

LEMMA InitIsIInv == RB!Init => RBP!IInv
BY BufferInit

LEMMA BufferRestart == (RB!Init)' => RBP!IInv'
BY InitIsIInv, PTL

\* Steps that leave the packets where they are, but may lose datagrams.
LEMMA QuietStep ==
  ASSUME PInv, UNCHANGED direction,
         UNCHANGED <<senderVars, historyVars, payload, restarts>>,
         RBP!IInv', nextSeq' = nextSeq, buffer' = buffer,
         IsABag(net'), BagToSet(net') \subseteq BagToSet(net),
         DecoderOK(dec', Coded(fed))
  PROVE  PInv'
<1> USE DEF PInv
<1>1. UNCHANGED <<globalSeq, enc, read, bornIn, ceiling, tun, byFec, bootAt, fed>>
  BY DEF senderVars, historyVars
<1>2. TInv' BY <1>1 DEF TInv, NumbersFit
<1>3. SenderInv' BY <1>1 DEF SenderInv, Sources, Limit
<1>4. WireInv' BY <1>1 DEF WireInv
<1>5. ReceiverInv' BY <1>1 DEF ReceiverInv, Sources
<1>6. OrderInv'
  <2>1. Waiting' \subseteq Waiting
    <3>1. Waiting' = Pending(BagToSet(net'), buffer, payload) BY DEF Waiting
    <3> QED BY <3>1, PendingShrinks DEF Waiting
  <2>2. InTurn' = InTurn BY <1>1 DEF InTurn
  <2>3. TurnsOK(InTurn, tun, nextSeq, Waiting', bornIn, read, restarts.sender, globalSeq, ceiling)
    BY <2>1, TurnsWeaker DEF OrderInv
  <2> QED BY <1>1, <2>2, <2>3 DEF OrderInv
<1> QED BY <1>2, <1>3, <1>4, <1>5, <1>6

\* Steps in which the receiver writes what FEC rebuilt and what the buffer
\* hands on, which is what waits from number `from' on.
LEMMA HandOnStep ==
  ASSUME PInv, UNCHANGED direction, UNCHANGED <<senderVars, bootAt, restarts>>,
         RBP!IInv', IsABag(net'), BagToSet(net') \subseteq BagToSet(net),
         \A s \in fed' : WireShard(s, read), DecoderOK(dec', Coded(fed')),
         payload' \in [buffer' -> Sources], Waiting' \subseteq Waiting,
         NEW from \in 0..(MaxSeq + 1), nextSeq <= from, nextSeq' \in from..(MaxSeq + 1),
         from = nextSeq \/ from < nextSeq',
         NEW rec \in Seq(Sources \cup {Garbage}), NEW rel \in Seq(Sources), Write(rec, rel),
         Len(rel) = nextSeq' - from,
         \A i \in 1..(nextSeq' - from) : <<from + i - 1, rel[i]>> \in Waiting
  PROVE  PInv'
<1> USE DEF PInv
<1> DEFINE B == Sources \cup {Garbage}
           k == Len(tun)
           m == Len(tun) + Len(rec)
           l == Len(rel)
<1>1. UNCHANGED <<globalSeq, enc, read, bornIn, ceiling>> BY DEF senderVars
<1>2. TInv' BY <1>1 DEF TInv, NumbersFit
<1>3. SenderInv' BY <1>1 DEF SenderInv, Sources, Limit
<1>4. WireInv' BY <1>1 DEF WireInv
<1>5. /\ tun' \in Seq(B) /\ Len(tun') = m + l
      /\ byFec' \subseteq 1..Len(tun') /\ bootAt' \in 0..Len(tun')
      /\ \A i \in 1..k : tun'[i] = tun[i]
      /\ \A i \in 1..l : tun'[m + i] = rel[i]
      /\ InTurn' = InTurn \cup (m + 1 .. m + l)
  <2>1. tun \in Seq(B) /\ byFec \subseteq 1..k /\ bootAt \in 0..k BY DEF ReceiverInv
  <2>2. rec \in Seq(B) /\ rel \in Seq(B)
    <3>1. Sources \subseteq B OBVIOUS
    <3> QED BY <3>1
  <2> HIDE DEF B
  <2> QED BY <2>1, <2>2, WriteIs
<1>6. k \in Nat /\ m \in Nat /\ k <= m /\ l \in Nat
  <2>1. tun \in Seq(B) /\ rec \in Seq(B) /\ rel \in Seq(Sources) BY DEF ReceiverInv
  <2> HIDE DEF B
  <2>2. Len(tun) \in Nat BY <2>1, LenIsNat
  <2>3. Len(rec) \in Nat BY <2>1, LenIsNat
  <2>4. Len(rel) \in Nat BY <2>1, LenIsNat
  <2>5. Len(tun) + Len(rec) \in Nat /\ Len(tun) <= Len(tun) + Len(rec)
    BY <2>2, <2>3, SumIsNat
  <2> HIDE DEF PInv
  <2> QED BY <2>2, <2>4, <2>5
<1>7. ReceiverInv' BY <1>1, <1>5 DEF ReceiverInv, Sources
<1> HIDE DEF B, k, m
<1>8. OrderInv'
  <2>1. MaxSeq \in Nat BY TunnelAssumption
  <2>2. nextSeq \in Nat BY <2>1, BufferIs DEF RB!TypeOK, TInv
  <2>3. from \in Nat /\ nextSeq' \in Nat /\ from <= nextSeq' /\ nextSeq' <= MaxSeq + 1 BY <2>1
  <2>4. InTurn \subseteq 1..k
    <3>1. bootAt \in 0..k BY DEF ReceiverInv, k
    <3> QED BY <1>6, <3>1 DEF InTurn, k
  <2>5. \A i \in InTurn : tun'[i] = tun[i] BY <1>5, <2>4
  <2>6. ASSUME NEW i \in 1..(nextSeq' - from)
        PROVE  <<from + i - 1, tun'[m + i]>> \in Waiting
    <3>1. tun'[m + i] = rel[i] BY <1>5
    <3> QED BY <3>1
  <2>7. TurnsOK(InTurn, tun, nextSeq, Waiting, bornIn, read, restarts.sender, globalSeq, ceiling)
    BY DEF OrderInv
  <2> HIDE DEF PInv
  <2>8. TurnsOK(InTurn \cup (m + 1 .. m + (nextSeq' - from)), tun', nextSeq', Waiting',
                bornIn, read, restarts.sender, globalSeq, ceiling)
    BY <1>6, <2>2, <2>3, <2>4, <2>5, <2>6, <2>7, TurnsHandedOn
  <2>9. InTurn' = InTurn \cup (m + 1 .. m + (nextSeq' - from)) BY <1>5
  <2> QED BY <1>1, <2>8, <2>9 DEF OrderInv
<1> QED BY <1>2, <1>3, <1>4, <1>7, <1>8

\* A packet is read, encoded and sent.
LEMMA SendStep ==
  ASSUME PInv, UNCHANGED direction, NEW mode \in Limit.modes, NEW tier, Send(mode, tier)
  PROVE  PInv'
<1> DEFINE c == CodeFor(mode, tier)
<1>1. /\ direction \in Directions /\ restarts \in [sender : Nat, receiver : Nat]
      /\ globalSeq \in 0..(MaxSeq + 1) /\ \A p \in BagToSet(net) : p.seq \in RB!Seqs
      /\ RBP!IInv
  BY DEF PInv, TInv, NumbersFit
<1>2. /\ read \in 0..Limit.sources /\ Limit.sources \in Nat /\ read < Limit.sources
      /\ bornIn \in Seq(0..restarts.sender) /\ Len(bornIn) = read
      /\ EncoderOK(enc, Sources)
  BY <1>1, TunnelAssumption DEF PInv, SenderInv, Limit, Send
<1>3. read \in Nat /\ globalSeq \in Nat /\ restarts.sender \in Nat
      /\ Sources \subseteq 0..read /\ read \in 0..read
  BY <1>1, <1>2, TunnelAssumption DEF Sources
<1>4. EncoderOK(enc, 0..read) BY <1>2, <1>3, EncoderMonotone
<1>5. IsABag(net) /\ (\A p \in BagToSet(net) : WireShard(p.shard, read))
      /\ (\A s \in fed : WireShard(s, read))
  BY DEF PInv, WireInv
<1>6. /\ c \in Codes \cup {"none"}
      /\ IsABag(net') /\ BagToSet(net') \subseteq BagToSet(net) \cup SentNow(c)
      /\ globalSeq' \in 0..(MaxSeq + 1) /\ globalSeq' > globalSeq
      /\ \A p \in SentNow(c) :
           /\ p.seq \in RB!Seqs /\ WireShard(p.shard, read + 1)
           /\ ~IsFecParity(p.shard) => p.seq = globalSeq /\ p.shard.body[1] = read
  BY <1>1, <1>3, <1>4, <1>5, SendIs
<1>7. /\ enc' = (IF c = "none" THEN enc ELSE EncodeNext(enc, c, read))
      /\ read' = read + 1 /\ bornIn' = Append(bornIn, restarts.sender)
      /\ UNCHANGED bufferVars /\ UNCHANGED historyVars
      /\ UNCHANGED <<dec, payload, ceiling, restarts>>
  BY DEF Send
<1>8. UNCHANGED <<nextSeq, buffer, tun, byFec, bootAt, fed>>
  BY <1>7 DEF bufferVars, historyVars
<1> HIDE DEF c
<1>9. TInv'
  <2>1. RBP!IInv' BY <1>1, <1>7, BufferSame
  <2>2. \A p \in BagToSet(net') : p.seq \in RB!Seqs BY <1>1, <1>6
  <2>3. NumbersFit' BY <1>6, <2>2 DEF NumbersFit, RB!Seqs
  <2> QED BY <1>1, <1>7, <2>1, <2>3 DEF TInv
<1>10. Sources' = 0..read
  <2>1. (read + 1) - 1 = read BY <1>3
  <2> QED BY <1>7, <2>1 DEF Sources
<1>11. SenderInv'
  <2>1. read' \in 0..Limit.sources BY <1>2, <1>3, <1>7
  <2>2. bornIn' \in Seq(0..restarts.sender) /\ Len(bornIn') = read + 1
    BY <1>2, <1>3, <1>7, AppendProperties
  <2>3. EncoderOK(enc', 0..read)
    <3>1. CASE c = "none" BY <1>4, <1>7, <3>1
    <3>2. CASE c # "none"
      <4>1. EncoderOK(EncodeNext(enc, c, read), 0..read)
        BY <1>3, <1>4, <1>6, <3>2, EncodeNextOK
      <4> QED BY <1>7, <3>2, <4>1
    <3> QED BY <3>1, <3>2
  <2>4. ceiling' \in Nat BY <1>7 DEF PInv, SenderInv
  <2> QED BY <1>7, <1>10, <2>1, <2>2, <2>3, <2>4 DEF SenderInv, Limit
<1>12. WireInv'
  <2>1. \A p \in BagToSet(net) : WireShard(p.shard, read + 1) BY <1>3, <1>5, WireMonotone
  <2>2. \A s \in fed : WireShard(s, read + 1) BY <1>3, <1>5, WireMonotone
  <2>3. \A p \in BagToSet(net') : WireShard(p.shard, read + 1) BY <1>6, <2>1
  <2> QED BY <1>6, <1>7, <1>8, <2>2, <2>3 DEF WireInv
<1>13. ReceiverInv'
  <2>1. /\ DecoderOK(dec, Coded(fed))
        /\ payload \in [buffer -> Sources] /\ tun \in Seq(Sources \cup {Garbage})
        /\ byFec \subseteq 1..Len(tun) /\ bootAt \in 0..Len(tun)
    BY DEF PInv, ReceiverInv
  <2>2. payload \in [buffer -> 0..read] BY <1>3, <2>1
  <2>3. tun \in Seq(0..read \cup {Garbage})
    <3>1. Sources \cup {Garbage} \subseteq 0..read \cup {Garbage} BY <1>3
    <3> QED BY <2>1, <3>1, SeqMonotone
  <2> QED BY <1>7, <1>8, <1>10, <2>1, <2>2, <2>3 DEF ReceiverInv, Coded
<1>14. OrderInv'
  <2>1. TurnsOK(InTurn, tun, nextSeq, Waiting, bornIn, read, restarts.sender, globalSeq, ceiling)
    BY DEF PInv, OrderInv
  <2>2. globalSeq' \in Nat BY <1>6, TunnelAssumption
  <2>3. TurnsOK(InTurn, tun, nextSeq, Waiting \cup {<<globalSeq, read>>},
                Append(bornIn, restarts.sender), read + 1, restarts.sender, globalSeq', ceiling)
    BY <1>2, <1>3, <1>6, <2>1, <2>2, TurnsSent
  <2>4. Waiting' \subseteq Waiting \cup {<<globalSeq, read>>}
    <3>1. Waiting' = Pending(BagToSet(net'), buffer, payload) BY <1>7, <1>8 DEF Waiting
    <3>2. \A p \in BagToSet(net') : ~IsFecParity(p.shard) /\ p \notin BagToSet(net) =>
            p.seq = globalSeq /\ p.shard.body[1] = read
      BY <1>6
    <3> QED BY <3>1, <3>2 DEF Pending, Waiting
  <2>5. TurnsOK(InTurn, tun, nextSeq, Waiting', Append(bornIn, restarts.sender), read + 1,
                restarts.sender, globalSeq', ceiling)
    BY <2>3, <2>4, TurnsWeaker
  <2>6. InTurn' = InTurn BY <1>8 DEF InTurn
  <2> QED BY <1>7, <1>8, <2>5, <2>6 DEF OrderInv
<1> QED BY <1>9, <1>11, <1>12, <1>13, <1>14 DEF PInv

\* The payloads of the buffer and of packet p.
HeldWith(p) ==
  [s \in buffer \cup {p.seq} |-> IF s = p.seq THEN p.shard.body[1] ELSE payload[s]]

\* What the buffer hands on when a data packet arrives.
LEMMA DataHandedOn ==
  ASSUME PInv, NEW p \in BagToSet(net), ReceiveData(p)
  PROVE  /\ HeldWith(p) \in [buffer \cup {p.seq} -> Sources]
         /\ HandsOn(buffer \cup {p.seq}, nextSeq, HeldWith(p), Sources)
<1> DEFINE b == buffer \cup {p.seq}
           held == HeldWith(p)
           a == [t \in b |-> IF t = p.seq THEN 0 ELSE age[t]]
<1>1. /\ RBP!IInv /\ p.seq \in RB!Seqs /\ WireShard(p.shard, read)
      /\ payload \in [buffer -> Sources]
  BY DEF PInv, TInv, NumbersFit, WireInv, ReceiverInv
<1>2. ~IsFecParity(p.shard) /\ RB!Insert(p.seq) BY DEF ReceiveData
<1>3. buffer \subseteq RB!Seqs /\ nextSeq \in 0..(MaxSeq + 1) BY <1>1, BufferIs DEF RB!TypeOK
<1>4. RB!DeliverInOrder(b, a, nextSeq) BY <1>2 DEF RB!Insert
<1>5. held \in [b -> Sources]
  <2>1. p.shard.body[1] \in Sources BY <1>1, <1>2 DEF WireShard, Sources
  <2> QED BY <1>1, <2>1 DEF HeldWith
<1>6. b \in SUBSET RB!Seqs BY <1>1, <1>3
<1> HIDE DEF held, a, b
<1>7. HandsOn(b, nextSeq, held, Sources) BY <1>1, <1>3, <1>4, <1>5, <1>6, ReleasedIs
<1> QED BY <1>5, <1>7 DEF b, held

\* A data packet is received.
LEMMA ReceiveDataStep ==
  ASSUME PInv, UNCHANGED direction, NEW p \in BagToSet(net), ReceiveData(p)
  PROVE  PInv'
<1> DEFINE b == buffer \cup {p.seq}
           held == HeldWith(p)
           B == Sources \cup {Garbage}
<1>1. /\ RBP!IInv /\ p.seq \in RB!Seqs /\ WireShard(p.shard, read)
      /\ IsABag(net) /\ WireInv /\ ReceiverInv
  BY DEF PInv, TInv, NumbersFit, WireInv
<1>2. /\ ~IsFecParity(p.shard) /\ RB!Insert(p.seq) /\ Take(p)
      /\ dec' = Decoded(p.shard)
      /\ payload' = [s \in buffer' |-> held[s]]
      /\ Write(Recovered(p.shard), Released(held))
      /\ fed' = fed \cup {p.shard}
      /\ UNCHANGED <<senderVars, bootAt, restarts>>
  BY DEF ReceiveData, HeldWith
<1>3. RBP!IInv'
  <2>1. RB!Next BY <1>1, <1>2 DEF RB!Next
  <2> QED BY <1>1, <2>1, BufferStep
<1>4. IsABag(net') /\ BagToSet(net') \subseteq BagToSet(net) BY <1>1, <1>2, TakeIs
<1>5. DecoderOK(dec', Coded(fed')) BY <1>1, <1>2, DecodedOK
<1>6. \A s \in fed' : WireShard(s, read) BY <1>1, <1>2 DEF WireInv
<1>7. Recovered(p.shard) \in Seq(B) BY <1>1, RecoveredOK
<1>8. buffer \subseteq RB!Seqs /\ nextSeq \in 0..(MaxSeq + 1) BY <1>1, BufferIs DEF RB!TypeOK
<1>10. held \in [b -> Sources] BY DataHandedOn
<1>11. \A s \in b : <<s, held[s]>> \in Waiting
  <2>1. <<p.seq, p.shard.body[1]>> \in Waiting BY <1>2 DEF Waiting, Pending
  <2>2. \A s \in buffer : <<s, payload[s]>> \in Waiting BY DEF Waiting, Pending
  <2> QED BY <2>1, <2>2 DEF HeldWith
<1>13. /\ nextSeq' \in nextSeq..(MaxSeq + 1) /\ buffer' \subseteq b
       /\ Released(held) \in Seq(Sources) /\ Len(Released(held)) = nextSeq' - nextSeq
       /\ \A i \in 1..(nextSeq' - nextSeq) :
            nextSeq + i - 1 \in b /\ Released(held)[i] = held[nextSeq + i - 1]
  BY DataHandedOn DEF HandsOn
<1> HIDE DEF b, held
<1>14. payload' \in [buffer' -> Sources] BY <1>2, <1>10, <1>13
<1>15. Waiting' \subseteq Waiting
  <2>1. \A s \in buffer' : payload'[s] = held[s] BY <1>2
  <2>2. \A s \in buffer' : <<s, payload'[s]>> \in Waiting BY <1>11, <1>13, <2>1
  <2>3. \A q \in BagToSet(net') : ~IsFecParity(q.shard) =>
          <<q.seq, q.shard.body[1]>> \in Waiting
    BY <1>4 DEF Waiting, Pending
  <2>4. Waiting' = Pending(BagToSet(net'), buffer', payload') BY DEF Waiting
  <2> QED BY <2>2, <2>3, <2>4 DEF Pending
<1>16. \A i \in 1..(nextSeq' - nextSeq) :
         <<nextSeq + i - 1, Released(held)[i]>> \in Waiting
  BY <1>11, <1>13
<1>17. nextSeq <= nextSeq BY <1>8, TunnelAssumption
<1> QED
  BY <1>2, <1>3, <1>4, <1>5, <1>6, <1>7, <1>8, <1>13, <1>14, <1>15, <1>16, <1>17, HandOnStep

\* A parity packet is received.
LEMMA ReceiveParityStep ==
  ASSUME PInv, UNCHANGED direction, NEW p \in BagToSet(net), ReceiveParity(p)
  PROVE  PInv'
<1> DEFINE B == Sources \cup {Garbage}
<1>1. /\ RBP!IInv /\ WireShard(p.shard, read) /\ IsABag(net) /\ WireInv /\ ReceiverInv
  BY DEF PInv, TInv, WireInv
<1>2. /\ Take(p) /\ dec' = Decoded(p.shard) /\ Write(Recovered(p.shard), << >>)
      /\ fed' = fed \cup {p.shard}
      /\ UNCHANGED bufferVars /\ UNCHANGED senderVars
      /\ UNCHANGED <<payload, bootAt, expired, restarts>>
  BY DEF ReceiveParity
<1>3. RBP!IInv' BY <1>1, <1>2, BufferSame
<1>4. IsABag(net') /\ BagToSet(net') \subseteq BagToSet(net) BY <1>1, <1>2, TakeIs
<1>5. DecoderOK(dec', Coded(fed')) BY <1>1, <1>2, DecodedOK
<1>6. \A s \in fed' : WireShard(s, read) BY <1>1, <1>2 DEF WireInv
<1>7. Recovered(p.shard) \in Seq(B) BY <1>1, RecoveredOK
<1>8. nextSeq' = nextSeq /\ buffer' = buffer /\ payload' = payload BY <1>2 DEF bufferVars
<1>9. MaxSeq \in Nat /\ nextSeq \in 0..(MaxSeq + 1)
  BY <1>1, BufferIs, TunnelAssumption DEF RB!TypeOK
<1>10. payload' \in [buffer' -> Sources] BY <1>1, <1>8 DEF ReceiverInv
<1>11. Waiting' \subseteq Waiting
  <2>1. Waiting' = Pending(BagToSet(net'), buffer, payload) BY <1>8 DEF Waiting
  <2> QED BY <1>4, <2>1, PendingShrinks DEF Waiting
<1>12. << >> \in Seq(Sources) /\ Len(<< >>) = nextSeq' - nextSeq /\ nextSeq <= nextSeq
       /\ nextSeq' \in nextSeq..(MaxSeq + 1) /\ 1..(nextSeq' - nextSeq) = {}
  BY <1>8, <1>9
<1>13. \A i \in 1..(nextSeq' - nextSeq) : <<nextSeq + i - 1, << >>[i]>> \in Waiting
  BY <1>12
<1> QED
  BY <1>2, <1>3, <1>4, <1>5, <1>6, <1>7, <1>9, <1>10, <1>11, <1>12, <1>13, HandOnStep

\* What it hands on when its timeouts are checked.
LEMMA TimeoutHandsOn ==
  ASSUME PInv, TimeoutRound
  PROVE  /\ RB!SkipTo \in 0..(MaxSeq + 1) /\ nextSeq <= RB!SkipTo
         /\ RB!SkipTo = nextSeq \/ RB!SkipTo < nextSeq'
         /\ HandsOn(buffer, RB!SkipTo, payload, Sources)
<1> DEFINE n == RB!SkipTo
<1>1. RBP!IInv /\ payload \in [buffer -> Sources] BY DEF PInv, TInv, ReceiverInv
<1>2. MaxSeq \in Nat /\ buffer \in SUBSET RB!Seqs /\ nextSeq \in 0..(MaxSeq + 1)
  BY <1>1, BufferIs, TunnelAssumption DEF RB!TypeOK
<1>3. n \in nextSeq..(MaxSeq + 1)
  <2>1. RBP!SkipTo \in nextSeq..(MaxSeq + 1) BY <1>1, RBP!SkipToIsFirst, BufferConstants
  <2>2. RB!SkipTo = RBP!SkipTo
    BY DEF RB!SkipTo, RBP!SkipTo, RB!Stale, RBP!Stale, RB!Min, RBP!Min
  <2> QED BY <2>1, <2>2
<1>4. RB!DeliverInOrder(buffer, age, n) BY DEF TimeoutRound, RB!CheckTimeouts
<1>7. n = nextSeq \/ n \in buffer
  <2>1. CASE buffer # {} /\ n = RB!Min(buffer)
    <3>1. buffer \in SUBSET Nat BY <1>2 DEF RB!Seqs
    <3>2. RBP!Min(buffer) \in buffer BY <2>1, <3>1, RBP!MinIsLeast, BufferConstants
    <3> QED BY <2>1, <3>2 DEF RB!Min, RBP!Min
  <2> QED BY <2>1 DEF RB!SkipTo
<1> HIDE DEF n
<1>5. n \in 0..(MaxSeq + 1) /\ nextSeq <= n BY <1>2, <1>3
<1>6. HandsOn(buffer, n, payload, Sources) BY <1>1, <1>2, <1>4, <1>5, ReleasedIs
<1>8. n = nextSeq \/ n < nextSeq'
  <2>1. nextSeq' \in n..(MaxSeq + 1) /\ nextSeq' \notin buffer BY <1>6 DEF HandsOn
  <2>2. n \in Int /\ nextSeq' \in Int BY <1>2, <1>5, <2>1
  <2> QED BY <1>2, <1>7, <2>1, <2>2
<1> QED BY <1>5, <1>6, <1>8 DEF n

\* A round of the loop that checks the timeouts.
LEMMA TimeoutRoundStep ==
  ASSUME PInv, UNCHANGED direction, TimeoutRound
  PROVE  PInv'
<1> DEFINE n == RB!SkipTo
           B == Sources \cup {Garbage}
<1>1. RBP!IInv /\ IsABag(net) /\ WireInv /\ ReceiverInv BY DEF PInv, TInv, WireInv
<1>2. /\ RB!CheckTimeouts /\ payload' = [s \in buffer' |-> payload[s]]
      /\ Write(<< >>, Released(payload)) /\ dec' = Expire(dec)
      /\ UNCHANGED <<senderVars, bootAt, restarts>> /\ net' = net /\ fed' = fed
  BY DEF TimeoutRound
<1>3. RBP!IInv'
  <2>1. RB!Next BY <1>2 DEF RB!Next
  <2> QED BY <1>1, <2>1, BufferStep
<1>4. DecoderOK(dec', Coded(fed')) BY <1>1, <1>2, ExpireOK DEF ReceiverInv
<1>5. \A s \in fed' : WireShard(s, read) BY <1>1, <1>2 DEF WireInv
<1>9. payload \in [buffer -> Sources] BY <1>1 DEF ReceiverInv
<1>10. n \in 0..(MaxSeq + 1) /\ nextSeq <= n /\ (n = nextSeq \/ n < nextSeq')
  BY TimeoutHandsOn
<1>11. /\ nextSeq' \in n..(MaxSeq + 1) /\ buffer' \subseteq buffer
       /\ Released(payload) \in Seq(Sources) /\ Len(Released(payload)) = nextSeq' - n
       /\ \A i \in 1..(nextSeq' - n) :
            n + i - 1 \in buffer /\ Released(payload)[i] = payload[n + i - 1]
  BY TimeoutHandsOn DEF HandsOn
<1> HIDE DEF n
<1>12. payload' \in [buffer' -> Sources] BY <1>2, <1>9, <1>11
<1>13. \A s \in buffer : <<s, payload[s]>> \in Waiting BY DEF Waiting, Pending
<1>14. Waiting' \subseteq Waiting
  <2>1. Waiting' = Pending(BagToSet(net), buffer', payload') BY <1>2 DEF Waiting
  <2>2. \A s \in buffer' : payload'[s] = payload[s] BY <1>2
  <2> QED BY <1>11, <2>1, <2>2, PendingShrinks DEF Waiting
<1>15. \A i \in 1..(nextSeq' - n) : <<n + i - 1, Released(payload)[i]>> \in Waiting
  BY <1>11, <1>13
<1>16. << >> \in Seq(B) OBVIOUS
<1>17. IsABag(net') /\ BagToSet(net') \subseteq BagToSet(net) BY <1>1, <1>2
<1> QED
  BY <1>2, <1>3, <1>4, <1>5, <1>10, <1>11, <1>12, <1>14, <1>15, <1>16, <1>17, HandOnStep

\* The sender restarts: it numbers from 0, and counts as a new run.
LEMMA SenderRestartStep ==
  ASSUME PInv, UNCHANGED direction, SenderRestart
  PROVE  PInv'
<1> DEFINE run == restarts.sender
<1>1. /\ RBP!IInv /\ restarts \in [sender : Nat, receiver : Nat]
      /\ \A p \in BagToSet(net) : p.seq \in RB!Seqs
      /\ bornIn \in Seq(0..run) /\ Len(bornIn) = read
      /\ globalSeq \in Nat /\ ceiling \in Nat
      /\ direction \in Directions /\ read \in 0..Limit.sources
  BY TunnelAssumption DEF PInv, TInv, NumbersFit, SenderInv
<1>2. /\ restarts' = [restarts EXCEPT !.sender = @ + 1] /\ globalSeq' = 0 /\ enc' = NewEncoder
      /\ ceiling' = (IF globalSeq > ceiling THEN globalSeq ELSE ceiling)
      /\ UNCHANGED bufferVars /\ UNCHANGED historyVars
      /\ UNCHANGED <<read, bornIn, net, dec, payload>>
  BY DEF SenderRestart
<1>3. UNCHANGED <<nextSeq, buffer, tun, byFec, bootAt, fed>>
  BY <1>2 DEF bufferVars, historyVars
<1>4. restarts' \in [sender : Nat, receiver : Nat] /\ restarts'.sender = run + 1 /\ run \in Nat
  BY <1>1, <1>2
<1> HIDE DEF run
<1>5. TInv'
  <2>1. RBP!IInv' BY <1>1, <1>2, BufferSame
  <2>2. 0 \in 0..(MaxSeq + 1) BY TunnelAssumption
  <2> QED BY <1>1, <1>2, <1>4, <2>1, <2>2 DEF TInv, NumbersFit
<1>6. SenderInv'
  <2>1. EncoderOK(NewEncoder, Sources) BY NewEncoderOK
  <2>2. bornIn \in Seq(0..(run + 1))
    <3>1. 0..run \subseteq 0..(run + 1) BY <1>4
    <3> QED BY <1>1, <3>1, SeqMonotone
  <2> QED BY <1>1, <1>2, <1>4, <2>1, <2>2 DEF SenderInv, Sources, Limit
<1>7. WireInv' BY <1>2, <1>3 DEF PInv, WireInv
<1>8. ReceiverInv' BY <1>2, <1>3 DEF PInv, ReceiverInv, Sources
<1>9. OrderInv'
  <2>1. TurnsOK(InTurn, tun, nextSeq, Waiting, bornIn, read, run, globalSeq, ceiling)
    BY DEF PInv, OrderInv, run
  <2>2. read \in Nat BY <1>1, TunnelAssumption DEF Limit
  <2>3. TurnsOK(InTurn, tun, nextSeq, Waiting, bornIn, read, run + 1, 0, ceiling')
    BY <1>1, <1>2, <1>4, <2>1, <2>2, TurnsRestarted
  <2>4. Waiting' = Waiting /\ InTurn' = InTurn BY <1>2, <1>3 DEF Waiting, InTurn
  <2> QED BY <1>2, <1>3, <1>4, <2>3, <2>4 DEF OrderInv
<1> QED BY <1>5, <1>6, <1>7, <1>8, <1>9 DEF PInv

\* The receiver restarts: buffer and decoders are new.
LEMMA ReceiverRestartStep ==
  ASSUME PInv, UNCHANGED direction, ReceiverRestart
  PROVE  PInv'
<1>1. /\ direction \in Directions /\ restarts \in [sender : Nat, receiver : Nat] /\ NumbersFit
      /\ tun \in Seq(Sources \cup {Garbage}) /\ byFec \subseteq 1..Len(tun)
  BY DEF PInv, TInv, ReceiverInv
<1>2. /\ restarts' = [restarts EXCEPT !.receiver = @ + 1]
      /\ nextSeq' = 0 /\ buffer' = {} /\ payload' = << >> /\ dec' = NewDecoder
      /\ fed' = {} /\ bootAt' = Len(tun) /\ UNCHANGED senderVars
      /\ tun' = tun /\ byFec' = byFec /\ net' = net
  BY DEF ReceiverRestart
<1>3. UNCHANGED <<globalSeq, enc, read, bornIn, ceiling>> BY <1>2 DEF senderVars
<1>4. restarts' \in [sender : Nat, receiver : Nat] /\ restarts'.sender = restarts.sender
  BY <1>1, <1>2
<1>5. TInv'
  <2>1. (RB!Init)' BY DEF ReceiverRestart, RB!Init
  <2>2. RBP!IInv' BY <2>1, BufferRestart
  <2> QED BY <1>1, <1>2, <1>3, <1>4, <2>2 DEF TInv, NumbersFit
<1>6. SenderInv' BY <1>3, <1>4 DEF PInv, SenderInv, Sources, Limit
<1>7. WireInv' BY <1>2, <1>3 DEF PInv, WireInv
<1>8. ReceiverInv'
  <2>1. DecoderOK(NewDecoder, Coded(fed')) BY NewDecoderOK
  <2>2. payload' \in [buffer' -> Sources] BY <1>2
  <2>3. Len(tun) \in Nat BY <1>1, LenIsNat
  <2>4. bootAt' \in 0..Len(tun) BY <1>2, <2>3
  <2> QED BY <1>1, <1>2, <1>3, <2>1, <2>2, <2>4 DEF ReceiverInv, Sources
<1>9. OrderInv'
  <2>1. TurnsOK(InTurn, tun, nextSeq, Waiting, bornIn, read, restarts.sender, globalSeq, ceiling)
    BY DEF PInv, OrderInv
  <2>2. Waiting' \subseteq Waiting
    <3>1. Waiting' = Pending(BagToSet(net), {}, payload') BY <1>2 DEF Waiting
    <3> QED BY <3>1, PendingShrinks DEF Waiting
  <2>3. TurnsOK({}, tun, 0, Waiting', bornIn, read, restarts.sender, globalSeq, ceiling)
    BY <2>1, <2>2, TurnsForgotten
  <2>4. InTurn' = {}
    <3>1. Len(tun) \in Nat BY <1>1, LenIsNat
    <3>2. (Len(tun) + 1 .. Len(tun)) = {} BY <3>1
    <3> QED BY <1>2, <3>2 DEF InTurn
  <2> QED BY <1>2, <1>3, <1>4, <2>3, <2>4 DEF OrderInv
<1> QED BY <1>5, <1>6, <1>7, <1>8, <1>9 DEF PInv

\* Time passes: a tick of the buffer, or nothing if every age is at its cap.
LEMMA TickIs == ASSUME RBP!IInv, Tick PROVE RB!Next \/ UNCHANGED bufferVars
<1>1. age' = RB!Aged
      /\ UNCHANGED <<nextSeq, buffer, seen, flushed, timeout, recent, lateCount, delivered>>
  BY DEF Tick
<1>2. CASE \E s \in buffer : age[s] < RB!AgeCap BY <1>1, <1>2 DEF RB!Tick, RB!Next
<1>3. CASE ~\E s \in buffer : age[s] < RB!AgeCap
  <2>1. age \in [buffer -> 0..RB!AgeCap] BY BufferIs DEF RB!TypeOK
  <2>2. RB!Aged = [s \in buffer |-> age[s]] BY <1>3 DEF RB!Aged
  <2> QED BY <1>1, <2>1, <2>2 DEF bufferVars
<1> QED BY <1>2, <1>3

\* How each step uses the buffer.
Uses == \/ RB!Next
        \/ (RB!Init)' /\ restarts'.receiver > restarts.receiver
        \/ UNCHANGED bufferVars

LEMMA StepUses == ASSUME PInv, [Next]_vars PROVE Uses
<1> USE DEF Uses
<1>1. RBP!IInv /\ restarts \in [sender : Nat, receiver : Nat]
      /\ \A p \in BagToSet(net) : p.seq \in RB!Seqs
  BY DEF PInv, TInv, NumbersFit
<1>2. ASSUME NEW mode, NEW tier, Send(mode, tier) PROVE Uses BY <1>2 DEF Send
<1>3. ASSUME NEW p \in BagToSet(net), Drop(p) PROVE Uses BY <1>3 DEF Drop
<1>4. ASSUME NEW p \in BagToSet(net), ReceiveData(p) PROVE Uses
  <2>1. RB!Insert(p.seq) BY <1>4 DEF ReceiveData
  <2> QED BY <1>1, <2>1 DEF RB!Next
<1>5. ASSUME NEW p \in BagToSet(net), ReceiveParity(p) PROVE Uses BY <1>5 DEF ReceiveParity
<1>6. CASE TimeoutRound BY <1>6 DEF TimeoutRound, RB!Next
<1>7. CASE Adapt BY <1>7 DEF Adapt, RB!Next
<1>8. CASE Tick BY <1>1, <1>8, TickIs
<1>9. CASE SenderRestart BY <1>9 DEF SenderRestart
<1>10. CASE ReceiverRestart
  <2>1. (RB!Init)' BY <1>10 DEF ReceiverRestart, RB!Init
  <2>2. restarts' = [restarts EXCEPT !.receiver = @ + 1] BY <1>10 DEF ReceiverRestart
  <2>3. restarts'.receiver = restarts.receiver + 1 /\ restarts.receiver \in Nat
    BY <1>1, <2>2
  <2>4. restarts'.receiver > restarts.receiver BY <2>3
  <2> QED BY <2>1, <2>4
<1>11. CASE UNCHANGED vars BY <1>11 DEF vars
<1> HIDE DEF Uses
<1> QED BY <1>2, <1>3, <1>4, <1>5, <1>6, <1>7, <1>8, <1>9, <1>10, <1>11 DEF Next

LEMMA StepPInv == ASSUME PInv, [Next]_vars PROVE PInv'
<1>1. /\ RBP!IInv /\ IsABag(net) /\ DecoderOK(dec, Coded(fed))
  BY DEF PInv, TInv, WireInv, ReceiverInv
<1>2. CASE UNCHANGED vars
  <2>1. UNCHANGED direction /\ UNCHANGED bufferVars /\ net' = net /\ dec' = dec
        /\ UNCHANGED <<senderVars, historyVars, payload, restarts>>
    BY <1>2 DEF vars
  <2>2. nextSeq' = nextSeq /\ buffer' = buffer BY <2>1 DEF bufferVars
  <2>3. RBP!IInv' BY <1>1, <2>1, BufferSame
  <2> QED BY <1>1, <2>1, <2>2, <2>3, QuietStep
<1>3. CASE Next
  <2>1. UNCHANGED direction BY <1>3 DEF Next
  <2>2. ASSUME NEW mode \in Limit.modes, NEW tier \in SendTiers, Send(mode, tier) PROVE PInv'
    BY <2>1, <2>2, SendStep
  <2>3. ASSUME NEW p \in BagToSet(net), Drop(p) PROVE PInv'
    <3>1. Take(p) /\ UNCHANGED bufferVars /\ dec' = dec
          /\ UNCHANGED <<senderVars, historyVars, payload, restarts>>
      BY <2>3 DEF Drop
    <3>2. nextSeq' = nextSeq /\ buffer' = buffer BY <3>1 DEF bufferVars
    <3>3. RBP!IInv' BY <1>1, <3>1, BufferSame
    <3>4. IsABag(net') /\ BagToSet(net') \subseteq BagToSet(net) BY <1>1, <3>1, TakeIs
    <3> QED BY <1>1, <2>1, <3>1, <3>2, <3>3, <3>4, QuietStep
  <2>4. ASSUME NEW p \in BagToSet(net), ReceiveData(p) PROVE PInv'
    BY <2>1, <2>4, ReceiveDataStep
  <2>5. ASSUME NEW p \in BagToSet(net), ReceiveParity(p) PROVE PInv'
    BY <2>1, <2>5, ReceiveParityStep
  <2>6. CASE TimeoutRound BY <2>1, <2>6, TimeoutRoundStep
  <2>7. CASE Adapt
    <3>1. RB!Next BY <2>7 DEF Adapt, RB!Next
    <3>2. RBP!IInv' BY <1>1, <3>1, BufferStep
    <3>3. nextSeq' = nextSeq /\ buffer' = buffer BY <2>7 DEF Adapt, RB!UpdateTimeout
    <3>4. net' = net /\ dec' = dec
          /\ UNCHANGED <<senderVars, historyVars, payload, restarts>>
      BY <2>7 DEF Adapt
    <3> QED BY <1>1, <2>1, <3>2, <3>3, <3>4, QuietStep
  <2>8. CASE Tick
    <3>1. RB!Next \/ UNCHANGED bufferVars BY <1>1, <2>8, TickIs
    <3>2. RBP!IInv' BY <1>1, <3>1, BufferStep, BufferSame
    <3>3. nextSeq' = nextSeq /\ buffer' = buffer /\ net' = net /\ dec' = Older(dec)
          /\ UNCHANGED <<senderVars, historyVars, payload, restarts>>
      BY <2>8 DEF Tick
    <3>4. DecoderOK(dec', Coded(fed)) BY <1>1, <3>3, OlderOK
    <3> QED BY <1>1, <2>1, <3>2, <3>3, <3>4, QuietStep
  <2>9. CASE SenderRestart BY <2>1, <2>9, SenderRestartStep
  <2>10. CASE ReceiverRestart BY <2>1, <2>10, ReceiverRestartStep
  <2> QED
    BY <1>3, <2>2, <2>3, <2>4, <2>5, <2>6, <2>7, <2>8, <2>9, <2>10 DEF Next
<1> QED BY <1>2, <1>3

LEMMA InitPInv == ASSUME Init PROVE PInv
<1>1. /\ RB!Init /\ globalSeq = 0 /\ enc = NewEncoder /\ read = 0 /\ bornIn = << >>
      /\ net = EmptyBag /\ dec = NewDecoder /\ payload = << >> /\ tun = << >>
      /\ byFec = {} /\ bootAt = 0 /\ fed = {} /\ ceiling = 0
      /\ restarts = [sender |-> 0, receiver |-> 0] /\ direction \in Directions
  BY DEF Init
<1>2. nextSeq = 0 /\ buffer = {} BY <1>1 DEF RB!Init
<1>3. BagToSet(net) = {} /\ IsABag(net)
  <2>1. EmptyBag = [e \in {} |-> 1] BY DEF EmptyBag, SetToBag
  <2>2. DOMAIN net = {} BY <1>1, <2>1
  <2> QED BY <2>2, <2>1, <1>1 DEF BagToSet, IsABag
<1>4. TInv
  <2>1. RBP!IInv BY <1>1, BufferInit
  <2>2. 0 \in 0..(MaxSeq + 1) BY TunnelAssumption
  <2> QED BY <1>1, <1>3, <2>1, <2>2 DEF TInv, NumbersFit
<1>5. SenderInv
  <2>1. Limit.sources \in Nat BY <1>1, TunnelAssumption DEF Limit
  <2>2. EncoderOK(enc, Sources) BY <1>1, NewEncoderOK
  <2>3. bornIn \in Seq(0..restarts.sender) /\ Len(bornIn) = 0 BY <1>1
  <2> QED BY <1>1, <2>1, <2>2, <2>3 DEF SenderInv
<1>6. WireInv BY <1>1, <1>3 DEF WireInv
<1>7. ReceiverInv
  <2>1. DecoderOK(dec, Coded(fed)) BY <1>1, NewDecoderOK
  <2>2. payload \in [buffer -> Sources] BY <1>1, <1>2
  <2>3. tun \in Seq(Sources \cup {Garbage}) /\ Len(tun) = 0 BY <1>1
  <2> QED BY <1>1, <2>1, <2>2, <2>3 DEF ReceiverInv
<1>8. OrderInv
  <2>1. InTurn = {} BY <1>1 DEF InTurn
  <2>2. Waiting = {} BY <1>2, <1>3 DEF Waiting, Pending
  <2> DEFINE none == [i \in {} |-> 0]
  <2>3. none \in [{} -> RB!Seqs] OBVIOUS
  <2>4. Waiting \cup {<<none[i], tun[i]>> : i \in {}} = {} BY <2>2
  <2>5. Coherent(bornIn, read, restarts.sender, globalSeq, ceiling, {}) BY DEF Coherent
  <2> HIDE DEF none
  <2>6. TurnsOK({}, tun, nextSeq, Waiting, bornIn, read, restarts.sender, globalSeq, ceiling)
    BY <1>2, <2>3, <2>4, <2>5 DEF TurnsOK
  <2> QED BY <2>1, <2>6 DEF OrderInv
<1> QED BY <1>4, <1>5, <1>6, <1>7, <1>8 DEF PInv

-----------------------------------------------------------------------------
(* The theorems. *)

(***************************************************************************)
(* PInv is an invariant of the tunnel: sender, wire, receiver, and how     *)
(* numbers and packets correspond, through restarts of either end.         *)
(***************************************************************************)
THEOREM TunnelInvariant == Spec => []PInv
<1>1. Init => PInv BY InitPInv
<1>2. PInv /\ [Next]_vars => PInv' BY StepPInv
<1> QED BY <1>1, <1>2, PTL DEF Spec

(***************************************************************************)
(* The state of the tunnel is well typed: every number in flight fits the  *)
(* reorder buffer, and only packets that were read, or what a decoder      *)
(* makes of ciphertext and mixed groups, are held or written.              *)
(***************************************************************************)
THEOREM TunnelTypeCorrect == Spec => []TypeOK
<1>1. PInv => TypeOK
  <2> SUFFICES ASSUME PInv PROVE TypeOK OBVIOUS
  <2>1. RB!TypeOK BY BufferIs DEF PInv, TInv
  <2>2. tun \in Seq(Sources \cup {Garbage}) BY DEF PInv, ReceiverInv
  <2>3. Written \subseteq Sources \cup {Garbage} BY <2>2 DEF Written
  <2>4. Held \subseteq Sources /\ DOMAIN payload = buffer BY DEF PInv, ReceiverInv, Held
  <2> QED
    BY <2>1, <2>3, <2>4
    DEF TypeOK, PInv, TInv, NumbersFit, SenderInv, WireInv, ReceiverInv
<1> QED BY <1>1, TunnelInvariant, PTL

(***************************************************************************)
(* The tunnel uses its reorder buffer as ReorderBuffer says it is used     *)
(* (client.py:454-545, server.py:206-246, 390-400), and renews it when the *)
(* receiver restarts.                                                      *)
(***************************************************************************)
THEOREM UsesReorderBuffer == Spec => ImplementsReorderBuffer
<1>1. Init => RB!Init BY DEF Init
<1>2. PInv /\ [Next]_vars =>
        [\/ RB!Next
         \/ (RB!Init)' /\ restarts'.receiver > restarts.receiver]_bufferVars
  BY StepUses DEF Uses
<1> QED BY <1>1, <1>2, TunnelInvariant, PTL DEF Spec, ImplementsReorderBuffer

(***************************************************************************)
(* So what the buffer guarantees, it guarantees inside the tunnel, in      *)
(* every run of the receiver: what it hands on ascends, its flush loop     *)
(* ends, pruning _seen forgets nothing that matters, and a number counts   *)
(* as flushed only if it was skipped (reorder_buffer.py:102-166).          *)
(***************************************************************************)
THEOREM TunnelBuffer ==
  Spec => [](RB!InOrder /\ RB!FlushLoopEnds /\ RB!SeenIsHeld /\ RB!FlushedWasSkipped)
<1>1. PInv => RB!InOrder /\ RB!FlushLoopEnds /\ RB!SeenIsHeld /\ RB!FlushedWasSkipped
  BY BufferIs DEF PInv, TInv
<1> QED BY <1>1, TunnelInvariant, PTL

BufferDelivers ==
  /\ RB!OD!Init
  /\ [][RB!OD!Next \/ ((RB!OD!Init)' /\ restarts'.receiver > restarts.receiver)]_(RB!OD!vars)

(***************************************************************************)
(* And so the tunnel keeps the promise of ordered delivery: however sender *)
(* and receiver restart, links lose and duplicate, and decoders come in    *)
(* between, a run of the receiver's buffer has a frontier that only rises  *)
(* and holds what it takes in until the frontier passes it; only a restart *)
(* begins anew (client.py:454-545, server.py:206-246).                     *)
(***************************************************************************)
THEOREM TunnelDelivers == Spec => BufferDelivers
<1>1. RB!Init => RB!OD!Init BY DEF RB!Init, RB!OD!Init
<1>2. (RB!Init)' => (RB!OD!Init)' BY DEF RB!Init, RB!OD!Init
<1>3. ASSUME RBP!IInv, RB!Next \/ UNCHANGED bufferVars
      PROVE  RB!OD!Next \/ UNCHANGED RB!OD!vars
  <2>1. [RBP!Next]_RBP!vars BY <1>3, SameStep DEF bufferVars, RBP!vars
  <2>2. [RBP!OD!Next]_RBP!OD!vars BY <1>3, <2>1, RBP!StepDelivers, BufferConstants
  <2>3. RBP!Seqs = RB!Seqs BY DEF RBP!Seqs, RB!Seqs
  <2> QED BY <2>2, <2>3
      DEF RB!OD!Next, RBP!OD!Next, RB!OD!vars, RBP!OD!vars, RB!OD!Receive, RBP!OD!Receive,
          RB!OD!GiveUp, RBP!OD!GiveUp, RB!OD!Advance, RBP!OD!Advance, RB!OD!Ascending, RBP!OD!Ascending,
          RB!OD!Appended, RBP!OD!Appended
<1>4. PInv /\ [Next]_vars =>
        [RB!OD!Next \/ ((RB!OD!Init)' /\ restarts'.receiver > restarts.receiver)]_(RB!OD!vars)
  BY <1>2, <1>3, StepUses DEF Uses, PInv, TInv
<1>5. Init => RB!Init BY DEF Init
<1> QED BY <1>1, <1>4, <1>5, TunnelInvariant, PTL DEF Spec, BufferDelivers

-----------------------------------------------------------------------------
(* No packet counts as late. *)

AllInTime == lateCount = 0 /\ recent \in Seq({TRUE})

\* A call of _deliver_in_order remembers deliveries, and those in time.
LEMMA DeliverInTime ==
  ASSUME RBP!IInv, AllInTime, NEW b \in SUBSET RB!Seqs, NEW a, NEW n \in 0..(MaxSeq + 1),
         RB!DeliverInOrder(b, a, n)
  PROVE  recent' \in Seq({TRUE})
<1> DEFINE k == RB!RunEnd(b, n) - n
           new == [i \in 1..k |-> TRUE]
<1>1. k \in Nat
  <2>1. b \in SUBSET RBP!Seqs BY DEF RB!Seqs, RBP!Seqs
  <2>2. RBP!RunEnd(b, n) \in n..(MaxSeq + 1) BY <2>1, RBP!RunEndStops, BufferConstants
  <2>3. RB!RunEnd(b, n) = RBP!RunEnd(b, n) BY DEF RB!RunEnd, RBP!RunEnd, RB!Min, RBP!Min
  <2> QED BY <2>2, <2>3, TunnelAssumption
<1>2. recent' = RB!LastOf(recent \o new) BY DEF RB!DeliverInOrder
<1> HIDE DEF k
<1>3. new \in Seq({TRUE}) BY <1>1
<1> HIDE DEF new
<1>4. recent \o new \in Seq({TRUE}) BY <1>3, ConcatProperties DEF AllInTime
<1>5. RBP!LastOf(recent \o new) \in Seq({TRUE}) BY <1>4, RBP!LastOfType, BufferConstants
<1> QED BY <1>2, <1>5 DEF RB!LastOf, RBP!LastOf

LEMMA InTimeKeeps == PInv /\ AllInTime /\ [Next]_vars => AllInTime'
<1> SUFFICES ASSUME PInv, AllInTime, [Next]_vars PROVE AllInTime' OBVIOUS
<1>1. RBP!IInv /\ \A p \in BagToSet(net) : p.seq \in RB!Seqs
  BY DEF PInv, TInv, NumbersFit
<1>2. RB!TypeOK /\ nextSeq \in 0..(MaxSeq + 1) /\ buffer \in SUBSET RB!Seqs BY <1>1, BufferIs DEF RB!TypeOK
<1>3. CASE UNCHANGED <<recent, lateCount>> BY <1>3 DEF AllInTime
<1>4. ASSUME NEW p \in BagToSet(net), ReceiveData(p) PROVE AllInTime'
  <2>1. RB!Insert(p.seq) BY <1>4 DEF ReceiveData
  <2>2. PICK a : RB!DeliverInOrder(buffer \cup {p.seq}, a, nextSeq) BY <2>1 DEF RB!Insert
  <2>3. lateCount' = lateCount BY <2>1 DEF RB!Insert
  <2> QED BY <1>1, <1>2, <2>2, <2>3, DeliverInTime DEF AllInTime
<1>5. CASE TimeoutRound
  <2>1. RB!DeliverInOrder(buffer, age, RB!SkipTo) /\ lateCount' = lateCount
    BY <1>5 DEF TimeoutRound, RB!CheckTimeouts
  <2>2. RB!SkipTo \in 0..(MaxSeq + 1)
    <3>1. RBP!SkipTo \in nextSeq..(MaxSeq + 1) BY <1>1, RBP!SkipToIsFirst, BufferConstants
    <3>2. RB!SkipTo = RBP!SkipTo BY DEF RB!SkipTo, RBP!SkipTo, RB!Stale, RBP!Stale, RB!Min, RBP!Min
    <3> QED BY <1>2, <3>1, <3>2, TunnelAssumption
  <2> QED BY <1>1, <1>2, <2>1, <2>2, DeliverInTime DEF AllInTime
<1>6. CASE ReceiverRestart
  <2>1. lateCount' = 0 /\ recent' = << >> BY <1>6 DEF ReceiverRestart
  <2> QED BY <2>1 DEF AllInTime
<1>7. ASSUME NEW mode, NEW tier, Send(mode, tier) PROVE AllInTime' BY <1>3, <1>7 DEF Send, bufferVars
<1>8. ASSUME NEW p, Drop(p) \/ ReceiveParity(p) PROVE AllInTime'
  BY <1>3, <1>8 DEF Drop, ReceiveParity, bufferVars
<1>9. CASE Adapt \/ Tick \/ SenderRestart
  BY <1>3, <1>9 DEF Adapt, Tick, SenderRestart, RB!UpdateTimeout, bufferVars
<1>10. CASE UNCHANGED vars BY <1>3, <1>10 DEF vars, bufferVars
<1> QED BY <1>4, <1>5, <1>6, <1>7, <1>8, <1>9, <1>10 DEF Next

LatenessUnseen == lateCount = 0 /\ ~RB!ManyLate

(***************************************************************************)
(* Both receivers ask is_duplicate before insert (client.py:494,           *)
(* server.py:211), so insert is never given a late packet: whatever comes  *)
(* too late, _late_count stays 0 and update_timeout never finds reason to  *)
(* widen the timeout.                                                      *)
(***************************************************************************)
THEOREM LatenessIsNotSeen == Spec => []LatenessUnseen
<1>1. Init => AllInTime BY DEF Init, RB!Init, AllInTime
<1>2. AllInTime => LatenessUnseen
  <2> SUFFICES ASSUME AllInTime PROVE ~RB!ManyLate BY DEF AllInTime, LatenessUnseen
  <2>1. \A i \in 1..Len(recent) : recent[i] = TRUE
    <3>1. \A S : \A q \in Seq(S) : \A i \in 1..Len(q) : q[i] \in S OBVIOUS
    <3>2. \A i \in 1..Len(recent) : recent[i] \in {TRUE} BY <3>1, Zenon DEF AllInTime
    <3> QED BY <3>2, Zenon
  <2>2. {i \in 1..Len(recent) : ~recent[i]} = {} BY <2>1, Zenon
  <2>3. RB!Cardinality({}) = Cardinality({}) BY DEF RB!Cardinality, Cardinality
  <2>4. RB!Cardinality({}) = 0 BY <2>3, FS_EmptySet
  <2>5. Len(recent) \in Nat BY DEF AllInTime
  <2>6. RB!ManyLate <=> 20 * RB!Cardinality({}) > Len(recent) BY <2>2 DEF RB!ManyLate
  <2> QED BY <2>4, <2>5, <2>6
<1> QED BY <1>1, <1>2, InTimeKeeps, TunnelInvariant, PTL DEF Spec

-----------------------------------------------------------------------------
(***************************************************************************)
(* What a run of the receiver's buffer writes to the TUN, as opposed to    *)
(* FEC, is in the order in which each run of the sender read the packets,  *)
(* each once, whatever the modes, the losses and the restarts              *)
(* (client.py:425-428, server.py:232-246).                                 *)
(***************************************************************************)
THEOREM TunnelInOrder == Spec => []ReorderedInSourceOrder
<1>1. PInv => ReorderedInSourceOrder
  <2> SUFFICES ASSUME PInv, NEW i \in InTurn, NEW j \in InTurn, i < j,
                      bornIn[tun[i] + 1] = bornIn[tun[j] + 1]
               PROVE  tun[i] < tun[j]
    BY DEF ReorderedInSourceOrder, InTurn
  <2>1. PICK num \in [InTurn -> RB!Seqs] :
          /\ \A x, y \in InTurn : x < y => num[x] < num[y]
          /\ Coherent(bornIn, read, restarts.sender, globalSeq, ceiling,
                      Waiting \cup {<<num[x], tun[x]>> : x \in InTurn})
    BY DEF PInv, OrderInv, TurnsOK
  <2>2. num[i] < num[j] BY <2>1
  <2> DEFINE S == Waiting \cup {<<num[x], tun[x]>> : x \in InTurn}
             x0 == <<num[i], tun[i]>>
             y0 == <<num[j], tun[j]>>
  <2>3. x0 \in S /\ y0 \in S OBVIOUS
  <2>4. /\ x0[1] = num[i] /\ x0[2] = tun[i]
        /\ y0[1] = num[j] /\ y0[2] = tun[j]
    OBVIOUS
  <2>5. Coherent(bornIn, read, restarts.sender, globalSeq, ceiling, S) BY <2>1
  <2> HIDE DEF S, x0, y0
  <2>6. bornIn[x0[2] + 1] = bornIn[y0[2] + 1] /\ x0[1] < y0[1] BY <2>2, <2>4
  <2>7. x0[2] < y0[2] BY <2>3, <2>5, <2>6 DEF Coherent
  <2> QED BY <2>4, <2>7
<1> QED BY <1>1, TunnelInvariant, PTL

\* A packet that brings something new is a duplicate only of an earlier run.
LEMMA NewsIsStale ==
  ASSUME PInv, NEW p \in BagToSet(net), RB!IsDuplicate(p.seq), BringsNews(p)
  PROVE  p.seq < ceiling
<1> DEFINE b == p.shard.body[1]
           x0 == <<p.seq, b>>
<1>1. /\ p.seq \in 0..MaxSeq /\ MaxSeq \in Nat /\ ceiling \in Nat /\ read \in Nat
      /\ nextSeq \in 0..(MaxSeq + 1) /\ RB!SeenIsHeld /\ direction \in Directions
  <2>1. RB!TypeOK /\ RB!SeenIsHeld BY BufferIs DEF PInv, TInv
  <2>2. direction \in Directions /\ read \in 0..Limit.sources /\ p.seq \in RB!Seqs
        /\ ceiling \in Nat
    BY DEF PInv, TInv, NumbersFit, SenderInv
  <2>3. MaxSeq \in Nat /\ Limit.sources \in Nat BY <2>2, TunnelAssumption DEF Limit
  <2> QED BY <2>1, <2>2, <2>3 DEF RB!TypeOK, RB!Seqs
<1>2. /\ ~IsFecParity(p.shard) /\ b \notin Written /\ b \notin Held
      /\ \A later \in Written \cap (b + 1 .. read - 1) : bornIn[later + 1] # bornIn[b + 1]
  BY DEF BringsNews
<1>3. PICK num \in [InTurn -> RB!Seqs] :
        /\ nextSeq = 0 \/ \E i \in InTurn : num[i] = nextSeq - 1
        /\ Coherent(bornIn, read, restarts.sender, globalSeq, ceiling,
                    Waiting \cup {<<num[i], tun[i]>> : i \in InTurn})
  BY DEF PInv, OrderInv, TurnsOK
<1> DEFINE S == Waiting \cup {<<num[i], tun[i]>> : i \in InTurn}
<1>4. x0 \in S BY <1>2 DEF Waiting, Pending
<1>5. x0[1] = p.seq /\ x0[2] = b OBVIOUS
<1> HIDE DEF x0, S
<1>6. SUFFICES ASSUME ~(p.seq < ceiling) PROVE FALSE OBVIOUS
\* What has its number or a later one is of the current run as well.
<1>7. ASSUME NEW y \in S, y[1] >= p.seq
      PROVE  /\ y[1] \in Nat /\ y[2] \in 0..(read - 1) /\ b \in 0..(read - 1)
             /\ bornIn[b + 1] = bornIn[y[2] + 1]
             /\ y[1] = p.seq => y[2] = b
             /\ y[1] > p.seq => b < y[2]
  <2>1. /\ y[1] \in Nat /\ y[2] \in 0..(read - 1) /\ b \in 0..(read - 1)
        /\ bornIn[y[2] + 1] # restarts.sender => y[1] < ceiling
        /\ bornIn[b + 1] # restarts.sender => p.seq < ceiling
    BY <1>3, <1>4, <1>5 DEF Coherent, S
  <2>2. bornIn[b + 1] = restarts.sender BY <1>6, <2>1
  <2>3. bornIn[y[2] + 1] = restarts.sender BY <1>1, <1>6, <1>7, <2>1
  <2>4. /\ x0[1] < y[1] => x0[2] < y[2]
        /\ x0[1] = y[1] => x0[2] = y[2]
    <3>1. bornIn[x0[2] + 1] = bornIn[y[2] + 1] BY <1>5, <2>2, <2>3
    <3> QED BY <1>3, <1>4, <3>1 DEF Coherent, S
  <2> QED BY <1>1, <1>5, <2>1, <2>2, <2>3, <2>4
<1>8. CASE p.seq >= nextSeq
  <2>1. p.seq \in buffer
    <3>1. p.seq \in seen BY <1>1, <1>8 DEF RB!IsDuplicate
    <3> QED BY <1>1, <1>8, <3>1 DEF RB!SeenIsHeld
  <2> DEFINE y0 == <<p.seq, payload[p.seq]>>
  <2>2. y0 \in S BY <2>1 DEF S, Waiting, Pending
  <2>3. y0[1] = p.seq /\ y0[2] = payload[p.seq] OBVIOUS
  <2> HIDE DEF y0, b
  <2>4. y0[2] = b BY <1>1, <1>7, <2>2, <2>3
  <2> QED BY <1>2, <2>1, <2>3, <2>4 DEF Held
<1>9. CASE ~(p.seq >= nextSeq)
  <2>1. PICK i \in InTurn : num[i] = nextSeq - 1 BY <1>1, <1>3, <1>9
  <2> DEFINE y0 == <<num[i], tun[i]>>
  <2>2. y0 \in S BY DEF S
  <2>3. y0[1] = nextSeq - 1 /\ y0[2] = tun[i] BY <2>1
  <2>4. tun[i] \in Written
    <3>1. tun \in Seq(Sources \cup {Garbage}) /\ bootAt \in 0..Len(tun)
      BY DEF PInv, ReceiverInv
    <3>2. Len(tun) \in Nat BY <3>1, LenIsNat
    <3>3. i \in 1..Len(tun) BY <3>1, <3>2 DEF InTurn
    <3> QED BY <3>3 DEF Written
  <2> HIDE DEF y0, b
  <2>5. y0[1] >= p.seq BY <1>1, <1>9, <2>3
  <2>6. CASE y0[1] = p.seq
    <3>1. y0[2] = b BY <1>7, <2>2, <2>5, <2>6
    <3> QED BY <1>2, <2>3, <2>4, <3>1
  <2>7. CASE y0[1] # p.seq
    <3>1. y0[1] > p.seq BY <1>1, <2>3, <2>5, <2>7
    <3>2. /\ y0[2] \in 0..(read - 1) /\ b \in 0..(read - 1) /\ b < y0[2]
          /\ bornIn[b + 1] = bornIn[y0[2] + 1]
      BY <1>7, <2>2, <2>5, <3>1
    <3>3. tun[i] \in b + 1 .. read - 1 BY <1>1, <2>3, <3>2
    <3> QED BY <1>2, <2>3, <2>4, <3>2, <3>3
  <2> QED BY <2>6, <2>7
<1> QED BY <1>1, <1>8, <1>9

StaleDrops == \A p \in BagToSet(net) : Drop(p) /\ BringsNews(p) => p.seq < ceiling

(***************************************************************************)
(* Dedup refuses a data packet that brings something new only if an        *)
(* earlier run of the sender may have used its number                      *)
(* (reorder_buffer.py:102-105, server.py:211-213): otherwise what it       *)
(* refuses was written, is held, or was given up for a packet that was     *)
(* read later and written before.                                          *)
(***************************************************************************)
THEOREM DropsNothingNew == Spec => DropsOnlyStale
<1>1. PInv /\ [Next]_vars => [StaleDrops]_vars
  <2> SUFFICES ASSUME PInv, NEW p \in BagToSet(net), Drop(p), BringsNews(p)
               PROVE  p.seq < ceiling
    BY DEF StaleDrops
  <2>1. RB!IsDuplicate(p.seq) BY DEF Drop
  <2> QED BY <2>1, NewsIsStale
<1> QED BY <1>1, TunnelInvariant, PTL DEF Spec, DropsOnlyStale, StaleDrops

-----------------------------------------------------------------------------
(* Without encryption, and with every code decoded by its own decoder, what *)
(* is written was read, until the sender restarts.                         *)

UsedCodes == {CodeFor(mode, tier) : mode \in Limit.modes, tier \in SendTiers} \ {"none"}

\* Is every code of every direction decoded by its own decoder?
EachItsOwn ==
  \A d \in Directions : \A mode \in Limits[d].modes, tier \in Tiers :
    LET c == CodeFor(mode, tier)
    IN  c # "none" /\ (d = "up" \/ tier = "streaming") => OwnDecoder(c)

OnWire == Coded({p.shard : p \in BagToSet(net)} \cup fed)

\* While the sender has not restarted, the shards tell one story, which the
\* encoders go on with, and everything written was read.
Genuine ==
  /\ \A s \in OnWire : IsShard(s, Sources) /\ s.code \in UsedCodes
  /\ Consistent(OnWire) /\ OpenGroup(enc, OnWire)
  /\ tun \in Seq(Sources)

GInv == PInv /\ (restarts.sender = 0 => Genuine)

LEMMA UsedCodeIsOwn ==
  ASSUME EachItsOwn, direction \in Directions, NEW c \in UsedCodes
  PROVE  c \in Codes /\ DecoderFor(GroupSize[c]) = c
<1>1. PICK mode \in Limit.modes, tier \in SendTiers : c = CodeFor(mode, tier) /\ c # "none"
  BY DEF UsedCodes
<1>2. mode \in Limits[direction].modes /\ mode \in Modes
  BY TunnelAssumption DEF Limit
<1>3. tier \in Tiers /\ (direction = "up" \/ tier = "streaming") BY DEF SendTiers, Tiers
<1>4. OwnDecoder(c) BY <1>1, <1>2, <1>3 DEF EachItsOwn
<1>5. c \in Codes BY <1>1, <1>2, CodeType
<1> QED BY <1>4, <1>5 DEF OwnDecoder

LEMMA ConsistentSubset ==
  ASSUME NEW K, NEW L, Consistent(K), L \subseteq K
  PROVE  Consistent(L)
BY DEF Consistent

LEMMA GenuineKept ==
  ASSUME Genuine, UNCHANGED <<direction, enc, read>>, OnWire' \subseteq OnWire,
         tun' \in Seq(Sources)
  PROVE  Genuine'
<1>1. Sources' = Sources /\ UsedCodes' = UsedCodes
  BY DEF Sources, UsedCodes, Limit, SendTiers
<1>2. Consistent(OnWire') BY ConsistentSubset DEF Genuine
<1>3. OpenGroup(enc, OnWire') BY DEF Genuine, OpenGroup
<1> QED BY <1>1, <1>2, <1>3 DEF Genuine

\* A rebuilt packet is one that was read.
LEMMA RecoveredGenuine ==
  ASSUME EachItsOwn, PInv, Genuine, NEW p \in BagToSet(net), NEW r \in GivenBack(p.shard)
  PROVE  r.body \in Sources
<1> DEFINE s == p.shard
           K == Coded(fed \cup {s})
           d == DecoderFor(GroupSize[s.code])
           shards == Stored(dec, d, s)
<1>1. WireInv /\ ReceiverInv /\ WireShard(s, read) /\ direction \in Directions
  BY DEF PInv, TInv, WireInv
<1>2. s.code # "none" /\ r \in DecodeOut(dec, s) BY DEF GivenBack
<1>3. s \in K /\ DecoderOK(dec, K) BY <1>1, <1>2, FedShard
<1>4. K \subseteq OnWire BY DEF Coded, OnWire
<1>5. \A t \in K : /\ IsShard(t, Sources) /\ t.code \in UsedCodes
                   /\ t.code \in Codes /\ t.idx \in Nat
                   /\ DecoderFor(GroupSize[t.code]) = t.code
  <2> SUFFICES ASSUME NEW t \in K
               PROVE  /\ IsShard(t, Sources) /\ t.code \in UsedCodes
                      /\ t.code \in Codes /\ t.idx \in Nat
                      /\ DecoderFor(GroupSize[t.code]) = t.code
    OBVIOUS
  <2>1. IsShard(t, Sources) /\ t.code \in UsedCodes BY <1>4 DEF Genuine
  <2>2. t.code \in Codes /\ DecoderFor(GroupSize[t.code]) = t.code
    BY <1>1, <2>1, UsedCodeIsOwn
  <2>3. t.idx \in 0..(GroupSize[t.code] - 1) BY <2>1 DEF IsShard
  <2> QED BY <2>1, <2>2, <2>3
<1>6. /\ s.gid \notin dec[d].done /\ Ready(d, shards)
      /\ r.idx \in Missing(d, shards) /\ r.body = Recover(d, shards, r.idx)
  BY <1>2 DEF DecodeOut
<1>7. GroupOK(d, s.gid, shards, K) BY <1>3, <1>5, StoredOK
<1>8. d \in Codes BY DecoderType
<1>9. shards \subseteq K /\ OneEach(shards)
      /\ \A t \in shards : t.gid = s.gid /\ DecoderFor(GroupSize[t.code]) = d
  BY <1>7 DEF GroupOK
<1>10. Consistent(K) BY <1>4, ConsistentSubset DEF Genuine
<1> HIDE DEF K, shards, d
<1>11. (\A t \in shards : t.code = d /\ t.idx \in Nat) /\ \A t, u \in shards : t.gid = u.gid
  BY <1>5, <1>9
<1>12. Consistent(shards) BY <1>9, <1>10, ConsistentSubset
<1>13. PICK q \in shards : IsParity(q) /\ Recover(d, shards, r.idx) = q.body[r.idx + 1]
  BY <1>6, <1>8, <1>9, <1>11, <1>12, RecoverRight
<1>14. q \in K /\ q.code = d BY <1>9, <1>11
<1>15. q.body \in Seq(Sources) BY <1>5, <1>14 DEF IsShard
<1>16. Len(q.body) = DataShards[d] BY <1>10, <1>13, <1>14 DEF Consistent, IsWhole
<1>17. DataShards[d] \in Nat BY <1>8, SizesAreNat
<1>18. r.idx + 1 \in 1..Len(q.body) BY <1>6, <1>16, <1>17 DEF Missing
<1> QED BY <1>6, <1>13, <1>15, <1>18

\* Sending goes on with the story.
LEMMA SendGenuine ==
  ASSUME ~Encrypted, PInv, Genuine, UNCHANGED direction,
         NEW mode \in Limit.modes, NEW tier \in SendTiers, Send(mode, tier)
  PROVE  Genuine'
<1> DEFINE c == CodeFor(mode, tier)
           B == 0..read
<1>1. /\ direction \in Directions /\ read \in Nat /\ globalSeq \in Nat /\ IsABag(net)
      /\ EncoderOK(enc, Sources) /\ Sources \subseteq B /\ read \in B
  <2>1. direction \in Directions /\ globalSeq \in 0..(MaxSeq + 1)
        /\ read \in 0..Limit.sources /\ IsABag(net) /\ EncoderOK(enc, Sources)
    BY DEF PInv, TInv, NumbersFit, SenderInv, WireInv
  <2>2. MaxSeq \in Nat /\ Limit.sources \in Nat BY <2>1, TunnelAssumption DEF Limit
  <2> QED BY <2>1, <2>2 DEF Sources
<1>2. EncoderOK(enc, B) BY <1>1, EncoderMonotone
<1>3. c \in Codes \cup {"none"} /\ BagToSet(net') \subseteq BagToSet(net) \cup SentNow(c)
  BY <1>1, <1>2, SendIs
<1>4. /\ enc' = (IF c = "none" THEN enc ELSE EncodeNext(enc, c, read))
      /\ read' = read + 1 /\ fed' = fed /\ tun' = tun
  BY DEF Send, historyVars
<1>5. Sources' = B /\ UsedCodes' = UsedCodes
  <2>1. (read + 1) - 1 = read BY <1>1
  <2> QED BY <1>4, <2>1 DEF Sources, UsedCodes, Limit, SendTiers
<1>6. tun' \in Seq(B) BY <1>1, <1>4, SeqMonotone DEF Genuine
<1>7. \A s \in OnWire : IsShard(s, B) /\ s.code \in UsedCodes
  <2>1. \A s \in OnWire : IsShard(s, Sources) /\ s.code \in UsedCodes BY DEF Genuine
  <2> HIDE DEF B
  <2> QED BY <1>1, <2>1, ShardMonotone
<1>8. c # "none" => c \in UsedCodes BY DEF UsedCodes
<1> HIDE DEF c
<1>9. \A p \in SentNow(c) : \E i \in 1..Len(Outputs(c, read)) : p.shard = Outputs(c, read)[i]
  BY DEF SentNow, Datagram, Sealed
<1>10. CASE c = "none"
  <2>1. Outputs(c, read) = <<[code |-> "none", gid |-> 0, idx |-> 0, body |-> <<read>>]>>
    BY <1>10 DEF Outputs
  <2>2. \A p \in SentNow(c) : p.shard.code = "none" BY <1>9, <2>1
  <2>3. OnWire' \subseteq OnWire BY <1>3, <1>4, <2>2 DEF OnWire, Coded
  <2>4. Consistent(OnWire') BY <2>3, ConsistentSubset DEF Genuine
  <2>5. OpenGroup(enc', OnWire') BY <1>4, <1>10, <2>3 DEF Genuine, OpenGroup
  <2> QED BY <1>5, <1>6, <1>7, <2>3, <2>4, <2>5 DEF Genuine
<1>11. CASE c # "none"
  <2> DEFINE New == NewShards(enc, c, read)
  <2>1. c \in Codes /\ Outputs(c, read) = EncodeOut(enc, c, read) BY <1>3, <1>11 DEF Outputs
  <2>2. \A p \in SentNow(c) : p.shard \in New BY <1>9, <2>1 DEF NewShards
  <2>3. OnWire' \subseteq OnWire \cup New BY <1>3, <1>4, <2>2 DEF OnWire, Coded
  <2>4. Consistent(OnWire \cup New)
        /\ OpenGroup(EncodeNext(enc, c, read), OnWire \cup New)
    <3>1. Consistent(OnWire) /\ OpenGroup(enc, OnWire) /\ \A s \in OnWire : IsShard(s, B)
      BY <1>7 DEF Genuine
    <3> HIDE DEF B
    <3> QED BY <1>1, <1>2, <2>1, <3>1, EncodeConsistent
  <2>5. \A s \in New : IsShard(s, B) /\ s.code \in UsedCodes
    <3>1. \A s \in New : IsShard(s, B) /\ s.code = c
      <4> HIDE DEF B
      <4> QED BY <1>1, <1>2, <2>1, NewShardIs
    <3> QED BY <1>8, <1>11, <3>1
  <2> HIDE DEF New
  <2>6. Consistent(OnWire') BY <2>3, <2>4, ConsistentSubset
  <2>7. OpenGroup(enc', OnWire')
    <3>1. OpenGroup(EncodeNext(enc, c, read), OnWire') BY <2>3, <2>4 DEF OpenGroup
    <3> QED BY <1>4, <1>11, <3>1
  <2>8. \A s \in OnWire' : IsShard(s, B) /\ s.code \in UsedCodes BY <1>7, <2>3, <2>5
  <2> QED BY <1>5, <1>6, <2>6, <2>7, <2>8 DEF Genuine
<1> QED BY <1>10, <1>11

\* What a step of the receiver writes was read.
LEMMA WriteGenuine ==
  ASSUME PInv, Genuine, NEW rec \in Seq(Sources), NEW rel \in Seq(Sources), Write(rec, rel),
         bootAt' = bootAt
  PROVE  tun' \in Seq(Sources)
<1>1. tun \in Seq(Sources) /\ byFec \subseteq 1..Len(tun) /\ bootAt \in 0..Len(tun)
  BY DEF PInv, ReceiverInv, Genuine
<1> QED BY <1>1, WriteIs

LEMMA StepGInv ==
  ASSUME ~Encrypted, EachItsOwn, GInv, [Next]_vars
  PROVE  GInv'
<1>1. PInv /\ PInv' BY StepPInv DEF GInv
<1>2. SUFFICES ASSUME restarts'.sender = 0 PROVE Genuine' BY <1>1 DEF GInv
<1>3. direction' = direction BY DEF Next, vars
<1>4. restarts \in [sender : Nat, receiver : Nat] /\ WireInv /\ ReceiverInv
  BY <1>1 DEF PInv, TInv
<1>5. ASSUME restarts.sender = 0 PROVE Genuine BY <1>5 DEF GInv
<1>6. ASSUME NEW mode \in Limit.modes, NEW tier \in SendTiers, Send(mode, tier)
      PROVE  Genuine'
  <2>1. restarts' = restarts BY <1>6 DEF Send
  <2>2. Genuine BY <1>2, <1>5, <2>1
  <2> QED BY <1>1, <1>3, <1>6, <2>2, SendGenuine
<1>7. ASSUME Genuine, UNCHANGED <<enc, read, tun, fed>>,
             BagToSet(net') \subseteq BagToSet(net)
      PROVE  Genuine'
  <2>1. OnWire' \subseteq OnWire BY <1>7 DEF OnWire, Coded
  <2>2. tun' \in Seq(Sources) BY <1>7 DEF Genuine
  <2> QED BY <1>3, <1>7, <2>1, <2>2, GenuineKept
<1>8. ASSUME NEW p \in BagToSet(net), Drop(p) PROVE Genuine'
  <2>1. restarts' = restarts /\ UNCHANGED <<enc, read, tun, fed>> /\ Take(p)
    BY <1>8 DEF Drop, senderVars, historyVars
  <2>2. Genuine BY <1>2, <1>5, <2>1
  <2>3. BagToSet(net') \subseteq BagToSet(net) BY <1>4, <2>1, TakeIs DEF WireInv
  <2> QED BY <1>7, <2>1, <2>2, <2>3
<1>9. ASSUME NEW p \in BagToSet(net), ReceiveData(p) \/ ReceiveParity(p) PROVE Genuine'
  <2>1. restarts' = restarts /\ UNCHANGED <<enc, read>> /\ Take(p) /\ bootAt' = bootAt
        /\ fed' = fed \cup {p.shard}
    BY <1>9 DEF ReceiveData, ReceiveParity, senderVars
  <2>2. Genuine BY <1>2, <1>5, <2>1
  <2>3. BagToSet(net') \subseteq BagToSet(net) BY <1>4, <2>1, TakeIs DEF WireInv
  <2>4. OnWire' \subseteq OnWire BY <2>1, <2>3 DEF OnWire, Coded
  <2>5. Recovered(p.shard) \in Seq(Sources)
    <3>1. \A r \in GivenBack(p.shard) : r.body \in Sources BY <1>1, <2>2, RecoveredGenuine
    <3>2. WireShard(p.shard, read) BY <1>4 DEF WireInv
    <3> QED BY <1>4, <3>1, <3>2, RecoveredBodies
  <2>6. tun' \in Seq(Sources)
    <3>1. CASE ReceiveData(p)
      <4>1. Write(Recovered(p.shard), Released(HeldWith(p))) BY <3>1 DEF ReceiveData, HeldWith
      <4>2. Released(HeldWith(p)) \in Seq(Sources)
        BY <1>1, <3>1, DataHandedOn DEF HandsOn
      <4> QED BY <1>1, <2>1, <2>2, <2>5, <4>1, <4>2, WriteGenuine
    <3>2. CASE ReceiveParity(p)
      <4>1. Write(Recovered(p.shard), << >>) BY <3>2 DEF ReceiveParity
      <4>2. << >> \in Seq(Sources) OBVIOUS
      <4> QED BY <1>1, <2>1, <2>2, <2>5, <4>1, <4>2, WriteGenuine
    <3> QED BY <1>9, <3>1, <3>2
  <2> QED BY <1>3, <2>1, <2>2, <2>4, <2>6, GenuineKept
<1>10. CASE TimeoutRound
  <2>1. restarts' = restarts /\ UNCHANGED <<enc, read, bootAt, net, fed>>
        /\ Write(<< >>, Released(payload))
    BY <1>10 DEF TimeoutRound, senderVars
  <2>2. Genuine BY <1>2, <1>5, <2>1
  <2>3. OnWire' \subseteq OnWire BY <2>1 DEF OnWire, Coded
  <2>4. Released(payload) \in Seq(Sources) BY <1>1, <1>10, TimeoutHandsOn DEF HandsOn
  <2>5. << >> \in Seq(Sources) OBVIOUS
  <2>6. tun' \in Seq(Sources) BY <1>1, <2>1, <2>2, <2>4, <2>5, WriteGenuine
  <2> QED BY <1>3, <2>1, <2>2, <2>3, <2>6, GenuineKept
<1>11. CASE Adapt \/ Tick \/ UNCHANGED vars
  <2>1. restarts' = restarts /\ UNCHANGED <<enc, read, tun, fed, net>>
    BY <1>11 DEF Adapt, Tick, vars, senderVars, historyVars
  <2>2. Genuine BY <1>2, <1>5, <2>1
  <2> QED BY <1>7, <2>1, <2>2
<1>12. CASE SenderRestart
  <2>1. restarts' = [restarts EXCEPT !.sender = @ + 1] BY <1>12 DEF SenderRestart
  <2>2. restarts'.sender = restarts.sender + 1 /\ restarts.sender \in Nat BY <1>4, <2>1
  <2> QED BY <1>2, <2>2
<1>13. CASE ReceiverRestart
  <2>1. restarts' = [restarts EXCEPT !.receiver = @ + 1] /\ UNCHANGED <<enc, read, tun, net>>
        /\ fed' = {}
    BY <1>13 DEF ReceiverRestart, senderVars
  <2>2. restarts'.sender = restarts.sender BY <1>4, <2>1
  <2>3. Genuine BY <1>2, <1>5, <2>2
  <2>4. OnWire' \subseteq OnWire BY <2>1 DEF OnWire, Coded
  <2>5. tun' \in Seq(Sources) BY <2>1, <2>3 DEF Genuine
  <2> QED BY <1>3, <2>1, <2>3, <2>4, <2>5, GenuineKept
<1> QED BY <1>6, <1>8, <1>9, <1>10, <1>11, <1>12, <1>13 DEF Next

LEMMA InitGInv == ASSUME Init PROVE GInv
<1>1. PInv BY InitPInv
<1>2. OnWire = {}
  <2>1. EmptyBag = [e \in {} |-> 1] BY DEF EmptyBag, SetToBag
  <2>2. DOMAIN net = {} BY <2>1 DEF Init
  <2>3. fed = {} BY DEF Init
  <2> QED BY <2>2, <2>3 DEF OnWire, Coded, BagToSet
<1>3. tun \in Seq(Sources)
  <2>1. tun = << >> BY DEF Init
  <2> QED BY <2>1
<1> QED BY <1>1, <1>2, <1>3 DEF GInv, Genuine, Consistent, OpenGroup

(***************************************************************************)
(* Without a key, until the sender restarts, whatever is written to one    *)
(* TUN was read from the other, if every code the directions use is        *)
(* decoded by its own decoder: no mixture of modes, losses, late shards,   *)
(* expired groups and restarts of the receiver makes a packet up           *)
(* (server.py:224-246, client.py:521-545, fec_engine.py:238-292).          *)
(***************************************************************************)
THEOREM TunnelInventsNothing ==
  ASSUME ~Encrypted, EachItsOwn
  PROVE  Spec => []NothingInvented
<1>1. Init => GInv BY InitGInv
<1>2. GInv /\ [Next]_vars => GInv' BY StepGInv
<1>3. GInv => NothingInvented
  <2> SUFFICES ASSUME GInv, restarts.sender = 0 PROVE Written \subseteq Sources
    BY DEF NothingInvented
  <2>1. tun \in Seq(Sources) BY DEF GInv, Genuine
  <2> QED BY <2>1 DEF Written
<1> QED BY <1>1, <1>2, <1>3, PTL DEF Spec

-----------------------------------------------------------------------------
(* Without encryption, and with every code decoded by its own decoder, a   *)
(* group the decoder was given enough of is known in full, until the       *)
(* sender restarts.                                                        *)

Known == Written \cup Held

FedOf(c, g) == {s \in fed : s.code = c /\ s.gid = g}

\* Group g of code c is closed, and all its packets are known.
Complete(c, g) ==
  /\ g < enc[c].gid
  /\ \A s \in OnWire : s.code = c /\ s.gid = g /\ IsParity(s) =>
       \A i \in 1..Len(s.body) : s.body[i] \in Known

\* The decoder holds what it was given of the group, and waits for more.
Kept(c, g) == FedOf(c, g) = GroupIn(dec, c, g) /\ ~Ready(c, GroupIn(dec, c, g))

DataKnown == \A s \in fed : ~IsFecParity(s) => s.body[1] \in Known

GroupsKnown ==
  \A c \in UsedCodes, g \in Nat :
    /\ g \in dec[c].done => Complete(c, g)
    /\ <<c, g>> \notin expired => Kept(c, g) \/ Complete(c, g)

EInv == GInv /\ (restarts.sender = 0 => DataKnown /\ GroupsKnown)

\* What the buffer hands on or keeps is known.
LEMMA HandsOnKnown ==
  ASSUME NEW b \in SUBSET Nat, NEW n \in Nat, NEW held, NEW B, HandsOn(b, n, held, B),
         payload' = [s \in buffer' |-> held[s]],
         \A i \in 1..Len(Released(held)) : Released(held)[i] \in Written',
         NEW s \in b
  PROVE  held[s] \in Known'
<1>1. /\ nextSeq' \in n..(MaxSeq + 1) /\ s \in buffer' \cup (n..(nextSeq' - 1))
      /\ Len(Released(held)) = nextSeq' - n
      /\ \A i \in 1..(nextSeq' - n) : Released(held)[i] = held[n + i - 1]
  BY DEF HandsOn
<1>2. CASE s \in buffer' BY <1>2 DEF Known, Held
<1>3. CASE s \in n..(nextSeq' - 1)
  <2> DEFINE i == s - n + 1
  <2>1. i \in 1..(nextSeq' - n) /\ n + i - 1 = s BY <1>1, <1>3
  <2> HIDE DEF i
  <2>2. Released(held)[i] = held[s] BY <1>1, <2>1
  <2> QED BY <1>1, <2>1, <2>2 DEF Known
<1> QED BY <1>1, <1>2, <1>3

\* A data packet that is received is known from then on, with what FEC rebuilds.
LEMMA ReceivedKnown ==
  ASSUME PInv, NEW p \in BagToSet(net), ReceiveData(p) \/ ReceiveParity(p)
  PROVE  /\ Known \subseteq Known'
         /\ ~IsFecParity(p.shard) => p.shard.body[1] \in Known'
         /\ \A r \in GivenBack(p.shard) : r.body \in Known'
<1> DEFINE B == Sources \cup {Garbage}
           rec == Recovered(p.shard)
           held == HeldWith(p)
<1>1. /\ RBP!IInv /\ p.seq \in RB!Seqs /\ WireShard(p.shard, read)
      /\ WireInv /\ ReceiverInv /\ tun \in Seq(B)
  BY DEF PInv, TInv, NumbersFit, WireInv, ReceiverInv
<1>2. rec \in Seq(B) BY <1>1, RecoveredOK
<1>3. ASSUME \A i \in 1..Len(rec) : rec[i] \in Written', NEW r \in GivenBack(p.shard)
      PROVE  r.body \in Known'
  BY <1>1, <1>3, AllRecovered DEF Known
<1>4. CASE ReceiveData(p)
  <2>1. /\ ~IsFecParity(p.shard) /\ payload' = [s \in buffer' |-> held[s]]
        /\ Write(rec, Released(held))
    BY <1>4 DEF ReceiveData, HeldWith
  <2>2. HandsOn(buffer \cup {p.seq}, nextSeq, held, Sources) BY <1>4, DataHandedOn
  <2>3. Released(held) \in Seq(B)
    <3>1. Released(held) \in Seq(Sources) /\ Sources \subseteq B BY <2>2 DEF HandsOn
    <3> HIDE DEF B, held
    <3> QED BY <3>1, SeqMonotone
  <2>4. buffer \cup {p.seq} \in SUBSET Nat /\ nextSeq \in Nat
    <3>1. buffer \subseteq RB!Seqs /\ nextSeq \in 0..(MaxSeq + 1) BY <1>1, BufferIs DEF RB!TypeOK
    <3>2. MaxSeq \in Nat BY TunnelAssumption
    <3>3. RB!Seqs \subseteq Nat BY <3>2 DEF RB!Seqs
    <3>4. nextSeq \in Nat BY <3>1, <3>2
    <3>5. p.seq \in Nat BY <1>1, <3>3
    <3> QED BY <3>1, <3>3, <3>4, <3>5
  <2>5. \A s \in buffer : held[s] = payload[s] \/ s = p.seq BY DEF HeldWith
  <2>6. held[p.seq] = p.shard.body[1] BY DEF HeldWith
  <2> HIDE DEF B, held, rec
  <2>7. /\ Written \subseteq Written'
        /\ \A i \in 1..Len(rec) : rec[i] \in Written'
        /\ \A i \in 1..Len(Released(held)) : Released(held)[i] \in Written'
    BY <1>1, <1>2, <2>1, <2>3, WrittenAfter
  <2>8. \A s \in buffer \cup {p.seq} : held[s] \in Known'
    BY <2>1, <2>2, <2>4, <2>7, HandsOnKnown
  <2>9. p.seq \notin buffer
    <3>1. ~RB!IsDuplicate(p.seq) BY <1>4 DEF ReceiveData, RB!Insert
    <3>2. RB!SeenIsHeld /\ nextSeq \in 0..(MaxSeq + 1) /\ RB!TypeOK /\ RB!FlushLoopEnds
      BY <1>1, BufferIs DEF RB!TypeOK
    <3> QED BY <1>1, <3>1, <3>2, TunnelAssumption
         DEF RB!SeenIsHeld, RB!IsDuplicate, RB!TypeOK, RB!Seqs, RB!FlushLoopEnds
  <2>10. Held \subseteq Known' BY <2>5, <2>8, <2>9 DEF Held
  <2> QED BY <1>3, <2>6, <2>7, <2>8, <2>10 DEF Known, rec
<1>5. CASE ReceiveParity(p)
  <2>1. IsFecParity(p.shard) /\ Write(rec, << >>) /\ payload' = payload /\ buffer' = buffer
    BY <1>5 DEF ReceiveParity, bufferVars
  <2>2. << >> \in Seq(B) OBVIOUS
  <2> HIDE DEF B, rec
  <2>3. Written \subseteq Written' /\ \A i \in 1..Len(rec) : rec[i] \in Written'
    BY <1>1, <1>2, <2>1, <2>2, WrittenAfter
  <2>4. Held' = Held BY <2>1 DEF Held
  <2> QED BY <1>3, <2>1, <2>3, <2>4 DEF Known, rec
<1> QED BY <1>4, <1>5

LEMMA TimeoutKnown ==
  ASSUME PInv, TimeoutRound
  PROVE  Known \subseteq Known'
<1> DEFINE B == Sources \cup {Garbage}
<1>1. RBP!IInv /\ tun \in Seq(B) /\ payload \in [buffer -> Sources]
  BY DEF PInv, TInv, ReceiverInv
<1>2. /\ payload' = [s \in buffer' |-> payload[s]] /\ Write(<< >>, Released(payload))
  BY DEF TimeoutRound
<1>3. RB!SkipTo \in 0..(MaxSeq + 1) /\ HandsOn(buffer, RB!SkipTo, payload, Sources)
  BY TimeoutHandsOn
<1>4. Released(payload) \in Seq(B) /\ << >> \in Seq(B)
  <2>1. Released(payload) \in Seq(Sources) /\ Sources \subseteq B BY <1>3 DEF HandsOn
  <2> HIDE DEF B
  <2> QED BY <2>1, SeqMonotone
<1>5. buffer \in SUBSET Nat /\ RB!SkipTo \in Nat
  BY <1>1, <1>3, BufferIs, TunnelAssumption DEF RB!TypeOK, RB!Seqs
<1> HIDE DEF B
<1>6. /\ Written \subseteq Written'
      /\ \A i \in 1..Len(Released(payload)) : Released(payload)[i] \in Written'
  BY <1>1, <1>2, <1>4, WrittenAfter
<1>7. \A s \in buffer : payload[s] \in Known' BY <1>2, <1>3, <1>5, <1>6, HandsOnKnown
<1> QED BY <1>6, <1>7 DEF Known, Held

\* What the decoder will hold of the group of shard s, once it was given s.
LEMMA StoredIs ==
  ASSUME EachItsOwn, PInv, Genuine, NEW s, s \in {p.shard : p \in BagToSet(net)}, s.code # "none"
  PROVE  /\ s \in OnWire /\ s.code \in UsedCodes /\ s.code \in Codes /\ s.gid \in Nat
         /\ StepOf(s.code, dec, s, DecodeNext(dec, s))
         /\ Stored(dec, s.code, s) = GroupIn(dec, s.code, s.gid) \cup {s}
         /\ Stored(dec, s.code, s) \subseteq Coded(fed \cup {s})
         /\ OneEach(Stored(dec, s.code, s))
         /\ \A t \in Stored(dec, s.code, s) : t \in OnWire /\ t.code = s.code /\ t.gid = s.gid
<1> DEFINE K == Coded(fed \cup {s})
           c == s.code
           shards == Stored(dec, c, s)
<1>1. WireInv /\ ReceiverInv /\ WireShard(s, read) /\ direction \in Directions
  BY DEF PInv, TInv, WireInv
<1>2. s \in K /\ DecoderOK(dec, K) BY <1>1, FedShard
<1>3. K \subseteq OnWire BY DEF Coded, OnWire
<1>4. \A t \in K : IsShard(t, Sources) /\ t.code \in Codes /\ DecoderFor(GroupSize[t.code]) = t.code
  BY <1>1, <1>3, UsedCodeIsOwn DEF Genuine
<1>5. c \in UsedCodes /\ c \in Codes /\ DecoderFor(GroupSize[c]) = c /\ s.gid \in Nat
  BY <1>2, <1>3, <1>4 DEF Genuine, IsShard
<1>6. GroupOK(c, s.gid, shards, K)
  <2>1. GroupOK(DecoderFor(GroupSize[s.code]), s.gid, Stored(dec, DecoderFor(GroupSize[s.code]), s), K)
    BY <1>2, <1>5, StoredOK
  <2> QED BY <1>5, <2>1
<1>7. StepOf(c, dec, s, DecodeNext(dec, s)) BY <1>2, <1>5, DecodeNextIs
<1>8. Consistent(K) BY <1>3, ConsistentSubset DEF Genuine
<1> HIDE DEF K
<1>9. shards \subseteq K /\ OneEach(shards)
      /\ \A t \in shards : t.gid = s.gid /\ DecoderFor(GroupSize[t.code]) = c
  BY <1>6 DEF GroupOK
<1>10. GroupIn(dec, c, s.gid) \subseteq K
       /\ \A t \in GroupIn(dec, c, s.gid) : t.gid = s.gid /\ t.code = c
  <2>1. CASE s.gid \in DOMAIN dec[c].groups
    <3>1. GroupOK(c, s.gid, dec[c].groups[s.gid].shards, K)
      BY <1>2, <1>5, <2>1 DEF DecoderOK, OpenOK
    <3> QED BY <1>4, <2>1, <3>1 DEF GroupIn, GroupOK
  <2> QED BY <2>1 DEF GroupIn
<1>11. \A t \in GroupIn(dec, c, s.gid) : t.idx = s.idx => t = s
  BY <1>2, <1>8, <1>10 DEF Consistent, Agree
<1>12. shards = GroupIn(dec, c, s.gid) \cup {s}
  <2>1. shards = {t \in GroupIn(dec, c, s.gid) : t.idx # s.idx} \cup {s} BY DEF Stored, GroupIn
  <2> QED BY <1>11, <2>1
<1>13. \A t \in shards : t \in OnWire /\ t.code = c /\ t.gid = s.gid BY <1>3, <1>4, <1>9
<1> QED BY <1>2, <1>3, <1>5, <1>7, <1>9, <1>12, <1>13 DEF K

\* A group that is ready is closed.
LEMMA ReadyIsClosed ==
  ASSUME EachItsOwn, PInv, Genuine, NEW s, s \in {p.shard : p \in BagToSet(net)}, s.code # "none",
         Ready(s.code, Stored(dec, s.code, s))
  PROVE  s.gid < enc[s.code].gid
<1> DEFINE c == s.code
           g == s.gid
           shards == Stored(dec, c, s)
           n == Len(enc[c].held)
<1>1. /\ s \in OnWire /\ c \in Codes /\ g \in Nat /\ OneEach(shards)
      /\ \A t \in shards : t \in OnWire /\ t.code = c /\ t.gid = g
  BY StoredIs
<1>2. enc[c].gid \in Nat /\ n \in Nat /\ n < DataShards[c]
  BY <1>1 DEF PInv, SenderInv, EncoderOK
<1>3. g <= enc[c].gid BY <1>1 DEF Genuine, OpenGroup
<1> SUFFICES ASSUME g = enc[c].gid PROVE FALSE BY <1>1, <1>2, <1>3
<1>4. ASSUME NEW t \in shards PROVE t.idx \in 0..(n - 1)
  <2>1. t.idx < n BY <1>1 DEF Genuine, OpenGroup
  <2>2. t.idx \in 0..(GroupSize[t.code] - 1) BY <1>1 DEF Genuine, IsShard
  <2>3. t.idx \in Nat BY <2>2
  <2> QED BY <1>2, <2>1, <2>3
<1> HIDE DEF shards, n
<1>5. ~Ready(c, shards) BY <1>1, <1>2, <1>4, OpenIsNotReady
<1> QED BY <1>5 DEF shards

\* When a group is ready, each of its bodies arrived or is rebuilt.
LEMMA ReadyIsFull ==
  ASSUME EachItsOwn, PInv, Genuine, NEW s, s \in {p.shard : p \in BagToSet(net)}, s.code # "none",
         s.gid \notin dec[s.code].done, Ready(s.code, Stored(dec, s.code, s)),
         NEW q \in OnWire, q.code = s.code, q.gid = s.gid, IsParity(q), NEW i \in 1..Len(q.body)
  PROVE  \/ \E t \in fed \cup {s} : ~IsFecParity(t) /\ t.body[1] = q.body[i]
         \/ \E r \in GivenBack(s) : r.body = q.body[i]
<1> DEFINE c == s.code
           shards == Stored(dec, c, s)
<1>1. /\ c \in Codes /\ c \in UsedCodes /\ OneEach(shards) /\ shards \subseteq Coded(fed \cup {s})
      /\ \A t \in shards : t \in OnWire /\ t.code = c /\ t.gid = s.gid
  BY StoredIs
<1>2. direction \in Directions /\ Consistent(OnWire) /\ \A t \in OnWire : IsShard(t, Sources)
  BY DEF PInv, TInv, Genuine
<1>3. DecoderFor(GroupSize[c]) = c BY <1>1, <1>2, UsedCodeIsOwn
<1>4. DataShards[c] \in Nat \ {0} /\ Len(q.body) = DataShards[c]
  BY <1>1, <1>2, SizesAreNat DEF Consistent, IsWhole
<1>5. i - 1 \in 0..(DataShards[c] - 1) /\ (i - 1) + 1 = i BY <1>4
<1>6. \A t \in shards : t.idx \in Nat
  <2>1. \A t \in shards : t.idx \in 0..(GroupSize[t.code] - 1) BY <1>1, <1>2 DEF IsShard
  <2> QED BY <2>1
<1>7. CASE i - 1 \in Indices(shards)
  <2>1. PICK t \in shards : t.idx = i - 1 BY <1>7 DEF Indices
  <2>2. ~IsParity(t) BY <1>1, <1>4, <1>5, <2>1 DEF IsParity
  <2>3. Agree(q, t) BY <1>1, <1>2 DEF Consistent
  <2>4. t.body = <<q.body[i]>> BY <1>1, <1>5, <2>1, <2>2, <2>3 DEF Agree
  <2> QED BY <1>1, <2>2, <2>4 DEF IsFecParity, Coded
<1>8. CASE i - 1 \notin Indices(shards)
  <2>1. i - 1 \in Missing(c, shards) BY <1>5, <1>8 DEF Missing
  <2> DEFINE r == [idx |-> i - 1, body |-> Recover(c, shards, i - 1)]
  <2>2. r \in GivenBack(s) BY <1>3, <2>1 DEF GivenBack, DecodeOut
  <2>3. Consistent(shards)
    <3>1. shards \subseteq OnWire BY <1>1
    <3> QED BY <1>2, <3>1, ConsistentSubset
  <2>4. Ready(c, shards) /\ (\A t \in shards : t.code = c) /\ \A t, u \in shards : t.gid = u.gid
    BY <1>1
  <2> HIDE DEF shards
  <2>5. PICK u \in shards : IsParity(u) /\ Recover(c, shards, i - 1) = u.body[(i - 1) + 1]
    BY <1>1, <1>6, <2>1, <2>3, <2>4, RecoverRight
  <2>6. Agree(u, q) BY <1>1, <1>2, <2>5 DEF Consistent
  <2>7. q.body = u.body BY <1>1, <2>5, <2>6 DEF Agree
  <2>8. r.body = q.body[i] BY <1>5, <2>5, <2>7
  <2> QED BY <2>2, <2>8
<1> QED BY <1>7, <1>8

LEMMA CompleteStays ==
  ASSUME NEW c \in Codes, NEW g \in Nat, Complete(c, g), PInv,
         enc'[c].gid \in Nat, enc[c].gid <= enc'[c].gid, Known \subseteq Known',
         \A s \in OnWire' : s.code = c /\ s.gid = g => s \in OnWire
  PROVE  Complete(c, g)'
<1>1. enc[c].gid \in Nat BY DEF PInv, SenderInv, EncoderOK
<1>2. g < enc'[c].gid BY <1>1 DEF Complete
<1>3. ASSUME NEW s \in OnWire', s.code = c, s.gid = g, IsParity(s), NEW i \in 1..Len(s.body)
      PROVE  s.body[i] \in Known'
  BY <1>3 DEF Complete
<1> QED BY <1>2, <1>3 DEF Complete

LEMMA UsedCodeType == ASSUME direction \in Directions, NEW c \in UsedCodes PROVE c \in Codes
<1>1. PICK mode \in Limit.modes, tier \in SendTiers : c = CodeFor(mode, tier) /\ c # "none"
  BY DEF UsedCodes
<1>2. mode \in Modes BY TunnelAssumption DEF Limit
<1> QED BY <1>1, <1>2, CodeType

\* Steps that give the decoders nothing, and take whole groups at most.
LEMMA KnownKept ==
  ASSUME PInv, DataKnown, GroupsKnown, UNCHANGED <<direction, fed>>,
         \A c \in Codes : enc'[c].gid \in Nat /\ enc[c].gid <= enc'[c].gid,
         \A c \in Codes, g \in Nat : \A s \in OnWire' :
           s.code = c /\ s.gid = g /\ g < enc[c].gid => s \in OnWire,
         Known \subseteq Known', expired \subseteq expired',
         \A c \in Codes : dec'[c].done = dec[c].done,
         \A c \in UsedCodes, g \in Nat :
           <<c, g>> \notin expired' => GroupIn(dec', c, g) = GroupIn(dec, c, g)
  PROVE  DataKnown' /\ GroupsKnown'
<1>1. UsedCodes' = UsedCodes BY DEF UsedCodes, Limit, SendTiers
<1>2. DataKnown' BY DEF DataKnown
<1>3. ASSUME NEW c \in UsedCodes, NEW g \in Nat
      PROVE  /\ c \in Codes /\ (Complete(c, g) => Complete(c, g)')
             /\ <<c, g>> \notin expired' => (Kept(c, g) => Kept(c, g)')
  <2>1. c \in Codes BY UsedCodeType DEF PInv, TInv
  <2>2. ASSUME Complete(c, g) PROVE Complete(c, g)'
    <3>1. g < enc[c].gid BY <2>2 DEF Complete
    <3>2. \A s \in OnWire' : s.code = c /\ s.gid = g => s \in OnWire BY <2>1, <3>1
    <3> QED BY <2>1, <2>2, <3>2, CompleteStays
  <2>3. ASSUME <<c, g>> \notin expired', Kept(c, g) PROVE Kept(c, g)'
    <3>1. GroupIn(dec', c, g) = GroupIn(dec, c, g) BY <2>3
    <3>2. FedOf(c, g)' = FedOf(c, g) BY DEF FedOf
    <3> QED BY <2>3, <3>1, <3>2 DEF Kept
  <2> QED BY <2>1, <2>2, <2>3
<1>4. GroupsKnown'
  <2> SUFFICES ASSUME NEW c \in UsedCodes, NEW g \in Nat
               PROVE  /\ g \in dec'[c].done => Complete(c, g)'
                      /\ <<c, g>> \notin expired' => Kept(c, g)' \/ Complete(c, g)'
    BY <1>1 DEF GroupsKnown
  <2>1. dec'[c].done = dec[c].done BY <1>3
  <2> QED BY <1>3, <2>1 DEF GroupsKnown
<1> QED BY <1>2, <1>4

\* A packet that is sent adds nothing to a group that is closed.
LEMMA SendKnown ==
  ASSUME ~Encrypted, PInv, Genuine, DataKnown, GroupsKnown, UNCHANGED direction,
         NEW mode \in Limit.modes, NEW tier \in SendTiers, Send(mode, tier)
  PROVE  DataKnown' /\ GroupsKnown'
<1> DEFINE c == CodeFor(mode, tier)
           B == 0..read
<1>1. /\ direction \in Directions /\ read \in Nat /\ globalSeq \in Nat /\ IsABag(net)
      /\ EncoderOK(enc, Sources) /\ Sources \subseteq B /\ read \in B
  <2>1. direction \in Directions /\ globalSeq \in 0..(MaxSeq + 1)
        /\ read \in 0..Limit.sources /\ IsABag(net) /\ EncoderOK(enc, Sources)
    BY DEF PInv, TInv, NumbersFit, SenderInv, WireInv
  <2>2. MaxSeq \in Nat /\ Limit.sources \in Nat BY <2>1, TunnelAssumption DEF Limit
  <2> QED BY <2>1, <2>2 DEF Sources
<1>2. EncoderOK(enc, B) BY <1>1, EncoderMonotone
<1>3. c \in Codes \cup {"none"} /\ BagToSet(net') \subseteq BagToSet(net) \cup SentNow(c)
  BY <1>1, <1>2, SendIs
<1>4. /\ enc' = (IF c = "none" THEN enc ELSE EncodeNext(enc, c, read))
      /\ UNCHANGED <<fed, tun, expired, dec, payload, buffer>>
  BY DEF Send, historyVars, bufferVars
<1> HIDE DEF c
<1>5. \A p \in SentNow(c) : \E i \in 1..Len(Outputs(c, read)) : p.shard = Outputs(c, read)[i]
  BY DEF SentNow, Datagram, Sealed
<1>6. \A s \in OnWire' : s \in OnWire \/ (c # "none" /\ s.code = c /\ s.gid = enc[c].gid)
  <2>1. CASE c = "none"
    <3>1. Outputs(c, read) = <<[code |-> "none", gid |-> 0, idx |-> 0, body |-> <<read>>]>>
      BY <2>1 DEF Outputs
    <3>2. \A p \in SentNow(c) : p.shard.code = "none" BY <1>5, <3>1
    <3> QED BY <1>3, <1>4, <3>2 DEF OnWire, Coded
  <2>2. CASE c # "none"
    <3>1. c \in Codes /\ Outputs(c, read) = EncodeOut(enc, c, read) BY <1>3, <2>2 DEF Outputs
    <3>2. \A p \in SentNow(c) : p.shard \in NewShards(enc, c, read)
      BY <1>5, <3>1 DEF NewShards
    <3>3. \A s \in NewShards(enc, c, read) : s.code = c /\ s.gid = enc[c].gid
      <4> HIDE DEF B
      <4> QED BY <1>1, <1>2, <3>1, NewShardIs
    <3> QED BY <1>3, <1>4, <2>2, <3>2, <3>3 DEF OnWire, Coded
  <2> QED BY <2>1, <2>2
<1>7. ASSUME NEW e \in Codes PROVE enc'[e].gid \in Nat /\ enc[e].gid <= enc'[e].gid
  <2>1. enc[e].gid \in Nat BY <1>1 DEF EncoderOK
  <2>2. CASE c = "none" BY <1>4, <2>1, <2>2
  <2>3. CASE c # "none"
    <3>1. c \in Codes BY <1>3, <2>3
    <3>2. EncoderStep(enc, c, read, enc')
      <4> HIDE DEF B
      <4>1. EncoderStep(enc, c, read, EncodeNext(enc, c, read))
        BY <1>1, <1>2, <3>1, EncodeNextIs
      <4> QED BY <1>4, <2>3, <4>1
    <3>3. enc'[e].gid = enc[e].gid \/ enc'[e].gid = enc[e].gid + 1
      BY <3>1, <3>2 DEF EncoderStep
    <3> QED BY <2>1, <3>3
  <2> QED BY <2>2, <2>3
<1>8. \A e \in Codes, g \in Nat : \A s \in OnWire' :
        s.code = e /\ s.gid = g /\ g < enc[e].gid => s \in OnWire
  BY <1>1, <1>6 DEF EncoderOK
<1>9. Known' = Known BY <1>4 DEF Known, Written, Held
<1> QED BY <1>4, <1>7, <1>8, <1>9, KnownKept

\* Steps that leave sender and decoders alone, but may lose datagrams.
LEMMA QuietKnown ==
  ASSUME PInv, DataKnown, GroupsKnown, Known \subseteq Known',
         UNCHANGED <<direction, fed, enc, expired, dec>>,
         BagToSet(net') \subseteq BagToSet(net)
  PROVE  DataKnown' /\ GroupsKnown'
<1>1. \A c \in Codes : enc[c].gid \in Nat BY DEF PInv, SenderInv, EncoderOK
<1>2. \A c \in Codes : enc'[c].gid \in Nat /\ enc[c].gid <= enc'[c].gid BY <1>1
<1>3. OnWire' \subseteq OnWire BY DEF OnWire, Coded
<1> QED BY <1>2, <1>3, KnownKept

\* The clock, and what expires.
LEMMA ClockKnown ==
  ASSUME EachItsOwn, PInv, Genuine, DataKnown, GroupsKnown, UNCHANGED direction,
         Tick \/ TimeoutRound
  PROVE  DataKnown' /\ GroupsKnown'
<1>1. /\ direction \in Directions /\ DecoderOK(dec, Coded(fed))
      /\ \A c \in Codes : enc[c].gid \in Nat
  BY DEF PInv, TInv, ReceiverInv, SenderInv, EncoderOK
<1>2. UNCHANGED <<fed, enc, net>> /\ expired \subseteq expired'
  BY DEF Tick, TimeoutRound, senderVars, historyVars
<1>3. \A c \in Codes : enc'[c].gid \in Nat /\ enc[c].gid <= enc'[c].gid BY <1>1, <1>2
<1>4. OnWire' = OnWire BY <1>2 DEF OnWire, Coded
<1>5. Known \subseteq Known'
  <2>1. CASE Tick BY <2>1 DEF Tick, Known, Written, Held, historyVars
  <2>2. CASE TimeoutRound BY <2>2, TimeoutKnown
  <2> QED BY <2>1, <2>2
<1>6. \A c \in Codes : dec'[c].done = dec[c].done
  <2>1. CASE Tick BY <1>1, <2>1, OlderHolds DEF Tick
  <2>2. CASE TimeoutRound BY <2>2, ExpireHolds DEF TimeoutRound
  <2> QED BY <2>1, <2>2
<1>7. ASSUME NEW c \in UsedCodes, NEW g \in Nat, <<c, g>> \notin expired'
      PROVE  GroupIn(dec', c, g) = GroupIn(dec, c, g)
  <2>1. c \in Codes BY <1>1, UsedCodeType
  <2>2. CASE Tick BY <1>1, <2>1, <2>2, OlderHolds DEF Tick
  <2>3. CASE TimeoutRound
    <3>1. dec' = Expire(dec) BY <2>3 DEF TimeoutRound
    <3>2. CASE g \in DOMAIN dec[c].groups \ DOMAIN dec'[c].groups
      <4>1. ASSUME NEW t \in dec[c].groups[g].shards PROVE <<t.code, t.gid>> \in expired'
        <5>1. <<t.code, t.gid>> \in {<<u.code, u.gid>> : u \in dec[c].groups[g].shards}
          OBVIOUS
        <5>2. <<t.code, t.gid>> \in
                UNION {{<<u.code, u.gid>> : u \in dec[c].groups[h].shards} :
                         h \in DOMAIN dec[c].groups \ DOMAIN dec'[c].groups}
          BY <3>2, <5>1
        <5> QED BY <2>1, <2>3, <5>2 DEF TimeoutRound
      <4>2. ASSUME NEW t \in dec[c].groups[g].shards PROVE <<t.code, t.gid>> = <<c, g>>
        <5>1. t \in Coded(fed) /\ t.gid = g /\ DecoderFor(GroupSize[t.code]) = c
          BY <1>1, <2>1, <3>2 DEF DecoderOK, OpenOK, GroupOK
        <5>2. t.code \in UsedCodes BY <5>1 DEF Genuine, OnWire, Coded
        <5>3. DecoderFor(GroupSize[t.code]) = t.code BY <1>1, <5>2, UsedCodeIsOwn
        <5> QED BY <5>1, <5>3
      <4>3. dec[c].groups[g].shards = {} BY <1>7, <4>1, <4>2
      <4> QED BY <3>2, <4>3 DEF GroupIn
    <3> QED BY <2>1, <3>1, <3>2, ExpireHolds
  <2> QED BY <2>2, <2>3
<1> QED BY <1>2, <1>3, <1>4, <1>5, <1>6, <1>7, KnownKept

\* A new receiver was given nothing.
LEMMA ReceiverRestartKnown ==
  ASSUME UNCHANGED direction, direction \in Directions, fed' = {}, dec' = NewDecoder
  PROVE  DataKnown' /\ GroupsKnown'
<1>1. UsedCodes' = UsedCodes BY DEF UsedCodes, Limit, SendTiers
<1>2. DataKnown' BY DEF DataKnown
<1>3. ASSUME NEW c \in UsedCodes, NEW g \in Nat PROVE g \notin dec'[c].done /\ Kept(c, g)'
  <2>1. c \in Codes BY UsedCodeType
  <2>2. DOMAIN << >> = {} OBVIOUS
  <2>3. dec'[c] = [groups |-> << >>, done |-> {}] BY <2>1 DEF NewDecoder
  <2>4. GroupIn(dec', c, g) = {} /\ g \notin dec'[c].done BY <2>2, <2>3 DEF GroupIn
  <2>5. FedOf(c, g)' = {} BY DEF FedOf
  <2>6. ~Ready(c, {})
    <3>1. Cardinality({}) = 0 /\ ~(0 >= DataShards[c]) BY <2>1, FS_EmptySet, SizesAreNat
    <3>2. XorData \notin Indices({}) BY DEF Indices
    <3> QED BY <3>1, <3>2 DEF Ready
  <2> QED BY <2>4, <2>5, <2>6 DEF Kept
<1> QED BY <1>1, <1>2, <1>3 DEF GroupsKnown

\* The group of a shard that is received: the decoder keeps the shard, or the
\* group is complete.
LEMMA GroupKnown ==
  ASSUME EachItsOwn, PInv, Genuine, DataKnown, GroupsKnown,
         NEW p \in BagToSet(net), ReceiveData(p) \/ ReceiveParity(p), p.shard.code # "none",
         Complete(p.shard.code, p.shard.gid) => Complete(p.shard.code, p.shard.gid)'
  PROVE  /\ dec'[p.shard.code].done \subseteq dec[p.shard.code].done \cup {p.shard.gid}
         /\ p.shard.gid \in dec'[p.shard.code].done => Complete(p.shard.code, p.shard.gid)'
         /\ <<p.shard.code, p.shard.gid>> \notin expired =>
              Kept(p.shard.code, p.shard.gid)' \/ Complete(p.shard.code, p.shard.gid)'
<1> DEFINE s == p.shard
           c == s.code
           g == s.gid
           shards == Stored(dec, c, s)
<1>1. /\ s \in OnWire /\ c \in UsedCodes /\ c \in Codes /\ g \in Nat
      /\ StepOf(c, dec, s, DecodeNext(dec, s))
      /\ shards = GroupIn(dec, c, g) \cup {s}
  BY StoredIs
<1>2. dec' = DecodeNext(dec, s) /\ fed' = fed \cup {s} /\ enc' = enc
  BY DEF ReceiveData, ReceiveParity, Decoded, senderVars
<1>3. StepOf(c, dec, s, dec') BY <1>1, <1>2
<1>4. dec[c].done \in SUBSET Nat /\ IsFiniteSet(dec[c].done) /\ IsABag(net)
      /\ (g \in dec[c].done => Complete(c, g))
  BY <1>1 DEF PInv, ReceiverInv, WireInv, DecoderOK, GroupsKnown
<1>5. <<c, g>> \notin expired => Kept(c, g) \/ Complete(c, g) BY <1>1 DEF GroupsKnown
<1>6. Complete(c, g) => Complete(c, g)' OBVIOUS
<1>7. FedOf(c, g)' = FedOf(c, g) \cup {s} BY <1>2 DEF FedOf
<1>8. OnWire' \subseteq OnWire
  <2>1. Take(p) BY DEF ReceiveData, ReceiveParity
  <2>2. BagToSet(net') \subseteq BagToSet(net) BY <1>4, <2>1, TakeIs
  <2> QED BY <1>2, <2>2 DEF OnWire, Coded
<1>9. CASE g \in dec[c].done
  <2>1. dec' = dec BY <1>3, <1>9 DEF StepOf
  <2>2. Complete(c, g)' BY <1>4, <1>6, <1>9
  <2> QED BY <2>1, <2>2
<1>10. CASE g \notin dec[c].done /\ Ready(c, shards)
  <2>1. dec'[c].done = Finish(c, dec[c].done, g) BY <1>3, <1>10 DEF StepOf
  <2>2. dec'[c].done \subseteq dec[c].done \cup {g}
    <3>1. Finish(c, dec[c].done, g) \subseteq dec[c].done \cup {g}
      <4> HIDE DEF c, g
      <4> QED BY <1>1, <1>4, FinishType
    <3> QED BY <2>1, <3>1
  <2>3. Complete(c, g)'
    <3>1. g < enc'[c].gid BY <1>2, <1>10, ReadyIsClosed
    <3>2. ASSUME NEW q \in OnWire', q.code = c, q.gid = g, IsParity(q),
                 NEW i \in 1..Len(q.body)
          PROVE  q.body[i] \in Known'
      <4>1. \/ \E t \in fed \cup {s} : ~IsFecParity(t) /\ t.body[1] = q.body[i]
            \/ \E r \in GivenBack(s) : r.body = q.body[i]
        BY <1>8, <1>10, <3>2, ReadyIsFull
      <4>2. /\ Known \subseteq Known' /\ (~IsFecParity(s) => s.body[1] \in Known')
            /\ \A r \in GivenBack(s) : r.body \in Known'
        BY ReceivedKnown
      <4> QED BY <4>1, <4>2 DEF DataKnown
    <3> QED BY <3>1, <3>2 DEF Complete
  <2> QED BY <2>2, <2>3
<1>11. CASE g \notin dec[c].done /\ ~Ready(c, shards)
  <2>1. dec'[c].done = dec[c].done BY <1>3, <1>11 DEF StepOf
  <2>2. GroupIn(dec', c, g) = shards BY <1>3, <1>11 DEF StepOf, GroupIn
  <2>3. ASSUME Kept(c, g) PROVE Kept(c, g)'
    <3>1. FedOf(c, g)' = shards BY <1>1, <1>7, <2>3 DEF Kept
    <3> QED BY <1>11, <2>2, <3>1 DEF Kept
  <2> QED BY <1>5, <1>6, <1>11, <2>1, <2>3
<1> QED BY <1>9, <1>10, <1>11

LEMMA ReceiveKnown ==
  ASSUME EachItsOwn, PInv, Genuine, DataKnown, GroupsKnown, UNCHANGED direction,
         NEW p \in BagToSet(net), ReceiveData(p) \/ ReceiveParity(p)
  PROVE  DataKnown' /\ GroupsKnown'
<1> DEFINE s == p.shard
<1>1. direction \in Directions /\ IsABag(net) BY DEF PInv, TInv, WireInv
<1>2. UsedCodes' = UsedCodes BY DEF UsedCodes, Limit, SendTiers
<1>3. dec' = Decoded(s) /\ fed' = fed \cup {s} /\ enc' = enc /\ expired' = expired
  BY DEF ReceiveData, ReceiveParity, senderVars
<1>4. Known \subseteq Known' /\ (~IsFecParity(s) => s.body[1] \in Known') BY ReceivedKnown
<1>5. DataKnown' BY <1>3, <1>4 DEF DataKnown
<1>6. OnWire' \subseteq OnWire
  <2>1. BagToSet(net') \subseteq BagToSet(net)
    BY <1>1, TakeIs DEF ReceiveData, ReceiveParity
  <2> QED BY <1>3, <2>1 DEF OnWire, Coded
<1>7. ASSUME NEW c \in Codes, NEW g \in Nat, Complete(c, g) PROVE Complete(c, g)'
  <2>1. enc[c].gid \in Nat BY DEF PInv, SenderInv, EncoderOK
  <2>2. enc'[c].gid \in Nat /\ enc[c].gid <= enc'[c].gid BY <1>3, <2>1
  <2>3. \A t \in OnWire' : t.code = c /\ t.gid = g => t \in OnWire BY <1>6
  <2> QED BY <1>4, <1>7, <2>2, <2>3, CompleteStays
<1>8. GroupsKnown'
  <2> SUFFICES ASSUME NEW c \in UsedCodes, NEW g \in Nat
               PROVE  /\ g \in dec'[c].done => Complete(c, g)'
                      /\ <<c, g>> \notin expired => Kept(c, g)' \/ Complete(c, g)'
    BY <1>2, <1>3 DEF GroupsKnown
  <2>1. c \in Codes BY <1>1, UsedCodeType
  <2>2. /\ g \in dec[c].done => Complete(c, g)'
        /\ <<c, g>> \notin expired => Kept(c, g) \/ Complete(c, g)'
    BY <1>7, <2>1 DEF GroupsKnown
  <2>3. CASE s.code # "none"
    <3>1. /\ StepOf(s.code, dec, s, dec') /\ s.code \in Codes /\ s.gid \in Nat
      BY <1>3, <2>3, StoredIs DEF Decoded
    <3>2. /\ dec'[s.code].done \subseteq dec[s.code].done \cup {s.gid}
          /\ s.gid \in dec'[s.code].done => Complete(s.code, s.gid)'
          /\ <<s.code, s.gid>> \notin expired =>
               Kept(s.code, s.gid)' \/ Complete(s.code, s.gid)'
      BY <1>7, <2>3, <3>1, GroupKnown
    <3>3. CASE c = s.code /\ g = s.gid BY <3>2, <3>3
    <3>4. CASE c # s.code \/ g # s.gid
      <4>1. GroupIn(dec', c, g) = GroupIn(dec, c, g) BY <2>1, <3>1, <3>4, OtherGroupsHeld
      <4>2. FedOf(c, g)' = FedOf(c, g) BY <1>3, <3>4 DEF FedOf
      <4>3. g \in dec'[c].done => g \in dec[c].done
        <5>1. CASE c # s.code BY <2>1, <3>1, <5>1 DEF StepOf
        <5>2. CASE c = s.code BY <3>2, <3>4, <5>2
        <5> QED BY <5>1, <5>2
      <4>4. Kept(c, g) => Kept(c, g)' BY <4>1, <4>2 DEF Kept
      <4> QED BY <2>2, <4>3, <4>4
    <3> QED BY <3>3, <3>4
  <2>4. CASE s.code = "none"
    <3>1. dec' = dec BY <1>3, <2>4 DEF Decoded
    <3>2. FedOf(c, g)' = FedOf(c, g) BY <1>3, <2>1, <2>4 DEF FedOf, Codes
    <3>3. Kept(c, g) => Kept(c, g)' BY <3>1, <3>2 DEF Kept
    <3> QED BY <2>2, <3>1, <3>3
  <2> QED BY <2>3, <2>4
<1> QED BY <1>5, <1>8

LEMMA StepEInv ==
  ASSUME ~Encrypted, EachItsOwn, EInv, [Next]_vars
  PROVE  EInv'
<1>1. PInv /\ GInv' BY StepGInv DEF EInv, GInv
<1>2. SUFFICES ASSUME restarts'.sender = 0 PROVE DataKnown' /\ GroupsKnown'
  BY <1>1 DEF EInv
<1>3. direction' = direction /\ direction \in Directions BY <1>1 DEF Next, vars, PInv, TInv
<1>4. restarts \in [sender : Nat, receiver : Nat] /\ IsABag(net)
  BY <1>1 DEF PInv, TInv, WireInv
<1>5. ASSUME restarts'.sender = restarts.sender
      PROVE  Genuine /\ DataKnown /\ GroupsKnown
  BY <1>2, <1>5 DEF EInv, GInv
<1>6. ASSUME NEW mode \in Limit.modes, NEW tier \in SendTiers, Send(mode, tier)
      PROVE  DataKnown' /\ GroupsKnown'
  <2>1. restarts' = restarts BY <1>6 DEF Send
  <2> QED BY <1>1, <1>3, <1>5, <1>6, <2>1, SendKnown
<1>7. ASSUME NEW p \in BagToSet(net), Drop(p) PROVE DataKnown' /\ GroupsKnown'
  <2>1. restarts' = restarts /\ UNCHANGED <<fed, enc, expired, dec, tun, payload, buffer>> /\ Take(p)
    BY <1>7 DEF Drop, senderVars, historyVars, bufferVars
  <2>2. BagToSet(net') \subseteq BagToSet(net) BY <1>4, <2>1, TakeIs
  <2>3. Known' = Known BY <2>1 DEF Known, Written, Held
  <2> QED BY <1>1, <1>3, <1>5, <2>1, <2>2, <2>3, QuietKnown
<1>8. ASSUME NEW p \in BagToSet(net), ReceiveData(p) \/ ReceiveParity(p)
      PROVE  DataKnown' /\ GroupsKnown'
  <2>1. restarts' = restarts BY <1>8 DEF ReceiveData, ReceiveParity
  <2> QED BY <1>1, <1>3, <1>5, <1>8, <2>1, ReceiveKnown
<1>9. CASE Tick \/ TimeoutRound
  <2>1. restarts' = restarts BY <1>9 DEF Tick, TimeoutRound
  <2> QED BY <1>1, <1>3, <1>5, <1>9, <2>1, ClockKnown
<1>10. CASE Adapt \/ UNCHANGED vars
  <2>1. restarts' = restarts /\ UNCHANGED <<fed, enc, expired, dec, tun, payload, buffer, net>>
    BY <1>10 DEF Adapt, RB!UpdateTimeout, vars, senderVars, historyVars, bufferVars
  <2>2. Known' = Known BY <2>1 DEF Known, Written, Held
  <2> QED BY <1>1, <1>3, <1>5, <2>1, <2>2, QuietKnown
<1>11. CASE SenderRestart
  <2>1. restarts' = [restarts EXCEPT !.sender = @ + 1] BY <1>11 DEF SenderRestart
  <2>2. restarts'.sender = restarts.sender + 1 /\ restarts.sender \in Nat BY <1>4, <2>1
  <2> QED BY <1>2, <2>2
<1>12. CASE ReceiverRestart
  <2>1. fed' = {} /\ dec' = NewDecoder BY <1>12 DEF ReceiverRestart
  <2> QED BY <1>3, <2>1, ReceiverRestartKnown
<1> QED BY <1>6, <1>7, <1>8, <1>9, <1>10, <1>11, <1>12 DEF Next

LEMMA InitEInv == ASSUME Init PROVE EInv
<1>1. GInv BY InitGInv
<1>2. direction \in Directions /\ fed = {} /\ dec = NewDecoder BY DEF Init
<1>3. DataKnown BY <1>2 DEF DataKnown
<1>4. ASSUME NEW c \in UsedCodes, NEW g \in Nat PROVE g \notin dec[c].done /\ Kept(c, g)
  <2>1. c \in Codes BY <1>2, UsedCodeType
  <2>2. DOMAIN << >> = {} OBVIOUS
  <2>3. dec[c] = [groups |-> << >>, done |-> {}] BY <1>2, <2>1 DEF NewDecoder
  <2>4. GroupIn(dec, c, g) = {} /\ g \notin dec[c].done BY <2>2, <2>3 DEF GroupIn
  <2>5. FedOf(c, g) = {} BY <1>2 DEF FedOf
  <2>6. ~Ready(c, {})
    <3>1. Cardinality({}) = 0 /\ ~(0 >= DataShards[c]) BY <2>1, FS_EmptySet, SizesAreNat
    <3>2. XorData \notin Indices({}) BY DEF Indices
    <3> QED BY <3>1, <3>2 DEF Ready
  <2> QED BY <2>4, <2>5, <2>6 DEF Kept
<1> QED BY <1>1, <1>3, <1>4 DEF EInv, GroupsKnown

\* A group that is given in full, and waits for more, has all its data.
LEMMA KeptIsKnown ==
  ASSUME PInv, Genuine, DataKnown, NEW q \in fed, IsFecParity(q),
         Kept(q.code, q.gid), Cardinality(FedOf(q.code, q.gid)) >= DataShards[q.code],
         NEW i \in 1..Len(q.body)
  PROVE  q.body[i] \in Known
<1> DEFINE c == q.code
           S == FedOf(c, q.gid)
<1>1. \A t \in fed : t.code # "none" => t \in OnWire BY DEF OnWire, Coded
<1>2. q \in OnWire /\ c # "none" /\ IsParity(q) BY <1>1 DEF IsFecParity
<1>3. Consistent(OnWire) /\ \A t \in OnWire : IsShard(t, Sources) BY DEF Genuine
<1>4. c \in Codes BY <1>2, <1>3 DEF IsShard
<1>5. DecoderOK(dec, Coded(fed)) /\ S = GroupIn(dec, c, q.gid) /\ ~Ready(c, S)
  BY DEF PInv, ReceiverInv, Kept
<1>6. IsFiniteSet(S) /\ OneEach(S)
  <2>1. CASE q.gid \in DOMAIN dec[c].groups
    <3>1. GroupOK(c, q.gid, dec[c].groups[q.gid].shards, Coded(fed))
      BY <1>4, <1>5, <2>1 DEF DecoderOK, OpenOK
    <3> QED BY <1>5, <2>1, <3>1 DEF GroupIn, GroupOK
  <2>2. CASE q.gid \notin DOMAIN dec[c].groups
    <3>1. S = {} BY <1>5, <2>2 DEF GroupIn
    <3> QED BY <3>1, FS_EmptySet DEF OneEach
  <2> QED BY <2>1, <2>2
<1>7. \A t \in S : t \in fed /\ t \in OnWire /\ t.code = c /\ t.gid = q.gid
  BY <1>1, <1>2 DEF FedOf
<1> HIDE DEF S, c
<1>8. \A t \in S : t.idx \in 0..(GroupSize[c] - 1) BY <1>3, <1>7 DEF IsShard
<1>9. Cardinality(S) >= DataShards[c] BY DEF S, c
<1>10. Missing(c, S) = {} BY <1>4, <1>5, <1>6, <1>8, <1>9, NotReadyMissesNothing
<1>11. DataShards[c] \in Nat \ {0} /\ Len(q.body) = DataShards[c]
  BY <1>2, <1>3, <1>4, SizesAreNat DEF Consistent, IsWhole, c
<1>12. i - 1 \in 0..(DataShards[c] - 1) /\ (i - 1) + 1 = i BY <1>11
<1>13. PICK t \in S : t.idx = i - 1 BY <1>10, <1>12 DEF Missing, Indices
<1>14. ~IsParity(t) BY <1>7, <1>11, <1>12, <1>13 DEF IsParity
<1>15. Agree(q, t) BY <1>2, <1>3, <1>7 DEF Consistent
<1>16. t.body = <<q.body[i]>> BY <1>2, <1>7, <1>12, <1>13, <1>14, <1>15 DEF Agree, c
<1>17. t.body[1] \in Known BY <1>7, <1>14 DEF DataKnown, IsFecParity
<1> QED BY <1>16, <1>17

(***************************************************************************)
(* Without a key, until the sender restarts: when the decoder was given as *)
(* many shards of a group, one of them parity, as the group has data, each *)
(* of its packets was written to the TUN or waits in the reorder buffer,   *)
(* unless the group expired.  Neither losses, nor the order of arrival,    *)
(* nor the bounded record of finished groups, nor what dedup and the       *)
(* timeouts do in between, loses one (server.py:211-246,                   *)
(* client.py:521-545).                                                     *)
(***************************************************************************)
THEOREM EnoughReachTun ==
  ASSUME ~Encrypted, EachItsOwn
  PROVE  Spec => []EnoughFedReachTun
<1>1. Init => EInv BY InitEInv
<1>2. EInv /\ [Next]_vars => EInv' BY StepEInv
<1>3. EInv => EnoughFedReachTun
  <2> SUFFICES ASSUME EInv, NEW q \in fed, IsFecParity(q), restarts.sender = 0,
                      <<q.code, q.gid>> \notin expired,
                      Cardinality(FedOf(q.code, q.gid)) >= DataShards[q.code],
                      NEW i \in 1..Len(q.body)
               PROVE  q.body[i] \in Known
    BY DEF EnoughFedReachTun, FedOf, Known
  <2>1. PInv /\ Genuine /\ DataKnown /\ GroupsKnown BY DEF EInv, GInv
  <2>2. q \in OnWire /\ IsParity(q) BY DEF OnWire, Coded, IsFecParity
  <2>3. q.code \in UsedCodes /\ q.gid \in Nat BY <2>1, <2>2 DEF Genuine, IsShard
  <2>4. Kept(q.code, q.gid) \/ Complete(q.code, q.gid) BY <2>1, <2>3 DEF GroupsKnown
  <2>5. CASE Kept(q.code, q.gid) BY <2>1, <2>5, KeptIsKnown
  <2>6. CASE Complete(q.code, q.gid) BY <2>2, <2>6 DEF Complete
  <2> QED BY <2>4, <2>5, <2>6
<1> QED BY <1>1, <1>2, <1>3, PTL DEF Spec
=============================================================================
