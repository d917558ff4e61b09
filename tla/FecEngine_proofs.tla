-------------------------- MODULE FecEngine_proofs --------------------------
(***************************************************************************)
(* Lemmas about the encoders and decoders of FecEngine, for any sizes of   *)
(* the codes: what a decoder holds, when it is ready, and what it then     *)
(* gives back.  FecChannel_proofs and Tunnel_proofs rest on them.          *)
(*                                                                         *)
(* K stands for the shards a decoder may ever be given.                    *)
(***************************************************************************)
EXTENDS FecEngine, TLAPS, FiniteSetTheorems, SequenceTheorems

\* What every shard is, with bodies from B.
IsShard(s, B) ==
  /\ s.code \in Codes /\ s.gid \in Nat /\ s.idx \in 0..(GroupSize[s.code] - 1)
  /\ s.body \in Seq(B)

\* A data shard carries one body, a parity shard those of its group.
IsWhole(s) == IF IsParity(s) THEN Len(s.body) = DataShards[s.code]
              ELSE s.body = <<s.body[1]>>

\* Two shards of one group tell the same story.
Agree(s, t) ==
  s.code = t.code /\ s.gid = t.gid =>
    /\ s.idx = t.idx => s = t
    /\ IsParity(s) => t.body = IF IsParity(t) THEN s.body ELSE <<s.body[t.idx + 1]>>

Consistent(K) == (\A s \in K : IsWhole(s)) /\ (\A s, t \in K : Agree(s, t))

\* Is the decoder that decode_packet picks for code c the one of c?
OwnDecoder(c) == DecoderFor(GroupSize[c]) = c

OneEach(shards) == \A s, t \in shards : s.idx = t.idx => s = t

\* The shards an open group g of decoder d may hold.
GroupOK(d, g, shards, K) ==
  /\ shards \subseteq K /\ IsFiniteSet(shards) /\ OneEach(shards)
  /\ \A t \in shards : t.gid = g /\ DecoderFor(GroupSize[t.code]) = d

OpenOK(d, one, K) ==
  \A g \in DOMAIN one.groups :
    /\ g \notin one.done
    /\ one.groups[g] \in [shards : SUBSET K, age : 0..GroupTimeout]
    /\ GroupOK(d, g, one.groups[g].shards, K)

DecoderOK(dec, K) ==
  /\ dec = [d \in Codes |-> [groups |-> dec[d].groups, done |-> dec[d].done]]
  /\ \A d \in Codes :
       /\ dec[d].done \subseteq Nat /\ IsFiniteSet(dec[d].done)
       /\ OpenOK(d, dec[d], K)

-----------------------------------------------------------------------------
(* Sizes. *)

LEMMA SizesAreNat ==
  /\ DataShards \in [Codes -> Nat \ {0}]
  /\ ParityShards \in [Codes -> Nat \ {0}]
  /\ GroupSize \in [Codes -> Nat \ {0}]
<1>1. HeavyData \in Nat \ {0} BY FecAssumption DEF HeavyData
<1>2. DataShards \in [Codes -> Nat \ {0}]
  BY <1>1, FecAssumption DEF DataShards, Codes
<1>3. ParityShards \in [Codes -> Nat \ {0}]
  BY FecAssumption DEF ParityShards, Codes
<1> QED BY <1>2, <1>3 DEF GroupSize

LEMMA DecoderType == ASSUME NEW size PROVE DecoderFor(size) \in Codes
BY DEF DecoderFor, Codes

\* A mode and a tier pick one of the codes, or none.
LEMMA CodeType ==
  ASSUME NEW mode \in Modes, NEW tier
  PROVE  CodeFor(mode, tier) \in Codes \cup {"none"}
  BY DEF CodeFor, Modes, Codes

-----------------------------------------------------------------------------
(* Encoding. *)

\* The shards encode_packet returns for body b: its own, and the parity of
\* the group that b completes.
LEMMA EncodeOutIs ==
  ASSUME NEW enc, NEW c \in Codes, NEW b
  PROVE  LET data == [code |-> c, gid |-> enc[c].gid, idx |-> Len(enc[c].held), body |-> <<b>>]
             parity(i) == [code |-> c, gid |-> enc[c].gid, idx |-> DataShards[c] + i - 1,
                           body |-> Filled(enc, c, b)]
             out == EncodeOut(enc, c, b)
         IN  /\ Len(out) = IF IsComplete(enc, c, b) THEN 1 + ParityShards[c] ELSE 1
             /\ Len(out) \in Nat \ {0}
             /\ out[1] = data
             /\ \A i \in 2..Len(out) : IsComplete(enc, c, b) /\ out[i] = parity(i - 1)
             /\ \A i \in 2..Len(out) : i - 1 \in 1..ParityShards[c]
<1> DEFINE data == [code |-> c, gid |-> enc[c].gid, idx |-> Len(enc[c].held), body |-> <<b>>]
           parity(i) == [code |-> c, gid |-> enc[c].gid, idx |-> DataShards[c] + i - 1,
                         body |-> Filled(enc, c, b)]
           many == [i \in 1..ParityShards[c] |-> parity(i)]
           T == {data} \cup {parity(i) : i \in 1..ParityShards[c]}
           out == EncodeOut(enc, c, b)
<1>1. ParityShards[c] \in Nat \ {0} BY SizesAreNat
<1> HIDE DEF data, parity
<1>2. many \in Seq(T) /\ Len(many) = ParityShards[c]
      /\ \A i \in 1..ParityShards[c] : many[i] = parity(i)
  <2>1. \A i \in 1..ParityShards[c] : parity(i) \in T OBVIOUS
  <2>2. many \in [1..ParityShards[c] -> T] BY <2>1
  <2> QED BY <1>1, <2>2
<1>3. <<data>> \in Seq(T) /\ << >> \in Seq(T) /\ Len(<<data>>) = 1 OBVIOUS
<1>4. out = <<data>> \o (IF IsComplete(enc, c, b) THEN many ELSE << >>)
  BY DEF EncodeOut, data, parity
<1> HIDE DEF many, T, out
<1>5. CASE IsComplete(enc, c, b)
  <2>1. out = <<data>> \o many BY <1>4, <1>5
  <2>2. /\ Len(out) = 1 + ParityShards[c]
        /\ \A i \in 1..(1 + ParityShards[c]) :
             out[i] = IF i <= 1 THEN <<data>>[i] ELSE many[i - 1]
    BY <1>2, <1>3, <2>1, ConcatProperties
  <2>3. out[1] = data BY <1>1, <2>2
  <2>4. ASSUME NEW i \in 2..Len(out) PROVE out[i] = parity(i - 1) /\ i - 1 \in 1..ParityShards[c]
    <3>1. i \in 1..(1 + ParityShards[c]) /\ ~(i <= 1) /\ i - 1 \in 1..ParityShards[c]
      BY <1>1, <2>2
    <3> QED BY <1>2, <2>2, <3>1
  <2> QED BY <1>1, <1>5, <2>2, <2>3, <2>4 DEF data, parity, out
<1>6. CASE ~IsComplete(enc, c, b)
  <2>1. out = <<data>> \o << >> BY <1>4, <1>6
  <2>2. out = <<data>> BY <1>3, <2>1
  <2> QED BY <1>6, <2>2 DEF data, parity, out
<1> QED BY <1>5, <1>6

-----------------------------------------------------------------------------
(* What an encoder adds to the shards sent before. *)

\* Every encoder fills a group that is not complete yet.
EncoderOK(e, B) ==
  /\ e = [c \in Codes |-> [gid |-> e[c].gid, held |-> e[c].held]]
  /\ \A c \in Codes : /\ e[c].gid \in Nat /\ e[c].held \in Seq(B)
                      /\ Len(e[c].held) < DataShards[c]

\* Of the groups being filled, K has data shards only, and those the encoders
\* hold; it has nothing of later groups.
OpenGroup(e, K) ==
  \A s \in K :
    /\ s.gid <= e[s.code].gid
    /\ s.gid = e[s.code].gid =>
         /\ ~IsParity(s) /\ s.idx < Len(e[s.code].held)
         /\ s.body = <<e[s.code].held[s.idx + 1]>>

DataOut(e, c, b) == [code |-> c, gid |-> e[c].gid, idx |-> Len(e[c].held), body |-> <<b>>]
ParityOut(e, c, b, i) == [code |-> c, gid |-> e[c].gid, idx |-> i, body |-> Filled(e, c, b)]
NewShards(e, c, b) == {EncodeOut(e, c, b)[i] : i \in 1..Len(EncodeOut(e, c, b))}

LEMMA NewEncoderOK == ASSUME NEW B PROVE EncoderOK(NewEncoder, B)
<1>1. \A c \in Codes : NewEncoder[c] = [gid |-> 0, held |-> << >>] BY DEF NewEncoder
<1>2. << >> \in Seq(B) /\ Len(<< >>) = 0 OBVIOUS
<1>3. NewEncoder = [c \in Codes |-> [gid |-> NewEncoder[c].gid, held |-> NewEncoder[c].held]]
  BY DEF NewEncoder
<1>4. \A c \in Codes : /\ NewEncoder[c].gid \in Nat /\ NewEncoder[c].held \in Seq(B)
                        /\ Len(NewEncoder[c].held) < DataShards[c]
  <2> SUFFICES ASSUME NEW c \in Codes
               PROVE  /\ NewEncoder[c].gid \in Nat /\ NewEncoder[c].held \in Seq(B)
                      /\ Len(NewEncoder[c].held) < DataShards[c]
    OBVIOUS
  <2>1. NewEncoder[c].gid = 0 /\ NewEncoder[c].held = << >> BY <1>1
  <2>2. DataShards[c] \in Nat \ {0} BY SizesAreNat
  <2> QED BY <1>2, <2>1, <2>2
<1> QED BY <1>3, <1>4 DEF EncoderOK

\* Encoders filled from B are filled from more, and shards with bodies from B.
LEMMA EncoderMonotone ==
  ASSUME NEW e, NEW B, NEW C, EncoderOK(e, B), B \subseteq C
  PROVE  EncoderOK(e, C)
<1>1. Seq(B) \subseteq Seq(C) OBVIOUS
<1> QED BY <1>1 DEF EncoderOK

LEMMA ShardMonotone ==
  ASSUME NEW s, NEW B, NEW C, IsShard(s, B), B \subseteq C
  PROVE  IsShard(s, C)
<1>1. Seq(B) \subseteq Seq(C) OBVIOUS
<1> QED BY <1>1 DEF IsShard

\* The group of code c once body b is added.
LEMMA FilledIs ==
  ASSUME NEW e, NEW B, EncoderOK(e, B), NEW c \in Codes, NEW b \in B
  PROVE  /\ Filled(e, c, b) \in Seq(B) /\ Len(Filled(e, c, b)) = Len(e[c].held) + 1
         /\ \A i \in 1..Len(e[c].held) : Filled(e, c, b)[i] = e[c].held[i]
         /\ Filled(e, c, b)[Len(e[c].held) + 1] = b
         /\ IsComplete(e, c, b) <=> Len(e[c].held) + 1 = DataShards[c]
<1>1. e[c].held \in Seq(B) BY DEF EncoderOK
<1> QED BY <1>1, AppendProperties DEF Filled, IsComplete

\* The first shard that comes out is the data shard.
LEMMA DataOutIs ==
  ASSUME NEW e, NEW B, EncoderOK(e, B), NEW c \in Codes, NEW b \in B
  PROVE  /\ EncodeOut(e, c, b)[1] = DataOut(e, c, b)
         /\ DataOut(e, c, b) \in NewShards(e, c, b)
         /\ IsShard(DataOut(e, c, b), B) /\ IsWhole(DataOut(e, c, b))
         /\ ~IsParity(DataOut(e, c, b))
<1> DEFINE data == DataOut(e, c, b)
<1>1. e[c].gid \in Nat /\ e[c].held \in Seq(B) /\ Len(e[c].held) < DataShards[c]
  BY DEF EncoderOK
<1>2. /\ DataShards[c] \in Nat \ {0} /\ ParityShards[c] \in Nat \ {0}
      /\ GroupSize[c] = DataShards[c] + ParityShards[c]
  BY SizesAreNat DEF GroupSize
<1>3. data.code = c /\ data.gid = e[c].gid /\ data.idx = Len(e[c].held) /\ data.body = <<b>>
  BY DEF DataOut
<1>4. data.idx \in 0..(GroupSize[c] - 1) /\ ~(data.idx >= DataShards[c])
  BY <1>1, <1>2, <1>3
<1>5. data.body \in Seq(B) /\ data.body = <<data.body[1]>> BY <1>3
<1>6. EncodeOut(e, c, b)[1] = data /\ Len(EncodeOut(e, c, b)) \in Nat \ {0}
  BY EncodeOutIs DEF DataOut
<1>7. data \in NewShards(e, c, b) BY <1>6 DEF NewShards
<1> HIDE DEF data
<1> QED BY <1>1, <1>3, <1>4, <1>5, <1>6, <1>7 DEF IsShard, IsWhole, IsParity, data

\* The others are the parity of the group, once it is complete.
LEMMA ParityOutIs ==
  ASSUME NEW e, NEW B, EncoderOK(e, B), NEW c \in Codes, NEW b \in B,
         NEW n \in 2..Len(EncodeOut(e, c, b))
  PROVE  LET s == EncodeOut(e, c, b)[n]
         IN  /\ IsComplete(e, c, b) /\ s = ParityOut(e, c, b, s.idx)
             /\ IsShard(s, B) /\ IsWhole(s) /\ IsParity(s) /\ s.code = c
<1> DEFINE i == DataShards[c] + (n - 1) - 1
           s == ParityOut(e, c, b, i)
<1>1. /\ IsComplete(e, c, b) /\ n - 1 \in 1..ParityShards[c]
      /\ EncodeOut(e, c, b)[n] = s
  BY EncodeOutIs DEF ParityOut
<1>2. /\ DataShards[c] \in Nat \ {0} /\ ParityShards[c] \in Nat \ {0}
      /\ GroupSize[c] = DataShards[c] + ParityShards[c]
  BY SizesAreNat DEF GroupSize
<1>3. i \in 0..(GroupSize[c] - 1) /\ i >= DataShards[c] BY <1>1, <1>2
<1> HIDE DEF i
<1>4. /\ s.code = c /\ s.gid = e[c].gid /\ s.idx = i /\ s.body = Filled(e, c, b)
      /\ s = ParityOut(e, c, b, s.idx)
  BY DEF ParityOut
<1>5. e[c].gid \in Nat BY DEF EncoderOK
<1>6. s.body \in Seq(B) /\ Len(s.body) = DataShards[c] BY <1>1, <1>4, FilledIs
<1> HIDE DEF s
<1>7. IsShard(s, B) /\ IsWhole(s) /\ IsParity(s)
  BY <1>3, <1>4, <1>5, <1>6 DEF IsShard, IsWhole, IsParity
<1> QED BY <1>1, <1>4, <1>7

\* Every shard that comes out is the data shard or one of the parity shards.
LEMMA NewShardIs ==
  ASSUME NEW e, NEW B, EncoderOK(e, B), NEW c \in Codes, NEW b \in B,
         NEW s \in NewShards(e, c, b)
  PROVE  /\ IsShard(s, B) /\ IsWhole(s) /\ s.code = c /\ s.gid = e[c].gid
         /\ s.idx \in Nat /\ s.idx >= Len(e[c].held)
         /\ IsParity(s) => /\ IsComplete(e, c, b) /\ s = ParityOut(e, c, b, s.idx)
                           /\ s.body = Filled(e, c, b) /\ s.idx >= DataShards[c]
         /\ ~IsParity(s) => s = DataOut(e, c, b)
<1>1. PICK n \in 1..Len(EncodeOut(e, c, b)) : s = EncodeOut(e, c, b)[n] BY DEF NewShards
<1>2. DataShards[c] \in Nat \ {0} /\ GroupSize[c] \in Nat \ {0} BY SizesAreNat
<1>3. e[c].held \in Seq(B) /\ Len(e[c].held) \in Nat /\ Len(e[c].held) < DataShards[c]
  <2>1. e[c].held \in Seq(B) /\ Len(e[c].held) < DataShards[c] BY DEF EncoderOK
  <2> QED BY <2>1
<1>4. CASE n = 1
  <2>1. s = DataOut(e, c, b) BY <1>1, <1>4, DataOutIs
  <2>2. IsShard(s, B) /\ IsWhole(s) /\ ~IsParity(s) BY <2>1, DataOutIs
  <2>3. s.code = c /\ s.gid = e[c].gid /\ s.idx = Len(e[c].held) BY <2>1 DEF DataOut
  <2> QED BY <1>3, <2>1, <2>2, <2>3
<1>5. CASE n # 1
  <2>1. n \in 2..Len(EncodeOut(e, c, b)) BY <1>5, EncodeOutIs
  <2>2. /\ IsComplete(e, c, b) /\ s = ParityOut(e, c, b, s.idx)
        /\ IsShard(s, B) /\ IsWhole(s) /\ IsParity(s) /\ s.code = c
    BY <1>1, <2>1, ParityOutIs
  <2>3. s.gid = e[c].gid /\ s.body = Filled(e, c, b) BY <2>2 DEF ParityOut
  <2>4. s.idx \in Nat BY <1>2, <2>2 DEF IsShard
  <2>5. s.idx >= DataShards[c] BY <2>2 DEF IsParity
  <2> QED BY <1>2, <1>3, <2>2, <2>3, <2>4, <2>5
<1> QED BY <1>4, <1>5

\* What body b changes in the encoders: only the one of code c.
EncoderStep(e, c, b, next) ==
  /\ next = [d \in Codes |-> next[d]]
  /\ \A d \in Codes \ {c} : next[d] = e[d]
  /\ next[c] = IF IsComplete(e, c, b) THEN [gid |-> e[c].gid + 1, held |-> << >>]
               ELSE [gid |-> e[c].gid, held |-> Filled(e, c, b)]

LEMMA EncodeNextIs ==
  ASSUME NEW e, NEW B, EncoderOK(e, B), NEW c \in Codes, NEW b \in B
  PROVE  EncoderStep(e, c, b, EncodeNext(e, c, b))
<1> DEFINE next == IF IsComplete(e, c, b) THEN [gid |-> e[c].gid + 1, held |-> << >>]
                   ELSE [gid |-> e[c].gid, held |-> Filled(e, c, b)]
           f == EncodeNext(e, c, b)
<1>1. f = [e EXCEPT ![c] = next]
  <2>1. e[c] = [gid |-> e[c].gid, held |-> e[c].held] BY DEF EncoderOK
  <2>2. [e[c] EXCEPT !.held = Filled(e, c, b)] = [gid |-> e[c].gid, held |-> Filled(e, c, b)]
    BY <2>1
  <2> QED BY <2>1, <2>2 DEF EncodeNext
<1> HIDE DEF next, f
<1>2. f[c] = next /\ (\A d \in Codes \ {c} : f[d] = e[d]) /\ f = [d \in Codes |-> f[d]]
  BY <1>1 DEF EncoderOK
<1> QED BY <1>2 DEF f, next, EncoderStep

LEMMA EncodeNextOK ==
  ASSUME NEW e, NEW B, EncoderOK(e, B), NEW c \in Codes, NEW b \in B
  PROVE  EncoderOK(EncodeNext(e, c, b), B)
<1> DEFINE f == EncodeNext(e, c, b)
<1>0. EncoderStep(e, c, b, f) BY EncodeNextIs
<1>1. ASSUME NEW d \in Codes
      PROVE  /\ f[d] = [gid |-> f[d].gid, held |-> f[d].held]
             /\ f[d].gid \in Nat /\ f[d].held \in Seq(B) /\ Len(f[d].held) < DataShards[d]
  <2>0. e[d] = [gid |-> e[d].gid, held |-> e[d].held] /\ e[d].gid \in Nat
        /\ e[d].held \in Seq(B) /\ Len(e[d].held) < DataShards[d] /\ DataShards[d] \in Nat \ {0}
    BY SizesAreNat DEF EncoderOK
  <2>1. CASE d # c
    <3>1. f[d] = e[d] BY <2>1, <1>0 DEF EncoderStep
    <3> HIDE DEF f
    <3> QED BY <2>0, <3>1
  <2>2. CASE d = c /\ IsComplete(e, c, b)
    <3>1. f[d] = [gid |-> e[d].gid + 1, held |-> << >>] BY <2>2, <1>0 DEF EncoderStep
    <3>2. << >> \in Seq(B) /\ Len(<< >>) = 0 OBVIOUS
    <3> HIDE DEF f
    <3> QED BY <2>0, <3>1, <3>2
  <2>3. CASE d = c /\ ~IsComplete(e, c, b)
    <3>1. f[d] = [gid |-> e[d].gid, held |-> Filled(e, d, b)] BY <2>3, <1>0 DEF EncoderStep
    <3>2. Filled(e, d, b) \in Seq(B) /\ Len(Filled(e, d, b)) < DataShards[d]
      BY <2>0, <2>3, FilledIs
    <3> HIDE DEF f
    <3> QED BY <2>0, <3>1, <3>2
  <2> QED BY <2>1, <2>2, <2>3
<1>2. f = [d \in Codes |-> f[d]] BY <1>0 DEF EncoderStep
<1> HIDE DEF f
<1>3. f = [d \in Codes |-> [gid |-> f[d].gid, held |-> f[d].held]] BY <1>1, <1>2
<1>4. EncoderOK(f, B) BY <1>1, <1>3 DEF EncoderOK
<1> QED BY <1>4 DEF f

\* Shards of the open group agree with those that come out.
LEMMA OpenAgrees ==
  ASSUME NEW e, NEW B, EncoderOK(e, B), NEW c \in Codes, NEW b \in B,
         NEW K, OpenGroup(e, K), \A s \in K : IsShard(s, B),
         NEW s \in K, NEW t \in NewShards(e, c, b)
  PROVE  Agree(s, t) /\ Agree(t, s)
<1> SUFFICES ASSUME s.code = c, s.gid = e[c].gid PROVE Agree(s, t) /\ Agree(t, s)
  BY NewShardIs DEF Agree
<1>1. ~IsParity(s) /\ s.idx < Len(e[c].held) /\ s.body = <<e[c].held[s.idx + 1]>>
  BY DEF OpenGroup
<1>2. s.idx \in Nat /\ Len(e[c].held) \in Nat
  <2>1. GroupSize[c] \in Nat \ {0} /\ s.idx \in 0..(GroupSize[c] - 1) BY SizesAreNat DEF IsShard
  <2>2. e[c].held \in Seq(B) BY DEF EncoderOK
  <2> QED BY <2>1, <2>2
<1>3. t.idx \in Nat /\ t.idx >= Len(e[c].held) /\ (IsParity(t) => t.body = Filled(e, c, b))
  BY NewShardIs
<1>4. s.idx # t.idx BY <1>1, <1>2, <1>3
<1>5. Filled(e, c, b)[s.idx + 1] = e[c].held[s.idx + 1]
  <2>1. s.idx + 1 \in 1..Len(e[c].held) BY <1>1, <1>2
  <2> QED BY <2>1, FilledIs
<1> QED BY <1>1, <1>3, <1>4, <1>5 DEF Agree

\* What comes out agrees with itself.
LEMMA NewAgree ==
  ASSUME NEW e, NEW B, EncoderOK(e, B), NEW c \in Codes, NEW b \in B,
         NEW s \in NewShards(e, c, b), NEW t \in NewShards(e, c, b)
  PROVE  Agree(s, t)
<1>0. DataShards[c] \in Nat \ {0} /\ Len(e[c].held) \in Nat /\ Len(e[c].held) < DataShards[c]
  <2>1. e[c].held \in Seq(B) /\ Len(e[c].held) < DataShards[c] BY DEF EncoderOK
  <2> QED BY <2>1, SizesAreNat
<1>1. CASE ~IsParity(s) /\ ~IsParity(t) BY <1>1, NewShardIs DEF Agree
<1>2. CASE ~IsParity(s) /\ IsParity(t)
  <2>1. s.idx = Len(e[c].held) /\ t.idx >= DataShards[c] /\ t.idx \in Nat
    BY <1>2, NewShardIs DEF DataOut
  <2> QED BY <1>0, <1>2, <2>1 DEF Agree
<1>3. CASE IsParity(s) /\ ~IsParity(t)
  <2>1. s.idx >= DataShards[c] /\ s.idx \in Nat /\ s.body = Filled(e, c, b) BY <1>3, NewShardIs
  <2>2. t = DataOut(e, c, b) BY <1>3, NewShardIs
  <2>3. t.idx = Len(e[c].held) /\ t.body = <<b>> BY <2>2 DEF DataOut
  <2>4. t.body = <<s.body[t.idx + 1]>> BY <2>1, <2>3, FilledIs
  <2> QED BY <1>0, <1>3, <2>1, <2>3, <2>4 DEF Agree
<1>4. CASE IsParity(s) /\ IsParity(t)
  <2>1. s = ParityOut(e, c, b, s.idx) /\ s.body = Filled(e, c, b) BY <1>4, NewShardIs
  <2>2. t = ParityOut(e, c, b, t.idx) /\ t.body = Filled(e, c, b) BY <1>4, NewShardIs
  <2>3. s.idx = t.idx => s = t BY <2>1, <2>2
  <2> QED BY <1>4, <2>1, <2>2, <2>3 DEF Agree
<1> QED BY <1>1, <1>2, <1>3, <1>4

\* Encoding keeps the shards consistent, and the open groups open.
LEMMA EncodeConsistent ==
  ASSUME NEW e, NEW B, EncoderOK(e, B), NEW c \in Codes, NEW b \in B,
         NEW K, \A s \in K : IsShard(s, B), Consistent(K), OpenGroup(e, K)
  PROVE  /\ Consistent(K \cup NewShards(e, c, b))
         /\ OpenGroup(EncodeNext(e, c, b), K \cup NewShards(e, c, b))
<1> DEFINE new == NewShards(e, c, b)
           f == EncodeNext(e, c, b)
           g == e[c].gid
           held == e[c].held
<1>0. EncoderStep(e, c, b, f) BY EncodeNextIs
<1>1. \A s \in K, t \in new : Agree(s, t) /\ Agree(t, s) BY OpenAgrees
<1>2. \A s \in new, t \in new : Agree(s, t) BY NewAgree
<1>3. \A s \in new : IsWhole(s) BY NewShardIs
<1>4. Consistent(K \cup new) BY <1>1, <1>2, <1>3 DEF Consistent
<1>5. g \in Nat /\ held \in Seq(B) /\ Len(held) \in Nat BY DEF EncoderOK
<1>6. ASSUME NEW s \in K \cup new
      PROVE  /\ s.gid <= f[s.code].gid
             /\ s.gid = f[s.code].gid =>
                  /\ ~IsParity(s) /\ s.idx < Len(f[s.code].held)
                  /\ s.body = <<f[s.code].held[s.idx + 1]>>
  <2>1. s.code \in Codes /\ s.gid \in Nat /\ s.idx \in Nat
    <3>1. IsShard(s, B) BY NewShardIs
    <3> QED BY <3>1, SizesAreNat DEF IsShard
  <2>2. CASE s.code # c
    <3>1. s \in K BY <2>2, NewShardIs
    <3>2. \A d \in Codes \ {c} : f[d] = e[d] BY <1>0 DEF EncoderStep
    <3>3. f[s.code] = e[s.code] BY <2>1, <2>2, <3>2
    <3> HIDE DEF f
    <3> QED BY <3>1, <3>3 DEF OpenGroup
  <2>3. CASE s.code = c /\ IsComplete(e, c, b)
    <3>1. f[c] = [gid |-> g + 1, held |-> << >>] BY <2>3, <1>0 DEF EncoderStep
    <3>2. s.gid <= g
      <4>1. CASE s \in K BY <2>3, <4>1 DEF OpenGroup
      <4>2. CASE s \in new BY <1>5, <4>2, NewShardIs
      <4> QED BY <4>1, <4>2
    <3>3. f[c].gid = g + 1 BY <3>1
    <3> HIDE DEF f, g
    <3> QED BY <1>5, <2>1, <2>3, <3>2, <3>3
  <2>4. CASE s.code = c /\ ~IsComplete(e, c, b)
    <3> DEFINE full == Filled(e, c, b)
    <3>0. f[c] = [gid |-> g, held |-> full] BY <2>4, <1>0 DEF EncoderStep
    <3>1. f[c].gid = g /\ f[c].held = full
      <4> HIDE DEF f, full, g
      <4> QED BY <3>0
    <3>2. Len(full) = Len(held) + 1 /\ full[Len(held) + 1] = b
          /\ \A i \in 1..Len(held) : full[i] = held[i]
      BY FilledIs
    <3> HIDE DEF full
    <3>3. CASE s \in K
      <4>1. /\ s.gid <= g
            /\ s.gid = g => /\ ~IsParity(s) /\ s.idx < Len(held)
                            /\ s.body = <<held[s.idx + 1]>>
        BY <2>4, <3>3 DEF OpenGroup
      <4>2. s.idx < Len(held) => s.idx + 1 \in 1..Len(held) /\ s.idx < Len(full)
        BY <1>5, <2>1, <3>2
      <4> HIDE DEF held, g, f
      <4> QED BY <2>4, <3>1, <3>2, <4>1, <4>2
    <3>4. CASE s \in new
      <4>1. s.gid = g /\ s = DataOut(e, c, b) /\ ~IsParity(s) BY <2>4, <3>4, NewShardIs
      <4>2. s.idx = Len(held) /\ s.body = <<b>> BY <4>1 DEF DataOut
      <4> HIDE DEF held, g, f
      <4> QED BY <1>5, <2>4, <3>1, <3>2, <4>1, <4>2
    <3> QED BY <3>3, <3>4
  <2> QED BY <2>2, <2>3, <2>4
<1> QED BY <1>4, <1>6 DEF OpenGroup

-----------------------------------------------------------------------------
(* What a decoder holds. *)

LEMMA NewDecoderOK == ASSUME NEW K PROVE DecoderOK(NewDecoder, K)
<1>1. \A d \in Codes : NewDecoder[d] = [groups |-> << >>, done |-> {}] BY DEF NewDecoder
<1>2. DOMAIN << >> = {} OBVIOUS
<1>3. NewDecoder = [d \in Codes |-> [groups |-> NewDecoder[d].groups, done |-> NewDecoder[d].done]]
  BY DEF NewDecoder
<1> QED BY <1>1, <1>2, <1>3, FS_EmptySet DEF DecoderOK, OpenOK

\* A decoder that is fine with K is fine with more.
LEMMA DecoderMonotone ==
  ASSUME NEW dec, NEW K, NEW L, DecoderOK(dec, K), K \subseteq L
  PROVE  DecoderOK(dec, L)
BY DEF DecoderOK, OpenOK, GroupOK

\* The shards of the group of s once s is stored.
LEMMA StoredOK ==
  ASSUME NEW dec, NEW K, DecoderOK(dec, K), NEW s \in K, s.code \in Codes
  PROVE  LET d == DecoderFor(GroupSize[s.code])
         IN  s \in Stored(dec, d, s) /\ GroupOK(d, s.gid, Stored(dec, d, s), K)
<1> DEFINE d == DecoderFor(GroupSize[s.code])
           held == IF s.gid \in DOMAIN dec[d].groups THEN dec[d].groups[s.gid].shards ELSE {}
           rest == {t \in held : t.idx # s.idx}
<1>1. d \in Codes BY DecoderType
<1>2. GroupOK(d, s.gid, held, K)
  <2>1. OpenOK(d, dec[d], K) BY <1>1 DEF DecoderOK
  <2>2. CASE s.gid \in DOMAIN dec[d].groups BY <2>1, <2>2 DEF OpenOK
  <2>3. CASE s.gid \notin DOMAIN dec[d].groups
    <3>1. held = {} BY <2>3
    <3> QED BY <3>1, FS_EmptySet DEF GroupOK, OneEach
  <2> QED BY <2>2, <2>3
<1> HIDE DEF held
<1>3. IsFiniteSet(rest) BY <1>2, FS_Subset DEF GroupOK
<1>4. IsFiniteSet(rest \cup {s}) BY <1>3, FS_AddElement
<1>5. OneEach(rest \cup {s}) BY <1>2 DEF GroupOK, OneEach
<1>6. Stored(dec, d, s) = rest \cup {s} BY DEF Stored, held
<1> QED BY <1>2, <1>4, <1>5, <1>6 DEF GroupOK

\* The record of finished groups only gets a new member or loses old ones.
LEMMA FinishType ==
  ASSUME NEW d, NEW done \in SUBSET Nat, IsFiniteSet(done), NEW g \in Nat
  PROVE  /\ Finish(d, done, g) \subseteq done \cup {g}
         /\ IsFiniteSet(Finish(d, done, g))
<1>1. \A S, n : DropLeast(S, n) \subseteq S BY DEF DropLeast
<1>2. IsFiniteSet(done \cup {g}) BY FS_AddElement
<1>3. Finish(d, done, g) \subseteq done \cup {g} BY <1>1 DEF Finish
<1> QED BY <1>2, <1>3, FS_Subset

LEMMA DecodeNextOK ==
  ASSUME NEW dec, NEW K, DecoderOK(dec, K), NEW s \in K, s.code \in Codes, s.gid \in Nat
  PROVE  DecoderOK(DecodeNext(dec, s), K)
<1> DEFINE d == DecoderFor(GroupSize[s.code])
           g == s.gid
           open == dec[d].groups
           shards == Stored(dec, d, s)
           old == IF g \in DOMAIN open THEN open[g].age ELSE 0
<1>1. d \in Codes BY DecoderType
<1>2. GroupOK(d, g, shards, K) BY StoredOK
<1>3. OpenOK(d, dec[d], K) /\ dec[d].done \subseteq Nat /\ IsFiniteSet(dec[d].done)
  BY <1>1 DEF DecoderOK
<1>4. CASE g \in dec[d].done BY <1>4 DEF DecodeNext
<1>5. CASE g \notin dec[d].done /\ Ready(d, shards)
  <2> DEFINE one == [groups |-> Without(open, g), done |-> Finish(d, dec[d].done, g)]
  <2>1. DecodeNext(dec, s) = [dec EXCEPT ![d] = one] BY <1>5 DEF DecodeNext
  <2>2. /\ Finish(d, dec[d].done, g) \subseteq dec[d].done \cup {g}
        /\ IsFiniteSet(Finish(d, dec[d].done, g))
    BY <1>3, FinishType
  <2>3. OpenOK(d, one, K)
    BY <1>3, <2>2 DEF OpenOK, Without
  <2>4. one.done \subseteq Nat /\ IsFiniteSet(one.done) BY <1>3, <2>2
  <2>5. one = [groups |-> one.groups, done |-> one.done] OBVIOUS
  <2> HIDE DEF one, d
  <2> QED BY <1>1, <2>1, <2>3, <2>4, <2>5 DEF DecoderOK
<1>6. CASE g \notin dec[d].done /\ ~Ready(d, shards)
  <2> DEFINE grown == [h \in DOMAIN open \cup {g} |->
                         IF h = g THEN [shards |-> shards, age |-> old] ELSE open[h]]
             one == [groups |-> grown, done |-> dec[d].done]
  <2>1. DecodeNext(dec, s) = [dec EXCEPT ![d].groups = grown] BY <1>6 DEF DecodeNext
  <2>2. dec[d] = [groups |-> dec[d].groups, done |-> dec[d].done]
    <3> HIDE DEF d
    <3> QED BY <1>1 DEF DecoderOK
  <2>3. old \in 0..GroupTimeout BY <1>3, FecAssumption DEF OpenOK
  <2>4. OpenOK(d, one, K)
    <3> SUFFICES ASSUME NEW h \in DOMAIN grown
                 PROVE  /\ h \notin dec[d].done
                        /\ grown[h] \in [shards : SUBSET K, age : 0..GroupTimeout]
                        /\ GroupOK(d, h, grown[h].shards, K)
      BY DEF OpenOK
    <3>1. CASE h = g
      <4>1. grown[h] = [shards |-> shards, age |-> old] BY <3>1
      <4> HIDE DEF grown, old, shards
      <4> QED BY <1>2, <1>6, <2>3, <3>1, <4>1 DEF GroupOK
    <3>2. CASE h # g
      <4>1. h \in DOMAIN open /\ grown[h] = open[h] BY <3>2
      <4> HIDE DEF grown
      <4> QED BY <1>3, <4>1 DEF OpenOK
    <3> QED BY <3>1, <3>2
  <2>5. one.done \subseteq Nat /\ IsFiniteSet(one.done) BY <1>3
  <2>6. one = [groups |-> one.groups, done |-> one.done] OBVIOUS
  <2>7. DecodeNext(dec, s) = [dec EXCEPT ![d] = one]
    <3>1. [dec[d] EXCEPT !.groups = grown] = one
      <4> HIDE DEF grown
      <4> QED BY <2>2
    <3> HIDE DEF grown, one, d
    <3> QED BY <2>1, <3>1
  <2> HIDE DEF one, d
  <2> QED BY <1>1, <2>4, <2>5, <2>6, <2>7 DEF DecoderOK
<1> QED BY <1>4, <1>5, <1>6

\* What shard s changes in the decoders: only its group in decoder d.
StepOf(d, dec, s, next) ==
  /\ \A e \in Codes \ {d} : next[e] = dec[e]
  /\ s.gid \in dec[d].done => next = dec
  /\ s.gid \notin dec[d].done /\ Ready(d, Stored(dec, d, s)) =>
       /\ next[d].groups = Without(dec[d].groups, s.gid)
       /\ next[d].done = Finish(d, dec[d].done, s.gid)
  /\ s.gid \notin dec[d].done /\ ~Ready(d, Stored(dec, d, s)) =>
       /\ DOMAIN next[d].groups = DOMAIN dec[d].groups \cup {s.gid}
       /\ next[d].groups[s.gid].shards = Stored(dec, d, s)
       /\ \A h \in DOMAIN dec[d].groups \ {s.gid} :
            next[d].groups[h] = dec[d].groups[h]
       /\ next[d].done = dec[d].done

LEMMA DecodeNextIs ==
  ASSUME NEW dec, NEW K, DecoderOK(dec, K), NEW s,
         NEW d, d = DecoderFor(GroupSize[s.code])
  PROVE  StepOf(d, dec, s, DecodeNext(dec, s))
<1> DEFINE shards == Stored(dec, d, s)
           next == DecodeNext(dec, s)
           old == IF s.gid \in DOMAIN dec[d].groups THEN dec[d].groups[s.gid].age ELSE 0
           grown == [h \in DOMAIN dec[d].groups \cup {s.gid} |->
                       IF h = s.gid THEN [shards |-> shards, age |-> old]
                       ELSE dec[d].groups[h]]
<1>1. d \in Codes BY DecoderType
<1>2. CASE s.gid \in dec[d].done BY <1>2 DEF DecodeNext, StepOf
<1>3. CASE s.gid \notin dec[d].done /\ Ready(d, shards)
  <2> DEFINE one == [groups |-> Without(dec[d].groups, s.gid),
                     done |-> Finish(d, dec[d].done, s.gid)]
  <2>1. next = [dec EXCEPT ![d] = one] BY <1>3 DEF DecodeNext
  <2>2. next[d] = one /\ \A e \in Codes \ {d} : next[e] = dec[e]
    <3> HIDE DEF one, next
    <3> QED BY <1>1, <2>1 DEF DecoderOK
  <2> QED BY <1>3, <2>2 DEF StepOf
<1>4. CASE s.gid \notin dec[d].done /\ ~Ready(d, shards)
  <2>1. next = [dec EXCEPT ![d].groups = grown] BY <1>4 DEF DecodeNext
  <2>2. next[d].groups = grown /\ next[d].done = dec[d].done
        /\ \A e \in Codes \ {d} : next[e] = dec[e]
    <3> HIDE DEF grown, next
    <3> QED BY <1>1, <2>1 DEF DecoderOK
  <2>3. /\ DOMAIN grown = DOMAIN dec[d].groups \cup {s.gid}
        /\ grown[s.gid].shards = shards
        /\ \A h \in DOMAIN dec[d].groups \ {s.gid} : grown[h] = dec[d].groups[h]
    BY DEF shards
  <2> HIDE DEF grown
  <2> QED BY <1>4, <2>2, <2>3 DEF StepOf
<1> QED BY <1>2, <1>3, <1>4

LEMMA ExpireOK ==
  ASSUME NEW dec, NEW K, DecoderOK(dec, K)
  PROVE  DecoderOK(Expire(dec), K)
BY DEF Expire, DecoderOK, OpenOK

LEMMA OlderOK ==
  ASSUME NEW dec, NEW K, DecoderOK(dec, K)
  PROVE  DecoderOK(Older(dec), K)
<1> DEFINE aged(d, g) == [dec[d].groups[g] EXCEPT
                            !.age = IF @ < GroupTimeout THEN @ + 1 ELSE @]
<1>1. ASSUME NEW d \in Codes, NEW g \in DOMAIN dec[d].groups
      PROVE  /\ aged(d, g) \in [shards : SUBSET K, age : 0..GroupTimeout]
             /\ aged(d, g).shards = dec[d].groups[g].shards
  <2>1. dec[d].groups[g] \in [shards : SUBSET K, age : 0..GroupTimeout]
    BY <1>1 DEF DecoderOK, OpenOK
  <2> QED BY <2>1, FecAssumption
<1>2. Older(dec) = [d \in Codes |-> [groups |-> [g \in DOMAIN dec[d].groups |-> aged(d, g)],
                                     done |-> dec[d].done]]
  BY DEF Older
<1> HIDE DEF aged
<1> DEFINE one(d) == [groups |-> [g \in DOMAIN dec[d].groups |-> aged(d, g)],
                      done |-> dec[d].done]
<1>3. ASSUME NEW d \in Codes
      PROVE  /\ one(d).done \subseteq Nat /\ IsFiniteSet(one(d).done)
             /\ OpenOK(d, one(d), K)
             /\ one(d) = [groups |-> one(d).groups, done |-> one(d).done]
  BY <1>1 DEF DecoderOK, OpenOK
<1>4. Older(dec) = [d \in Codes |-> one(d)] BY <1>2
<1> HIDE DEF one
<1> QED BY <1>3, <1>4 DEF DecoderOK

\* The shards decoder d holds of group g.
GroupIn(dec, d, g) == IF g \in DOMAIN dec[d].groups THEN dec[d].groups[g].shards ELSE {}

LEMMA OtherGroupsHeld ==
  ASSUME NEW dec, NEW c, NEW s, NEW next, StepOf(c, dec, s, next),
         NEW d \in Codes, NEW g, d # c \/ g # s.gid
  PROVE  GroupIn(next, d, g) = GroupIn(dec, d, g)
<1>1. CASE d # c
  <2>1. next[d] = dec[d] BY <1>1 DEF StepOf
  <2> QED BY <2>1 DEF GroupIn
<1>2. CASE d = c /\ g # s.gid
  <2>1. CASE s.gid \in dec[c].done
    <3>1. next = dec BY <2>1 DEF StepOf
    <3> QED BY <3>1
  <2>2. CASE s.gid \notin dec[c].done /\ Ready(c, Stored(dec, c, s))
    <3>1. next[c].groups = Without(dec[c].groups, s.gid) BY <2>2 DEF StepOf
    <3> QED BY <1>2, <3>1 DEF GroupIn, Without
  <2>3. CASE s.gid \notin dec[c].done /\ ~Ready(c, Stored(dec, c, s))
    <3>1. /\ DOMAIN next[c].groups = DOMAIN dec[c].groups \cup {s.gid}
          /\ \A h \in DOMAIN dec[c].groups \ {s.gid} : next[c].groups[h] = dec[c].groups[h]
      BY <2>3 DEF StepOf
    <3> QED BY <1>2, <3>1 DEF GroupIn
  <2> QED BY <2>1, <2>2, <2>3
<1> QED BY <1>1, <1>2

\* What expires is a whole group, and the clock touches no shard.
LEMMA ExpireHolds ==
  ASSUME NEW dec, NEW d \in Codes, NEW g
  PROVE  /\ Expire(dec)[d].done = dec[d].done
         /\ \/ GroupIn(Expire(dec), d, g) = GroupIn(dec, d, g)
            \/ g \in DOMAIN dec[d].groups \ DOMAIN Expire(dec)[d].groups
<1>1. /\ Expire(dec)[d].done = dec[d].done
      /\ DOMAIN Expire(dec)[d].groups \subseteq DOMAIN dec[d].groups
      /\ \A h \in DOMAIN Expire(dec)[d].groups : Expire(dec)[d].groups[h] = dec[d].groups[h]
  BY DEF Expire
<1> QED BY <1>1 DEF GroupIn

LEMMA OlderHolds ==
  ASSUME NEW dec, NEW K, DecoderOK(dec, K), NEW d \in Codes, NEW g
  PROVE  Older(dec)[d].done = dec[d].done /\ GroupIn(Older(dec), d, g) = GroupIn(dec, d, g)
<1>1. Older(dec)[d].done = dec[d].done /\ DOMAIN Older(dec)[d].groups = DOMAIN dec[d].groups
  BY DEF Older
<1>2. ASSUME NEW h \in DOMAIN dec[d].groups
      PROVE  Older(dec)[d].groups[h].shards = dec[d].groups[h].shards
  <2>1. dec[d].groups[h] \in [shards : SUBSET K, age : 0..GroupTimeout]
    BY DEF DecoderOK, OpenOK
  <2>2. Older(dec)[d].groups[h] = [dec[d].groups[h] EXCEPT
                                     !.age = IF @ < GroupTimeout THEN @ + 1 ELSE @]
    BY DEF Older
  <2> QED BY <2>1, <2>2
<1> QED BY <1>1, <1>2 DEF GroupIn

-----------------------------------------------------------------------------
(* When a decoder is ready, and what it gives back. *)

LEMMA FirstNumbers ==
  ASSUME NEW n \in Nat
  PROVE  IsFiniteSet(0..(n - 1)) /\ Cardinality(0..(n - 1)) = n
<1>1. 0 \in Int /\ n - 1 \in Int OBVIOUS
<1>2. /\ IsFiniteSet(0..(n - 1))
      /\ Cardinality(0..(n - 1)) = IF 0 > n - 1 THEN 0 ELSE (n - 1) - 0 + 1
  BY <1>1, FS_Interval, Zenon
<1> QED BY <1>2

\* The indices of the shards are in a set of n elements only if there are at
\* most n shards, and fill it if there are n.
LEMMA CountByIndex ==
  ASSUME NEW shards, OneEach(shards), NEW T, IsFiniteSet(T),
         \A t \in shards : t.idx \in T
  PROVE  /\ Cardinality(shards) <= Cardinality(T)
         /\ Cardinality(shards) = Cardinality(T) => T \subseteq Indices(shards)
<1> DEFINE f == [t \in shards |-> t.idx]
<1>1. f \in Injection(shards, T) BY DEF Injection, IsInjective, OneEach
<1>2. /\ Cardinality(shards) <= Cardinality(T)
      /\ Cardinality(shards) = Cardinality(T) <=> f \in Surjection(shards, T)
  BY <1>1, FS_Injection
<1>3. ASSUME f \in Surjection(shards, T) PROVE T \subseteq Indices(shards)
  BY <1>3 DEF Surjection, Indices
<1> QED BY <1>2, <1>3

\* A decoder that is ready and misses something holds a parity shard.
LEMMA ParityHeld ==
  ASSUME NEW d \in Codes, NEW shards, OneEach(shards), \A t \in shards : t.idx \in Nat,
         Ready(d, shards), NEW i \in Missing(d, shards)
  PROVE  \E p \in shards : p.idx >= DataShards[d]
<1>1. DataShards[d] \in Nat \ {0} BY SizesAreNat
<1>2. CASE d = "xor"
  <2>1. DataShards[d] = XorData BY <1>2 DEF DataShards, Codes
  <2>2. XorData \in Indices(shards) BY <1>2 DEF Ready
  <2> QED BY <1>1, <2>1, <2>2 DEF Indices
<1>3. CASE d # "xor"
  <2> SUFFICES ASSUME \A t \in shards : ~(t.idx >= DataShards[d]) PROVE FALSE OBVIOUS
  <2> DEFINE D == 0..(DataShards[d] - 1)
             T == D \ {i}
  <2>1. i \in D /\ i \notin Indices(shards) BY DEF Missing
  <2>2. IsFiniteSet(D) /\ Cardinality(D) = DataShards[d]
    BY <1>1, FirstNumbers
  <2>3. IsFiniteSet(T) /\ Cardinality(T) = DataShards[d] - 1
    <3> HIDE DEF D
    <3> QED BY <2>1, <2>2, FS_RemoveElement
  <2>4. ASSUME NEW t \in shards PROVE t.idx \in T
    <3>1. t.idx \in D BY <1>1
    <3>2. t.idx # i BY <2>1 DEF Indices
    <3> QED BY <3>1, <3>2
  <2> HIDE DEF T
  <2>5. Cardinality(shards) <= DataShards[d] - 1 BY <2>3, <2>4, CountByIndex
  <2>6. Cardinality(shards) >= DataShards[d] BY <1>3 DEF Ready
  <2>7. IsFiniteSet(shards)
    <3> DEFINE f == [t \in shards |-> t.idx]
    <3>1. f \in Injection(shards, T) BY <2>4 DEF Injection, IsInjective, OneEach
    <3> QED BY <2>3, <3>1, FS_Injection
  <2>8. Cardinality(shards) \in Nat BY <2>7, FS_CardinalityType
  <2> QED BY <1>1, <2>5, <2>6, <2>8
<1> QED BY <1>2, <1>3

\* A decoder that has as many shards as the group has data and is still not
\* ready misses nothing.
LEMMA NotReadyMissesNothing ==
  ASSUME NEW d \in Codes, NEW shards, OneEach(shards), IsFiniteSet(shards),
         \A t \in shards : t.idx \in 0..(GroupSize[d] - 1),
         Cardinality(shards) >= DataShards[d], ~Ready(d, shards)
  PROVE  Missing(d, shards) = {}
<1>1. DataShards[d] \in Nat \ {0} /\ Cardinality(shards) \in Nat
  BY SizesAreNat, FS_CardinalityType
<1>2. d = "xor" BY DEF Ready
<1>3. DataShards[d] = XorData /\ GroupSize[d] = XorData + 1 /\ XorData \in Nat \ {0}
  BY <1>2, FecAssumption DEF DataShards, ParityShards, GroupSize, Codes
<1> SUFFICES ASSUME NEW m \in Missing(d, shards) PROVE FALSE OBVIOUS
<1> DEFINE D == 0..XorData
           T == D \ {m}
<1>4. m \in 0..(XorData - 1) /\ m \notin Indices(shards) BY <1>3 DEF Missing
<1>5. IsFiniteSet(D) /\ Cardinality(D) = XorData + 1 BY <1>3, FS_Interval
<1>6. m \in D /\ XorData \in T BY <1>3, <1>4
<1>7. IsFiniteSet(T) /\ Cardinality(T) = XorData
  <2>1. Cardinality(T) = (XorData + 1) - 1 /\ IsFiniteSet(T)
    <3> HIDE DEF D
    <3> QED BY <1>5, <1>6, FS_RemoveElement
  <2> QED BY <1>3, <2>1
<1>8. ASSUME NEW t \in shards PROVE t.idx \in T
  <2>1. t.idx \in D BY <1>3
  <2>2. t.idx # m BY <1>4 DEF Indices
  <2> QED BY <2>1, <2>2
<1>9. \A x \in 0..(XorData - 1) : x # m => x \in T BY <1>3
<1> HIDE DEF T
<1>10. T \subseteq Indices(shards) BY <1>1, <1>3, <1>7, <1>8, CountByIndex
<1>11. Missing(d, shards) = {m}
  <2>1. Missing(d, shards) \subseteq 0..(XorData - 1) BY <1>3 DEF Missing
  <2> QED BY <2>1, <1>9, <1>10 DEF Missing
<1>12. Cardinality(Missing(d, shards)) = 1 BY <1>11, FS_Singleton
<1>13. XorData \in Indices(shards) BY <1>6, <1>10
<1> QED BY <1>2, <1>12, <1>13 DEF Ready

\* A group that is still being filled is never ready.
LEMMA OpenIsNotReady ==
  ASSUME NEW d \in Codes, NEW shards, OneEach(shards), NEW n \in Nat, n < DataShards[d],
         \A t \in shards : t.idx \in 0..(n - 1)
  PROVE  ~Ready(d, shards)
<1>1. DataShards[d] \in Nat \ {0} BY SizesAreNat
<1>2. CASE d = "xor"
  <2>1. DataShards[d] = XorData BY <1>2 DEF DataShards, Codes
  <2>2. XorData \notin 0..(n - 1) BY <1>1, <2>1
  <2> QED BY <1>2, <2>2 DEF Ready, Indices
<1>3. CASE d # "xor"
  <2>1. IsFiniteSet(0..(n - 1)) /\ Cardinality(0..(n - 1)) = n BY FirstNumbers
  <2> DEFINE T == 0..(n - 1)
             f == [t \in shards |-> t.idx]
  <2>2. IsFiniteSet(T) /\ Cardinality(T) = n /\ \A t \in shards : t.idx \in T BY <2>1
  <2> HIDE DEF T
  <2>3. Cardinality(shards) <= n BY <2>2, CountByIndex
  <2>4. IsFiniteSet(shards)
    <3>1. f \in Injection(shards, T) BY <2>2 DEF Injection, IsInjective, OneEach
    <3> HIDE DEF f
    <3> QED BY <2>2, <3>1, FS_Injection
  <2>5. Cardinality(shards) \in Nat BY <2>4, FS_CardinalityType
  <2> QED BY <1>1, <1>3, <2>3, <2>5 DEF Ready
<1> QED BY <1>2, <1>3

\* The body a ready decoder computes is Garbage, or what a parity shard says.
LEMMA RecoverIs ==
  ASSUME NEW d \in Codes, NEW shards, OneEach(shards), \A t \in shards : t.idx \in Nat,
         Ready(d, shards), NEW i \in Missing(d, shards)
  PROVE  \/ Recover(d, shards, i) = Garbage
         \/ \E p \in shards : /\ p.idx >= DataShards[d] /\ Len(p.body) = DataShards[d]
                              /\ \A t \in shards : t.code = d
                              /\ Recover(d, shards, i) = p.body[i + 1]
<1> DEFINE parity == CHOOSE t \in shards : t.idx >= DataShards[d]
           fits(t) == /\ t.code = d
                      /\ t.body = IF IsParity(t) THEN parity.body
                                                 ELSE <<parity.body[t.idx + 1]>>
<1>1. parity \in shards /\ parity.idx >= DataShards[d] BY ParityHeld
<1>2. Recover(d, shards, i) =
        IF Len(parity.body) = DataShards[d] /\ \A t \in shards : fits(t)
        THEN parity.body[i + 1] ELSE Garbage
  BY DEF Recover
<1>3. (\A t \in shards : fits(t)) => \A t \in shards : t.code = d OBVIOUS
<1> HIDE DEF parity, fits
<1> QED BY <1>1, <1>2, <1>3

\* A ready decoder of the right code gives back what a parity shard says.
LEMMA RecoverRight ==
  ASSUME NEW d \in Codes, NEW shards, OneEach(shards), \A t \in shards : t.idx \in Nat,
         Ready(d, shards), NEW i \in Missing(d, shards), Consistent(shards),
         \A t \in shards : t.code = d, \A t, u \in shards : t.gid = u.gid
  PROVE  \E p \in shards : IsParity(p) /\ Recover(d, shards, i) = p.body[i + 1]
<1> DEFINE parity == CHOOSE t \in shards : t.idx >= DataShards[d]
           fits(t) == /\ t.code = d
                      /\ t.body = IF IsParity(t) THEN parity.body
                                                 ELSE <<parity.body[t.idx + 1]>>
<1>1. parity \in shards /\ parity.idx >= DataShards[d] BY ParityHeld
<1>2. Recover(d, shards, i) =
        IF Len(parity.body) = DataShards[d] /\ \A t \in shards : fits(t)
        THEN parity.body[i + 1] ELSE Garbage
  BY DEF Recover
<1> HIDE DEF parity
<1>3. IsParity(parity) BY <1>1 DEF IsParity
<1>4. Len(parity.body) = DataShards[d] BY <1>1, <1>3 DEF Consistent, IsWhole
<1>5. ASSUME NEW t \in shards PROVE fits(t)
  <2>1. Agree(parity, t) /\ parity.code = t.code /\ parity.gid = t.gid /\ t.code = d
    BY <1>1 DEF Consistent
  <2> QED BY <1>3, <2>1 DEF Agree
<1> HIDE DEF fits
<1> QED BY <1>1, <1>2, <1>3, <1>4, <1>5

-----------------------------------------------------------------------------
(* The record of finished groups. *)

\* What decode_packet returns for s: a body for every index that is missing,
\* which is Garbage or in the parity of the group.
LEMMA DecodeOutIs ==
  ASSUME NEW dec, NEW B, NEW K, \A s \in K : IsShard(s, B), DecoderOK(dec, K), NEW s \in K
  PROVE  /\ IsFiniteSet(DecodeOut(dec, s))
         /\ \A q \in DecodeOut(dec, s) : q.idx \in Nat /\ q.body \in B \cup {Garbage}
         /\ \A q, r \in DecodeOut(dec, s) : q.idx = r.idx => q = r
<1> DEFINE d == DecoderFor(GroupSize[s.code])
           shards == Stored(dec, d, s)
           one(i) == [idx |-> i, body |-> Recover(d, shards, i)]
           out == DecodeOut(dec, s)
<1>1. d \in Codes /\ DataShards[d] \in Nat \ {0} BY DecoderType, SizesAreNat
<1>2. \A t \in K : t.code \in Codes /\ t.idx \in Nat /\ t.body \in Seq(B)
  BY SizesAreNat DEF IsShard
<1>3. shards \subseteq K /\ OneEach(shards) /\ s.code \in Codes BY <1>2, StoredOK DEF GroupOK
<1>4. CASE s.gid \in dec[d].done \/ ~Ready(d, shards)
  <2>1. out = {} BY <1>4 DEF DecodeOut
  <2> QED BY <2>1, FS_EmptySet
<1>5. CASE s.gid \notin dec[d].done /\ Ready(d, shards)
  <2> DEFINE M == Missing(d, shards)
  <2>1. out = {one(i) : i \in M} BY <1>5 DEF DecodeOut
  <2>2. IsFiniteSet(M) /\ M \subseteq 0..(DataShards[d] - 1)
    <3>1. M \subseteq 0..(DataShards[d] - 1) BY DEF Missing
    <3>2. IsFiniteSet(0..(DataShards[d] - 1)) BY <1>1, FirstNumbers
    <3> QED BY <3>1, <3>2, FS_Subset
  <2>3. ASSUME NEW i \in M PROVE Recover(d, shards, i) \in B \cup {Garbage}
    <3>1. \A t \in shards : t.idx \in Nat BY <1>2, <1>3
    <3>2. CASE Recover(d, shards, i) = Garbage BY <3>2
    <3>3. CASE \E p \in shards : /\ Len(p.body) = DataShards[d]
                                 /\ Recover(d, shards, i) = p.body[i + 1]
      <4>1. PICK p \in shards : /\ Len(p.body) = DataShards[d]
                                /\ Recover(d, shards, i) = p.body[i + 1]
        BY <3>3
      <4>2. p.body \in Seq(B) BY <1>2, <1>3
      <4>3. i + 1 \in 1..Len(p.body) BY <1>1, <2>2, <4>1
      <4> HIDE DEF d, shards
      <4> QED BY <4>1, <4>2, <4>3
    <3> HIDE DEF d, shards
    <3>4. Ready(d, shards) BY <1>5
    <3> QED BY <1>1, <1>3, <3>1, <3>2, <3>3, <3>4, RecoverIs
  <2> HIDE DEF M, d, shards, out
  <2>4. \A i \in M : one(i).idx = i /\ one(i).body = Recover(d, shards, i) OBVIOUS
  <2>5. IsFiniteSet({one(i) : i \in M})
    <3> DEFINE f == [i \in M |-> one(i)]
               T == {one(i) : i \in M}
    <3>1. f \in Surjection(M, T) BY DEF Surjection
    <3> HIDE DEF f, T
    <3>2. IsFiniteSet(T) BY <2>2, <3>1, FS_Surjection
    <3> QED BY <3>2 DEF T
  <2>6. \A q \in out : q.idx \in Nat /\ q.body \in B \cup {Garbage}
    BY <1>1, <2>1, <2>2, <2>3, <2>4
  <2>7. \A q, r \in out : q.idx = r.idx => q = r BY <2>1, <2>4
  <2> QED BY <2>1, <2>5, <2>6, <2>7 DEF out
<1> QED BY <1>4, <1>5

\* Of finitely many results with different indices, no two have as many before them.
Rank(S) == [r \in S |-> Cardinality({q \in S : q.idx < r.idx})]

LEMMA RankInjective ==
  ASSUME NEW S, IsFiniteSet(S), \A q \in S : q.idx \in Nat,
         \A q, r \in S : q.idx = r.idx => q = r
  PROVE  Rank(S) \in Injection(S, 0..(Cardinality(S) - 1))
<1> DEFINE below(r) == {q \in S : q.idx < r.idx}
           n == Cardinality(S)
           rank == [r \in S |-> Cardinality(below(r))]
<1>1. n \in Nat BY FS_CardinalityType
<1>2. ASSUME NEW r \in S
      PROVE  IsFiniteSet(below(r)) /\ Cardinality(below(r)) \in 0..(n - 1)
  <2>1. below(r) \subseteq S \ {r} BY <1>2
  <2>2. IsFiniteSet(S \ {r}) /\ Cardinality(S \ {r}) = n - 1
    <3>1. IsFiniteSet(S \ {r})
          /\ Cardinality(S \ {r}) = IF r \in S THEN Cardinality(S) - 1 ELSE Cardinality(S)
      BY FS_RemoveElement
    <3> QED BY <3>1
  <2> HIDE DEF below
  <2>3. IsFiniteSet(below(r)) /\ Cardinality(below(r)) <= n - 1 BY <2>1, <2>2, FS_Subset
  <2>4. Cardinality(below(r)) \in Nat BY <2>3, FS_CardinalityType
  <2> QED BY <1>1, <2>3, <2>4
<1>3. ASSUME NEW q \in S, NEW r \in S, q.idx < r.idx
      PROVE  Cardinality(below(q)) < Cardinality(below(r))
  <2>1. below(q) \cup {q} \subseteq below(r) BY <1>3
  <2>2. q \notin below(q) BY <1>3
  <2>3. IsFiniteSet(below(q)) /\ Cardinality(below(q)) \in Nat
        /\ IsFiniteSet(below(r)) /\ Cardinality(below(r)) \in Nat
    BY <1>1, <1>2
  <2> HIDE DEF below
  <2>4. Cardinality(below(q) \cup {q}) = Cardinality(below(q)) + 1
    <3>1. Cardinality(below(q) \cup {q}) = IF q \in below(q) THEN Cardinality(below(q))
                                           ELSE Cardinality(below(q)) + 1
      BY <2>3, FS_AddElement
    <3> QED BY <2>2, <3>1
  <2>5. Cardinality(below(q) \cup {q}) <= Cardinality(below(r)) BY <2>1, <2>3, FS_Subset
  <2> QED BY <2>3, <2>4, <2>5
<1> HIDE DEF below, n
<1>4. rank \in Injection(S, 0..(n - 1))
  <2>1. rank \in [S -> 0..(n - 1)] BY <1>2
  <2>2. ASSUME NEW q \in S, NEW r \in S, q # r PROVE rank[q] # rank[r]
    <3>1. q.idx < r.idx \/ r.idx < q.idx BY <2>2
    <3>2. Cardinality(below(q)) \in Nat /\ Cardinality(below(r)) \in Nat BY <1>1, <1>2
    <3>3. Cardinality(below(q)) # Cardinality(below(r)) BY <1>3, <3>1, <3>2
    <3> QED BY <3>3
  <2> HIDE DEF rank
  <2> QED BY <2>1, <2>2 DEF Injection, IsInjective
<1> QED BY <1>4 DEF Rank, rank, below, n

LEMMA NthExists ==
  ASSUME NEW S, IsFiniteSet(S), \A q \in S : q.idx \in Nat,
         \A q, r \in S : q.idx = r.idx => q = r,
         NEW k \in 1..Cardinality(S)
  PROVE  \E r \in S : Cardinality({q \in S : q.idx < r.idx}) = k - 1
<1> DEFINE n == Cardinality(S)
           rank == Rank(S)
<1>1. n \in Nat BY FS_CardinalityType
<1>4. rank \in Injection(S, 0..(n - 1)) BY RankInjective
<1> HIDE DEF n, rank
<1>5. IsFiniteSet(0..(n - 1)) /\ Cardinality(0..(n - 1)) = n BY <1>1, FirstNumbers
<1>6. rank \in Surjection(S, 0..(n - 1))
  <2> DEFINE T == 0..(n - 1)
  <2>1. rank \in Injection(S, T) /\ IsFiniteSet(T) /\ Cardinality(S) = Cardinality(T)
    BY <1>4, <1>5 DEF n
  <2> HIDE DEF T
  <2>2. rank \in Surjection(S, T) BY <2>1, FS_Injection
  <2> QED BY <2>2 DEF T
<1>7. k - 1 \in 0..(n - 1) BY <1>1 DEF n
<1>8. PICK r \in S : rank[r] = k - 1 BY <1>6, <1>7 DEF Surjection
<1>9. rank[r] = Cardinality({q \in S : q.idx < r.idx}) BY DEF rank, Rank
<1> QED BY <1>8, <1>9

\* And each of them is the only one with its rank.
LEMMA EachIsNth ==
  ASSUME NEW S, IsFiniteSet(S), \A q \in S : q.idx \in Nat,
         \A q, r \in S : q.idx = r.idx => q = r,
         NEW r \in S
  PROVE  \E k \in 1..Cardinality(S) :
           \A q \in S : Cardinality({u \in S : u.idx < q.idx}) = k - 1 <=> q = r
<1> DEFINE n == Cardinality(S)
           k == Rank(S)[r] + 1
<1>1. n \in Nat BY FS_CardinalityType
<1>2. Rank(S) \in Injection(S, 0..(n - 1)) BY RankInjective
<1>3. Rank(S)[r] \in 0..(n - 1) /\ \A q \in S : Rank(S)[q] = Rank(S)[r] => q = r
  BY <1>2 DEF Injection, IsInjective
<1>4. \A q \in S : Rank(S)[q] = Cardinality({u \in S : u.idx < q.idx}) BY DEF Rank
<1> HIDE DEF n
<1>5. k \in 1..n /\ k - 1 = Rank(S)[r] BY <1>1, <1>3
<1> HIDE DEF k
<1>6. \A q \in S : Cardinality({u \in S : u.idx < q.idx}) = k - 1 <=> q = r
  BY <1>3, <1>4, <1>5
<1> QED BY <1>5, <1>6 DEF n

\* Pruning keeps the largest group number.
LEMMA NewestSurvives ==
  ASSUME NEW d, NEW done \in SUBSET Nat, IsFiniteSet(done), NEW g \in Nat,
         NEW h \in done \cup {g}, \A k \in done \cup {g} : k <= h
  PROVE  h \in Finish(d, done, g)
<1> DEFINE all == done \cup {g}
           below == {y \in all : y < h}
<1>1. IsFiniteSet(all) /\ all \subseteq Nat BY FS_AddElement
<1>2. below = all \ {h}
  <2>1. \A y \in all : y \in Int /\ h \in Int /\ y <= h BY <1>1
  <2>2. \A y \in all : y < h <=> y # h BY <2>1
  <2> QED BY <2>2
<1>3. Cardinality(all) \in Nat /\ Cardinality(below) = Cardinality(all) - 1
  <2> HIDE DEF all, below
  <2> QED BY <1>1, <1>2, FS_RemoveElement, FS_CardinalityType DEF all
<1>4. ASSUME NEW n \in Nat, n < Cardinality(all) PROVE h \in DropLeast(all, n)
  <2>1. Cardinality(below) >= n BY <1>3, <1>4
  <2> QED BY <2>1 DEF DropLeast
<1>5. CASE d = "xor"
  <2>1. CASE Cardinality(all) > XorDoneMax
    <3>1. Cardinality(all) \div 2 \in Nat /\ Cardinality(all) \div 2 < Cardinality(all)
      BY <1>3, <2>1, FecAssumption
    <3> QED BY <1>4, <1>5, <2>1, <3>1 DEF Finish
  <2>2. CASE ~(Cardinality(all) > XorDoneMax) BY <1>5, <2>2 DEF Finish
  <2> QED BY <2>1, <2>2
<1>6. CASE d # "xor"
  <2>1. CASE Cardinality(all) > RsDoneMax
    <3>1. RsDoneMax \div 2 \in Nat /\ RsDoneMax \div 2 < Cardinality(all)
      BY <1>3, <2>1, FecAssumption
    <3> QED BY <1>4, <1>6, <2>1, <3>1 DEF Finish
  <2>2. CASE ~(Cardinality(all) > RsDoneMax) BY <1>6, <2>2 DEF Finish
  <2> QED BY <2>1, <2>2
<1> QED BY <1>5, <1>6

DoneMax(d) == IF d = "xor" THEN XorDoneMax ELSE RsDoneMax

\* A record within its bound is complete.
LEMMA FinishKeepsAll ==
  ASSUME NEW d, NEW done, NEW g, ~(Cardinality(done \cup {g}) > DoneMax(d))
  PROVE  Finish(d, done, g) = done \cup {g}
BY DEF Finish, DoneMax
=============================================================================
