-------------------------- MODULE FecChannel_proofs --------------------------
(***************************************************************************)
(* Proofs about the FEC engine, for any sizes of the codes, any number of  *)
(* packets, any mix of modes and any network: what the decoders give back  *)
(* is what was encoded, only what is missing, and all of it once enough    *)
(* shards arrived.                                                         *)
(*                                                                         *)
(* The decoder is chosen by the group size alone, so these hold for the    *)
(* modes whose code gets its own decoder.  Run fec_collide shows that the  *)
(* heavy code of the default configuration does not.                       *)
(***************************************************************************)
EXTENDS FecChannel, FecEngine_proofs

Bodies == 0..(MaxPackets - 1)

UsedCodes == {CodeFor(mode, tier) : mode \in UsedModes, tier \in Tiers} \ {"none"}

\* Every code in use is decoded by its own decoder.
EachItsOwn == \A c \in UsedCodes : OwnDecoder(c)

-----------------------------------------------------------------------------
(* The invariant. *)

\* What is known of the shards sent, arrived or still under way.
SentInv ==
  /\ count \in 0..MaxPackets
  /\ Consistent(sent)
  /\ \A s \in sent : IsShard(s, Bodies) /\ s.code \in UsedCodes
  /\ net \subseteq sent /\ arrived \subseteq sent

\* Each body in a parity shard was sent in a data shard of its group.
ParityOK(shards) ==
  \A p \in shards : IsParity(p) =>
    \A i \in 0..(DataShards[p.code] - 1) :
      \E t \in shards : /\ t.code = p.code /\ t.gid = p.gid /\ ~IsParity(t)
                        /\ t.idx = i /\ t.body = <<p.body[i + 1]>>

\* After n packets the encoders e hold the groups being filled, as they were sent.
EncodersOK(e, n, shards) ==
  /\ EncoderOK(e, Bodies) /\ OpenGroup(e, shards)
  /\ \A c \in Codes : /\ e[c].gid \in 0..n
                      /\ \A i \in 1..Len(e[c].held) :
                           \E t \in shards : /\ t.code = c /\ t.gid = e[c].gid /\ ~IsParity(t)
                                             /\ t.idx = i - 1 /\ t.body = <<e[c].held[i]>>

ParityInv == ParityOK(sent)
EncInv == EncodersOK(enc, count, sent)

\* The records of finished groups, and that of the newest of them.
DoneInv ==
  \A d \in Codes :
    /\ finished[d] \subseteq Nat /\ IsFiniteSet(finished[d])
    /\ dec[d].done \subseteq finished[d]
    /\ ~(Cardinality(finished[d]) > DoneMax(d)) => dec[d].done = finished[d]

RecoveredType ==
  recovered \subseteq [code : Codes, gid : Groups, idx : Nat, body : Bodies \cup {Garbage}]

CInv ==
  /\ SentInv /\ ParityInv /\ EncInv
  /\ DecoderOK(dec, sent)
  /\ finished = [d \in Codes |-> finished[d]]
  /\ DoneInv /\ NewestFinishedKept
  /\ RecoveredType

Held(d, g) == IF g \in DOMAIN dec[d].groups THEN dec[d].groups[g].shards ELSE {}

\* A group that is neither finished nor expired is held as it arrived, and is
\* not ready; of a finished one, everything arrived or was given back.
GroupInv ==
  \A c \in UsedCodes, g \in Nat : <<c, g>> \notin expired =>
    IF g \notin finished[c]
    THEN ArrivedOf(c, g) = Held(c, g) /\ ~Ready(c, Held(c, g))
    ELSE \A i \in 0..(DataShards[c] - 1) :
           \/ i \in Indices(ArrivedOf(c, g))
           \/ \E r \in recovered : r.code = c /\ r.gid = g /\ r.idx = i

\* What was given back belongs to a finished group.
GivenInv == \A r \in recovered : r.code \in UsedCodes /\ r.gid \in finished[r.code]

OInv == CInv /\ RecoveredIsOriginal /\ GroupInv /\ GivenInv

-----------------------------------------------------------------------------
(* Encoding. *)

LEMMA UsedCodeType == UsedCodes \subseteq Codes
BY ChannelAssumption, CodeType DEF UsedCodes

\* encode_packet keeps what is known of the shards and of the encoders.
LEMMA EncodeKeeps ==
  ASSUME SentInv, ParityInv, EncInv, NEW mode \in UsedModes, NEW tier \in Tiers,
         Encode(mode, tier)
  PROVE  SentInv' /\ ParityInv' /\ EncInv'
<1> DEFINE c == CodeFor(mode, tier)
           g == enc[c].gid
           held == enc[c].held
           full == Filled(enc, c, count)
           new == NewShards(enc, c, count)
           data == DataOut(enc, c, count)
           complete == IsComplete(enc, c, count)
           Data(d, h) == {s \in sent' : s.code = d /\ s.gid = h /\ ~IsParity(s)}
<1>1. c \in UsedCodes /\ c \in Codes
  <2>1. c # "none" BY DEF Encode
  <2>2. c \in UsedCodes BY <2>1 DEF UsedCodes
  <2> QED BY <2>2, UsedCodeType
<1>2. DataShards[c] \in Nat \ {0} BY <1>1, SizesAreNat
<1>3. /\ count \in Bodies /\ count' = count + 1 /\ count' \in 0..MaxPackets /\ count \in Nat
      /\ sent' = sent \cup new /\ net' = net \cup new /\ arrived' = arrived
      /\ enc' = EncodeNext(enc, c, count)
  BY ChannelAssumption DEF Encode, SentInv, Bodies, Elements, NewShards
<1>4. EncoderOK(enc, Bodies) /\ OpenGroup(enc, sent) /\ Consistent(sent)
      /\ \A s \in sent : IsShard(s, Bodies)
  BY DEF EncInv, EncodersOK, SentInv
<1> HIDE DEF c
<1>5. g \in 0..count /\ held \in Seq(Bodies) /\ Len(held) \in Nat /\ Len(held) < DataShards[c]
  <2>1. g \in 0..count BY <1>1 DEF EncInv, EncodersOK
  <2>2. held \in Seq(Bodies) /\ Len(held) < DataShards[c] BY <1>1, <1>4 DEF EncoderOK
  <2> QED BY <2>1, <2>2
<1>6. /\ full \in Seq(Bodies) /\ Len(full) = Len(held) + 1
      /\ \A i \in 1..Len(held) : full[i] = held[i]
      /\ full[Len(held) + 1] = count
      /\ complete <=> Len(held) + 1 = DataShards[c]
  BY <1>1, <1>3, <1>4, FilledIs
<1>7. Consistent(sent \cup new) /\ OpenGroup(EncodeNext(enc, c, count), sent \cup new)
  BY <1>1, <1>3, <1>4, EncodeConsistent
<1>8. \A s \in new : IsShard(s, Bodies) /\ s.code = c /\ s.gid = g
  BY <1>1, <1>3, <1>4, NewShardIs
<1>9. SentInv'
  <2>1. \A s \in sent' : IsShard(s, Bodies) /\ s.code \in UsedCodes
    BY <1>1, <1>3, <1>8 DEF SentInv
  <2>2. Consistent(sent') BY <1>3, <1>7
  <2> HIDE DEF new
  <2> QED BY <1>3, <2>1, <2>2 DEF SentInv, Consistent
<1>10. data \in Data(c, g) /\ data.idx = Len(held) /\ data.body = <<count>>
  <2>1. data \in new /\ ~IsParity(data) BY <1>1, <1>3, <1>4, DataOutIs
  <2>2. data.code = c /\ data.gid = g /\ data.idx = Len(held) /\ data.body = <<count>>
    BY DEF DataOut
  <2> HIDE DEF data, new
  <2> QED BY <1>3, <2>1, <2>2
<1>11. ASSUME NEW d \in Codes, NEW i \in 1..Len(enc[d].held)
       PROVE  \E t \in Data(d, enc[d].gid) : t.idx = i - 1 /\ t.body = <<enc[d].held[i]>>
  <2>1. \E t \in sent : /\ t.code = d /\ t.gid = enc[d].gid /\ ~IsParity(t)
                        /\ t.idx = i - 1 /\ t.body = <<enc[d].held[i]>>
    BY DEF EncInv, EncodersOK
  <2> QED BY <1>3, <2>1
<1> HIDE DEF data, full, complete, new
<1>12. \A i \in 1..Len(full) : \E t \in Data(c, g) : t.idx = i - 1 /\ t.body = <<full[i]>>
  <2> SUFFICES ASSUME NEW i \in 1..Len(full)
               PROVE  \E t \in Data(c, g) : t.idx = i - 1 /\ t.body = <<full[i]>>
    OBVIOUS
  <2>1. CASE i = Len(held) + 1 BY <1>5, <1>6, <1>10, <2>1
  <2>2. CASE i # Len(held) + 1
    <3>1. i \in 1..Len(held) BY <1>5, <1>6, <2>2
    <3>2. \E t \in Data(c, g) : t.idx = i - 1 /\ t.body = <<held[i]>>
      <4> HIDE DEF Data
      <4> QED BY <1>1, <1>11, <3>1
    <3> QED BY <1>6, <3>1, <3>2
  <2> QED BY <2>1, <2>2
<1>13. ParityInv'
  <2> SUFFICES ASSUME NEW p \in sent', IsParity(p), NEW i \in 0..(DataShards[p.code] - 1)
               PROVE  \E t \in Data(p.code, p.gid) : t.idx = i /\ t.body = <<p.body[i + 1]>>
    BY DEF ParityInv, ParityOK
  <2>1. CASE p \in sent
    <3>1. PICK t \in DataOf(p.code, p.gid) : t.idx = i /\ t.body = <<p.body[i + 1]>>
      BY <2>1 DEF ParityInv, ParityOK, DataOf
    <3>2. t \in Data(p.code, p.gid) BY <1>3, <3>1 DEF DataOf
    <3> QED BY <3>1, <3>2
  <2>2. CASE p \in new
    <3>1. complete /\ p.body = full /\ p.code = c /\ p.gid = g
      BY <1>1, <1>3, <1>4, <2>2, NewShardIs DEF new, complete, full
    <3>2. i + 1 \in 1..Len(full) /\ (i + 1) - 1 = i BY <1>2, <1>5, <1>6, <3>1
    <3> QED BY <1>12, <3>1, <3>2
  <2> QED BY <1>3, <2>1, <2>2
<1>14. EncInv'
  <2>1. EncoderOK(enc', Bodies) BY <1>1, <1>3, <1>4, EncodeNextOK
  <2>2. OpenGroup(enc', sent') BY <1>3, <1>7
  <2>3. EncoderStep(enc, c, count, enc') BY <1>1, <1>3, <1>4, EncodeNextIs
  <2>4. ASSUME NEW d \in Codes
        PROVE  /\ enc'[d].gid \in 0..count'
               /\ \A i \in 1..Len(enc'[d].held) :
                    \E t \in Data(d, enc'[d].gid) :
                      t.idx = i - 1 /\ t.body = <<enc'[d].held[i]>>
    <3>1. CASE d # c
      <4> HIDE DEF Data
      <4>1. enc'[d] = enc[d] BY <2>3, <3>1 DEF EncoderStep
      <4>2. enc[d].gid \in 0..count BY DEF EncInv, EncodersOK
      <4>3. enc[d].gid \in 0..count' BY <1>3, <4>2
      <4> QED BY <1>11, <4>1, <4>3
    <3>2. CASE d = c /\ complete
      <4>1. enc'[d] = [gid |-> g + 1, held |-> << >>]
        BY <2>3, <3>2 DEF EncoderStep, complete
      <4>2. g + 1 \in 0..count' BY <1>3, <1>5
      <4>3. Len(<< >>) = 0 /\ 1..0 = {} OBVIOUS
      <4> HIDE DEF g
      <4> QED BY <4>1, <4>2, <4>3
    <3>3. CASE d = c /\ ~complete
      <4>1. enc'[d] = [gid |-> g, held |-> full]
        BY <2>3, <3>3 DEF EncoderStep, complete, full
      <4>2. g \in 0..count' BY <1>3, <1>5
      <4> HIDE DEF g, Data
      <4> QED BY <1>12, <3>3, <4>1, <4>2
    <3> QED BY <3>1, <3>2, <3>3
  <2>5. ASSUME NEW d \in Codes, NEW i \in 1..Len(enc'[d].held)
        PROVE  \E t \in sent' : /\ t.code = d /\ t.gid = enc'[d].gid /\ ~IsParity(t)
                                /\ t.idx = i - 1 /\ t.body = <<enc'[d].held[i]>>
    BY <2>4
  <2>6. EncodersOK(enc', count', sent') BY <2>1, <2>2, <2>4, <2>5 DEF EncodersOK
  <2> QED BY <2>6 DEF EncInv, EncodersOK
<1> QED BY <1>9, <1>13, <1>14

-----------------------------------------------------------------------------
(* Decoding. *)

\* What is known of the shard that is decoded and of its group in the decoder.
LEMMA ShardDecoded ==
  ASSUME CInv, NEW s \in net, NEW again, Decode(s, again)
  PROVE  LET d == DecoderFor(GroupSize[s.code])
         IN  /\ d \in Codes /\ s \in sent /\ s.code \in Codes /\ s.code \in UsedCodes
             /\ s.gid \in Nat /\ s.gid \in Groups /\ s.idx \in Nat
             /\ s \in Stored(dec, d, s) /\ GroupOK(d, s.gid, Stored(dec, d, s), sent)
             /\ \A t \in Stored(dec, d, s) : t.idx \in Nat
<1> DEFINE d == DecoderFor(GroupSize[s.code])
<1>1. d \in Codes BY DecoderType
<1>2. s \in sent /\ s.code \in UsedCodes /\ s.code \in Codes
  BY UsedCodeType DEF CInv, SentInv
<1>3. \A t \in sent : t.idx \in Nat /\ t.gid \in Nat
  BY SizesAreNat DEF CInv, SentInv, IsShard
<1>4. s.gid <= enc[s.code].gid /\ enc[s.code].gid \in 0..count /\ count \in 0..MaxPackets
  BY <1>2 DEF CInv, EncInv, EncodersOK, OpenGroup, SentInv
<1>5. s.gid \in Groups BY <1>2, <1>3, <1>4, ChannelAssumption DEF Groups
<1>6. s \in Stored(dec, d, s) /\ GroupOK(d, s.gid, Stored(dec, d, s), sent)
  BY <1>2, StoredOK DEF CInv
<1> QED BY <1>1, <1>2, <1>3, <1>5, <1>6 DEF GroupOK

\* What decode_packet gives back for s.
LEMMA GivenIs ==
  ASSUME NEW s \in net, NEW again, Decode(s, again), NEW r \in given'
  PROVE  LET d == DecoderFor(GroupSize[s.code])
             shards == Stored(dec, d, s)
         IN  /\ s.gid \notin dec[d].done /\ Ready(d, shards)
             /\ r.idx \in Missing(d, shards)
             /\ r = [code |-> s.code, gid |-> s.gid, idx |-> r.idx,
                     body |-> Recover(d, shards, r.idx)]
<1> DEFINE d == DecoderFor(GroupSize[s.code])
           shards == Stored(dec, d, s)
<1>1. PICK q \in DecodeOut(dec, s) :
        r = [code |-> s.code, gid |-> s.gid, idx |-> q.idx, body |-> q.body]
  BY DEF Decode
<1>2. s.gid \notin dec[d].done /\ Ready(d, shards) BY <1>1 DEF DecodeOut
<1>3. PICK i \in Missing(d, shards) : q = [idx |-> i, body |-> Recover(d, shards, i)]
  BY <1>1, <1>2 DEF DecodeOut
<1> QED BY <1>1, <1>2, <1>3

\* ... and there is one for every index that is missing.
LEMMA AllGiven ==
  ASSUME NEW s \in net, NEW again, Decode(s, again),
         s.gid \notin dec[DecoderFor(GroupSize[s.code])].done,
         Ready(DecoderFor(GroupSize[s.code]), Stored(dec, DecoderFor(GroupSize[s.code]), s)),
         NEW i \in Missing(DecoderFor(GroupSize[s.code]),
                           Stored(dec, DecoderFor(GroupSize[s.code]), s))
  PROVE  \E r \in given' : r.code = s.code /\ r.gid = s.gid /\ r.idx = i
<1> DEFINE d == DecoderFor(GroupSize[s.code])
           shards == Stored(dec, d, s)
           q == [idx |-> i, body |-> Recover(d, shards, i)]
<1>1. q \in DecodeOut(dec, s) BY DEF DecodeOut
<1>2. [code |-> s.code, gid |-> s.gid, idx |-> q.idx, body |-> q.body] \in given'
  BY <1>1 DEF Decode
<1> QED BY <1>2

\* The records of finished groups after a shard.
LEMMA DecodeDone ==
  ASSUME CInv, NEW s \in net, NEW again, Decode(s, again)
  PROVE  /\ finished' = [d \in Codes |-> finished'[d]]
         /\ DoneInv' /\ NewestFinishedKept'
<1> DEFINE d == DecoderFor(GroupSize[s.code])
           g == s.gid
           shards == Stored(dec, d, s)
<1>1. d \in Codes /\ g \in Nat BY ShardDecoded
<1>2. finished' = [e \in Codes |-> IF e = d /\ Ready(d, shards)
                                   THEN finished[e] \cup {g} ELSE finished[e]]
  BY DEF Decode
<1>3. dec' = DecodeNext(dec, s) BY DEF Decode
<1>4. DecoderOK(dec, sent) /\ DoneInv /\ NewestFinishedKept BY DEF CInv
<1> HIDE DEF d, g
<1>5. ASSUME NEW e \in Codes, e # d
      PROVE  finished'[e] = finished[e] /\ dec'[e] = dec[e]
  BY <1>2, <1>3, <1>4, <1>5, DecodeNextIs DEF StepOf, d
<1>6. CASE ~Ready(d, shards) \/ g \in dec[d].done
  <2>1. dec'[d].done = dec[d].done
    BY <1>3, <1>4, <1>6, DecodeNextIs DEF StepOf, d, g
  <2>2. finished'[d] = finished[d] BY <1>1, <1>2, <1>4, <1>6 DEF DoneInv
  <2>3. \A e \in Codes : finished'[e] = finished[e] /\ dec'[e].done = dec[e].done
    BY <1>5, <2>1, <2>2
  <2> QED BY <1>2, <1>4, <2>3 DEF DoneInv, NewestFinishedKept
<1>7. CASE Ready(d, shards) /\ g \notin dec[d].done
  <2> DEFINE old == finished[d]
             done == dec[d].done
  <2>1. dec'[d].done = Finish(d, done, g)
    BY <1>3, <1>4, <1>7, DecodeNextIs DEF StepOf, d, g
  <2>2. finished'[d] = old \cup {g} BY <1>1, <1>2, <1>7
  <2>3. /\ old \subseteq Nat /\ IsFiniteSet(old) /\ done \subseteq old
        /\ ~(Cardinality(old) > DoneMax(d)) => done = old
        /\ done \subseteq Nat /\ IsFiniteSet(done)
    BY <1>1, <1>4 DEF DoneInv, DecoderOK
  <2> HIDE DEF old, done
  <2>4. Finish(d, done, g) \subseteq done \cup {g} BY <1>1, <2>3, FinishType
  <2>5. IsFiniteSet(old \cup {g}) /\ Cardinality(old) <= Cardinality(old \cup {g})
        /\ Cardinality(old) \in Nat /\ Cardinality(old \cup {g}) \in Nat
    <3>1. IsFiniteSet(old \cup {g}) BY <2>3, FS_AddElement
    <3> QED BY <2>3, <3>1, FS_Subset, FS_CardinalityType
  <2>6. DoneMax(d) \in Nat BY FecAssumption DEF DoneMax
  <2>7. ASSUME ~(Cardinality(old \cup {g}) > DoneMax(d))
        PROVE  Finish(d, done, g) = old \cup {g}
    <3>1. done = old BY <2>3, <2>5, <2>6, <2>7
    <3> QED BY <2>7, <3>1, FinishKeepsAll
  <2>8. DoneInv'
    <3> SUFFICES ASSUME NEW e \in Codes
                 PROVE  /\ finished'[e] \subseteq Nat /\ IsFiniteSet(finished'[e])
                        /\ dec'[e].done \subseteq finished'[e]
                        /\ ~(Cardinality(finished'[e]) > DoneMax(e)) =>
                             dec'[e].done = finished'[e]
      BY DEF DoneInv
    <3>1. CASE e = d BY <1>1, <2>1, <2>2, <2>3, <2>4, <2>5, <2>7, <3>1
    <3>2. CASE e # d BY <1>4, <1>5, <3>2 DEF DoneInv
    <3> QED BY <3>1, <3>2
  <2>9. NewestFinishedKept'
    <3> SUFFICES ASSUME NEW e \in Codes, NEW h \in finished'[e],
                        \A k \in finished'[e] : k <= h
                 PROVE  h \in dec'[e].done
      BY DEF NewestFinishedKept
    <3>1. CASE e = d
      <4>1. h \in old \cup {g} /\ \A k \in old \cup {g} : k <= h BY <2>2, <3>1
      <4>2. h \in done \cup {g}
        <5>1. CASE h = g BY <5>1
        <5>2. CASE h # g
          <6>1. h \in old /\ \A k \in old : k <= h BY <4>1, <5>2
          <6> QED BY <1>1, <1>4, <6>1 DEF NewestFinishedKept, old, done
        <5> QED BY <5>1, <5>2
      <4>3. \A k \in done \cup {g} : k <= h BY <2>3, <4>1
      <4> QED BY <1>1, <2>1, <2>3, <3>1, <4>2, <4>3, NewestSurvives
    <3>2. CASE e # d BY <1>4, <1>5, <3>2 DEF NewestFinishedKept
    <3> QED BY <3>1, <3>2
  <2> QED BY <1>2, <2>8, <2>9
<1> QED BY <1>2, <1>6, <1>7

\* The sender's part of the invariant is about the sender's variables only.
LEMMA SameSender ==
  ASSUME ParityInv, EncInv, UNCHANGED <<count, enc, sent>>
  PROVE  ParityInv' /\ EncInv'
<1>1. ParityOK(sent') /\ EncodersOK(enc', count', sent') BY DEF ParityInv, EncInv
<1> QED BY <1>1 DEF ParityInv, EncInv, ParityOK, EncodersOK

LEMMA DecodeCInv ==
  ASSUME CInv, NEW s \in net, NEW again, Decode(s, again)
  PROVE  CInv'
<1> DEFINE d == DecoderFor(GroupSize[s.code])
           shards == Stored(dec, d, s)
<1>1. /\ d \in Codes /\ s \in sent /\ s.code \in Codes
      /\ s.gid \in Nat /\ s.gid \in Groups
      /\ GroupOK(d, s.gid, shards, sent) /\ \A t \in shards : t.idx \in Nat
  BY ShardDecoded
<1>2. /\ UNCHANGED <<count, enc, sent>> /\ net' \subseteq net /\ arrived' = arrived \cup {s}
      /\ dec' = DecodeNext(dec, s) /\ recovered' = recovered \cup given'
  BY DEF Decode
<1>3. SentInv' BY <1>1, <1>2 DEF CInv, SentInv
<1>4. ParityInv' /\ EncInv' BY <1>2, SameSender DEF CInv
<1>5. DecoderOK(dec', sent')
  <2>1. DecoderOK(dec, sent) BY DEF CInv
  <2>2. DecoderOK(DecodeNext(dec, s), sent) BY <1>1, <2>1, DecodeNextOK
  <2> QED BY <1>2, <2>2
<1>6. RecoveredType'
  <2>1. ASSUME NEW r \in given'
        PROVE  r \in [code : Codes, gid : Groups, idx : Nat, body : Bodies \cup {Garbage}]
    <3>1. /\ Ready(d, shards) /\ r.idx \in Missing(d, shards)
          /\ r = [code |-> s.code, gid |-> s.gid, idx |-> r.idx,
                  body |-> Recover(d, shards, r.idx)]
      BY GivenIs
    <3> HIDE DEF shards, d
    <3>2. r.idx \in 0..(DataShards[d] - 1) /\ DataShards[d] \in Nat
      BY <1>1, <3>1, SizesAreNat DEF Missing
    <3>3. Recover(d, shards, r.idx) \in Bodies \cup {Garbage}
      <4>1. OneEach(shards) BY <1>1 DEF GroupOK
      <4>2. CASE Recover(d, shards, r.idx) = Garbage BY <4>2
      <4>3. CASE \E p \in shards : /\ Len(p.body) = DataShards[d]
                                   /\ Recover(d, shards, r.idx) = p.body[r.idx + 1]
        <5>1. PICK p \in shards : /\ Len(p.body) = DataShards[d]
                                  /\ Recover(d, shards, r.idx) = p.body[r.idx + 1]
          BY <4>3
        <5>2. p.body \in Seq(Bodies) BY <1>1 DEF GroupOK, CInv, SentInv, IsShard
        <5>3. r.idx + 1 \in 1..Len(p.body) BY <3>2, <5>1
        <5> QED BY <5>1, <5>2, <5>3
      <4> QED BY <1>1, <3>1, <4>1, <4>2, <4>3, RecoverIs
    <3>4. r.idx \in Nat BY <3>2
    <3> QED BY <1>1, <3>1, <3>3, <3>4
  <2> QED BY <1>2, <2>1 DEF CInv, RecoveredType
<1> QED BY <1>3, <1>4, <1>5, <1>6, DecodeDone DEF CInv

-----------------------------------------------------------------------------
(* The other steps. *)

LEMMA InitCInv == Init => CInv
<1> SUFFICES ASSUME Init PROVE CInv OBVIOUS
<1>1. SentInv BY ChannelAssumption DEF Init, SentInv, Consistent
<1>2. ParityInv BY DEF Init, ParityInv, ParityOK
<1>3. EncInv
  <2>1. EncoderOK(enc, Bodies) BY NewEncoderOK DEF Init
  <2>2. \A c \in Codes : enc[c] = [gid |-> 0, held |-> << >>] BY DEF Init, NewEncoder
  <2>3. Len(<< >>) = 0 /\ 1..0 = {} OBVIOUS
  <2>4. \A c \in Codes : enc[c].gid = 0 /\ enc[c].held = << >> /\ 0 \in 0..count
    BY <2>2 DEF Init
  <2>5. sent = {} BY DEF Init
  <2> QED BY <2>1, <2>3, <2>4, <2>5 DEF EncInv, EncodersOK, OpenGroup
<1>4. DecoderOK(dec, sent) BY NewDecoderOK DEF Init
<1>5. DoneInv /\ finished = [d \in Codes |-> finished[d]]
  <2>1. \A d \in Codes : dec[d].done = {} BY DEF Init, NewDecoder
  <2> QED BY <2>1, FS_EmptySet DEF Init, DoneInv
<1> QED BY <1>1, <1>2, <1>3, <1>4, <1>5 DEF Init, CInv, NewestFinishedKept, RecoveredType

LEMMA EncodeCInv ==
  ASSUME CInv, NEW mode \in UsedModes, NEW tier \in Tiers, Encode(mode, tier)
  PROVE  CInv'
<1>1. SentInv' /\ ParityInv' /\ EncInv' BY EncodeKeeps DEF CInv
<1>2. UNCHANGED <<dec, arrived, expired, finished, recovered>> /\ sent \subseteq sent'
  BY DEF Encode
<1>3. DecoderOK(dec', sent')
  <2>1. DecoderOK(dec, sent') BY <1>2, DecoderMonotone DEF CInv
  <2> QED BY <1>2, <2>1
<1> QED BY <1>1, <1>2, <1>3 DEF CInv, DoneInv, NewestFinishedKept, RecoveredType

LEMMA ClockCInv ==
  ASSUME CInv, ExpireGroups \/ Tick \/ UNCHANGED vars
  PROVE  CInv'
<1>1. UNCHANGED <<count, enc, net, sent, arrived, finished, recovered>>
  BY DEF ExpireGroups, Tick, vars
<1>2. DecoderOK(dec', sent') /\ \A d \in Codes : dec'[d].done = dec[d].done
  <2>1. DecoderOK(dec, sent) BY DEF CInv
  <2>2. CASE ExpireGroups
    <3>1. dec' = Expire(dec) BY <2>2 DEF ExpireGroups
    <3> QED BY <1>1, <2>1, <3>1, ExpireOK DEF Expire
  <2>3. CASE Tick
    <3>1. dec' = Older(dec) BY <2>3 DEF Tick
    <3> QED BY <1>1, <2>1, <3>1, OlderOK DEF Older
  <2>4. CASE UNCHANGED vars BY <1>1, <2>1, <2>4 DEF vars
  <2> QED BY <2>2, <2>3, <2>4
<1>3. ParityInv' /\ EncInv' BY <1>1, SameSender DEF CInv
<1>4. SentInv' BY <1>1 DEF CInv, SentInv
<1>5. DoneInv' /\ NewestFinishedKept' BY <1>1, <1>2 DEF CInv, DoneInv, NewestFinishedKept
<1> QED BY <1>1, <1>2, <1>3, <1>4, <1>5 DEF CInv, RecoveredType

THEOREM ChannelInvariant == Spec => []CInv
<1>1. CInv /\ [Next]_vars => CInv'
  <2> SUFFICES ASSUME CInv, [Next]_vars PROVE CInv' OBVIOUS
  <2> QED BY EncodeCInv, DecodeCInv, ClockCInv DEF Next
<1> QED BY <1>1, InitCInv, PTL DEF Spec

(***************************************************************************)
(* The encoders and decoders are well typed whatever codes the sizes mix   *)
(* up: no group of an encoder overflows, no decoder holds an open group it *)
(* is done with, and what it gives back is a body that was encoded, or     *)
(* Garbage (fec_engine.py:165-292).                                        *)
(***************************************************************************)
THEOREM ChannelTypeCorrect == Spec => []TypeOK
<1>1. CInv => TypeOK
  <2> SUFFICES ASSUME CInv PROVE TypeOK OBVIOUS
  <2>1. count \in 0..MaxPackets /\ net \subseteq sent /\ arrived \subseteq sent
    BY DEF CInv, SentInv
  <2>2. \A c \in Codes : Len(enc[c].held) < DataShards[c]
    BY SizesAreNat DEF CInv, EncInv, EncodersOK, EncoderOK, OpenGroup
  <2>3. ASSUME NEW s \in sent PROVE s.idx < GroupSize[s.code] /\ s.gid \in Groups
    <3>1. /\ s.code \in Codes /\ s.gid \in Nat /\ s.idx \in 0..(GroupSize[s.code] - 1)
          /\ GroupSize[s.code] \in Nat
      BY SizesAreNat DEF CInv, SentInv, IsShard
    <3>2. s.gid <= enc[s.code].gid /\ enc[s.code].gid \in 0..count
      BY <3>1 DEF CInv, EncInv, EncodersOK, OpenGroup
    <3> QED BY <2>1, <3>1, <3>2, ChannelAssumption DEF Groups
  <2>4. \A d \in Codes : \A g \in DOMAIN dec[d].groups :
          /\ g \notin dec[d].done
          /\ dec[d].groups[g].shards \subseteq sent
          /\ dec[d].groups[g].age \in 0..GroupTimeout
    BY DEF CInv, DecoderOK, OpenOK
  <2>5. recovered \subseteq [code : Codes, gid : Groups, idx : Nat,
                             body : 0..(MaxPackets - 1) \cup {Garbage}]
    BY DEF CInv, RecoveredType, Bodies
  <2> QED BY <2>1, <2>2, <2>3, <2>4, <2>5 DEF TypeOK
<1> QED BY <1>1, ChannelInvariant, PTL

(***************************************************************************)
(* Pruning the record of finished groups never forgets the newest one,     *)
(* for every bound of the record (xor_fec.py:206-210, rs_fec.py:268-275).  *)
(***************************************************************************)
THEOREM NewestGroupRemembered == Spec => []NewestFinishedKept
BY ChannelInvariant, PTL DEF CInv

-----------------------------------------------------------------------------
(* What the codes promise when every code has its own decoder. *)

\* The group of a shard, once the shard is stored, is what arrived of it.
LEMMA StoredArrived ==
  ASSUME OInv, EachItsOwn, NEW s \in net, NEW again, Decode(s, again),
         <<s.code, s.gid>> \notin expired, s.gid \notin finished[s.code]
  PROVE  Stored(dec, s.code, s) = ArrivedOf(s.code, s.gid)'
<1> DEFINE c == s.code
           g == s.gid
<1>1. s \in sent /\ c \in UsedCodes /\ g \in Nat BY ShardDecoded DEF OInv
<1>2. ArrivedOf(c, g) = Held(c, g) BY <1>1 DEF OInv, GroupInv
<1>3. \A t \in ArrivedOf(c, g) : t.idx = s.idx => t = s
  BY <1>1 DEF OInv, CInv, SentInv, Consistent, Agree, ArrivedOf
<1>4. Stored(dec, c, s) = Held(c, g) \cup {s}
  BY <1>2, <1>3 DEF Stored, Held
<1>5. ArrivedOf(c, g)' = ArrivedOf(c, g) \cup {s} BY DEF Decode, ArrivedOf
<1> QED BY <1>2, <1>4, <1>5

\* decode_packet gives back the body that was sent.
LEMMA GivenIsOriginal ==
  ASSUME OInv, EachItsOwn, NEW s \in net, NEW again, Decode(s, again), NEW r \in given'
  PROVE  /\ r.code = s.code /\ r.gid = s.gid
         /\ \E t \in DataOf(r.code, r.gid) : t.idx = r.idx /\ t.body = <<r.body>>
<1> DEFINE c == s.code
           shards == Stored(dec, c, s)
<1>1. /\ c \in UsedCodes /\ c \in Codes /\ DecoderFor(GroupSize[c]) = c
      /\ GroupOK(c, s.gid, shards, sent) /\ \A t \in shards : t.idx \in Nat
  <2>1. c \in UsedCodes /\ c \in Codes BY ShardDecoded DEF OInv
  <2>2. DecoderFor(GroupSize[c]) = c BY <2>1 DEF EachItsOwn, OwnDecoder
  <2> QED BY <2>1, <2>2, ShardDecoded DEF OInv
<1>2. /\ Ready(c, shards) /\ r.idx \in Missing(c, shards)
      /\ r = [code |-> c, gid |-> s.gid, idx |-> r.idx, body |-> Recover(c, shards, r.idx)]
  BY <1>1, GivenIs
<1>3. \A t \in shards : t.code = c /\ t.gid = s.gid
  <2> SUFFICES ASSUME NEW t \in shards PROVE t.code = c /\ t.gid = s.gid OBVIOUS
  <2>1. t \in sent /\ t.gid = s.gid /\ DecoderFor(GroupSize[t.code]) = c
    BY <1>1 DEF GroupOK
  <2>2. t.code \in UsedCodes BY <2>1 DEF OInv, CInv, SentInv
  <2>3. DecoderFor(GroupSize[t.code]) = t.code BY <2>2 DEF EachItsOwn, OwnDecoder
  <2> QED BY <2>1, <2>3
<1>4. Consistent(shards) /\ OneEach(shards) /\ shards \subseteq sent
  BY <1>1 DEF GroupOK, OInv, CInv, SentInv, Consistent
<1> HIDE DEF shards, c
<1>5. PICK p \in shards : IsParity(p) /\ Recover(c, shards, r.idx) = p.body[r.idx + 1]
  <2>1. (\A t \in shards : t.code = c) /\ (\A t, u \in shards : t.gid = u.gid) BY <1>3
  <2> QED BY <1>1, <1>2, <1>4, <2>1, RecoverRight
<1>6. p \in sent /\ p.code = c /\ p.gid = s.gid BY <1>3, <1>4, <1>5
<1>7. r.idx \in 0..(DataShards[c] - 1) BY <1>2 DEF Missing
<1>8. PICK t \in sent : /\ t.code = p.code /\ t.gid = p.gid /\ ~IsParity(t)
                        /\ t.idx = r.idx /\ t.body = <<p.body[r.idx + 1]>>
  <2>1. r.idx \in 0..(DataShards[p.code] - 1) BY <1>6, <1>7
  <2>2. ParityOK(sent) BY DEF OInv, CInv, ParityInv
  <2> HIDE DEF c
  <2> QED BY <1>5, <1>6, <2>1, <2>2 DEF ParityOK
<1>9. r.body = p.body[r.idx + 1] /\ r.code = c /\ r.gid = s.gid BY <1>2, <1>5
<1>10. t \in DataOf(c, s.gid) /\ t.idx = r.idx /\ t.body = <<r.body>>
  BY <1>6, <1>8, <1>9 DEF DataOf
<1> QED BY <1>9, <1>10 DEF c

LEMMA DecodeOInv ==
  ASSUME OInv, EachItsOwn, NEW s \in net, NEW again, Decode(s, again)
  PROVE  OInv'
<1> DEFINE c == s.code
           g == s.gid
           shards == Stored(dec, c, s)
<1>1. /\ c \in UsedCodes /\ c \in Codes /\ g \in Nat /\ DecoderFor(GroupSize[c]) = c
      /\ s \in shards
  <2>1. c \in UsedCodes /\ c \in Codes /\ g \in Nat BY ShardDecoded DEF OInv
  <2>2. DecoderFor(GroupSize[c]) = c BY <2>1 DEF EachItsOwn, OwnDecoder
  <2> QED BY <2>1, <2>2, ShardDecoded DEF OInv
<1>2. /\ CInv' /\ DecoderOK(dec, sent) /\ DoneInv
      /\ finished = [d \in Codes |-> finished[d]] /\ UsedCodes \subseteq Codes
  BY DecodeCInv, UsedCodeType DEF OInv, CInv
<1>3. /\ sent' = sent /\ arrived' = arrived \cup {s} /\ expired' = expired
      /\ dec' = DecodeNext(dec, s) /\ recovered' = recovered \cup given'
      /\ finished' = [d \in Codes |-> IF d = c /\ Ready(c, shards)
                                      THEN finished[d] \cup {g} ELSE finished[d]]
  <2>1. finished' = [d \in Codes |->
          IF d = DecoderFor(GroupSize[s.code]) /\ Ready(d, Stored(dec, d, s))
          THEN finished[d] \cup {s.gid} ELSE finished[d]]
    BY DEF Decode
  <2> QED BY <1>1, <2>1 DEF Decode
<1>7. StepOf(c, dec, s, dec')
  <2>1. StepOf(c, dec, s, DecodeNext(dec, s)) BY <1>1, <1>2, DecodeNextIs
  <2> QED BY <1>3, <2>1
<1>4. RecoveredIsOriginal'
  <2> SUFFICES ASSUME NEW r \in recovered'
               PROVE  \E t \in DataOf(r.code, r.gid)' : t.idx = r.idx /\ t.body = <<r.body>>
    BY DEF RecoveredIsOriginal
  <2>1. DataOf(r.code, r.gid)' = DataOf(r.code, r.gid) BY <1>3 DEF DataOf
  <2>2. CASE r \in recovered BY <2>1, <2>2 DEF OInv, RecoveredIsOriginal
  <2>3. CASE r \in given' BY <2>1, <2>3, GivenIsOriginal
  <2> QED BY <1>3, <2>2, <2>3
<1>5. GivenInv'
  <2> SUFFICES ASSUME NEW r \in recovered'
               PROVE  r.code \in UsedCodes /\ r.gid \in finished'[r.code]
    BY DEF GivenInv
  <2>1. CASE r \in recovered
    <3>1. r.code \in UsedCodes /\ r.gid \in finished[r.code] BY <2>1 DEF OInv, GivenInv
    <3> QED BY <1>2, <1>3, <3>1
  <2>2. CASE r \in given'
    <3>1. Ready(c, shards) BY <1>1, <2>2, GivenIs
    <3>2. r.code = c /\ r.gid = g BY <2>2, GivenIsOriginal
    <3> QED BY <1>1, <1>3, <3>1, <3>2
  <2> QED BY <1>3, <2>1, <2>2
<1>6. GroupInv'
  <2> SUFFICES ASSUME NEW e \in UsedCodes, NEW h \in Nat, <<e, h>> \notin expired
               PROVE  IF h \notin finished'[e]
                      THEN ArrivedOf(e, h)' = Held(e, h)' /\ ~Ready(e, Held(e, h)')
                      ELSE \A i \in 0..(DataShards[e] - 1) :
                             \/ i \in Indices(ArrivedOf(e, h)')
                             \/ \E r \in recovered' : r.code = e /\ r.gid = h /\ r.idx = i
    BY <1>3 DEF GroupInv
  <2>1. ArrivedOf(e, h) \subseteq ArrivedOf(e, h)' BY <1>3 DEF ArrivedOf
  <2>2. CASE h \in finished[e]
    <3>1. h \in finished'[e] BY <1>2, <1>3, <2>2
    <3>2. \A i \in 0..(DataShards[e] - 1) :
            \/ i \in Indices(ArrivedOf(e, h))
            \/ \E r \in recovered : r.code = e /\ r.gid = h /\ r.idx = i
      BY <2>2 DEF OInv, GroupInv
    <3> QED BY <1>3, <2>1, <3>1, <3>2 DEF Indices
  <2>3. CASE h \notin finished[e] /\ (e # c \/ h # g)
    <3>1. h \notin finished'[e] BY <1>2, <1>3, <2>3
    <3>2. ArrivedOf(e, h) = Held(e, h) /\ ~Ready(e, Held(e, h)) BY <2>3 DEF OInv, GroupInv
    <3>3. ArrivedOf(e, h)' = ArrivedOf(e, h) BY <1>3, <2>3 DEF ArrivedOf
    <3>4. Held(e, h)' = Held(e, h)
      <4>1. e \in Codes BY <1>2
      <4>2. CASE e # c
        <5>1. dec'[e] = dec[e] BY <1>7, <4>1, <4>2 DEF StepOf
        <5> QED BY <5>1 DEF Held
      <4>3. CASE e = c /\ h # g
        <5>1. CASE g \in dec[c].done
          <6>1. dec' = dec BY <1>7, <5>1 DEF StepOf
          <6> QED BY <6>1 DEF Held
        <5>2. CASE g \notin dec[c].done /\ Ready(c, shards)
          <6>1. dec'[c].groups = Without(dec[c].groups, g)
            BY <1>7, <5>2 DEF StepOf
          <6> QED BY <4>3, <6>1 DEF Held, Without
        <5>3. CASE g \notin dec[c].done /\ ~Ready(c, shards)
          <6>1. /\ DOMAIN dec'[c].groups = DOMAIN dec[c].groups \cup {g}
                /\ \A k \in DOMAIN dec[c].groups \ {g} : dec'[c].groups[k] = dec[c].groups[k]
            BY <1>7, <5>3 DEF StepOf
          <6> QED BY <4>3, <6>1 DEF Held
        <5> QED BY <5>1, <5>2, <5>3
      <4> QED BY <2>3, <4>2, <4>3
    <3> QED BY <3>1, <3>2, <3>3, <3>4
  <2>4. CASE h \notin finished[e] /\ e = c /\ h = g
    <3>1. shards = ArrivedOf(c, g)' BY <2>4, StoredArrived
    <3>2. g \notin dec[c].done BY <1>1, <1>2, <2>4 DEF DoneInv
    <3>3. CASE Ready(c, shards)
      <4>1. h \in finished'[e] BY <1>1, <1>3, <2>4, <3>3
      <4>2. ASSUME NEW i \in 0..(DataShards[c] - 1), i \notin Indices(shards)
            PROVE  \E r \in recovered' : r.code = c /\ r.gid = g /\ r.idx = i
        <5>1. i \in Missing(c, shards) BY <4>2 DEF Missing
        <5>2. \E r \in given' : r.code = c /\ r.gid = g /\ r.idx = i
          BY <1>1, <3>2, <3>3, <5>1, AllGiven
        <5> QED BY <1>3, <5>2
      <4> QED BY <2>4, <3>1, <4>1, <4>2
    <3>4. CASE ~Ready(c, shards)
      <4>1. h \notin finished'[e] BY <1>1, <1>3, <2>4, <3>4
      <4>2. /\ DOMAIN dec'[c].groups = DOMAIN dec[c].groups \cup {g}
            /\ dec'[c].groups[g].shards = shards
        BY <1>7, <3>2, <3>4 DEF StepOf
      <4>3. Held(c, g)' = shards BY <4>2 DEF Held
      <4> QED BY <2>4, <3>1, <3>4, <4>1, <4>3
    <3> QED BY <3>3, <3>4
  <2> QED BY <2>2, <2>3, <2>4
<1> QED BY <1>2, <1>4, <1>5, <1>6 DEF OInv

LEMMA EncodeOInv ==
  ASSUME OInv, NEW mode \in UsedModes, NEW tier \in Tiers, Encode(mode, tier)
  PROVE  OInv'
<1>1. CInv' BY EncodeCInv DEF OInv
<1>2. UNCHANGED <<dec, arrived, expired, finished, recovered>> /\ sent \subseteq sent'
  BY DEF Encode
<1>3. RecoveredIsOriginal' BY <1>2 DEF OInv, RecoveredIsOriginal, DataOf
<1>4. GroupInv' BY <1>2 DEF OInv, GroupInv, ArrivedOf, Held
<1>5. GivenInv' BY <1>2 DEF OInv, GivenInv
<1> QED BY <1>1, <1>3, <1>4, <1>5 DEF OInv

\* A group that expires leaves its mark; the clock touches no shard.
LEMMA ClockOInv ==
  ASSUME OInv, EachItsOwn, ExpireGroups \/ Tick \/ UNCHANGED vars
  PROVE  OInv'
<1>1. CInv' BY ClockCInv DEF OInv
<1>2. /\ UNCHANGED <<sent, arrived, finished, recovered>> /\ expired \subseteq expired'
      /\ UsedCodes \subseteq Codes
  BY UsedCodeType DEF ExpireGroups, Tick, vars
<1>3. RecoveredIsOriginal' BY <1>2 DEF OInv, RecoveredIsOriginal, DataOf
<1>4. GivenInv' BY <1>2 DEF OInv, GivenInv
<1>5. ASSUME NEW c \in UsedCodes, NEW g \in Nat, <<c, g>> \notin expired'
      PROVE  Held(c, g)' = Held(c, g)
  <2>1. CASE ExpireGroups
    <3>1. dec' = Expire(dec) BY <2>1 DEF ExpireGroups
    <3>2. DOMAIN dec'[c].groups \subseteq DOMAIN dec[c].groups
          /\ \A h \in DOMAIN dec'[c].groups : dec'[c].groups[h] = dec[c].groups[h]
      BY <1>2, <3>1 DEF Expire
    <3>3. CASE g \in DOMAIN dec'[c].groups \/ g \notin DOMAIN dec[c].groups
      BY <3>2, <3>3 DEF Held
    <3>4. CASE g \in DOMAIN dec[c].groups \ DOMAIN dec'[c].groups
      <4>1. ASSUME NEW t \in dec[c].groups[g].shards PROVE <<t.code, t.gid>> \in expired'
        <5>1. <<t.code, t.gid>> \in {<<u.code, u.gid>> : u \in dec[c].groups[g].shards}
          OBVIOUS
        <5>2. <<t.code, t.gid>> \in
                UNION {{<<u.code, u.gid>> : u \in dec[c].groups[h].shards} :
                         h \in DOMAIN dec[c].groups \ DOMAIN dec'[c].groups}
          BY <3>4, <5>1
        <5> QED BY <1>2, <2>1, <5>2 DEF ExpireGroups
      <4>2. ASSUME NEW t \in dec[c].groups[g].shards PROVE <<t.code, t.gid>> = <<c, g>>
        <5>1. t \in sent /\ t.gid = g /\ DecoderFor(GroupSize[t.code]) = c
          BY <1>2, <3>4 DEF OInv, CInv, DecoderOK, OpenOK, GroupOK
        <5>2. t.code \in UsedCodes BY <5>1 DEF OInv, CInv, SentInv
        <5>3. DecoderFor(GroupSize[t.code]) = t.code BY <5>2 DEF EachItsOwn, OwnDecoder
        <5> QED BY <5>1, <5>3
      <4>3. dec[c].groups[g].shards = {} BY <1>5, <4>1, <4>2
      <4> QED BY <3>4, <4>3 DEF Held
    <3> QED BY <3>3, <3>4
  <2>2. CASE Tick
    <3>1. dec' = Older(dec) BY <2>2 DEF Tick
    <3>2. DOMAIN dec'[c].groups = DOMAIN dec[c].groups BY <1>2, <3>1 DEF Older
    <3>3. ASSUME NEW h \in DOMAIN dec[c].groups
          PROVE  dec'[c].groups[h].shards = dec[c].groups[h].shards
      <4>1. dec[c].groups[h] \in [shards : SUBSET sent, age : 0..GroupTimeout]
        BY <1>2 DEF OInv, CInv, DecoderOK, OpenOK
      <4>2. dec'[c].groups[h] = [dec[c].groups[h] EXCEPT
                                   !.age = IF @ < GroupTimeout THEN @ + 1 ELSE @]
        BY <1>2, <3>1 DEF Older
      <4> QED BY <4>1, <4>2
    <3> QED BY <3>2, <3>3 DEF Held
  <2>3. CASE UNCHANGED vars BY <2>3 DEF vars, Held
  <2> QED BY <2>1, <2>2, <2>3
<1>6. GroupInv'
  <2> SUFFICES ASSUME NEW c \in UsedCodes, NEW g \in Nat, <<c, g>> \notin expired'
               PROVE  IF g \notin finished[c]
                      THEN ArrivedOf(c, g) = Held(c, g) /\ ~Ready(c, Held(c, g))
                      ELSE \A i \in 0..(DataShards[c] - 1) :
                             \/ i \in Indices(ArrivedOf(c, g))
                             \/ \E r \in recovered : r.code = c /\ r.gid = g /\ r.idx = i
    BY <1>2, <1>5 DEF GroupInv, ArrivedOf
  <2>1. <<c, g>> \notin expired BY <1>2
  <2> QED BY <2>1 DEF OInv, GroupInv
<1> QED BY <1>1, <1>3, <1>4, <1>6 DEF OInv

LEMMA InitOInv == Init => OInv
<1> SUFFICES ASSUME Init PROVE OInv OBVIOUS
<1>1. CInv BY InitCInv
<1>2. RecoveredIsOriginal /\ GivenInv BY DEF Init, RecoveredIsOriginal, GivenInv
<1>3. GroupInv
  <2> SUFFICES ASSUME NEW c \in UsedCodes, NEW g \in Nat
               PROVE  g \notin finished[c] /\ ArrivedOf(c, g) = Held(c, g) /\ ~Ready(c, Held(c, g))
    BY DEF GroupInv
  <2>1. c \in Codes BY UsedCodeType
  <2>2. DOMAIN << >> = {} OBVIOUS
  <2>3. Held(c, g) = {} BY <2>1, <2>2 DEF Init, NewDecoder, Held
  <2>4. ArrivedOf(c, g) = {} BY DEF Init, ArrivedOf
  <2>5. ~Ready(c, {})
    <3>1. Cardinality({}) = 0 /\ ~(0 >= DataShards[c]) BY <2>1, FS_EmptySet, SizesAreNat
    <3>2. XorData \notin Indices({}) BY DEF Indices
    <3> QED BY <3>1, <3>2 DEF Ready
  <2> QED BY <2>1, <2>3, <2>4, <2>5 DEF Init
<1> QED BY <1>1, <1>2, <1>3 DEF OInv

\* The invariant of the modes whose codes have decoders of their own.
THEOREM OwnDecoderInvariant ==
  ASSUME EachItsOwn
  PROVE  Spec => []OInv
<1>1. OInv /\ [Next]_vars => OInv'
  <2> SUFFICES ASSUME OInv, [Next]_vars PROVE OInv' OBVIOUS
  <2> QED BY EncodeOInv, DecodeOInv, ClockOInv DEF Next
<1> QED BY <1>1, InitOInv, PTL DEF Spec

(***************************************************************************)
(* A recovered packet is the packet that was sent, whatever the mix of     *)
(* modes, the losses, the order of arrival and the groups that expired, as *)
(* long as every code in use is decoded by its own decoder                 *)
(* (fec_engine.py:238-292, xor_fec.py:188-213, rs_fec.py:224-253).         *)
(***************************************************************************)
THEOREM RecoversOriginals ==
  ASSUME EachItsOwn
  PROVE  Spec => []RecoveredIsOriginal
BY OwnDecoderInvariant, PTL DEF OInv

(***************************************************************************)
(* The codes keep their promise: as many shards of a group as it has data  *)
(* shards give all of its data (xor_fec.py:4-6, rs_fec.py:4-5), whatever   *)
(* else arrives in between, unless the group expired while it was open.    *)
(***************************************************************************)
THEOREM EnoughSuffice ==
  ASSUME EachItsOwn
  PROVE  Spec => []EnoughShardsSuffice
<1>1. OInv => EnoughShardsSuffice
  <2> SUFFICES ASSUME OInv, NEW c \in Codes, NEW g \in Groups, <<c, g>> \notin expired,
                      Cardinality(ArrivedOf(c, g)) >= DataShards[c], NEW s \in DataOf(c, g)
               PROVE  \/ s \in arrived
                      \/ \E r \in recovered : r.code = c /\ r.gid = g /\ r.idx = s.idx
    BY DEF EnoughShardsSuffice
  <2>1. /\ s \in sent /\ s.code = c /\ s.gid = g /\ ~IsParity(s)
        /\ IsShard(s, Bodies) /\ c \in UsedCodes /\ g \in Nat
    BY DEF DataOf, OInv, CInv, SentInv, IsShard
  <2>2. s.idx \in 0..(DataShards[c] - 1)
    BY <2>1, SizesAreNat DEF IsShard, IsParity
  <2>3. ASSUME s.idx \in Indices(ArrivedOf(c, g)) PROVE s \in arrived
    <3>1. PICK t \in ArrivedOf(c, g) : t.idx = s.idx BY <2>3 DEF Indices
    <3>2. t \in arrived /\ t.code = c /\ t.gid = g /\ t \in sent
      BY DEF ArrivedOf, OInv, CInv, SentInv
    <3>3. t = s BY <2>1, <3>1, <3>2 DEF OInv, CInv, SentInv, Consistent, Agree
    <3> QED BY <3>2, <3>3
  <2>4. CASE g \in finished[c]
    <3>1. \/ s.idx \in Indices(ArrivedOf(c, g))
          \/ \E r \in recovered : r.code = c /\ r.gid = g /\ r.idx = s.idx
      BY <2>1, <2>2, <2>4 DEF OInv, GroupInv
    <3> QED BY <2>3, <3>1
  <2>5. CASE g \notin finished[c]
    <3> DEFINE held == Held(c, g)
    <3>1. ArrivedOf(c, g) = held /\ ~Ready(c, held) BY <2>1, <2>5 DEF OInv, GroupInv
    <3>2. OneEach(held) /\ IsFiniteSet(held)
      BY FS_EmptySet DEF OInv, CInv, DecoderOK, OpenOK, GroupOK, OneEach, Held
    <3>3. \A t \in held : t.idx \in 0..(GroupSize[c] - 1)
      BY <3>1 DEF ArrivedOf, OInv, CInv, SentInv, IsShard
    <3> HIDE DEF held
    <3>4. Missing(c, held) = {} BY <3>1, <3>2, <3>3, NotReadyMissesNothing
    <3>5. s.idx \in Indices(held) BY <2>2, <3>4 DEF Missing
    <3> QED BY <2>3, <3>1, <3>5
  <2> QED BY <2>4, <2>5
<1> QED BY <1>1, OwnDecoderInvariant, PTL

OnlyMissing ==
  \A r \in given' :
    \/ <<r.code, r.gid>> \in expired
    \/ Cardinality(finished[r.code]) > (IF r.code = "xor" THEN XorDoneMax ELSE RsDoneMax)
    \/ r \notin recovered /\ \A s \in ArrivedOf(r.code, r.gid) : s.idx # r.idx

(***************************************************************************)
(* The decoder gives nothing back that arrived or was given back before,   *)
(* late and repeated shards included, unless the group expired or more     *)
(* groups finished than their record holds                                 *)
(* (xor_fec.py:169-171, rs_fec.py:211-212).                                *)
(***************************************************************************)
THEOREM GivesBackOnlyMissing ==
  ASSUME EachItsOwn
  PROVE  Spec => RecoversOnlyMissing
<1>1. OInv /\ [Next]_vars => [OnlyMissing]_vars
  <2> SUFFICES ASSUME OInv, Next PROVE OnlyMissing OBVIOUS
  <2>1. ASSUME NEW s \in net, NEW again \in BOOLEAN, Decode(s, again) PROVE OnlyMissing
    <3> SUFFICES ASSUME NEW r \in given', <<r.code, r.gid>> \notin expired,
                        ~(Cardinality(finished[r.code]) > DoneMax(r.code))
                 PROVE  r \notin recovered /\ \A t \in ArrivedOf(r.code, r.gid) : t.idx # r.idx
      BY DEF OnlyMissing, DoneMax
    <3>1. r.code = s.code /\ r.gid = s.gid BY <2>1, GivenIsOriginal
    <3>2. s.code \in UsedCodes /\ s.code \in Codes BY <2>1, ShardDecoded DEF OInv
    <3>3. DecoderFor(GroupSize[s.code]) = s.code BY <3>2 DEF EachItsOwn, OwnDecoder
    <3>4. s.gid \notin dec[s.code].done /\ r.idx \in Missing(s.code, Stored(dec, s.code, s))
      BY <2>1, <3>3, GivenIs
    <3>5. s.gid \notin finished[s.code] BY <3>1, <3>2, <3>4 DEF OInv, CInv, DoneInv
    <3>6. Stored(dec, s.code, s) = ArrivedOf(s.code, s.gid)'
      BY <2>1, <3>1, <3>5, StoredArrived
    <3>7. ArrivedOf(s.code, s.gid) \subseteq ArrivedOf(s.code, s.gid)'
      BY <2>1 DEF Decode, ArrivedOf
    <3>8. \A t \in ArrivedOf(s.code, s.gid) : t.idx # r.idx
      BY <3>4, <3>6, <3>7 DEF Missing, Indices
    <3>9. r \notin recovered BY <3>1, <3>5 DEF OInv, GivenInv
    <3> QED BY <3>1, <3>8, <3>9
  <2>2. ASSUME given' = {} PROVE OnlyMissing BY <2>2 DEF OnlyMissing
  <2> QED BY <2>1, <2>2 DEF Next, Encode, ExpireGroups, Tick
<1> QED BY <1>1, OwnDecoderInvariant, PTL DEF Spec, RecoversOnlyMissing, OnlyMissing
=============================================================================
