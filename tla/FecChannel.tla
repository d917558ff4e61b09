----------------------------- MODULE FecChannel -----------------------------
(***************************************************************************)
(* A FecEngine at each end of a tunnel (hyperagg/fec/fec_engine.py): one   *)
(* encodes packets in whatever mode update_mode chose, the other decodes   *)
(* the shards the network lets through, in any order, while groups expire. *)
(* The receiver drops duplicates of data packets before the decoder sees   *)
(* them (client.py:494, server.py:211) but not those of parity packets,    *)
(* whose sequence numbers are never inserted in the reorder buffer.        *)
(***************************************************************************)
EXTENDS FecEngine

CONSTANTS
  MaxPackets,    \* packets sent (bound)
  UsedModes      \* the modes update_mode may choose (bound)

ASSUME ChannelAssumption == MaxPackets \in Nat /\ UsedModes \subseteq Modes

VARIABLES
  count,      \* packets encoded so far; packet number n has body n
  enc,        \* the sender's encoders
  net,        \* shards on their way
  dec,        \* the receiver's decoders
  sent,       \* history: all shards sent
  arrived,    \* history: shards that reached the decoder
  expired,    \* history: <<code, gid>> of shards that expire_groups threw away
  finished,   \* history: [decoder -> groups it was ever done with]
  given,      \* what the last decode_packet returned, with code and group
  recovered   \* history: all that decode_packet returned

vars == <<count, enc, net, dec, sent, arrived, expired, finished, given, recovered>>

Init ==
  /\ count = 0
  /\ enc = NewEncoder
  /\ net = {}
  /\ dec = NewDecoder
  /\ sent = {} /\ arrived = {} /\ expired = {} /\ given = {} /\ recovered = {}
  /\ finished = [d \in Codes |-> {}]

Elements(q) == {q[i] : i \in 1..Len(q)}

\* encode_packet of the next packet, of some tier, in some mode.
Encode(mode, tier) ==
  LET c == CodeFor(mode, tier)
      out == Elements(EncodeOut(enc, c, count))
  IN  /\ count < MaxPackets
      /\ c # "none"
      /\ count' = count + 1
      /\ enc' = EncodeNext(enc, c, count)
      /\ net' = net \cup out
      /\ sent' = sent \cup out
      /\ given' = {}
      /\ UNCHANGED <<dec, arrived, expired, finished, recovered>>

\* decode_packet of a shard; only a parity shard can arrive again.
Decode(s, again) ==
  /\ s \in net
  /\ again => IsParity(s)
  /\ net' = IF again THEN net ELSE net \ {s}
  /\ dec' = DecodeNext(dec, s)
  /\ arrived' = arrived \cup {s}
  /\ finished' = [d \in Codes |->
       IF d = DecoderFor(GroupSize[s.code]) /\ Ready(d, Stored(dec, d, s))
       THEN finished[d] \cup {s.gid} ELSE finished[d]]
  /\ given' = {[code |-> s.code, gid |-> s.gid, idx |-> r.idx, body |-> r.body] :
                 r \in DecodeOut(dec, s)}
  /\ recovered' = recovered \cup given'
  /\ UNCHANGED <<count, enc, sent, expired>>

\* expire_groups, every 50 ms.
ExpireGroups ==
  /\ dec' = Expire(dec)
  /\ expired' = expired \cup
       UNION {UNION {{<<t.code, t.gid>> : t \in dec[d].groups[g].shards} :
                       g \in DOMAIN dec[d].groups \ DOMAIN dec'[d].groups} : d \in Codes}
  /\ given' = {}
  /\ UNCHANGED <<count, enc, net, sent, arrived, finished, recovered>>

Tick ==
  /\ dec' = Older(dec)
  /\ given' = {}
  /\ UNCHANGED <<count, enc, net, sent, arrived, expired, finished, recovered>>

Next ==
  \/ \E mode \in UsedModes, tier \in Tiers : Encode(mode, tier)
  \/ \E s \in net, again \in BOOLEAN : Decode(s, again)
  \/ ExpireGroups
  \/ Tick

Spec == Init /\ [][Next]_vars

-----------------------------------------------------------------------------
(* What the codes promise. *)

\* The data shards sent in group g of code c, and the shards that arrived.
DataOf(c, g) == {s \in sent : s.code = c /\ s.gid = g /\ ~IsParity(s)}
ArrivedOf(c, g) == {s \in arrived : s.code = c /\ s.gid = g}
Groups == 0..MaxPackets

TypeOK ==
  /\ count \in 0..MaxPackets
  /\ \A c \in Codes : Len(enc[c].held) < DataShards[c]
  /\ net \subseteq sent /\ arrived \subseteq sent
  /\ \A s \in sent : s.idx < GroupSize[s.code] /\ s.gid \in Groups
  /\ \A d \in Codes : \A g \in DOMAIN dec[d].groups :
       /\ g \notin dec[d].done
       /\ dec[d].groups[g].shards \subseteq sent
       /\ dec[d].groups[g].age \in 0..GroupTimeout
  /\ recovered \subseteq [code : Codes, gid : Groups, idx : Nat,
                          body : 0..(MaxPackets - 1) \cup {Garbage}]

(***************************************************************************)
(* A recovered packet is the packet that was sent: the body written to the *)
(* TUN for index i of a group is that of the i-th data packet encoded in   *)
(* that group, whatever mix of codes was used                              *)
(* (fec_engine.py:238-292, xor_fec.py:188-213, rs_fec.py:224-253).         *)
(***************************************************************************)
RecoveredIsOriginal ==
  \A r \in recovered :
    \E s \in DataOf(r.code, r.gid) : s.idx = r.idx /\ s.body = <<r.body>>

(***************************************************************************)
(* The decoder does not give back what the TUN already got: a recovered    *)
(* packet had neither arrived nor been recovered before, as long as its    *)
(* group did not expire and no more groups finished than their record      *)
(* holds (xor_fec.py:169-171, rs_fec.py:211-212).                          *)
(***************************************************************************)
RecoversOnlyMissing ==
  [][\A r \in given' :
       \/ <<r.code, r.gid>> \in expired
       \/ Cardinality(finished[r.code]) > (IF r.code = "xor" THEN XorDoneMax ELSE RsDoneMax)
       \/ r \notin recovered /\ \A s \in ArrivedOf(r.code, r.gid) : s.idx # r.idx]_vars

(***************************************************************************)
(* Pruning the record of finished groups never forgets the newest one,     *)
(* however out of order the groups finished (xor_fec.py:206-210,           *)
(* rs_fec.py:268-275): the group most likely to see late shards.           *)
(***************************************************************************)
NewestFinishedKept ==
  \A d \in Codes : \A g \in finished[d] :
    (\A h \in finished[d] : h <= g) => g \in dec[d].done

(***************************************************************************)
(* The promise of each code (xor_fec.py:4-6, rs_fec.py:4-5): as many       *)
(* shards of a group as it has data shards are enough to have all its data *)
(* (for XOR: all data but one, and the parity), provided the group did not *)
(* expire while it was open.                                               *)
(***************************************************************************)
EnoughShardsSuffice ==
  \A c \in Codes, g \in Groups :
    (/\ <<c, g>> \notin expired
     /\ Cardinality(ArrivedOf(c, g)) >= DataShards[c])
      => \A s \in DataOf(c, g) :
           \/ s \in arrived
           \/ \E r \in recovered : r.code = c /\ r.gid = g /\ r.idx = s.idx
=============================================================================
