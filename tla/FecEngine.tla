----------------------------- MODULE FecEngine -----------------------------
(***************************************************************************)
(* hyperagg/fec: the encoders and decoders behind FecEngine.encode_packet  *)
(* and FecEngine.decode_packet, as operators on an encoder state and a     *)
(* decoder state.  Modules FecChannel and Tunnel give them state.          *)
(*                                                                         *)
(* The coding arithmetic is abstracted to what it guarantees: a parity     *)
(* shard carries the bodies of its group, a decoder that holds enough      *)
(* shards of ITS code gives back the missing bodies, and a decoder fed     *)
(* with anything else gives back Garbage.                                  *)
(***************************************************************************)
EXTENDS Integers, Sequences, FiniteSets

CONSTANTS
  XorData,       \* xor_group_size
  RsData,        \* rs_data_shards
  RsParity,      \* rs_parity_shards
  HeavyMin,      \* least number of data shards of the heavy code (4 in the code)
  XorDoneMax,    \* _max_active_groups of the XOR decoder (256 in the code)
  RsDoneMax,     \* bound of _delivered of an RS decoder (10000 in the code)
  GroupTimeout,  \* group_timeout_ms, in ticks
  Garbage        \* a body that was never sent

ASSUME FecAssumption ==
  /\ XorData \in Nat \ {0} /\ RsData \in Nat \ {0} /\ RsParity \in Nat \ {0}
  /\ HeavyMin \in Nat \ {0} /\ GroupTimeout \in Nat \ {0}
  /\ XorDoneMax \in Nat \ {0} /\ RsDoneMax \in Nat \ {0}

Codes == {"xor", "reed_solomon", "reed_solomon_heavy"}
Modes == Codes \cup {"none", "replicate"}
Tiers == {"realtime", "streaming", "bulk"}

HeavyData == IF RsData - 2 > HeavyMin THEN RsData - 2 ELSE HeavyMin

DataShards == [c \in Codes |-> CASE c = "xor" -> XorData
                                 [] c = "reed_solomon" -> RsData
                                 [] c = "reed_solomon_heavy" -> HeavyData]

ParityShards == [c \in Codes |-> CASE c = "xor" -> 1
                                   [] c = "reed_solomon" -> RsParity
                                   [] c = "reed_solomon_heavy" -> RsParity + 2]

GroupSize == [c \in Codes |-> DataShards[c] + ParityShards[c]]

-----------------------------------------------------------------------------
(* Encoding. *)

\* One encoder per code: the group being filled and the bodies in it.
NewEncoder == [c \in Codes |-> [gid |-> 0, held |-> << >>]]

\* encode_packet: which code a packet of a tier gets in a mode ("none": no FEC).
CodeFor(mode, tier) ==
  CASE tier = "realtime" -> "none"
    [] tier = "streaming" /\ mode = "xor" -> "reed_solomon"
    [] mode \in {"none", "replicate"} -> "none"
    [] OTHER -> mode

\* The group of code c once body b is added.
Filled(enc, c, b) == Append(enc[c].held, b)

IsComplete(enc, c, b) == Len(Filled(enc, c, b)) = DataShards[c]

\* The shards that come out: the data shard, and the parity of a complete group.
EncodeOut(enc, c, b) ==
  LET data == [code |-> c, gid |-> enc[c].gid, idx |-> Len(enc[c].held), body |-> <<b>>]
      parity(i) == [code |-> c, gid |-> enc[c].gid, idx |-> DataShards[c] + i - 1,
                    body |-> Filled(enc, c, b)]
  IN  <<data>> \o (IF IsComplete(enc, c, b)
                   THEN [i \in 1..ParityShards[c] |-> parity(i)]
                   ELSE << >>)

(* Definitions named X_<flaw> are X with a plausible bug, as in ReorderBuffer. *)
EncodeNext_KeepsGroup(enc, c, b) ==
  [enc EXCEPT ![c] = IF IsComplete(enc, c, b)
                     THEN [gid |-> @.gid + 1, held |-> Filled(enc, c, b)]
                     ELSE [@ EXCEPT !.held = Filled(enc, c, b)]]

\* The encoders afterwards.
EncodeNext(enc, c, b) ==
  [enc EXCEPT ![c] = IF IsComplete(enc, c, b)
                     THEN [gid |-> @.gid + 1, held |-> << >>]
                     ELSE [@ EXCEPT !.held = Filled(enc, c, b)]]

IsParity(s) == s.idx >= DataShards[s.code]

-----------------------------------------------------------------------------
(* Decoding. *)

\* One decoder per code: its open groups and the groups it is done with.
NewDecoder == [c \in Codes |-> [groups |-> << >>, done |-> {}]]

DecoderFor_OneRs(size) == IF size = GroupSize["xor"] THEN "xor" ELSE "reed_solomon"
DecoderFor_HeavyRs(size) == IF size = GroupSize["xor"] THEN "xor" ELSE "reed_solomon_heavy"

\* decode_packet, _decode_rs: the decoder is picked by the group size alone.
DecoderFor(size) ==
  CASE size = GroupSize["xor"] -> "xor"
    [] size # GroupSize["xor"] /\ size = GroupSize["reed_solomon"] -> "reed_solomon"
    [] OTHER -> "reed_solomon_heavy"

Indices(shards) == {t.idx : t \in shards}

Missing(d, shards) == (0..(DataShards[d] - 1)) \ Indices(shards)

Ready_OneMore(d, shards) ==
  IF d = "xor"
  THEN Cardinality(Missing(d, shards)) = 1 /\ XorData \in Indices(shards)
  ELSE Cardinality(shards) > DataShards[d]

\* XORFec.can_recover and RSFecDecoder._try_recover.
Ready(d, shards) ==
  IF d = "xor"
  THEN Cardinality(Missing(d, shards)) = 1 /\ XorData \in Indices(shards)
  ELSE Cardinality(shards) >= DataShards[d]

(***************************************************************************)
(* The body a decoder computes for index i.  It is the right one if all    *)
(* the shards are those of one group of its own code; ciphertext, shards   *)
(* of another code and shards of two groups with one number give Garbage.  *)
(***************************************************************************)
Recover(d, shards, i) ==
  LET parity == CHOOSE t \in shards : t.idx >= DataShards[d]
      fits(t) == /\ t.code = d
                 /\ t.body = IF IsParity(t) THEN parity.body ELSE <<parity.body[t.idx + 1]>>
  IN  IF Len(parity.body) = DataShards[d] /\ \A t \in shards : fits(t)
      THEN parity.body[i + 1]
      ELSE Garbage

DropLeast_DropsMost(S, n) == {x \in S : Cardinality({y \in S : y > x}) >= n}

\* All but the n least elements of S.
DropLeast(S, n) == {x \in S : Cardinality({y \in S : y < x}) >= n}

Finish_Forgets(d, done, g) == done

\* The record of finished groups after g, kept bounded.
Finish(d, done, g) ==
  LET all == done \cup {g}
  IN  IF d = "xor"
      THEN IF Cardinality(all) > XorDoneMax THEN DropLeast(all, Cardinality(all) \div 2) ELSE all
      ELSE IF Cardinality(all) > RsDoneMax THEN DropLeast(all, RsDoneMax \div 2) ELSE all

Without(f, g) == [h \in DOMAIN f \ {g} |-> f[h]]

\* The group of shard s in decoder d once s is stored: s replaces its index.
Stored(dec, d, s) ==
  LET held == IF s.gid \in DOMAIN dec[d].groups THEN dec[d].groups[s.gid].shards ELSE {}
  IN  {t \in held : t.idx # s.idx} \cup {s}

\* receive_packet, receive_shard: the decoders after shard s arrived.
DecodeNext(dec, s) ==
  LET d == DecoderFor(GroupSize[s.code])
      g == s.gid
      open == dec[d].groups
      age == IF g \in DOMAIN open THEN open[g].age ELSE 0
  IN  IF g \in dec[d].done
      THEN dec
      ELSE IF Ready(d, Stored(dec, d, s))
      THEN [dec EXCEPT ![d] = [groups |-> Without(open, g),
                               done |-> Finish(d, dec[d].done, g)]]
      ELSE [dec EXCEPT ![d].groups =
              [h \in DOMAIN open \cup {g} |->
                 IF h = g THEN [shards |-> Stored(dec, d, s), age |-> age] ELSE open[h]]]

DecodeOut_All(dec, s) ==
  LET d == DecoderFor(GroupSize[s.code])
      shards == Stored(dec, d, s)
  IN  IF s.gid \in dec[d].done \/ ~Ready(d, shards)
      THEN {}
      ELSE {[idx |-> i, body |-> Recover(d, shards, i)] : i \in 0..(DataShards[d] - 1)}

\* What decode_packet returns for shard s.
DecodeOut(dec, s) ==
  LET d == DecoderFor(GroupSize[s.code])
      shards == Stored(dec, d, s)
  IN  IF s.gid \in dec[d].done \/ ~Ready(d, shards)
      THEN {}
      ELSE {[idx |-> i, body |-> Recover(d, shards, i)] : i \in Missing(d, shards)}

\* expire_groups: groups that have been open for the timeout are forgotten.
Expire(dec) ==
  [d \in Codes |->
     [groups |-> [g \in {h \in DOMAIN dec[d].groups : dec[d].groups[h].age < GroupTimeout}
                    |-> dec[d].groups[g]],
      done |-> dec[d].done]]

\* A tick of the clock, saturating at the timeout.
Older(dec) ==
  [d \in Codes |->
     [groups |-> [g \in DOMAIN dec[d].groups |->
                    [dec[d].groups[g] EXCEPT !.age = IF @ < GroupTimeout THEN @ + 1 ELSE @]],
      done |-> dec[d].done]]
=============================================================================
