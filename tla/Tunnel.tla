------------------------------- MODULE Tunnel -------------------------------
(***************************************************************************)
(* One direction of the HyperAgg tunnel, end to end: the sender reads IP   *)
(* packets from its TUN device, encodes them, gives every output a global  *)
(* sequence number and sends it on some paths; the receiver drops          *)
(* duplicates, decodes, reorders and writes to its TUN.                    *)
(*                                                                         *)
(* "up" is client._send_packet to server._on_udp_readable, "down" is       *)
(* server._send_return to client._on_udp_readable.  The receiver's two     *)
(* loops and its socket callback run in one asyncio event loop and do not  *)
(* await inside, so each is one action.  Datagrams are lost (never         *)
(* received), reordered, and duplicated by being sent on several paths.    *)
(*                                                                         *)
(* The receiver's reorder buffer is module ReorderBuffer, its decoders are *)
(* those of FecEngine.                                                     *)
(***************************************************************************)
EXTENDS FecEngine, Bags

CONSTANTS
  MaxSeq, Window, Paths, Rtts, Jitters, MinTimeout, MaxTimeout, InitTimeout,
  TickMs, RecentMax, MaxLate,    \* as in ReorderBuffer
  Limits,      \* for each direction modelled, its bounds: sources (packets read
               \* from the TUN), outputs (numbers used), modes (FEC modes the
               \* sender may be in), restarts of the sender and of the receiver
  Encrypted    \* is an encryption key configured?

Directions == DOMAIN Limits

VARIABLES
  direction,   \* which pipeline this is; never changes
  nextSeq, buffer, age, seen, flushed, timeout, recent, lateCount, delivered,
  globalSeq,   \* _global_seq of the sender
  enc,         \* its encoders
  read,        \* packets read from its TUN; the n-th one has body n
  net,         \* bag of datagrams in flight
  dec,         \* the receiver's decoders
  payload,     \* [buffer -> body]: the values of _buffer
  tun,         \* history: what was written to the receiver's TUN, in order
  byFec,       \* history: the positions of tun written by FEC recovery
  bootAt,      \* history: Len(tun) when the receiver last started
  fed,         \* history: shards given to the decoders since they are there
  expired,     \* history: <<code, gid>> thrown away by expire_groups
  bornIn,      \* history: the run of the sender in which a packet was read
  ceiling,     \* history: earlier runs of the sender used numbers below it
  restarts     \* [sender, receiver]: restarts so far

RB == INSTANCE ReorderBuffer

\* The bounds, and the buffer's constants as ConstAssumption has them.
ASSUME TunnelAssumption ==
  /\ Directions \subseteq {"up", "down"}
  /\ \A d \in Directions : /\ Limits[d].sources \in Nat /\ Limits[d].modes \subseteq Modes
                           /\ Limits[d].outputs \in 0..(MaxSeq + 1)
  /\ MaxSeq \in Nat /\ Window \in Nat \ {0}
  /\ IsFiniteSet(Paths)
  /\ Rtts \subseteq 0..RB!MaxMetric /\ Jitters \subseteq 0..RB!MaxMetric
  /\ MinTimeout \in Nat /\ MaxTimeout \in Nat /\ InitTimeout \in Nat
  /\ MinTimeout <= InitTimeout /\ InitTimeout <= MaxTimeout
  /\ TickMs \in Nat \ {0} /\ RecentMax \in Nat \ {0} /\ MaxLate \in Nat

bufferVars == <<nextSeq, buffer, age, seen, flushed, timeout, recent, lateCount, delivered>>
senderVars == <<globalSeq, enc, read, bornIn, ceiling>>
historyVars == <<tun, byFec, bootAt, fed, expired>>
vars == <<bufferVars, senderVars, historyVars, net, dec, payload, restarts, direction>>

Limit == Limits[direction]

Init ==
  /\ RB!Init
  /\ globalSeq = 0 /\ enc = NewEncoder /\ read = 0 /\ bornIn = << >> /\ ceiling = 0
  /\ net = EmptyBag
  /\ dec = NewDecoder
  /\ payload = << >>
  /\ tun = << >> /\ byFec = {} /\ bootAt = 0 /\ fed = {} /\ expired = {}
  /\ restarts = [sender |-> 0, receiver |-> 0]
  /\ direction \in Directions

-----------------------------------------------------------------------------
(* The sender. *)

\* Return traffic is always encoded as streaming (server.py:337).
SendTiers == IF direction = "up" THEN Tiers ELSE {"streaming"}

\* What encode_packet returns for body b.
Outputs(c, b) ==
  IF c = "none" THEN <<[code |-> "none", gid |-> 0, idx |-> 0, body |-> <<b>>]>>
  ELSE EncodeOut(enc, c, b)

IsFecParity(s) == s.code # "none" /\ IsParity(s)

(***************************************************************************)
(* A shard as the receiver will see it.  Everything is encrypted when a    *)
(* key is configured (client.py:335-345), but the receiver decrypts only   *)
(* data (client.py:508, server.py:217).                                    *)
(***************************************************************************)
Sealed(s) == IF Encrypted /\ IsFecParity(s) THEN [s EXCEPT !.body = <<Garbage>>] ELSE s

(***************************************************************************)
(* _send_packet, _send_return: every output gets the next global sequence  *)
(* number and goes out on some paths, on none if the scheduler, the tier   *)
(* budget, the pacer or the socket refuse it.                              *)
(***************************************************************************)
Send(mode, tier) ==
  LET c == CodeFor(mode, tier)
      out == Outputs(c, read)
      packet(i) == [seq |-> globalSeq + i - 1, shard |-> Sealed(out[i])]
  IN  /\ read < Limit.sources
      /\ globalSeq + Len(out) <= Limit.outputs
      /\ \E copies \in [1..Len(out) -> 0..Cardinality(Paths)] :
           net' = net (+) [p \in {packet(i) : i \in {j \in 1..Len(out) : copies[j] > 0}}
                             |-> copies[p.seq - globalSeq + 1]]
      /\ globalSeq' = globalSeq + Len(out)
      /\ enc' = IF c = "none" THEN enc ELSE EncodeNext(enc, c, read)
      /\ read' = read + 1
      /\ bornIn' = Append(bornIn, restarts.sender)
      /\ UNCHANGED <<bufferVars, historyVars, dec, payload, ceiling, restarts>>

-----------------------------------------------------------------------------
(* The receiver. *)

\* decode_packet of a packet's shard, and what it gives back in index order.
Decoded(s) == IF s.code = "none" THEN dec ELSE DecodeNext(dec, s)

Recovered(s) ==
  LET out == IF s.code = "none" THEN {} ELSE DecodeOut(dec, s)
      nth(i) == CHOOSE r \in out : Cardinality({q \in out : q.idx < r.idx}) = i - 1
  IN  [i \in 1..Cardinality(out) |-> nth(i).body]

(* Definitions named X_<flaw> are X with a plausible bug, as in ReorderBuffer. *)
Released_Reversed(held) ==
  [i \in 1..(Len(delivered') - Len(delivered)) |-> held[delivered'[Len(delivered') + 1 - i]]]

\* The bodies, in `held', of the packets this step takes out of the buffer.
Released(held) ==
  [i \in 1..(Len(delivered') - Len(delivered)) |-> held[delivered'[Len(delivered) + i]]]

\* FEC output is written to the TUN at once, then what the buffer releases.
Write(recovered, released) ==
  /\ tun' = tun \o recovered \o released
  /\ byFec' = byFec \cup (Len(tun) + 1 .. Len(tun) + Len(recovered))

Take(p) == net' = net (-) SetToBag({p})

\* _on_udp_readable of a packet that is_duplicate refuses.
Drop(p) ==
  /\ RB!IsDuplicate(p.seq)
  /\ Take(p)
  /\ UNCHANGED <<bufferVars, senderVars, historyVars, dec, payload, restarts>>

\* _on_udp_readable of a data packet.
ReceiveData(p) ==
  LET held == [s \in buffer \cup {p.seq} |->
                 IF s = p.seq THEN p.shard.body[1] ELSE payload[s]]
  IN  /\ ~IsFecParity(p.shard)
      /\ RB!Insert(p.seq)
      /\ Take(p)
      /\ dec' = Decoded(p.shard)
      /\ payload' = [s \in buffer' |-> held[s]]
      /\ Write(Recovered(p.shard), Released(held))
      /\ fed' = fed \cup {p.shard}
      /\ UNCHANGED <<senderVars, bootAt, expired, restarts>>

ReceiveParity_UsesNumber(p) ==
  /\ IsFecParity(p.shard)
  /\ ~RB!IsDuplicate(p.seq)
  /\ Take(p)
  /\ nextSeq' = IF p.seq = nextSeq THEN nextSeq + 1 ELSE nextSeq
  /\ dec' = Decoded(p.shard)
  /\ Write(Recovered(p.shard), << >>)
  /\ fed' = fed \cup {p.shard}
  /\ UNCHANGED <<buffer, age, seen, flushed, timeout, recent, lateCount, delivered,
                 senderVars, payload, bootAt, expired, restarts>>

\* _on_udp_readable of a parity packet: it never enters the reorder buffer.
ReceiveParity(p) ==
  /\ IsFecParity(p.shard)
  /\ ~RB!IsDuplicate(p.seq)
  /\ Take(p)
  /\ dec' = Decoded(p.shard)
  /\ Write(Recovered(p.shard), << >>)
  /\ fed' = fed \cup {p.shard}
  /\ UNCHANGED <<bufferVars, senderVars, payload, bootAt, expired, restarts>>

\* A round of _reorder_timeout_loop: check_timeouts, then expire_groups.
TimeoutRound ==
  /\ RB!CheckTimeouts
  /\ payload' = [s \in buffer' |-> payload[s]]
  /\ Write(<< >>, Released(payload))
  /\ dec' = Expire(dec)
  /\ expired' = expired \cup
       UNION {UNION {{<<t.code, t.gid>> : t \in dec[d].groups[g].shards} :
                       g \in DOMAIN dec[d].groups \ DOMAIN dec'[d].groups} : d \in Codes}
  /\ UNCHANGED <<senderVars, net, bootAt, fed, restarts>>

\* The client's loop also calls update_timeout; the server's does not.
Adapt ==
  /\ direction = "down"
  /\ \E alive \in SUBSET Paths :
       \E rtt \in [alive -> Rtts], jitter \in [alive -> Jitters] :
         RB!UpdateTimeout(rtt, jitter)
  /\ UNCHANGED <<senderVars, historyVars, net, dec, payload, restarts>>

\* Time passes at the receiver.
Tick ==
  /\ age' = RB!Aged
  /\ dec' = Older(dec)
  /\ UNCHANGED <<nextSeq, buffer, seen, flushed, timeout, recent, lateCount, delivered,
                 senderVars, historyVars, net, payload, restarts>>

-----------------------------------------------------------------------------
(* Restarts. *)

(***************************************************************************)
(* A new sending process numbers from 0: TunnelClient.start asks its own,  *)
(* new SessionManager for resume data, and it has none.                    *)
(***************************************************************************)
SenderRestart ==
  /\ restarts.sender < Limit.senderRestarts
  /\ restarts' = [restarts EXCEPT !.sender = @ + 1]
  /\ globalSeq' = 0
  /\ enc' = NewEncoder
  /\ ceiling' = IF globalSeq > ceiling THEN globalSeq ELSE ceiling
  /\ UNCHANGED <<bufferVars, historyVars, read, bornIn, net, dec, payload>>

ReceiverRestart_KeepsDecoder ==
  /\ restarts.receiver < Limit.receiverRestarts
  /\ restarts' = [restarts EXCEPT !.receiver = @ + 1]
  /\ nextSeq' = 0 /\ buffer' = {} /\ age' = << >> /\ seen' = {} /\ flushed' = {}
  /\ timeout' = InitTimeout /\ recent' = << >> /\ lateCount' = 0 /\ delivered' = << >>
  /\ dec' = dec /\ payload' = << >> /\ fed' = {} /\ expired' = {}
  /\ bootAt' = Len(tun)
  /\ UNCHANGED <<senderVars, tun, byFec, net>>

ReceiverRestart ==
  /\ restarts.receiver < Limit.receiverRestarts
  /\ restarts' = [restarts EXCEPT !.receiver = @ + 1]
  /\ nextSeq' = 0 /\ buffer' = {} /\ age' = << >> /\ seen' = {} /\ flushed' = {}
  /\ timeout' = InitTimeout /\ recent' = << >> /\ lateCount' = 0 /\ delivered' = << >>
  /\ dec' = NewDecoder /\ payload' = << >> /\ fed' = {} /\ expired' = {}
  /\ bootAt' = Len(tun)
  /\ UNCHANGED <<senderVars, tun, byFec, net>>

Next ==
  /\ UNCHANGED direction
  /\ \/ \E mode \in Limit.modes, tier \in SendTiers : Send(mode, tier)
     \/ \E p \in BagToSet(net) : Drop(p) \/ ReceiveData(p) \/ ReceiveParity(p)
     \/ TimeoutRound
     \/ Adapt
     \/ Tick
     \/ SenderRestart
     \/ ReceiverRestart

Spec == Init /\ [][Next]_vars

-----------------------------------------------------------------------------
(* What the tunnel guarantees, and what it does not. *)

Sources == 0..(read - 1)
Written == {tun[i] : i \in 1..Len(tun)}
Held    == {payload[s] : s \in buffer}

TypeOK ==
  /\ RB!TypeOK
  /\ globalSeq \in 0..(MaxSeq + 1) /\ read \in 0..Limit.sources
  /\ Len(bornIn) = read
  /\ IsABag(net)
  /\ \A p \in BagToSet(net) : p.seq \in RB!Seqs
  /\ DOMAIN payload = buffer /\ Held \subseteq Sources
  /\ Written \subseteq Sources \cup {Garbage}
  /\ byFec \subseteq 1..Len(tun) /\ bootAt \in 0..Len(tun)

(***************************************************************************)
(* Every step of the tunnel is a step of its reorder buffer, leaves it     *)
(* alone, or is a restart of the receiver, which has a new one: what       *)
(* ReorderBuffer guarantees holds in the tunnel between two restarts       *)
(* (client.py:454-545, server.py:206-246, 390-400).                        *)
(***************************************************************************)
ImplementsReorderBuffer ==
  /\ RB!Init
  /\ [][\/ RB!Next
        \/ (RB!Init)' /\ restarts'.receiver > restarts.receiver]_bufferVars

(***************************************************************************)
(* Without encryption, what is written to the TUN was read from the other  *)
(* TUN: no mixture of modes, losses, late shards, expiring groups and      *)
(* restarts of the receiver makes the decoder invent a packet              *)
(* (server.py:224-246, client.py:521-545).  A restarted sender numbers its *)
(* groups from 0 again and a decoder with an open group of that number     *)
(* does mix the two.                                                       *)
(***************************************************************************)
NothingInvented == restarts.sender = 0 => Written \subseteq Sources

(***************************************************************************)
(* What a run of the receiver's reorder buffer hands to the TUN, as        *)
(* opposed to what FEC writes past it, is in the order in which each run   *)
(* of the sender read the packets, each once: the sender numbers data and  *)
(* parity alike without leaving the order (client.py:425-428).             *)
(***************************************************************************)
ReorderedInSourceOrder ==
  \A i, j \in (bootAt + 1 .. Len(tun)) \ byFec :
    i < j /\ bornIn[tun[i] + 1] = bornIn[tun[j] + 1] => tun[i] < tun[j]

(***************************************************************************)
(* The stages agree: when the decoder was given as many shards of a group  *)
(* as the group has data, each of its packets was written or waits in the  *)
(* reorder buffer, whether it arrived or was rebuilt, unless the group     *)
(* expired first or a restarted sender used its number again.  A shard     *)
(* that dedup drops because its number was flushed is not given to the     *)
(* decoder (server.py:211-231).                                            *)
(***************************************************************************)
EnoughFedReachTun ==
  \A p \in {s \in fed : IsFecParity(s)} :
    (/\ restarts.sender = 0
     /\ <<p.code, p.gid>> \notin expired
     /\ Cardinality({s \in fed : s.code = p.code /\ s.gid = p.gid}) >= DataShards[p.code])
      => \A i \in 1..Len(p.body) : p.body[i] \in Written \cup Held

\* The shards of the group of shard s that the decoder was given.
FedWith(s) == {q \in fed : q.code = s.code /\ q.gid = s.gid}

(***************************************************************************)
(* What FEC writes past the reorder buffer (server.py:228, client.py:535)  *)
(* is not there yet: when a group first gets enough shards, nothing that   *)
(* is recovered of it was written by this run of the receiver or waits in  *)
(* the buffer.  A packet is written twice in one order only, by FEC and    *)
(* then, its number being still a gap, by the buffer.  A group that        *)
(* expired has forgotten what arrived of it.                               *)
(***************************************************************************)
RecoversOnlyUnwritten ==
  [][\A p \in BagToSet(net) :
       /\ p.shard.code \in Codes /\ (ReceiveData(p) \/ ReceiveParity(p))
       /\ restarts.sender = 0 /\ <<p.shard.code, p.shard.gid>> \notin expired
       /\ Cardinality(FedWith(p.shard)) < DataShards[p.shard.code]
       => \A i \in byFec' \ byFec :
            tun'[i] \notin Held \cup {tun[j] : j \in bootAt + 1 .. Len(tun)}]_vars

\* Packet p brings something new: its payload was neither written nor is it
\* held, and nothing read after it by the same run of the sender was written.
BringsNews(p) ==
  LET b == p.shard.body[1]
  IN  /\ ~IsFecParity(p.shard)
      /\ b \notin Written \cup Held
      /\ \A later \in Written \cap (b + 1 .. read - 1) : bornIn[later + 1] # bornIn[b + 1]

(***************************************************************************)
(* Dedup refuses a data packet only if it brings nothing new               *)
(* (reorder_buffer.py:102-105, server.py:211-213), or if its number was    *)
(* used before by an earlier run of the sender: what a restart loses is    *)
(* bounded by what was sent before it.                                     *)
(***************************************************************************)
DropsOnlyStale ==
  [][\A p \in BagToSet(net) : Drop(p) /\ BringsNews(p) => p.seq < ceiling]_vars

(***************************************************************************)
(* "Session Resumption -- survives complete path dropout and reconnects"   *)
(* (session.py:2), "resumes from last_global_seq + 1" (session.py:10): no  *)
(* packet that brings something new is refused, restart or not.            *)
(***************************************************************************)
ResumesAfterRestart ==
  [][\A p \in BagToSet(net) : Drop(p) => ~BringsNews(p)]_vars
=============================================================================
