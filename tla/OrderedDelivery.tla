-------------------------- MODULE OrderedDelivery --------------------------
(***************************************************************************)
(* What a HyperAgg receiver promises the TUN device: packets come out in   *)
(* the order of their global sequence numbers and each at most once; a     *)
(* packet that is held is never thrown away, it comes out the moment the   *)
(* frontier passes it.  The promise says nothing of WHEN the frontier      *)
(* moves: filling the gap and giving up on it are both allowed.            *)
(*                                                                         *)
(* AdaptiveReorderBuffer (module ReorderBuffer) implements it, the buffer  *)
(* in the tunnel between two restarts of its receiver (Tunnel_proofs), and *)
(* the legacy server (EngineTunnel) until a packet is doubled.             *)
(***************************************************************************)
EXTENDS Integers, Sequences

CONSTANT Numbers   \* the sequence numbers in use, a set of naturals

VARIABLES
  frontier,   \* the next sequence number to come out
  pending,    \* sequence numbers that are held
  out         \* sequence numbers that came out, in order

vars == <<frontier, pending, out>>

Ascending(s) == \A i, j \in 1..Len(s) : i < j => s[i] < s[j]

\* Elements that this step appends to `out'.
Appended == SubSeq(out', Len(out) + 1, Len(out'))

(***************************************************************************)
(* The frontier moves up to frontier', which releases what `held' has      *)
(* below it, in ascending order.                                           *)
(***************************************************************************)
Advance(held) ==
  /\ frontier' \in Nat
  /\ frontier' >= frontier
  /\ pending' = {s \in held : s >= frontier'}
  /\ out' = out \o Appended
  /\ Ascending(Appended)
  /\ {Appended[i] : i \in 1..Len(Appended)} = held \ pending'

Init == frontier = 0 /\ pending = {} /\ out = << >>

\* A packet that the frontier has not passed is taken in.
Receive(s) ==
  /\ s >= frontier
  /\ s \notin pending
  /\ Advance(pending \cup {s})

\* The frontier moves although nothing arrived: a gap was given up.
GiveUp == Advance(pending)

Next == (\E s \in Numbers : Receive(s)) \/ GiveUp

Spec == Init /\ [][Next]_vars
=============================================================================
