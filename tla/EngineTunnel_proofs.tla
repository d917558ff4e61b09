-------------------------- MODULE EngineTunnel_proofs --------------------------
(***************************************************************************)
(* Proofs about the engine and its tunnel, for any paths, threads, modes,  *)
(* thresholds and bounds.                                                  *)
(*                                                                         *)
(* A thread's instructions are a sequence that grows and shrinks, so the   *)
(* invariant must not list what it may be.  It says how two instructions   *)
(* that follow each other fit (Adjacent): under which lock each is         *)
(* executed, and where a listener returns to.  A sequence in which all     *)
(* neighbours fit is a program (Program).  Programs are closed under what  *)
(* the steps do: dropping the head, putting a call or a listener in front, *)
(* and leaving a listener by an exception.                                 *)
(*                                                                         *)
(* On that rest, one after the other:                                      *)
(*   LockInv     a lock is held by the thread whose program gives it back; *)
(*   Rebalanced  the directives, and what a rebalance has read so far, are *)
(*               of the configuration as it is, or the event loop, which   *)
(*               set it, is on its way to compute them anew;               *)
(*   Order       the handlers of the tunnel together have at most the one  *)
(*               packet that is next.                                      *)
(*                                                                         *)
(* Last, the server's part implements OrderedDelivery until a packet is    *)
(* doubled.  That needs of the engine that it leaves a write alone which   *)
(* the loop is about to hand over (Paired, WritesStay).                    *)
(***************************************************************************)
EXTENDS EngineTunnel, TLAPS, SequenceTheorems, WellFoundedInduction

-----------------------------------------------------------------------------
(* What a thread still has to execute is a program. *)

\* The lock that its innermost call holds when thread t comes to instruction i.
Under(t, i) ==
  CASE i[1] \in {"probe", "register"} -> "health"
    [] i[1] \in {"scores", "sched", "failover", "states", "internals"} -> "balancer"
    [] i[1] \in {"set", "reset"} -> "config"
    [] i[1] = "drop" -> i[2]
    [] i = <<"touch", "config">> /\ t = Collector -> "metrics"
    [] OTHER -> "none"

\* And after it.  The rest of a rebalance, which scores puts in front, ends
\* with giving the lock back.
After(t, i) ==
  CASE i[1] = "take" -> i[2]
    [] i[1] \in {"drop", "scores"} -> "none"
    [] OTHER -> Under(t, i)

\* An instruction of a listener.
Listening(i) ==
  \/ i[1] \in {"scores", "sched", "failover", "states", "internals"}
  \/ i \in {<<"take", "balancer">>, <<"drop", "balancer">>, <<"touch", "health">>}

LoopOnly == {"set", "reset", "arrive", "deliver", "write"}
Last     == {"arrive", "deliver", "write"}
Gives    == {"drop", "return"}

\* The instructions i, and j after it, of thread t.
Adjacent(t, i, j) ==
  /\ i[1] # "return" => Under(t, j) = After(t, i)
  /\ i[1] = "return" => Under(t, j) \in {"health", "config"}
  /\ i[1] \notin Last /\ j[1] \notin {"sched", "internals"}
  /\ j[1] = "failover" <=> i[1] = "sched"
  /\ j[1] = "states" <=> i[1] = "failover"

Program(t, s) ==
  /\ s \in Seq(Instructions)
  /\ \A k \in 1..Len(s) : s[k][1] \in LoopOnly => t = Loop
  /\ \A k \in 1..Len(s) : k < Len(s) => Adjacent(t, s[k], s[k + 1])
  /\ \A k \in 1..Len(s) : k = Len(s) => After(t, s[k]) = "none" /\ s[k][1] # "return"
  /\ \A j, k \in 1..Len(s) : j < k /\ s[k][1] = "return" => Listening(s[j])

\* Thread t holds lock l, with the instructions s to execute: in its innermost
\* call, or in one that a listener returns to.
Outer(t, s, l) == \E k \in 1..Len(s) : k < Len(s) /\ s[k][1] = "return" /\ Under(t, s[k + 1]) = l
Holds(t, s, l) == (s # <<>> /\ Under(t, s[1]) = l) \/ Outer(t, s, l)

-----------------------------------------------------------------------------
(* The instructions, and what of a program is one. *)

Plain == {"return", "scores", "sched", "failover", "states", "internals", "reset"}

LEMMA LeastNat ==
  ASSUME NEW S \in SUBSET Nat, S # {}
  PROVE  \E x \in S : \A y \in S : x <= y
<1>1. PICK x \in S : \A y \in S : <<y, x>> \notin OpToRel(<, Nat)
  BY NatLessThanWellFounded, WFMin
<1>2. ASSUME NEW y \in S PROVE x <= y
  <2>1. ~(y < x) BY <1>1 DEF OpToRel
  <2> QED BY <2>1
<1> QED BY <1>2

LEMMA Kinds ==
  ASSUME NEW i \in Instructions
  PROVE  \/ i[1] \in {"take", "drop", "touch"} /\ i[2] \in Locks /\ i = <<i[1], i[2]>>
         \/ i[1] \in Plain
         \/ i[1] = "set" /\ \E s \in Settings : i = <<"set">> \o s
         \/ i[1] = "probe" /\ i[2] \in Paths /\ i[3] \in BOOLEAN
         \/ i[1] \in {"register", "deliver"} /\ i[2] \in Paths
         \/ i[1] \in {"arrive", "write"} /\ i[2] \in Paths /\ i[3] \in 0..MaxSeq
<1>1. CASE i \in {"take", "drop", "touch"} \X Locks BY <1>1
<1>2. CASE i \in {<<o>> : o \in Plain} BY <1>2 DEF Plain
<1>3. CASE i \in {<<"set">> \o s : s \in Settings}
  <2>1. PICK s \in Settings : i = <<"set">> \o s BY <1>3
  <2>2. \/ s = <<"window">> \/ (\E m \in Modes : s = <<"mode", m>>) \/ (\E g \in Triggers : s = <<"trigger", g>>)
        \/ \E w \in Weights : s = <<"weights", w>>
    BY DEF Settings
  <2>3. i[1] = "set" BY <2>1, <2>2
  <2> QED BY <2>1, <2>3
<1>4. CASE i \in {"probe"} \X Paths \X BOOLEAN BY <1>4
<1>5. CASE i \in {"register", "deliver"} \X Paths BY <1>5
<1>6. CASE i \in {"arrive", "write"} \X Paths \X (0..MaxSeq) BY <1>6
<1> QED BY <1>1, <1>2, <1>3, <1>4, <1>5, <1>6 DEF Instructions, Plain

LEMMA LeavingIs ==
  ASSUME NEW S, NEW s \in Seq(S)
  PROVE  \E n \in 0..Len(s) : /\ Leaving(s) = SubSeq(s, 1, n) /\ Len(Leaving(s)) = n
                              /\ \A k \in 1..n : Leaving(s)[k] = s[k] /\ s[k][1] \in Gives
                              /\ n < Len(s) => s[n + 1][1] \notin Gives
<1> DEFINE Ends(k) == k < Len(s) => s[k + 1][1] \notin Gives
           Stops == {k \in 0..Len(s) : Ends(k)}
           ok(k) == /\ \A i \in 1..k : s[i][1] \in Gives
                    /\ Ends(k)
           n == CHOOSE k \in 0..Len(s) : ok(k)
<1>1. Stops \in SUBSET Nat /\ Len(s) \in Stops OBVIOUS
<1>2. PICK m \in Stops : \A k \in Stops : m <= k BY <1>1, LeastNat
<1>3. ASSUME NEW k \in 1..m PROVE s[k][1] \in Gives
  <2>1. k - 1 \in 0..Len(s) /\ k - 1 \notin Stops BY <1>2
  <2> QED BY <2>1
<1>4. ok(m) BY <1>2, <1>3
<1>5. n \in 0..Len(s) /\ ok(n) BY <1>2, <1>4
<1>6. Leaving(s) = SubSeq(s, 1, n) BY DEF Leaving, Gives
<1> HIDE DEF n
<1>7. /\ Len(SubSeq(s, 1, n)) = n
      /\ \A k \in 1..n : SubSeq(s, 1, n)[k] = s[k]
  BY <1>5, SubSeqProperties
<1> QED BY <1>5, <1>6, <1>7

LEMMA SuffixProgram ==
  ASSUME NEW t, NEW s, Program(t, s), NEW n \in 0..Len(s)
  PROVE  LET r == SubSeq(s, n + 1, Len(s))
         IN  /\ Program(t, r)
             /\ Len(r) = Len(s) - n /\ \A k \in 1..(Len(s) - n) : r[k] = s[k + n]
<1> DEFINE r == SubSeq(s, n + 1, Len(s))
<1>1. s \in Seq(Instructions) /\ Len(s) \in Nat BY DEF Program
<1>2. /\ r \in Seq(Instructions) /\ Len(r) = Len(s) - n
      /\ \A k \in 1..(Len(s) - n) : r[k] = s[k + n]
  BY <1>1, SubSeqProperties
<1> HIDE DEF r
<1>3. \A k \in 1..Len(r) : r[k] = s[k + n] /\ k + n \in 1..Len(s) BY <1>1, <1>2
<1>4. \A k \in 1..Len(r) : r[k][1] \in LoopOnly => t = Loop BY <1>3 DEF Program
<1>5. ASSUME NEW k \in 1..Len(r), k < Len(r) PROVE Adjacent(t, r[k], r[k + 1])
  <2>1. k + 1 \in 1..Len(r) /\ (k + 1) + n = (k + n) + 1 BY <1>1, <1>2, <1>5
  <2>2. r[k] = s[k + n] /\ r[k + 1] = s[(k + n) + 1] /\ k + n \in 1..Len(s) BY <1>3, <2>1
  <2>3. k + n < Len(s) BY <1>1, <1>2, <1>5
  <2> QED BY <2>2, <2>3 DEF Program
<1>6. ASSUME NEW k \in 1..Len(r), k = Len(r) PROVE After(t, r[k]) = "none" /\ r[k][1] # "return"
  <2>1. r[k] = s[k + n] /\ k + n \in 1..Len(s) /\ k + n = Len(s) BY <1>1, <1>2, <1>3, <1>6
  <2> QED BY <2>1 DEF Program
<1>7. ASSUME NEW j \in 1..Len(r), NEW k \in 1..Len(r), j < k, r[k][1] = "return" PROVE Listening(r[j])
  BY <1>1, <1>3, <1>7 DEF Program
<1>8. Program(t, r) BY <1>2, <1>4, <1>5, <1>6, <1>7 DEF Program
<1> QED BY <1>2, <1>8 DEF r

-----------------------------------------------------------------------------
(* Giving locks back and leaving listeners. *)

Rest(s) == SubSeq(s, Len(Leaving(s)) + 1, Len(s))

Dropped(s, l) == \E k \in 1..Len(Leaving(s)) : Leaving(s)[k] = <<"drop", l>>

LEMMA RestIs ==
  ASSUME NEW t, NEW s, Program(t, s)
  PROVE  /\ Program(t, Rest(s))
         /\ \E n \in 0..Len(s) :
              /\ Len(Leaving(s)) = n /\ Len(Rest(s)) = Len(s) - n
              /\ \A k \in 1..n : Leaving(s)[k] = s[k] /\ s[k][1] \in Gives
              /\ \A k \in 1..(Len(s) - n) : Rest(s)[k] = s[k + n]
              /\ n < Len(s) => s[n + 1][1] \notin Gives
<1>1. s \in Seq(Instructions) BY DEF Program
<1>2. PICK n \in 0..Len(s) : /\ Len(Leaving(s)) = n
                             /\ \A k \in 1..n : Leaving(s)[k] = s[k] /\ s[k][1] \in Gives
                             /\ n < Len(s) => s[n + 1][1] \notin Gives
  BY <1>1, LeavingIs
<1>3. Rest(s) = SubSeq(s, n + 1, Len(s)) BY <1>2 DEF Rest
<1>4. /\ Program(t, Rest(s)) /\ Len(Rest(s)) = Len(s) - n
      /\ \A k \in 1..(Len(s) - n) : Rest(s)[k] = s[k + n]
  BY <1>3, SuffixProgram
<1> QED BY <1>2, <1>4

\* Only what gives a lock back or leaves a listener is left out.
LEMMA RestHead ==
  ASSUME NEW t, NEW s, Program(t, s), Rest(s) # <<>>, Rest(s)[1][1] \in {"sched", "failover", "states", "internals"}
  PROVE  Rest(s) = s
<1>1. s \in Seq(Instructions) /\ Rest(s) \in Seq(Instructions) BY RestIs DEF Program
<1>2. PICK n \in 0..Len(s) :
        /\ Len(Leaving(s)) = n /\ Len(Rest(s)) = Len(s) - n
        /\ \A k \in 1..n : Leaving(s)[k] = s[k] /\ s[k][1] \in Gives
        /\ \A k \in 1..(Len(s) - n) : Rest(s)[k] = s[k + n]
        /\ n < Len(s) => s[n + 1][1] \notin Gives
  BY RestIs
<1>3. Len(Rest(s)) > 0 /\ n < Len(s) /\ Rest(s)[1] = s[n + 1] BY <1>1, <1>2
<1>4. n = 0
  <2>1. SUFFICES ASSUME n # 0 PROVE FALSE OBVIOUS
  <2>2. n \in 1..Len(s) /\ s[n][1] \in Gives BY <1>2, <2>1
  <2>3. Adjacent(t, s[n], s[n + 1]) BY <1>3, <2>2 DEF Program
  <2> QED BY <1>3, <2>2, <2>3 DEF Adjacent, Gives
<1> QED BY <1>1, <1>2, <1>4

LEMMA LeavePrograms ==
  ASSUME NEW t, NEW s, Program(t, s), NEW l \in Locks
  PROVE  /\ Holds(t, Rest(s), l) <=> Holds(t, s, l) /\ ~Dropped(s, l)
         /\ Dropped(s, l) => Holds(t, s, l)
<1>1. s \in Seq(Instructions) /\ Rest(s) \in Seq(Instructions) BY RestIs DEF Program
<1>2. PICK n \in 0..Len(s) :
        /\ Len(Leaving(s)) = n /\ Len(Rest(s)) = Len(s) - n
        /\ \A k \in 1..n : Leaving(s)[k] = s[k] /\ s[k][1] \in Gives
        /\ \A k \in 1..(Len(s) - n) : Rest(s)[k] = s[k + n]
        /\ n < Len(s) => s[n + 1][1] \notin Gives
  BY RestIs
<1> DEFINE Entered(k) == k \in 1..Len(s) /\ k < Len(s) /\ s[k][1] = "return" /\ Under(t, s[k + 1]) = l
<1>3. \A k \in 1..Len(s) : k < Len(s) => Adjacent(t, s[k], s[k + 1]) BY DEF Program
<1>4. \A k \in 1..Len(s) : s[k][1] = "drop" => Under(t, s[k]) = s[k][2] /\ After(t, s[k]) = "none"
  BY DEF Under, After
<1>5. \A k \in 1..Len(s) : s[k][1] = "return" => Under(t, s[k]) = "none" BY DEF Under
<1>6. l # "none" BY DEF Locks
<1>7. ASSUME NEW k \in 1..n, Under(t, s[k]) = l PROVE s[k] = <<"drop", l>>
  <2>1. s[k][1] = "drop" /\ s[k] \in Instructions BY <1>1, <1>2, <1>5, <1>6, <1>7 DEF Gives
  <2>2. s[k] = <<s[k][1], s[k][2]>> BY <2>1, Kinds DEF Plain
  <2> QED BY <1>4, <1>7, <2>1, <2>2
<1>8. ASSUME NEW k \in 1..n, s[k] = <<"drop", l>> PROVE (k = 1 \/ Entered(k - 1)) /\ Under(t, s[k]) = l
  <2>1. Under(t, s[k]) = l BY <1>4, <1>8
  <2>2. CASE k > 1
    <3>1. k - 1 \in 1..Len(s) /\ k - 1 < Len(s) /\ (k - 1) + 1 = k /\ s[k - 1][1] \in Gives BY <1>1, <1>2, <2>2
    <3>2. Adjacent(t, s[k - 1], s[k]) BY <1>3, <3>1
    <3>3. s[k - 1][1] = "return" BY <1>4, <1>6, <2>1, <3>1, <3>2 DEF Adjacent, Gives
    <3> QED BY <2>1, <3>1, <3>3
  <2> QED BY <2>1, <2>2
<1>9. Dropped(s, l) <=> \E k \in 1..n : s[k] = <<"drop", l>> BY <1>2 DEF Dropped
<1>10. ASSUME NEW k, Entered(k), k >= n PROVE ~Dropped(s, l)
  <2>1. SUFFICES ASSUME NEW j \in 1..n, s[j] = <<"drop", l>> PROVE FALSE BY <1>9
  <2>2. Under(t, s[k + 1]) \in {"health", "config"} BY <1>3, <1>10 DEF Adjacent
  <2>3. j # k BY <1>10, <2>1
  <2>4. j < k /\ j \in 1..Len(s) BY <1>2, <1>10, <2>3
  <2>5. Listening(s[j]) BY <1>10, <2>4 DEF Program
  <2>6. l = "balancer" BY <2>1, <2>5 DEF Listening
  <2> QED BY <1>10, <2>2, <2>6
<1>11. Holds(t, s, l) <=> (s # <<>> /\ Under(t, s[1]) = l) \/ \E k : Entered(k) BY DEF Holds, Outer
<1>12. Dropped(s, l) => Holds(t, s, l)
  <2>1. SUFFICES ASSUME NEW k \in 1..n, s[k] = <<"drop", l>> PROVE Holds(t, s, l) BY <1>9
  <2>2. s # <<>> BY <1>1, <1>2, <2>1
  <2> QED BY <1>8, <1>11, <2>1, <2>2
<1>13. Holds(t, Rest(s), l) => Holds(t, s, l) /\ ~Dropped(s, l)
  <2>1. CASE Rest(s) # <<>> /\ Under(t, Rest(s)[1]) = l
    <3>1. n < Len(s) /\ Rest(s)[1] = s[n + 1] BY <1>1, <1>2, <2>1
    <3>2. CASE n = 0
      <4>1. s # <<>> BY <1>1, <3>1
      <4> QED BY <1>9, <1>11, <2>1, <3>1, <3>2, <4>1
    <3>3. CASE n # 0
      <4>1. n \in 1..Len(s) /\ s[n][1] \in Gives /\ Adjacent(t, s[n], s[n + 1]) BY <1>2, <1>3, <3>1, <3>3
      <4>2. s[n][1] = "return" BY <1>4, <1>6, <2>1, <3>1, <4>1 DEF Adjacent, Gives
      <4>3. Entered(n) BY <2>1, <3>1, <4>1, <4>2
      <4> QED BY <1>10, <1>11, <4>3
    <3> QED BY <3>2, <3>3
  <2>2. ASSUME NEW k \in 1..Len(Rest(s)), k < Len(Rest(s)), Rest(s)[k][1] = "return", Under(t, Rest(s)[k + 1]) = l
        PROVE  Holds(t, s, l) /\ ~Dropped(s, l)
    <3>1. /\ k \in 1..(Len(s) - n) /\ k + 1 \in 1..(Len(s) - n) /\ (k + 1) + n = (k + n) + 1
          /\ k + n \in 1..Len(s) /\ k + n < Len(s) /\ k + n >= n
      <4>1. Len(Rest(s)) = Len(s) - n /\ Len(s) \in Nat BY <1>1, <1>2
      <4>2. k \in Nat /\ 1 <= k /\ k < Len(s) - n BY <2>2, <4>1
      <4> HIDE DEF Entered
      <4> QED BY <4>1, <4>2
    <3>2. Rest(s)[k] = s[k + n] /\ Rest(s)[k + 1] = s[(k + n) + 1] BY <1>2, <3>1
    <3>3. Entered(k + n) BY <2>2, <3>1, <3>2
    <3> QED BY <1>10, <1>11, <3>1, <3>3
  <2> QED BY <2>1, <2>2 DEF Holds, Outer
<1>14. Holds(t, s, l) /\ ~Dropped(s, l) => Holds(t, Rest(s), l)
  <2> SUFFICES ASSUME ~Dropped(s, l), Holds(t, s, l) PROVE Holds(t, Rest(s), l) OBVIOUS
  <2>1. \A k \in 1..n : Under(t, s[k]) # l BY <1>7, <1>9
  <2>2. CASE s # <<>> /\ Under(t, s[1]) = l
    <3>1. n = 0 BY <1>1, <1>2, <2>1, <2>2
    <3>2. Rest(s) # <<>> /\ Rest(s)[1] = s[1] BY <1>1, <1>2, <2>2, <3>1
    <3> QED BY <2>2, <3>2 DEF Holds
  <2>3. ASSUME NEW k, Entered(k) PROVE Holds(t, Rest(s), l)
    <3>1. k + 1 \notin 1..n BY <2>1, <2>3
    <3>2. k >= n BY <1>2, <2>3, <3>1
    <3>3. CASE k = n
      <4>1. Rest(s) # <<>> /\ Rest(s)[1] = s[n + 1] BY <1>1, <1>2, <2>3, <3>3
      <4> QED BY <2>3, <3>3, <4>1 DEF Holds
    <3>4. CASE k > n
      <4>1. /\ k - n \in 1..(Len(s) - n) /\ (k - n) + 1 \in 1..(Len(s) - n)
            /\ (k - n) + n = k /\ ((k - n) + 1) + n = k + 1 /\ k - n < Len(Rest(s))
        BY <1>1, <1>2, <2>3, <3>4
      <4>2. Rest(s)[k - n] = s[k] /\ Rest(s)[(k - n) + 1] = s[k + 1] BY <1>2, <4>1
      <4>3. k - n \in 1..Len(Rest(s)) BY <1>2, <4>1
      <4> QED BY <2>3, <4>1, <4>2, <4>3 DEF Holds, Outer
    <3> QED BY <2>3, <3>2, <3>3, <3>4
  <2> QED BY <1>11, <2>2, <2>3
<1> QED BY <1>12, <1>13, <1>14
-----------------------------------------------------------------------------
(* Going on with other instructions first. *)

\* Instructions that may stand in front of others.
Piece(t, c) ==
  /\ c \in Seq(Instructions) /\ c # <<>>
  /\ \A k \in 1..Len(c) : c[k][1] \in LoopOnly => t = Loop
  /\ \A k \in 1..Len(c) : k < Len(c) => Adjacent(t, c[k], c[k + 1])
  /\ \A j, k \in 1..Len(c) : j < k /\ c[k][1] = "return" => Listening(c[j])

LEMMA JoinProgram ==
  ASSUME NEW t, NEW c, Piece(t, c), NEW r, Program(t, r),
         r # <<>> => Adjacent(t, c[Len(c)], r[1]),
         r = <<>> => After(t, c[Len(c)]) = "none" /\ c[Len(c)][1] # "return",
         \A k \in 1..Len(r), j \in 1..Len(c) : r[k][1] = "return" => Listening(c[j])
  PROVE  /\ Program(t, c \o r) /\ c \o r # <<>> /\ (c \o r)[1] = c[1]
         /\ \A l : Holds(t, c \o r, l) <=>
              \/ Under(t, c[1]) = l \/ Outer(t, c, l) \/ Outer(t, r, l)
              \/ r # <<>> /\ c[Len(c)][1] = "return" /\ Under(t, r[1]) = l
<1> DEFINE m == Len(c)
           f == c \o r
<1>1. c \in Seq(Instructions) /\ r \in Seq(Instructions) /\ m \in Nat /\ m > 0 /\ Len(r) \in Nat
  BY DEF Program, Piece
<1>2. /\ f \in Seq(Instructions) /\ Len(f) = m + Len(r)
      /\ \A k \in 1..(m + Len(r)) : f[k] = IF k <= m THEN c[k] ELSE r[k - m]
  BY <1>1, ConcatProperties
<1> HIDE DEF f
<1>3. \A k \in 1..m : f[k] = c[k] /\ k \in 1..Len(f) BY <1>1, <1>2
<1>4. ASSUME NEW k \in 1..Len(r) PROVE f[m + k] = r[k] /\ m + k \in 1..Len(f)
  <2>1. m + k \in 1..(m + Len(r)) /\ ~(m + k <= m) /\ (m + k) - m = k BY <1>1
  <2> QED BY <1>2, <2>1
<1>5. \A k \in 1..Len(f) : k \in 1..m \/ (k - m \in 1..Len(r) /\ k = m + (k - m)) BY <1>1, <1>2
<1> HIDE DEF m
<1>6. ASSUME NEW k \in 1..Len(f), k < Len(f) PROVE Adjacent(t, f[k], f[k + 1])
  <2>1. CASE k < m
    <3>1. k \in 1..m /\ k + 1 \in 1..m BY <1>1, <2>1
    <3> QED BY <1>3, <2>1, <3>1 DEF Piece, m
  <2>2. CASE k = m
    <3>1. m \in 1..m /\ 1 \in 1..Len(r) /\ r # <<>> BY <1>1, <1>2, <1>6, <2>2
    <3>2. f[k] = c[m] /\ f[k + 1] = r[1] BY <1>3, <1>4, <2>2, <3>1
    <3> QED BY <3>1, <3>2 DEF m
  <2>3. CASE k > m
    <3>1. /\ k - m \in 1..Len(r) /\ k - m < Len(r) /\ (k - m) + 1 \in 1..Len(r)
          /\ m + (k - m) = k /\ m + ((k - m) + 1) = k + 1
      BY <1>1, <1>2, <1>6, <2>3
    <3>2. f[k] = r[k - m] /\ f[k + 1] = r[(k - m) + 1] BY <1>4, <3>1
    <3> QED BY <3>1, <3>2 DEF Program
  <2> QED BY <1>1, <2>1, <2>2, <2>3
<1>7. ASSUME NEW k \in 1..Len(f), f[k][1] \in LoopOnly PROVE t = Loop
  <2>1. CASE k \in 1..m BY <1>3, <1>7, <2>1 DEF Piece, m
  <2>2. CASE k - m \in 1..Len(r) /\ k = m + (k - m)
    <3>1. f[k] = r[k - m] BY <1>4, <2>2
    <3> QED BY <1>7, <2>2, <3>1 DEF Program
  <2> QED BY <1>5, <2>1, <2>2
<1>8. ASSUME NEW k \in 1..Len(f), k = Len(f) PROVE After(t, f[k]) = "none" /\ f[k][1] # "return"
  <2>1. CASE r = <<>> 
    <3>1. k = m /\ m \in 1..m BY <1>1, <1>2, <1>8, <2>1
    <3> QED BY <1>3, <2>1, <3>1 DEF m
  <2>2. CASE r # <<>>
    <3>1. Len(r) \in 1..Len(r) /\ k = m + Len(r) BY <1>1, <1>2, <1>8, <2>2
    <3> QED BY <1>4, <3>1 DEF Program
  <2> QED BY <2>1, <2>2
<1>9. ASSUME NEW j \in 1..Len(f), NEW k \in 1..Len(f), j < k, f[k][1] = "return" PROVE Listening(f[j])
  <2>1. CASE k \in 1..m
    <3>1. j \in 1..m BY <1>1, <1>9, <2>1
    <3> QED BY <1>3, <1>9, <2>1, <3>1 DEF Piece, m
  <2>2. CASE k - m \in 1..Len(r) /\ k = m + (k - m)
    <3>1. r[k - m][1] = "return" BY <1>4, <1>9, <2>2
    <3>2. CASE j \in 1..m BY <1>3, <2>2, <3>1, <3>2 DEF m
    <3>3. CASE j - m \in 1..Len(r) /\ j = m + (j - m)
      <4>1. j - m < k - m BY <1>1, <1>9
      <4>2. f[j] = r[j - m] BY <1>4, <3>3
      <4> QED BY <2>2, <3>1, <3>3, <4>1, <4>2 DEF Program
    <3> QED BY <1>5, <3>2, <3>3
  <2> QED BY <1>5, <2>1, <2>2
<1>10. Program(t, f) BY <1>2, <1>6, <1>7, <1>8, <1>9 DEF Program
<1>11. f # <<>> /\ f[1] = c[1]
  <2>1. 1 \in 1..m BY <1>1
  <2> QED BY <1>1, <1>2, <1>3, <2>1
<1>12. ASSUME NEW l PROVE Outer(t, f, l) <=>
                            \/ Outer(t, c, l) \/ Outer(t, r, l)
                            \/ r # <<>> /\ c[m][1] = "return" /\ Under(t, r[1]) = l
  <2>1. ASSUME NEW k \in 1..Len(f), k < Len(f), f[k][1] = "return", Under(t, f[k + 1]) = l
        PROVE  Outer(t, c, l) \/ Outer(t, r, l) \/ (r # <<>> /\ c[m][1] = "return" /\ Under(t, r[1]) = l)
    <3>1. CASE k < m
      <4>1. k \in 1..m /\ k + 1 \in 1..m BY <1>1, <3>1
      <4> QED BY <1>3, <2>1, <3>1, <4>1 DEF Outer, m
    <3>2. CASE k = m
      <4>1. m \in 1..m /\ 1 \in 1..Len(r) /\ r # <<>> BY <1>1, <1>2, <2>1, <3>2
      <4> QED BY <1>3, <1>4, <2>1, <3>2, <4>1
    <3>3. CASE k > m
      <4>1. /\ k - m \in 1..Len(r) /\ k - m < Len(r) /\ (k - m) + 1 \in 1..Len(r)
            /\ m + (k - m) = k /\ m + ((k - m) + 1) = k + 1
        BY <1>1, <1>2, <2>1, <3>3
      <4>2. f[k] = r[k - m] /\ f[k + 1] = r[(k - m) + 1] BY <1>4, <4>1
      <4> QED BY <2>1, <4>1, <4>2 DEF Outer
    <3> QED BY <1>1, <3>1, <3>2, <3>3
  <2>2. ASSUME NEW k \in 1..m, k < m, c[k][1] = "return", Under(t, c[k + 1]) = l PROVE Outer(t, f, l)
    <3>1. k \in 1..Len(f) /\ k < Len(f) /\ k + 1 \in 1..m BY <1>1, <1>2, <2>2
    <3> QED BY <1>3, <2>2, <3>1 DEF Outer
  <2>3. ASSUME NEW k \in 1..Len(r), k < Len(r), r[k][1] = "return", Under(t, r[k + 1]) = l PROVE Outer(t, f, l)
    <3>1. /\ m + k \in 1..Len(f) /\ m + k < Len(f) /\ k + 1 \in 1..Len(r) /\ m + (k + 1) = (m + k) + 1
      BY <1>1, <1>2, <2>3
    <3>2. f[m + k] = r[k] /\ f[(m + k) + 1] = r[k + 1] BY <1>4, <3>1
    <3> QED BY <2>3, <3>1, <3>2 DEF Outer
  <2>4. ASSUME r # <<>>, c[m][1] = "return", Under(t, r[1]) = l PROVE Outer(t, f, l)
    <3>1. m \in 1..m /\ m \in 1..Len(f) /\ m < Len(f) /\ 1 \in 1..Len(r) BY <1>1, <1>2, <2>4
    <3> QED BY <1>3, <1>4, <2>4, <3>1 DEF Outer
  <2> QED BY <2>1, <2>2, <2>3, <2>4 DEF Outer, m
<1> QED BY <1>10, <1>11, <1>12 DEF Holds, f, m

LEMMA TailProgram ==
  ASSUME NEW t, NEW q, Program(t, q), q # <<>>, q[1][1] # "return"
  PROVE  /\ Program(t, Tail(q)) /\ Len(Tail(q)) = Len(q) - 1
         /\ \A k \in 1..(Len(q) - 1) : Tail(q)[k] = q[k + 1]
         /\ Tail(q) # <<>> => Len(q) > 1 /\ Tail(q)[1] = q[2] /\ Adjacent(t, q[1], q[2])
         /\ Tail(q) = <<>> => After(t, q[1]) = "none"
         /\ \A l : Outer(t, Tail(q), l) <=> Outer(t, q, l)
         /\ \A l \in Locks : Holds(t, Tail(q), l) <=> After(t, q[1]) = l \/ Outer(t, q, l)
<1>1. q \in Seq(Instructions) /\ Len(q) \in Nat /\ Len(q) > 0 BY DEF Program
<1>2. Tail(q) = SubSeq(q, 2, Len(q)) BY <1>1, TailIsSubSeq
<1>3. PICK n \in 0..Len(q) : n = 1 BY <1>1
<1> DEFINE r == Tail(q)
<1>4. Program(t, r) /\ Len(r) = Len(q) - 1 /\ \A k \in 1..(Len(q) - 1) : r[k] = q[k + 1]
  <2>1. r = SubSeq(q, n + 1, Len(q)) BY <1>2, <1>3
  <2> HIDE DEF r
  <2>2. Program(t, r) /\ Len(r) = Len(q) - n /\ \A k \in 1..(Len(q) - n) : r[k] = q[k + n]
    BY <2>1, SuffixProgram
  <2> QED BY <1>3, <2>2
<1>5. r \in Seq(Instructions) BY <1>4 DEF Program
<1> HIDE DEF r
<1>6. ASSUME r # <<>> PROVE Len(q) > 1 /\ r[1] = q[2] /\ Adjacent(t, q[1], q[2])
  <2>1. Len(q) > 1 /\ 1 \in 1..(Len(q) - 1) BY <1>1, <1>4, <1>5, <1>6
  <2>2. 1 \in 1..Len(q) /\ 1 < Len(q) BY <1>1, <2>1
  <2> QED BY <1>4, <2>1, <2>2 DEF Program
<1>7. ASSUME r = <<>> PROVE After(t, q[1]) = "none"
  <2>1. Len(q) = 1 /\ 1 \in 1..Len(q) BY <1>1, <1>4, <1>5, <1>7
  <2> QED BY <2>1 DEF Program
<1>8. ASSUME NEW l PROVE Outer(t, r, l) <=> Outer(t, q, l)
  <2>1. ASSUME NEW k \in 1..Len(r), k < Len(r), r[k][1] = "return", Under(t, r[k + 1]) = l PROVE Outer(t, q, l)
    <3>1. k + 1 \in 1..Len(q) /\ k + 1 < Len(q) /\ k \in 1..(Len(q) - 1) /\ k + 1 \in 1..(Len(q) - 1)
      BY <1>1, <1>4, <2>1
    <3>2. r[k] = q[k + 1] /\ r[k + 1] = q[(k + 1) + 1] BY <1>4, <3>1
    <3> QED BY <2>1, <3>1, <3>2 DEF Outer
  <2>2. ASSUME NEW k \in 1..Len(q), k < Len(q), q[k][1] = "return", Under(t, q[k + 1]) = l PROVE Outer(t, r, l)
    <3>1. k # 1 BY <2>2
    <3>2. /\ k - 1 \in 1..Len(r) /\ k - 1 < Len(r) /\ k - 1 \in 1..(Len(q) - 1) /\ k \in 1..(Len(q) - 1)
          /\ (k - 1) + 1 = k
      BY <1>1, <1>4, <2>2, <3>1
    <3>3. r[k - 1] = q[k] /\ r[(k - 1) + 1] = q[k + 1] BY <1>4, <3>2
    <3> QED BY <2>2, <3>2, <3>3 DEF Outer
  <2> QED BY <2>1, <2>2 DEF Outer
<1>9. ASSUME NEW l \in Locks PROVE Holds(t, r, l) <=> After(t, q[1]) = l \/ Outer(t, q, l)
  <2>1. l # "none" BY DEF Locks
  <2>2. CASE r = <<>> BY <1>7, <1>8, <2>1, <2>2 DEF Holds
  <2>3. CASE r # <<>>
    <3>1. Under(t, r[1]) = After(t, q[1]) BY <1>6, <2>3 DEF Adjacent
    <3> QED BY <1>8, <2>3, <3>1 DEF Holds
  <2> QED BY <2>2, <2>3
<1> QED BY <1>4, <1>6, <1>7, <1>8, <1>9 DEF r

\* More to do in the innermost call: the instruction at the front becomes c.
LEMMA PutProgram ==
  ASSUME NEW t, NEW q, Program(t, q), q # <<>>, q[1][1] # "return", After(t, q[1]) = "none",
         NEW c, Program(t, c), c # <<>>, \A l : ~Outer(t, c, l),
         Len(q) = 1 \/ \A k \in 1..Len(c) : Listening(c[k]) /\ c[k][1] \notin Last
  PROVE  /\ Program(t, c \o Tail(q)) /\ c \o Tail(q) # <<>> /\ (c \o Tail(q))[1] = c[1]
         /\ \A l : Holds(t, c \o Tail(q), l) <=> Under(t, c[1]) = l \/ Outer(t, q, l)
<1> DEFINE r == Tail(q)
<1>1. /\ Program(t, r) /\ Len(r) = Len(q) - 1
      /\ r # <<>> => Len(q) > 1 /\ r[1] = q[2] /\ Adjacent(t, q[1], q[2])
      /\ \A l : Outer(t, r, l) <=> Outer(t, q, l)
  BY TailProgram
<1> HIDE DEF r
<1>2. Piece(t, c) BY DEF Program, Piece
<1>3. Len(c) \in 1..Len(c) BY DEF Program
<1>4. After(t, c[Len(c)]) = "none" /\ c[Len(c)][1] # "return" BY <1>3 DEF Program
<1>5. ASSUME r # <<>> PROVE Adjacent(t, c[Len(c)], r[1])
  <2>1. c[Len(c)][1] \notin Last BY <1>1, <1>3, <1>5
  <2>2. c[Len(c)][1] \notin {"sched", "failover"} BY <1>4 DEF After, Under
  <2>3. q[1][1] \notin {"sched", "failover"} BY DEF After, Under
  <2> QED BY <1>1, <1>4, <1>5, <2>1, <2>2, <2>3 DEF Adjacent
<1>6. r \in Seq(Instructions) BY <1>1 DEF Program
<1>7. ASSUME NEW k \in 1..Len(r), NEW j \in 1..Len(c) PROVE Listening(c[j])
  BY <1>1, <1>6, <1>7
<1> QED BY <1>1, <1>2, <1>4, <1>5, <1>7, JoinProgram DEF r

\* A listener is called by the instruction at the front.
LEMMA NotifyProgram ==
  ASSUME NEW t, NEW q, Program(t, q), q # <<>>, q[1][1] \in {"probe", "set"},
         NEW c, Piece(t, c), c[Len(c)] = <<"return">>, \A l : ~Outer(t, c, l)
  PROVE  /\ Program(t, c \o Tail(q)) /\ c \o Tail(q) # <<>> /\ (c \o Tail(q))[1] = c[1]
         /\ Tail(q) # <<>> /\ Under(t, Tail(q)[1]) = Under(t, q[1])
         /\ \A l : Holds(t, c \o Tail(q), l) <=> Under(t, c[1]) = l \/ Under(t, q[1]) = l \/ Outer(t, q, l)
<1> DEFINE r == Tail(q)
<1>0. q[1][1] # "return" OBVIOUS
<1>1. /\ Program(t, r) /\ Len(r) = Len(q) - 1
      /\ \A k \in 1..(Len(q) - 1) : r[k] = q[k + 1]
      /\ r # <<>> => Len(q) > 1 /\ r[1] = q[2] /\ Adjacent(t, q[1], q[2])
      /\ r = <<>> => After(t, q[1]) = "none"
      /\ \A l : Outer(t, r, l) <=> Outer(t, q, l)
  BY <1>0, TailProgram
<1> HIDE DEF r
<1>2. After(t, q[1]) = Under(t, q[1]) /\ Under(t, q[1]) \in {"health", "config"} BY DEF After, Under
<1>3. r # <<>> /\ Under(t, r[1]) = Under(t, q[1]) BY <1>1, <1>2 DEF Adjacent
<1>4. Adjacent(t, c[Len(c)], r[1])
  <2>1. c[Len(c)][1] = "return" OBVIOUS
  <2> QED BY <1>1, <1>2, <1>3, <2>1 DEF Adjacent, Last
<1>5. ASSUME NEW k \in 1..Len(r), r[k][1] = "return" PROVE FALSE
  <2>1. q \in Seq(Instructions) /\ 1 \in 1..Len(q) BY DEF Program
  <2>2. k + 1 \in 1..Len(q) /\ 1 < k + 1 /\ k \in 1..(Len(q) - 1) BY <1>1, <1>5, <2>1
  <2>3. Listening(q[1]) BY <1>1, <1>5, <2>1, <2>2 DEF Program
  <2> QED BY <2>3 DEF Listening
<1>6. /\ Program(t, c \o r) /\ c \o r # <<>> /\ (c \o r)[1] = c[1]
      /\ \A l : Holds(t, c \o r, l) <=>
              \/ Under(t, c[1]) = l \/ Outer(t, c, l) \/ Outer(t, r, l)
              \/ r # <<>> /\ c[Len(c)][1] = "return" /\ Under(t, r[1]) = l
  BY <1>1, <1>3, <1>4, <1>5, JoinProgram
<1> QED BY <1>1, <1>3, <1>6 DEF r

\* The instruction at the front becomes the piece c, in the same call.
LEMMA SwapProgram ==
  ASSUME NEW t, NEW q, Program(t, q), q # <<>>, q[1][1] \notin {"return", "sched", "failover"},
         NEW c, Piece(t, c), \A l : ~Outer(t, c, l),
         c[Len(c)][1] \notin {"return", "sched", "failover"} \cup Last,
         Under(t, c[1]) = Under(t, q[1]), After(t, c[Len(c)]) = After(t, q[1]),
         ~Listening(q[1]) \/ \A k \in 1..Len(c) : Listening(c[k])
  PROVE  Program(t, c \o Tail(q)) /\ \A l : Holds(t, c \o Tail(q), l) <=> Holds(t, q, l)
<1> DEFINE r == Tail(q)
<1>1. /\ Program(t, r) /\ Len(r) = Len(q) - 1
      /\ \A k \in 1..(Len(q) - 1) : r[k] = q[k + 1]
      /\ r # <<>> => Len(q) > 1 /\ r[1] = q[2] /\ Adjacent(t, q[1], q[2])
      /\ r = <<>> => After(t, q[1]) = "none"
      /\ \A l : Outer(t, r, l) <=> Outer(t, q, l)
  BY TailProgram
<1> HIDE DEF r
<1>2. r # <<>> => Adjacent(t, c[Len(c)], r[1]) BY <1>1 DEF Adjacent
<1>3. r = <<>> => After(t, c[Len(c)]) = "none" /\ c[Len(c)][1] # "return" BY <1>1
<1>4. ASSUME NEW k \in 1..Len(r), NEW j \in 1..Len(c), r[k][1] = "return" PROVE Listening(c[j])
  <2>1. q \in Seq(Instructions) /\ 1 \in 1..Len(q) BY DEF Program
  <2>2. k + 1 \in 1..Len(q) /\ 1 < k + 1 /\ k \in 1..(Len(q) - 1) BY <1>1, <1>4, <2>1
  <2>3. Listening(q[1]) BY <1>1, <1>4, <2>1, <2>2 DEF Program
  <2> QED BY <2>3
<1>5. /\ Program(t, c \o r)
      /\ \A l : Holds(t, c \o r, l) <=>
              \/ Under(t, c[1]) = l \/ Outer(t, c, l) \/ Outer(t, r, l)
              \/ r # <<>> /\ c[Len(c)][1] = "return" /\ Under(t, r[1]) = l
  BY <1>1, <1>2, <1>3, <1>4, JoinProgram
<1> QED BY <1>1, <1>5 DEF r, Holds

-----------------------------------------------------------------------------
(* The programs the threads begin with, and those put in front. *)

LEMMA OneMore ==
  \A a, b, d : <<a>> \o <<d>> = <<a, d>> /\ <<a, b>> \o <<d>> = <<a, b, d>>
<1> TAKE a, b, d
<1> DEFINE S == {a, b, d}
<1>1. <<d>> \in Seq(S) /\ Len(<<d>>) = 1 /\ <<d>>[1] = d OBVIOUS
<1>2. <<a>> \o <<d>> = <<a, d>>
  <2> DEFINE e == <<a>> \o <<d>>
             f == <<a, d>>
  <2>1. <<a>> \in Seq(S) /\ f \in Seq(S) /\ Len(<<a>>) = 1 /\ Len(f) = 2 OBVIOUS
  <2>2. e \in Seq(S) /\ Len(e) = Len(f) /\ \A i \in 1..2 : e[i] = f[i] BY <1>1, <2>1, ConcatProperties
  <2> HIDE DEF e, f, S
  <2>3. e = f BY <2>1, <2>2, SeqEqual
  <2> QED BY <2>3 DEF e, f
<1>3. <<a, b>> \o <<d>> = <<a, b, d>>
  <2> DEFINE e == <<a, b>> \o <<d>>
             f == <<a, b, d>>
  <2>1. <<a, b>> \in Seq(S) /\ f \in Seq(S) /\ Len(<<a, b>>) = 2 /\ Len(f) = 3 OBVIOUS
  <2>2. e \in Seq(S) /\ Len(e) = Len(f) /\ \A i \in 1..3 : e[i] = f[i] BY <1>1, <2>1, ConcatProperties
  <2> HIDE DEF e, f, S
  <2>3. e = f BY <2>1, <2>2, SeqEqual
  <2> QED BY <2>3 DEF e, f
<1> QED BY <1>2, <1>3

LEMMA ThreeMore == \A a, b, c, d : <<a>> \o <<b, c, d>> = <<a, b, c, d>>
<1> TAKE a, b, c, d
<1> DEFINE S == {a, b, c, d}
           e == <<a>> \o <<b, c, d>>
           f == <<a, b, c, d>>
<1>2. <<a>> \in Seq(S) /\ <<b, c, d>> \in Seq(S) /\ f \in Seq(S) /\ Len(<<a>>) = 1 /\ Len(<<b, c, d>>) = 3 /\ Len(f) = 4
  OBVIOUS
<1>3. e \in Seq(S) /\ Len(e) = Len(f) /\ \A i \in 1..4 : e[i] = f[i] BY <1>2, ConcatProperties
<1> HIDE DEF e, f, S
<1>4. e = f BY <1>2, <1>3, SeqEqual
<1> QED BY <1>4 DEF e, f

LEMMA OneMoreOfFour == \A a, b, c, d : <<a, b, c>> \o <<d>> = <<a, b, c, d>>
<1> TAKE a, b, c, d
<1> DEFINE S == {a, b, c, d}
           e == <<a, b, c>> \o <<d>>
           f == <<a, b, c, d>>
<1>2. <<a, b, c>> \in Seq(S) /\ <<d>> \in Seq(S) /\ f \in Seq(S) /\ Len(<<a, b, c>>) = 3 /\ Len(f) = 4 OBVIOUS
<1>3. e \in Seq(S) /\ Len(e) = Len(f) /\ \A i \in 1..4 : e[i] = f[i] BY <1>2, ConcatProperties
<1> HIDE DEF e, f, S
<1>4. e = f BY <1>2, <1>3, SeqEqual
<1> QED BY <1>4 DEF e, f

\* An instruction that thread t may have.
Fit(t, i) == i \in Instructions /\ i[1] # "return" /\ (i[1] \in LoopOnly => t = Loop)

LEMMA OneProgram ==
  ASSUME NEW t, NEW a, Fit(t, a), After(t, a) = "none"
  PROVE  Program(t, <<a>>) /\ \A l : ~Outer(t, <<a>>, l)
BY DEF Program, Fit, Outer

LEMMA TwoProgram ==
  ASSUME NEW t, NEW a, NEW b, Fit(t, a), Fit(t, b), Adjacent(t, a, b), After(t, b) = "none"
  PROVE  Program(t, <<a, b>>) /\ \A l : ~Outer(t, <<a, b>>, l)
<1> DEFINE s == <<a, b>>
<1>1. s \in Seq(Instructions) /\ Len(s) = 2 /\ s[1] = a /\ s[2] = b BY DEF Fit
<1> HIDE DEF s
<1>2. \A k \in 1..Len(s) : (k = 1 /\ s[k] = a) \/ (k = 2 /\ s[k] = b) BY <1>1
<1>3. \A k \in 1..Len(s) : k < Len(s) => k = 1 BY <1>1, <1>2
<1>4. \A k \in 1..Len(s) : s[k][1] # "return" BY <1>2 DEF Fit
<1>5. \A k \in 1..Len(s) : s[k][1] \in LoopOnly => t = Loop BY <1>2 DEF Fit
<1>6. \A k \in 1..Len(s) : k < Len(s) => Adjacent(t, s[k], s[k + 1]) BY <1>1, <1>3
<1>7. Program(t, s) BY <1>1, <1>2, <1>4, <1>5, <1>6 DEF Program
<1> QED BY <1>4, <1>7 DEF s, Outer

LEMMA ThreeProgram ==
  ASSUME NEW t, NEW a, NEW b, NEW c, Fit(t, a), Fit(t, b), Fit(t, c),
         Adjacent(t, a, b), Adjacent(t, b, c), After(t, c) = "none"
  PROVE  Program(t, <<a, b, c>>) /\ \A l : ~Outer(t, <<a, b, c>>, l)
<1> DEFINE s == <<a, b, c>>
<1>1. s \in Seq(Instructions) /\ Len(s) = 3 /\ s[1] = a /\ s[2] = b /\ s[3] = c BY DEF Fit
<1> HIDE DEF s
<1>2. \A k \in 1..Len(s) : (k = 1 /\ s[k] = a) \/ (k = 2 /\ s[k] = b) \/ (k = 3 /\ s[k] = c) BY <1>1
<1>3. \A k \in 1..Len(s) : k < Len(s) => k = 1 \/ k = 2 BY <1>1, <1>2
<1>4. \A k \in 1..Len(s) : s[k][1] # "return" BY <1>2 DEF Fit
<1>5. \A k \in 1..Len(s) : s[k][1] \in LoopOnly => t = Loop BY <1>2 DEF Fit
<1>6. \A k \in 1..Len(s) : k < Len(s) => Adjacent(t, s[k], s[k + 1]) BY <1>1, <1>3
<1>7. Program(t, s) BY <1>1, <1>2, <1>4, <1>5, <1>6 DEF Program
<1> QED BY <1>4, <1>7 DEF s, Outer

LEMMA FourProgram ==
  ASSUME NEW t, NEW a, NEW b, NEW c, NEW d, Fit(t, a), Fit(t, b), Fit(t, c), Fit(t, d),
         Adjacent(t, a, b), Adjacent(t, b, c), Adjacent(t, c, d), After(t, d) = "none"
  PROVE  Program(t, <<a, b, c, d>>) /\ \A l : ~Outer(t, <<a, b, c, d>>, l)
<1> DEFINE s == <<a, b, c, d>>
<1>1. s \in Seq(Instructions) /\ Len(s) = 4 /\ s[1] = a /\ s[2] = b /\ s[3] = c /\ s[4] = d BY DEF Fit
<1> HIDE DEF s
<1>2. \A k \in 1..Len(s) :
        (k = 1 /\ s[k] = a) \/ (k = 2 /\ s[k] = b) \/ (k = 3 /\ s[k] = c) \/ (k = 4 /\ s[k] = d)
  BY <1>1
<1>3. \A k \in 1..Len(s) : k < Len(s) => k = 1 \/ k = 2 \/ k = 3 BY <1>1, <1>2
<1>4. \A k \in 1..Len(s) : s[k][1] # "return" BY <1>2 DEF Fit
<1>5. \A k \in 1..Len(s) : s[k][1] \in LoopOnly => t = Loop BY <1>2 DEF Fit
<1>6. \A k \in 1..Len(s) : k < Len(s) => Adjacent(t, s[k], s[k + 1]) BY <1>1, <1>3
<1>7. Program(t, s) BY <1>1, <1>2, <1>4, <1>5, <1>6 DEF Program
<1> QED BY <1>4, <1>7 DEF s, Outer

LEMMA AreInstructions ==
  /\ \A l \in Locks : /\ <<"take", l>> \in Instructions /\ <<"drop", l>> \in Instructions
                     /\ <<"touch", l>> \in Instructions
  /\ \A o \in Plain : <<o>> \in Instructions
  /\ \A s \in Settings : <<"set">> \o s \in Instructions /\ (<<"set">> \o s)[1] = "set"
  /\ \A p \in Paths, b \in BOOLEAN : <<"probe", p, b>> \in Instructions
  /\ \A p \in Paths : <<"register", p>> \in Instructions /\ <<"deliver", p>> \in Instructions
  /\ \A p \in Paths, n \in 0..MaxSeq : <<"arrive", p, n>> \in Instructions /\ <<"write", p, n>> \in Instructions
<1>1. \A l \in Locks : <<"take", l>> \in {"take", "drop", "touch"} \X Locks
                    /\ <<"drop", l>> \in {"take", "drop", "touch"} \X Locks
                    /\ <<"touch", l>> \in {"take", "drop", "touch"} \X Locks
  OBVIOUS
<1>2. \A s \in Settings : (<<"set">> \o s)[1] = "set"
  <2>1. TAKE s \in Settings
  <2>2. \/ s = <<"window">> \/ (\E m \in Modes : s = <<"mode", m>>) \/ (\E g \in Triggers : s = <<"trigger", g>>)
        \/ \E w \in Weights : s = <<"weights", w>>
    BY DEF Settings
  <2> QED BY <2>2
<1>3. \A p \in Paths, b \in BOOLEAN : <<"probe", p, b>> \in {"probe"} \X Paths \X BOOLEAN OBVIOUS
<1>4. \A p \in Paths : /\ <<"register", p>> \in {"register", "deliver"} \X Paths
                      /\ <<"deliver", p>> \in {"register", "deliver"} \X Paths
  OBVIOUS
<1>5. \A p \in Paths, n \in 0..MaxSeq : /\ <<"arrive", p, n>> \in {"arrive", "write"} \X Paths \X (0..MaxSeq)
                                       /\ <<"write", p, n>> \in {"arrive", "write"} \X Paths \X (0..MaxSeq)
  OBVIOUS
<1> QED BY <1>1, <1>2, <1>3, <1>4, <1>5 DEF Instructions, Plain

Writes(s, n) == \E k \in 1..Len(s) : s[k][1] = "write" /\ s[k][3] = n

\* What thread t may begin with: nothing is held, and no listener called.
Start(t, s) == /\ Program(t, s) /\ s # <<>> /\ Under(t, s[1]) = "none"
               /\ \A l : ~Outer(t, s, l)
               /\ \A n : ~Writes(s, n)

\* What may be put in front in a rebalance.
Front(t, s) == /\ Program(t, s) /\ s # <<>> /\ Under(t, s[1]) = "balancer"
               /\ \A l : ~Outer(t, s, l)
               /\ \A n : ~Writes(s, n)
               /\ \A k \in 1..Len(s) : Listening(s[k])

LEMMA LoopStarts ==
  /\ \A p \in Paths : Start(Loop, RegisterPath(p)) /\ Start(Loop, <<<<"deliver", p>>>>)
  /\ \A s \in Settings : Start(Loop, SetConfig(s))
  /\ \A s, r \in Settings : Start(Loop, BatchSet(s, r))
  /\ Start(Loop, ResetToDefaults)
  /\ Start(Loop, ForceRebalance)
  /\ Start(Loop, ReadHealth) /\ Start(Loop, ReadDirectives) /\ Start(Loop, ReadMetrics)
  /\ Start(Loop, CollectState) /\ Start(Loop, <<<<"touch", "config">>>> \o CollectState)
  /\ \A p \in Paths, n \in 0..MaxSeq : Start(Loop, RecordProbe(p, TRUE) \o <<<<"arrive", p, n>>>>)
<1> USE AreInstructions DEF Locks, Plain, LoopOnly, Last
<1>0. Loop # Collector BY DEF Loop, Collector
<1>1. ASSUME NEW p \in Paths PROVE Start(Loop, RegisterPath(p)) /\ Start(Loop, <<<<"deliver", p>>>>)
  <2>1. /\ Fit(Loop, <<"take", "health">>) /\ Fit(Loop, <<"register", p>>) /\ Fit(Loop, <<"drop", "health">>)
        /\ Fit(Loop, <<"deliver", p>>)
    BY DEF Fit
  <2>2. /\ Adjacent(Loop, <<"take", "health">>, <<"register", p>>)
        /\ Adjacent(Loop, <<"register", p>>, <<"drop", "health">>)
        /\ After(Loop, <<"drop", "health">>) = "none" /\ After(Loop, <<"deliver", p>>) = "none"
        /\ Under(Loop, <<"take", "health">>) = "none" /\ Under(Loop, <<"deliver", p>>) = "none"
    BY DEF Adjacent, Under, After
  <2>3. Program(Loop, RegisterPath(p)) /\ (\A l : ~Outer(Loop, RegisterPath(p), l))
    BY <2>1, <2>2, ThreeProgram DEF RegisterPath
  <2>4. Program(Loop, <<<<"deliver", p>>>>) /\ (\A l : ~Outer(Loop, <<<<"deliver", p>>>>, l))
    BY <2>1, <2>2, OneProgram
  <2>5. /\ RegisterPath(p) # <<>> /\ RegisterPath(p)[1] = <<"take", "health">>
        /\ \A n : ~Writes(RegisterPath(p), n) /\ ~Writes(<<<<"deliver", p>>>>, n)
    BY DEF RegisterPath, Writes
  <2> QED BY <2>2, <2>3, <2>4, <2>5 DEF Start
<1>2. ASSUME NEW s \in Settings, NEW r \in Settings PROVE Start(Loop, SetConfig(s)) /\ Start(Loop, BatchSet(s, r))
  <2> DEFINE a == <<"set">> \o s
             b == <<"set">> \o r
  <2>1. a \in Instructions /\ a[1] = "set" /\ b \in Instructions /\ b[1] = "set" OBVIOUS
  <2> HIDE DEF a, b
  <2>2. Fit(Loop, <<"take", "config">>) /\ Fit(Loop, a) /\ Fit(Loop, b) /\ Fit(Loop, <<"drop", "config">>)
    BY <2>1 DEF Fit
  <2>3. /\ Adjacent(Loop, <<"take", "config">>, a) /\ Adjacent(Loop, a, b)
        /\ Adjacent(Loop, a, <<"drop", "config">>) /\ Adjacent(Loop, b, <<"drop", "config">>)
        /\ After(Loop, <<"drop", "config">>) = "none" /\ Under(Loop, <<"take", "config">>) = "none"
    BY <2>1 DEF Adjacent, Under, After
  <2>4. SetConfig(s) = <<<<"take", "config">>, a, <<"drop", "config">>>> BY DEF SetConfig, a
  <2>5. BatchSet(s, r) = <<<<"take", "config">>, a, b, <<"drop", "config">>>> BY DEF BatchSet, a, b
  <2>6. Program(Loop, SetConfig(s)) /\ (\A l : ~Outer(Loop, SetConfig(s), l))
    BY <2>2, <2>3, <2>4, ThreeProgram
  <2>7. Program(Loop, BatchSet(s, r)) /\ (\A l : ~Outer(Loop, BatchSet(s, r), l))
    BY <2>2, <2>3, <2>5, FourProgram
  <2>8. /\ SetConfig(s) # <<>> /\ SetConfig(s)[1] = <<"take", "config">> /\ \A n : ~Writes(SetConfig(s), n)
    BY <2>1, <2>4 DEF Writes
  <2>9. /\ BatchSet(s, r) # <<>> /\ BatchSet(s, r)[1] = <<"take", "config">> /\ \A n : ~Writes(BatchSet(s, r), n)
    BY <2>1, <2>5 DEF Writes
  <2> QED BY <2>3, <2>6, <2>7, <2>8, <2>9 DEF Start
<1>3. Start(Loop, ResetToDefaults)
  <2>1. /\ Fit(Loop, <<"take", "config">>) /\ Fit(Loop, <<"reset">>) /\ Fit(Loop, <<"drop", "config">>)
        /\ Adjacent(Loop, <<"take", "config">>, <<"reset">>) /\ Adjacent(Loop, <<"reset">>, <<"drop", "config">>)
        /\ After(Loop, <<"drop", "config">>) = "none" /\ Under(Loop, <<"take", "config">>) = "none"
    BY DEF Fit, Adjacent, Under, After
  <2>2. Program(Loop, ResetToDefaults) /\ (\A l : ~Outer(Loop, ResetToDefaults, l))
    BY <2>1, ThreeProgram DEF ResetToDefaults
  <2>3. /\ ResetToDefaults # <<>> /\ ResetToDefaults[1] = <<"take", "config">>
        /\ \A n : ~Writes(ResetToDefaults, n)
    BY DEF ResetToDefaults, Writes
  <2> QED BY <2>1, <2>2, <2>3 DEF Start
<1>4. Start(Loop, ForceRebalance)
  <2> DEFINE f == <<<<"take", "balancer">>, <<"scores">>, <<"touch", "balancer">>>>
  <2>1. /\ Fit(Loop, <<"take", "balancer">>) /\ Fit(Loop, <<"scores">>) /\ Fit(Loop, <<"touch", "balancer">>)
        /\ Adjacent(Loop, <<"take", "balancer">>, <<"scores">>)
        /\ Adjacent(Loop, <<"scores">>, <<"touch", "balancer">>)
        /\ After(Loop, <<"touch", "balancer">>) = "none" /\ Under(Loop, <<"take", "balancer">>) = "none"
    BY <1>0 DEF Fit, Adjacent, Under, After
  <2>2. ForceRebalance = f
    <3> HIDE AreInstructions DEF Locks, Plain, LoopOnly, Last
    <3> QED BY OneMore DEF ForceRebalance, Rebalance, ReadDirectives
  <2>3. Program(Loop, f) /\ (\A l : ~Outer(Loop, f, l)) BY <2>1, ThreeProgram
  <2>4. f # <<>> /\ f[1] = <<"take", "balancer">> /\ \A n : ~Writes(f, n) BY DEF Writes
  <2> QED BY <2>1, <2>2, <2>3, <2>4 DEF Start
<1>5. /\ Start(Loop, ReadHealth) /\ Start(Loop, ReadDirectives) /\ Start(Loop, ReadMetrics)
      /\ Start(Loop, CollectState) /\ Start(Loop, <<<<"touch", "config">>>> \o CollectState)
  <2>1. \A l \in Locks : /\ Fit(Loop, <<"touch", l>>) /\ Under(Loop, <<"touch", l>>) = "none"
                        /\ After(Loop, <<"touch", l>>) = "none"
    BY <1>0 DEF Fit, Under, After
  <2>2. \A l, h \in Locks : Adjacent(Loop, <<"touch", l>>, <<"touch", h>>) BY <2>1 DEF Adjacent
  <2>3. ASSUME NEW l \in Locks PROVE Start(Loop, <<<<"touch", l>>>>)
    <3> DEFINE f == <<<<"touch", l>>>>
    <3>1. Program(Loop, f) /\ (\A h : ~Outer(Loop, f, h)) BY <2>1, OneProgram
    <3>2. f # <<>> /\ f[1] = <<"touch", l>> /\ \A n : ~Writes(f, n) BY DEF Writes
    <3> QED BY <2>1, <3>1, <3>2 DEF Start
  <2>4. Start(Loop, CollectState)
    <3> DEFINE f == <<<<"touch", "health">>, <<"touch", "balancer">>, <<"touch", "config">>>>
    <3>1. Program(Loop, f) /\ (\A l : ~Outer(Loop, f, l)) BY <2>1, <2>2, ThreeProgram
    <3>2. f # <<>> /\ f[1] = <<"touch", "health">> /\ \A n : ~Writes(f, n) BY DEF Writes
    <3> QED BY <2>1, <3>1, <3>2 DEF Start, CollectState
  <2>5. Start(Loop, <<<<"touch", "config">>>> \o CollectState)
    <3> DEFINE f == <<<<"touch", "config">>, <<"touch", "health">>, <<"touch", "balancer">>, <<"touch", "config">>>>
    <3>1. Program(Loop, f) /\ (\A l : ~Outer(Loop, f, l)) BY <2>1, <2>2, FourProgram
    <3>2. f # <<>> /\ f[1] = <<"touch", "config">> /\ \A n : ~Writes(f, n) BY DEF Writes
    <3>3. Start(Loop, f) BY <2>1, <3>1, <3>2 DEF Start
    <3>4. <<<<"touch", "config">>>> \o CollectState = f BY ThreeMore DEF CollectState
    <3> HIDE DEF f
    <3> QED BY <3>3, <3>4
  <2> QED BY <2>3, <2>4, <2>5 DEF ReadHealth, ReadDirectives, ReadMetrics
<1>7. ASSUME NEW p \in Paths, NEW n \in 0..MaxSeq
      PROVE  Start(Loop, RecordProbe(p, TRUE) \o <<<<"arrive", p, n>>>>)
  <2> DEFINE f == <<<<"take", "health">>, <<"probe", p, TRUE>>, <<"drop", "health">>, <<"arrive", p, n>>>>
  <2>1. /\ Fit(Loop, <<"take", "health">>) /\ Fit(Loop, <<"probe", p, TRUE>>) /\ Fit(Loop, <<"drop", "health">>)
        /\ Fit(Loop, <<"arrive", p, n>>)
    BY DEF Fit
  <2>2. /\ Adjacent(Loop, <<"take", "health">>, <<"probe", p, TRUE>>)
        /\ Adjacent(Loop, <<"probe", p, TRUE>>, <<"drop", "health">>)
        /\ Adjacent(Loop, <<"drop", "health">>, <<"arrive", p, n>>)
        /\ After(Loop, <<"arrive", p, n>>) = "none" /\ Under(Loop, <<"take", "health">>) = "none"
    BY DEF Adjacent, Under, After
  <2>3. RecordProbe(p, TRUE) \o <<<<"arrive", p, n>>>> = f
    <3> DEFINE a == <<"take", "health">>
               b == <<"probe", p, TRUE>>
               c == <<"drop", "health">>
               d == <<"arrive", p, n>>
    <3>1. RecordProbe(p, TRUE) = <<a, b, c>> BY Zenon DEF RecordProbe
    <3> HIDE AreInstructions DEF a, b, c, d, f
    <3>2. <<a, b, c>> \o <<d>> = <<a, b, c, d>> BY OneMoreOfFour
    <3> QED BY <3>1, <3>2, Zenon DEF a, b, c, d, f
  <2>4. Program(Loop, f) /\ (\A l : ~Outer(Loop, f, l)) BY <2>1, <2>2, FourProgram
  <2>5. f # <<>> /\ f[1] = <<"take", "health">> /\ \A m : ~Writes(f, m) BY DEF Writes
  <2> QED BY <2>2, <2>3, <2>4, <2>5 DEF Start
<1> QED BY <1>1, <1>2, <1>3, <1>4, <1>5, <1>7

LEMMA ThreadStarts ==
  ASSUME NEW t
  PROVE  /\ Program(t, <<<<"scores">>>>) /\ (\A l : ~Outer(t, <<<<"scores">>>>, l))
         /\ \A p \in Paths, ok \in BOOLEAN :
              LET s == <<<<"probe", p, ok>>, <<"drop", "health">>>>
              IN  Program(t, s) /\ \A l : ~Outer(t, s, l)
         /\ t = Collector => LET s == <<<<"touch", "config">>, <<"drop", "metrics">>>>
                            IN  Program(t, s) /\ \A l : ~Outer(t, s, l)
<1> USE AreInstructions DEF Locks, Plain, LoopOnly, Last
<1>1. Fit(t, <<"scores">>) /\ After(t, <<"scores">>) = "none" BY DEF Fit, After
<1>2. ASSUME NEW p \in Paths, NEW ok \in BOOLEAN
      PROVE  /\ Fit(t, <<"probe", p, ok>>) /\ Fit(t, <<"drop", "health">>)
             /\ Adjacent(t, <<"probe", p, ok>>, <<"drop", "health">>) /\ After(t, <<"drop", "health">>) = "none"
  BY DEF Fit, Adjacent, Under, After
<1>3. ASSUME t = Collector
      PROVE  /\ Fit(t, <<"touch", "config">>) /\ Fit(t, <<"drop", "metrics">>)
             /\ Adjacent(t, <<"touch", "config">>, <<"drop", "metrics">>) /\ After(t, <<"drop", "metrics">>) = "none"
  BY <1>3 DEF Fit, Adjacent, Under, After
<1> QED BY <1>1, <1>2, <1>3, OneProgram, TwoProgram

LEMMA Fronts ==
  ASSUME NEW t
  PROVE  Front(t, Decide) /\ Front(t, <<<<"drop", "balancer">>>>)
<1> USE AreInstructions DEF Locks, Plain, LoopOnly, Last
<1>1. /\ Fit(t, <<"sched">>) /\ Fit(t, <<"failover">>) /\ Fit(t, <<"states">>) /\ Fit(t, <<"drop", "balancer">>)
      /\ Adjacent(t, <<"sched">>, <<"failover">>) /\ Adjacent(t, <<"failover">>, <<"states">>)
      /\ Adjacent(t, <<"states">>, <<"drop", "balancer">>) /\ After(t, <<"drop", "balancer">>) = "none"
      /\ Under(t, <<"sched">>) = "balancer" /\ Under(t, <<"drop", "balancer">>) = "balancer"
  BY DEF Fit, Adjacent, Under, After
<1>2. Program(t, Decide) /\ (\A l : ~Outer(t, Decide, l)) BY <1>1, FourProgram DEF Decide
<1>3. Program(t, <<<<"drop", "balancer">>>>) /\ (\A l : ~Outer(t, <<<<"drop", "balancer">>>>, l)) BY <1>1, OneProgram
<1>4. /\ Decide # <<>> /\ Decide[1] = <<"sched">> /\ (\A n : ~Writes(Decide, n))
      /\ \A k \in 1..Len(Decide) : Listening(Decide[k])
  BY DEF Decide, Writes, Listening
<1>5. (\A n : ~Writes(<<<<"drop", "balancer">>>>, n)) /\ Listening(<<"drop", "balancer">>) BY DEF Writes, Listening
<1> QED BY <1>1, <1>2, <1>3, <1>4, <1>5 DEF Front

LEMMA Notices ==
  ASSUME NEW t
  PROVE  /\ LET c == Notified(Rebalance)
             IN  /\ c = <<<<"take", "balancer">>, <<"scores">>, <<"return">>>>
                 /\ Piece(t, c) /\ Under(t, c[1]) = "none" /\ \A l : ~Outer(t, c, l)
         /\ t = Loop => LET c == Notified(<<<<"touch", "health">>>>)
                       IN  /\ c = <<<<"touch", "health">>, <<"return">>>>
                           /\ Piece(t, c) /\ Under(t, c[1]) = "none" /\ \A l : ~Outer(t, c, l)
<1> USE AreInstructions DEF Locks, Plain, LoopOnly, Last
<1>1. Loop # Collector BY DEF Loop, Collector
<1>2. Notified(Rebalance) = <<<<"take", "balancer">>, <<"scores">>, <<"return">>>> BY OneMore DEF Notified, Rebalance
<1>3. Notified(<<<<"touch", "health">>>>) = <<<<"touch", "health">>, <<"return">>>> BY OneMore DEF Notified
<1> DEFINE c == <<<<"take", "balancer">>, <<"scores">>, <<"return">>>>
           d == <<<<"touch", "health">>, <<"return">>>>
<1>4. Piece(t, c) /\ Under(t, c[1]) = "none" /\ \A l : ~Outer(t, c, l)
  <2>1. /\ c \in Seq(Instructions) /\ Len(c) = 3 /\ c # <<>>
        /\ c[1] = <<"take", "balancer">> /\ c[2] = <<"scores">> /\ c[3] = <<"return">>
    OBVIOUS
  <2> HIDE DEF c
  <2>2. /\ Adjacent(t, c[1], c[2]) /\ Adjacent(t, c[2], c[3]) /\ Under(t, c[1]) = "none"
        /\ Listening(c[1]) /\ Listening(c[2])
    BY <2>1 DEF Adjacent, Under, After, Listening
  <2>3. \A k \in 1..Len(c) : (k = 1 \/ k = 2 \/ k = 3) /\ c[k][1] \notin LoopOnly /\ (k < Len(c) => c[k][1] # "return")
    BY <2>1
  <2>4. \A k \in 1..Len(c) : k < Len(c) => Adjacent(t, c[k], c[k + 1])
    <3>1. TAKE k \in 1..Len(c)
    <3>2. HAVE k < Len(c)
    <3>3. k = 1 \/ k = 2 BY <2>1, <2>3, <3>2
    <3> QED BY <2>2, <3>3
  <2>5. \A j, k \in 1..Len(c) : j < k /\ c[k][1] = "return" => Listening(c[j])
    <3>1. TAKE j, k \in 1..Len(c)
    <3>2. HAVE j < k /\ c[k][1] = "return"
    <3>3. j = 1 \/ j = 2 BY <2>1, <2>3, <3>2
    <3> QED BY <2>2, <3>3
  <2> QED BY <2>1, <2>2, <2>3, <2>4, <2>5 DEF Piece, Outer
<1>5. ASSUME t = Loop PROVE Piece(t, d) /\ Under(t, d[1]) = "none" /\ \A l : ~Outer(t, d, l)
  <2>1. /\ d \in Seq(Instructions) /\ Len(d) = 2 /\ d # <<>>
        /\ d[1] = <<"touch", "health">> /\ d[2] = <<"return">>
    OBVIOUS
  <2> HIDE DEF d
  <2>2. Adjacent(t, d[1], d[2]) /\ Under(t, d[1]) = "none" /\ Listening(d[1])
    BY <1>1, <1>5, <2>1 DEF Adjacent, Under, After, Listening
  <2>3. \A k \in 1..Len(d) : (k = 1 \/ k = 2) /\ d[k][1] \notin LoopOnly /\ (k < Len(d) => d[k][1] # "return")
    BY <2>1
  <2>4. \A k \in 1..Len(d) : k < Len(d) => Adjacent(t, d[k], d[k + 1])
    <3>1. TAKE k \in 1..Len(d)
    <3>2. HAVE k < Len(d)
    <3>3. k = 1 BY <2>1, <2>3, <3>2
    <3> QED BY <2>2, <3>3
  <2>5. \A j, k \in 1..Len(d) : j < k /\ d[k][1] = "return" => Listening(d[j])
    <3>1. TAKE j, k \in 1..Len(d)
    <3>2. HAVE j < k /\ d[k][1] = "return"
    <3>3. j = 1 BY <2>1, <2>3, <3>2
    <3> QED BY <2>2, <3>3
  <2> QED BY <2>1, <2>2, <2>3, <2>4, <2>5 DEF Piece, Outer
<1> QED BY <1>2, <1>3, <1>4, <1>5

\* What replaces the instruction at the front.
LEMMA Swaps ==
  ASSUME NEW t
  PROVE  /\ LET c == <<<<"internals">>>>
             IN  Piece(t, c) /\ Len(c) = 1 /\ c[1] = <<"internals">> /\ \A l : ~Outer(t, c, l)
         /\ \A p \in Paths :
              LET c == Instead(p)
              IN  /\ Piece(t, c) /\ Len(c) = 3
                  /\ c[1] = <<"drop", "health">> /\ c[2] = <<"take", "health">> /\ c[3] = <<"probe", p, FALSE>>
                  /\ \A l : ~Outer(t, c, l)
<1> USE AreInstructions DEF Locks, Plain, LoopOnly, Last
<1>1. Piece(t, <<<<"internals">>>>) /\ \A l : ~Outer(t, <<<<"internals">>>>, l) BY DEF Piece, Outer
<1>2. ASSUME NEW p \in Paths
      PROVE  /\ Piece(t, Instead(p)) /\ Len(Instead(p)) = 3
             /\ Instead(p)[1] = <<"drop", "health">> /\ Instead(p)[2] = <<"take", "health">>
             /\ Instead(p)[3] = <<"probe", p, FALSE>>
             /\ \A l : ~Outer(t, Instead(p), l)
  <2> DEFINE c == Instead(p)
  <2>1. /\ c \in Seq(Instructions) /\ Len(c) = 3 /\ c # <<>>
        /\ c[1] = <<"drop", "health">> /\ c[2] = <<"take", "health">> /\ c[3] = <<"probe", p, FALSE>>
    <3>1. "health" \in Locks /\ FALSE \in BOOLEAN OBVIOUS
    <3>2. /\ <<"drop", "health">> \in Instructions /\ <<"take", "health">> \in Instructions
          /\ <<"probe", p, FALSE>> \in Instructions
      BY <1>2, <3>1
    <3> DEFINE x == <<"drop", "health">>
    <3> DEFINE y == <<"take", "health">>
    <3> DEFINE z == <<"probe", p, FALSE>>
    <3>3. c = <<x, y, z>> BY DEF Instead
    <3>4. x \in Instructions /\ y \in Instructions /\ z \in Instructions BY <3>2
    <3> HIDE DEF c, x, y, z
    <3>5. c \in Seq(Instructions) /\ Len(c) = 3 /\ c # <<>> /\ c[1] = x /\ c[2] = y /\ c[3] = z BY <3>3, <3>4
    <3> QED BY <3>5 DEF x, y, z
  <2> HIDE DEF c
  <2>2. Adjacent(t, c[1], c[2]) /\ Adjacent(t, c[2], c[3]) BY <2>1 DEF Adjacent, Under, After
  <2>3. \A k \in 1..Len(c) : (k = 1 \/ k = 2 \/ k = 3) /\ c[k][1] \notin LoopOnly /\ c[k][1] # "return"
    BY <2>1
  <2>4. \A k \in 1..Len(c) : k < Len(c) => Adjacent(t, c[k], c[k + 1])
    <3>1. TAKE k \in 1..Len(c)
    <3>2. HAVE k < Len(c)
    <3>3. k = 1 \/ k = 2 BY <2>1, <2>3, <3>2
    <3> QED BY <2>2, <3>3
  <2>5. Piece(t, c) BY <2>1, <2>3, <2>4 DEF Piece
  <2>6. \A l : ~Outer(t, c, l) BY <2>3 DEF Outer
  <2> QED BY <2>1, <2>5, <2>6 DEF c
<1> QED BY <1>1, <1>2

\* Where SetEach has the instructions of each set.
LEMMA SetEachIs ==
  ASSUME NEW n \in Nat, NEW s \in [1..n -> Settings]
  PROVE  /\ SetEach(n, s) \in Seq(Instructions) /\ Len(SetEach(n, s)) = 3 * n
         /\ \A k \in 1..(3 * n) : \E i \in 1..n :
              \/ k = 3 * i - 2 /\ SetEach(n, s)[k] = <<"take", "config">>
              \/ k = 3 * i - 1 /\ SetEach(n, s)[k] \in Instructions /\ SetEach(n, s)[k][1] = "set"
              \/ k = 3 * i /\ SetEach(n, s)[k] = <<"drop", "config">>
<1> DEFINE e == SetEach(n, s)
           f(k) == SetConfig(s[(k + 2) \div 3])[((k - 1) % 3) + 1]
<1>1. e = [k \in 1..(3 * n) |-> f(k)] BY DEF SetEach
<1>2. ASSUME NEW k \in 1..(3 * n)
      PROVE  \E i \in 1..n : i = (k + 2) \div 3 /\
               \/ k = 3 * i - 2 /\ (k - 1) % 3 = 0
               \/ k = 3 * i - 1 /\ (k - 1) % 3 = 1
               \/ k = 3 * i /\ (k - 1) % 3 = 2
  OBVIOUS
<1>3. ASSUME NEW k \in 1..(3 * n)
      PROVE  \E i \in 1..n :
              \/ k = 3 * i - 2 /\ f(k) = <<"take", "config">>
              \/ k = 3 * i - 1 /\ f(k) \in Instructions /\ f(k)[1] = "set"
              \/ k = 3 * i /\ f(k) = <<"drop", "config">>
  <2>1. PICK i \in 1..n : i = (k + 2) \div 3 /\
               \/ k = 3 * i - 2 /\ (k - 1) % 3 = 0
               \/ k = 3 * i - 1 /\ (k - 1) % 3 = 1
               \/ k = 3 * i /\ (k - 1) % 3 = 2
    BY <1>2
  <2>2. s[i] \in Settings OBVIOUS
  <2> DEFINE a == <<"set">> \o s[i]
  <2>3. a \in Instructions /\ a[1] = "set" BY <2>2, AreInstructions
  <2>4. SetConfig(s[i]) = <<<<"take", "config">>, a, <<"drop", "config">>>> BY DEF SetConfig
  <2> HIDE DEF a
  <2>5. f(k) = SetConfig(s[i])[((k - 1) % 3) + 1] BY <2>1
  <2> HIDE DEF f
  <2>6. CASE k = 3 * i - 2 /\ (k - 1) % 3 = 0
    <3>1. f(k) = SetConfig(s[i])[1] BY <2>5, <2>6
    <3>2. SetConfig(s[i])[1] = <<"take", "config">> BY <2>4
    <3> QED BY <2>6, <3>1, <3>2
  <2>7. CASE k = 3 * i - 1 /\ (k - 1) % 3 = 1
    <3>1. f(k) = SetConfig(s[i])[2] BY <2>5, <2>7
    <3>2. SetConfig(s[i])[2] = a BY <2>4
    <3> QED BY <2>3, <2>7, <3>1, <3>2
  <2>8. CASE k = 3 * i /\ (k - 1) % 3 = 2
    <3>1. f(k) = SetConfig(s[i])[3] BY <2>5, <2>8
    <3>2. SetConfig(s[i])[3] = <<"drop", "config">> BY <2>4
    <3> QED BY <2>8, <3>1, <3>2
  <2> QED BY <2>1, <2>6, <2>7, <2>8
<1>4. <<"take", "config">> \in Instructions /\ <<"drop", "config">> \in Instructions BY AreInstructions DEF Locks
<1> HIDE DEF f
<1>5. \A k \in 1..(3 * n) : f(k) \in Instructions BY <1>3, <1>4
<1>6. 3 * n \in Nat OBVIOUS
<1>7. e \in Seq(Instructions) /\ Len(e) = 3 * n /\ \A k \in 1..(3 * n) : e[k] = f(k)
  <2> HIDE DEF e
  <2> QED BY <1>1, <1>5, <1>6, IsASeq
<1> HIDE DEF e
<1>8. ASSUME NEW k \in 1..(3 * n)
      PROVE  \E i \in 1..n :
              \/ k = 3 * i - 2 /\ e[k] = <<"take", "config">>
              \/ k = 3 * i - 1 /\ e[k] \in Instructions /\ e[k][1] = "set"
              \/ k = 3 * i /\ e[k] = <<"drop", "config">>
  BY <1>3, <1>7
<1> QED BY <1>7, <1>8 DEF e

LEMMA AnswerStarts ==
  ASSUME NEW n \in Nat, NEW s \in [1..n -> Settings]
  PROVE  Start(Loop, <<<<"touch", "config">>>> \o SetEach(n, s))
<1> DEFINE e == SetEach(n, s)
<1>1. /\ e \in Seq(Instructions) /\ Len(e) = 3 * n
      /\ \A k \in 1..(3 * n) : \E i \in 1..n :
              \/ k = 3 * i - 2 /\ e[k] = <<"take", "config">>
              \/ k = 3 * i - 1 /\ e[k] \in Instructions /\ e[k][1] = "set"
              \/ k = 3 * i /\ e[k] = <<"drop", "config">>
  BY SetEachIs
<1> HIDE DEF e
<1>2. Loop # Collector BY DEF Loop, Collector
<1>3. \A a : a[1] = "set" => /\ Adjacent(Loop, <<"take", "config">>, a) /\ Adjacent(Loop, a, <<"drop", "config">>)
  BY DEF Adjacent, Under, After, Last
<1>4. Adjacent(Loop, <<"drop", "config">>, <<"take", "config">>) BY DEF Adjacent, Under, After, Last
<1>5. \A k \in 1..Len(e) : e[k][1] \in {"take", "set", "drop"} BY <1>1
<1>6. ASSUME NEW k \in 1..Len(e), k < Len(e) PROVE Adjacent(Loop, e[k], e[k + 1])
  <2>1. k \in 1..(3 * n) /\ k + 1 \in 1..(3 * n) BY <1>1, <1>6
  <2>2. PICK i \in 1..n : \/ k = 3 * i - 2 /\ e[k] = <<"take", "config">>
                          \/ k = 3 * i - 1 /\ e[k] \in Instructions /\ e[k][1] = "set"
                          \/ k = 3 * i /\ e[k] = <<"drop", "config">>
    BY <1>1, <2>1
  <2>3. PICK j \in 1..n : \/ k + 1 = 3 * j - 2 /\ e[k + 1] = <<"take", "config">>
                          \/ k + 1 = 3 * j - 1 /\ e[k + 1] \in Instructions /\ e[k + 1][1] = "set"
                          \/ k + 1 = 3 * j /\ e[k + 1] = <<"drop", "config">>
    BY <1>1, <2>1
  <2>4. CASE k = 3 * i - 2 /\ e[k] = <<"take", "config">>
    <3>1. e[k + 1][1] = "set" BY <2>3, <2>4
    <3> QED BY <1>3, <2>4, <3>1
  <2>5. CASE k = 3 * i - 1 /\ e[k] \in Instructions /\ e[k][1] = "set"
    <3>1. e[k + 1] = <<"drop", "config">> BY <2>3, <2>5
    <3> QED BY <1>3, <2>5, <3>1
  <2>6. CASE k = 3 * i /\ e[k] = <<"drop", "config">>
    <3>1. e[k + 1] = <<"take", "config">> BY <2>3, <2>6
    <3> QED BY <1>4, <2>6, <3>1
  <2> QED BY <2>2, <2>4, <2>5, <2>6
<1>7. ASSUME NEW k \in 1..Len(e), k = Len(e) PROVE After(Loop, e[k]) = "none"
  <2>1. e[k] = <<"drop", "config">>
    <3>1. k \in 1..(3 * n) /\ k = 3 * n BY <1>1, <1>7
    <3> QED BY <1>1, <3>1
  <2> QED BY <2>1 DEF After
<1>8. Program(Loop, e) BY <1>1, <1>5, <1>6, <1>7 DEF Program
<1>9. e # <<>> => e[1] = <<"take", "config">>
  <2>1. HAVE e # <<>>
  <2>2. 1 \in 1..(3 * n) BY <1>1, <2>1
  <2> QED BY <1>1, <2>2
<1> DEFINE c == <<<<"touch", "config">>>>
<1>10. /\ c \in Seq(Instructions) /\ Len(c) = 1 /\ c # <<>> /\ c[1] = <<"touch", "config">>
  BY AreInstructions DEF Locks
<1> HIDE DEF c
<1>11. /\ After(Loop, c[1]) = "none" /\ Under(Loop, c[1]) = "none" /\ c[1][1] = "touch"
       /\ e # <<>> => Adjacent(Loop, c[1], e[1])
  BY <1>2, <1>9, <1>10 DEF Adjacent, Under, After, Last
<1>12. Piece(Loop, c) /\ \A l : ~Outer(Loop, c, l) BY <1>10, <1>11 DEF Piece, Outer, LoopOnly
<1>13. /\ Program(Loop, c \o e) /\ c \o e # <<>> /\ (c \o e)[1] = c[1]
  BY <1>5, <1>8, <1>10, <1>11, <1>12, JoinProgram
<1>14. /\ Len(c \o e) = 1 + Len(e)
       /\ \A k \in 1..(1 + Len(e)) : (c \o e)[k] = IF k <= 1 THEN c[k] ELSE e[k - 1]
  <2>1. /\ Len(c \o e) = Len(c) + Len(e)
        /\ \A k \in 1..(Len(c) + Len(e)) : (c \o e)[k] = IF k <= Len(c) THEN c[k] ELSE e[k - Len(c)]
    <3>1. c \in Seq(Instructions) /\ e \in Seq(Instructions) BY <1>1, <1>10
    <3> QED BY <3>1, ConcatProperties
  <2> QED BY <1>10, <2>1
<1>15. \A k \in 1..Len(c \o e) : (c \o e)[k][1] \in {"touch", "take", "set", "drop"}
  <2>1. TAKE k \in 1..Len(c \o e)
  <2>2. CASE k = 1 BY <1>11, <1>13, <2>2
  <2>3. CASE k # 1
    <3>1. k - 1 \in 1..Len(e) /\ k \in 1..(1 + Len(e)) /\ ~(k <= 1) BY <1>1, <1>14, <2>3
    <3> QED BY <1>5, <1>14, <3>1
  <2> QED BY <2>2, <2>3
<1>16. (\A l : ~Outer(Loop, c \o e, l)) /\ \A m : ~Writes(c \o e, m) BY <1>15 DEF Outer, Writes
<1> QED BY <1>11, <1>13, <1>16 DEF Start, c, e

-----------------------------------------------------------------------------
(* Every thread has a program, and holds the locks that says. *)

LockInv ==
  /\ todo \in [Threads -> Seq(Instructions)]
  /\ holder \in [Locks -> Threads \cup {Free}]
  /\ \A t \in Threads : Program(t, todo[t])
  /\ \A t \in Threads, l \in Locks : holder[l] = t <=> Holds(t, todo[t], l)

LEMMA GoOn ==
  ASSUME LockInv, NEW t \in Threads, NEW h \in [Locks -> Threads \cup {Free}], NEW c, Program(t, c),
         \A l \in Locks : h[l] = t <=> Holds(t, c, l),
         \A l \in Locks, u \in Threads : u # t => (h[l] = u <=> Holds(u, todo[u], l)),
         holder' = [l \in Locks |-> IF Dropped(c, l) THEN Free ELSE h[l]],
         todo' = [todo EXCEPT ![t] = Rest(c)]
  PROVE  LockInv'
<1>1. Program(t, Rest(c)) /\ Rest(c) \in Seq(Instructions)
  <2>1. Program(t, Rest(c)) BY RestIs
  <2> QED BY <2>1 DEF Program
<1>2. todo' \in [Threads -> Seq(Instructions)] BY <1>1 DEF LockInv
<1>3. holder' \in [Locks -> Threads \cup {Free}] OBVIOUS
<1>4. todo'[t] = Rest(c) /\ \A u \in Threads : u # t => todo'[u] = todo[u] BY DEF LockInv
<1>5. \A u \in Threads : Program(u, todo'[u]) BY <1>1, <1>4 DEF LockInv
<1>6. ASSUME NEW u \in Threads, NEW l \in Locks PROVE holder'[l] = u <=> Holds(u, todo'[u], l)
  <2>1. /\ Holds(t, Rest(c), l) <=> Holds(t, c, l) /\ ~Dropped(c, l)
        /\ Dropped(c, l) => Holds(t, c, l)
    BY LeavePrograms
  <2>2. holder'[l] = IF Dropped(c, l) THEN Free ELSE h[l] OBVIOUS
  <2>3. Free # u /\ Free # t BY ThreadsAssumption
  <2>4. CASE u = t BY <1>4, <2>1, <2>2, <2>3, <2>4
  <2>5. CASE u # t BY <1>4, <2>1, <2>2, <2>3, <2>5
  <2> QED BY <2>4, <2>5
<1> QED BY <1>2, <1>3, <1>5, <1>6 DEF LockInv

LEMMA ContinueIs ==
  ASSUME NEW t \in Threads, NEW h, NEW s, ContinueHolding(t, h, s)
  PROVE  /\ holder' = [l \in Locks |-> IF Dropped(s \o Tail(todo[t]), l) THEN Free ELSE h[l]]
         /\ todo' = [todo EXCEPT ![t] = Rest(s \o Tail(todo[t]))]
BY DEF ContinueHolding, Dropped, Rest

LEMMA AtIs ==
  ASSUME LockInv, NEW t \in Threads, ~Idle(t)
  PROVE  /\ Program(t, todo[t]) /\ todo[t] # <<>> /\ Len(todo[t]) \in Nat /\ Len(todo[t]) > 0
         /\ Head(todo[t]) = todo[t][1] /\ todo[t][1] \in Instructions
         /\ Tail(todo[t]) \in Seq(Instructions) /\ <<>> \o Tail(todo[t]) = Tail(todo[t])
<1>1. todo[t] \in Seq(Instructions) /\ todo[t] # <<>> /\ Program(t, todo[t]) BY DEF LockInv, Idle
<1>2. Tail(todo[t]) \in Seq(Instructions) BY <1>1, HeadTailProperties
<1>3. <<>> \o Tail(todo[t]) = Tail(todo[t]) BY <1>2, ConcatEmptySeq
<1> QED BY <1>1, <1>2, <1>3

\* The instruction at the front takes no lock, and nothing is put in front.
LEMMA PlainStep ==
  ASSUME LockInv, NEW t \in Threads, ~Idle(t), todo[t][1][1] \notin {"take", "drop", "return", "scores"},
         Continue(t, <<>>)
  PROVE  /\ LockInv' /\ Program(t, Tail(todo[t]))
         /\ todo' = [todo EXCEPT ![t] = Rest(Tail(todo[t]))]
<1> DEFINE q == todo[t]
<1>1. Program(t, q) /\ q # <<>> /\ <<>> \o Tail(q) = Tail(q) BY AtIs
<1>2. /\ holder' = [l \in Locks |-> IF Dropped(Tail(q), l) THEN Free ELSE holder[l]]
      /\ todo' = [todo EXCEPT ![t] = Rest(Tail(q))]
  <2>1. ContinueHolding(t, holder, <<>>) BY DEF Continue
  <2>2. /\ holder' = [l \in Locks |-> IF Dropped(<<>> \o Tail(q), l) THEN Free ELSE holder[l]]
        /\ todo' = [todo EXCEPT ![t] = Rest(<<>> \o Tail(q))]
    BY <2>1, ContinueIs
  <2> QED BY <1>1, <2>2
<1>3. q[1][1] \notin {"take", "drop", "return", "scores"} OBVIOUS
<1> HIDE DEF q
<1>4. Program(t, Tail(q)) /\ \A l \in Locks : Holds(t, Tail(q), l) <=> After(t, q[1]) = l \/ Outer(t, q, l)
  BY <1>1, <1>3, TailProgram
<1>5. After(t, q[1]) = Under(t, q[1]) BY <1>3 DEF After
<1>6. \A l \in Locks : Holds(t, Tail(q), l) <=> Holds(t, q, l) BY <1>1, <1>4, <1>5 DEF Holds
<1>7. LockInv'
  <2>1. holder \in [Locks -> Threads \cup {Free}] BY DEF LockInv
  <2>2. \A l \in Locks : holder[l] = t <=> Holds(t, Tail(q), l) BY <1>6 DEF LockInv, q
  <2>3. \A l \in Locks, u \in Threads : u # t => (holder[l] = u <=> Holds(u, todo[u], l)) BY DEF LockInv
  <2> QED BY <1>2, <1>4, <2>1, <2>2, <2>3, GoOn
<1> QED BY <1>2, <1>4, <1>7 DEF q

LEMMA TakeStep ==
  ASSUME LockInv, NEW t \in Threads, Take(t)
  PROVE  /\ LockInv' /\ Program(t, Tail(todo[t])) /\ todo[t][1][1] = "take" /\ ~Idle(t)
         /\ Available(t, todo[t][1][2])
         /\ todo' = [todo EXCEPT ![t] = Rest(Tail(todo[t]))]
<1> DEFINE q == todo[t]
           k == q[1][2]
           h == [holder EXCEPT ![k] = t]
<1>0. ~Idle(t) BY DEF Take, At
<1>1. Program(t, q) /\ q # <<>> /\ <<>> \o Tail(q) = Tail(q) /\ Head(q) = q[1] /\ q[1] \in Instructions BY <1>0, AtIs
<1>2. q[1][1] = "take" /\ Available(t, k) /\ ContinueHolding(t, h, <<>>) BY <1>1 DEF Take, At
<1>3. k \in Locks BY <1>1, <1>2, Kinds DEF Plain
<1>4. /\ holder' = [l \in Locks |-> IF Dropped(Tail(q), l) THEN Free ELSE h[l]]
      /\ todo' = [todo EXCEPT ![t] = Rest(Tail(q))]
  <2>1. /\ holder' = [l \in Locks |-> IF Dropped(<<>> \o Tail(q), l) THEN Free ELSE h[l]]
        /\ todo' = [todo EXCEPT ![t] = Rest(<<>> \o Tail(q))]
    BY <1>2, ContinueIs
  <2> QED BY <1>1, <2>1
<1>5. Available(t, k) => \A u \in Threads : u # t => holder[k] # u BY ThreadsAssumption DEF Available
<1>6. h \in [Locks -> Threads \cup {Free}] /\ h[k] = t /\ \A l \in Locks : l # k => h[l] = holder[l]
  BY <1>3 DEF LockInv
<1>7. \A l \in Locks : holder[l] = t <=> Holds(t, q, l) BY DEF LockInv
<1>8. \A l \in Locks, u \in Threads : u # t => (holder[l] = u <=> Holds(u, todo[u], l)) BY DEF LockInv
<1> HIDE DEF q, k, h
<1>9. Program(t, Tail(q)) /\ \A l \in Locks : Holds(t, Tail(q), l) <=> After(t, q[1]) = l \/ Outer(t, q, l)
  BY <1>1, <1>2, TailProgram
<1>10. After(t, q[1]) = k /\ Under(t, q[1]) = "none" BY <1>2 DEF After, Under, k
<1>11. \A l \in Locks : h[l] = t <=> Holds(t, Tail(q), l)
  <2>1. TAKE l \in Locks
  <2>2. l # "none" BY DEF Locks
  <2>3. Holds(t, q, l) <=> Outer(t, q, l) BY <1>10, <2>2 DEF Holds
  <2> QED BY <1>6, <1>7, <1>9, <1>10, <2>3
<1>12. \A l \in Locks, u \in Threads : u # t => (h[l] = u <=> Holds(u, todo[u], l))
  BY <1>2, <1>5, <1>6, <1>8
<1>13. LockInv' BY <1>4, <1>6, <1>9, <1>11, <1>12, GoOn
<1> QED BY <1>0, <1>2, <1>4, <1>9, <1>13 DEF q, k

\* The instruction at the front is replaced by s, in the same call.
LEMMA PutStep ==
  ASSUME LockInv, NEW t \in Threads, ~Idle(t), todo[t][1][1] # "return", After(t, todo[t][1]) = "none",
         NEW s, Program(t, s), s # <<>>, \A l : ~Outer(t, s, l), Under(t, s[1]) = Under(t, todo[t][1]),
         Len(todo[t]) = 1 \/ \A k \in 1..Len(s) : Listening(s[k]) /\ s[k][1] \notin Last,
         Continue(t, s)
  PROVE  /\ LockInv' /\ Program(t, s \o Tail(todo[t]))
         /\ todo' = [todo EXCEPT ![t] = Rest(s \o Tail(todo[t]))]
<1> DEFINE q == todo[t]
           c == s \o Tail(q)
<1>1. Program(t, q) /\ q # <<>> BY AtIs
<1>2. ContinueHolding(t, holder, s) BY DEF Continue
<1>3. /\ holder' = [l \in Locks |-> IF Dropped(c, l) THEN Free ELSE holder[l]]
      /\ todo' = [todo EXCEPT ![t] = Rest(c)]
  BY <1>2, ContinueIs
<1>4. q[1][1] # "return" /\ After(t, q[1]) = "none" /\ Under(t, s[1]) = Under(t, q[1]) OBVIOUS
<1>5. Len(q) = 1 \/ \A k \in 1..Len(s) : Listening(s[k]) /\ s[k][1] \notin Last OBVIOUS
<1>6. \A l \in Locks : holder[l] = t <=> Holds(t, q, l) BY DEF LockInv
<1>7. \A l \in Locks, u \in Threads : u # t => (holder[l] = u <=> Holds(u, todo[u], l)) BY DEF LockInv
<1> HIDE DEF q
<1>8. Program(t, c) /\ \A l : Holds(t, c, l) <=> Under(t, s[1]) = l \/ Outer(t, q, l)
  BY <1>1, <1>4, <1>5, PutProgram
<1> HIDE DEF c
<1>9. \A l \in Locks : holder[l] = t <=> Holds(t, c, l) BY <1>1, <1>4, <1>6, <1>8 DEF Holds
<1>10. holder \in [Locks -> Threads \cup {Free}] BY DEF LockInv
<1>11. LockInv' BY <1>3, <1>7, <1>8, <1>9, <1>10, GoOn
<1> QED BY <1>3, <1>8, <1>11 DEF c, q

\* The instruction at the front calls a listener.
LEMMA NoticeStep ==
  ASSUME LockInv, NEW t \in Threads, ~Idle(t), todo[t][1][1] \in {"probe", "set"},
         NEW s, Piece(t, s), s[Len(s)] = <<"return">>, \A l : ~Outer(t, s, l), Under(t, s[1]) = "none",
         Continue(t, s)
  PROVE  /\ LockInv' /\ Program(t, s \o Tail(todo[t]))
         /\ todo' = [todo EXCEPT ![t] = Rest(s \o Tail(todo[t]))]
<1> DEFINE q == todo[t]
           c == s \o Tail(q)
<1>1. Program(t, q) /\ q # <<>> BY AtIs
<1>2. ContinueHolding(t, holder, s) BY DEF Continue
<1>3. /\ holder' = [l \in Locks |-> IF Dropped(c, l) THEN Free ELSE holder[l]]
      /\ todo' = [todo EXCEPT ![t] = Rest(c)]
  BY <1>2, ContinueIs
<1>4. q[1][1] \in {"probe", "set"} OBVIOUS
<1>5. \A l \in Locks : holder[l] = t <=> Holds(t, q, l) BY DEF LockInv
<1>6. \A l \in Locks, u \in Threads : u # t => (holder[l] = u <=> Holds(u, todo[u], l)) BY DEF LockInv
<1> HIDE DEF q
<1>7. /\ Program(t, c)
      /\ \A l : Holds(t, c, l) <=> Under(t, s[1]) = l \/ Under(t, q[1]) = l \/ Outer(t, q, l)
  BY <1>1, <1>4, NotifyProgram
<1> HIDE DEF c
<1>8. \A l \in Locks : holder[l] = t <=> Holds(t, c, l) BY <1>1, <1>5, <1>7 DEF Holds, Locks
<1>9. holder \in [Locks -> Threads \cup {Free}] BY DEF LockInv
<1>10. LockInv' BY <1>3, <1>6, <1>7, <1>8, <1>9, GoOn
<1> QED BY <1>3, <1>7, <1>10 DEF c, q

\* The instruction at the front is replaced by the piece s, in the same call.
LEMMA SwapStep ==
  ASSUME LockInv, NEW t \in Threads, ~Idle(t), todo[t][1][1] \notin {"return", "sched", "failover"},
         NEW s, Piece(t, s), \A l : ~Outer(t, s, l),
         s[Len(s)][1] \notin {"return", "sched", "failover"} \cup Last,
         Under(t, s[1]) = Under(t, todo[t][1]), After(t, s[Len(s)]) = After(t, todo[t][1]),
         ~Listening(todo[t][1]) \/ \A k \in 1..Len(s) : Listening(s[k]),
         Continue(t, s)
  PROVE  /\ LockInv' /\ Program(t, s \o Tail(todo[t]))
         /\ todo' = [todo EXCEPT ![t] = Rest(s \o Tail(todo[t]))]
<1> DEFINE q == todo[t]
           c == s \o Tail(q)
<1>1. Program(t, q) /\ q # <<>> BY AtIs
<1>2. ContinueHolding(t, holder, s) BY DEF Continue
<1>3. /\ holder' = [l \in Locks |-> IF Dropped(c, l) THEN Free ELSE holder[l]]
      /\ todo' = [todo EXCEPT ![t] = Rest(c)]
  BY <1>2, ContinueIs
<1>4. /\ q[1][1] \notin {"return", "sched", "failover"}
      /\ Under(t, s[1]) = Under(t, q[1]) /\ After(t, s[Len(s)]) = After(t, q[1])
      /\ ~Listening(q[1]) \/ \A k \in 1..Len(s) : Listening(s[k])
  OBVIOUS
<1>5. \A l \in Locks : holder[l] = t <=> Holds(t, q, l) BY DEF LockInv
<1>6. \A l \in Locks, u \in Threads : u # t => (holder[l] = u <=> Holds(u, todo[u], l)) BY DEF LockInv
<1> HIDE DEF q
<1>7. Program(t, c) /\ \A l : Holds(t, c, l) <=> Holds(t, q, l) BY <1>1, <1>4, SwapProgram
<1> HIDE DEF c
<1>8. \A l \in Locks : holder[l] = t <=> Holds(t, c, l) BY <1>5, <1>7
<1>9. holder \in [Locks -> Threads \cup {Free}] BY DEF LockInv
<1>10. LockInv' BY <1>3, <1>6, <1>7, <1>8, <1>9, GoOn
<1> QED BY <1>3, <1>7, <1>10 DEF c, q

LEMMA BeginStep ==
  ASSUME LockInv, NEW t \in Threads, NEW s, Start(t, s), Begin(t, s), UNCHANGED holder
  PROVE  LockInv'
<1>1. Program(t, s) /\ s \in Seq(Instructions) BY DEF Start, Program
<1>2. /\ todo' = [todo EXCEPT ![t] = s] /\ todo[t] = <<>> BY DEF Begin, Idle
<1>3. \A l \in Locks : ~Holds(t, s, l) /\ ~Holds(t, <<>>, l) BY DEF Start, Holds, Outer, Locks
<1>4. todo' \in [Threads -> Seq(Instructions)] /\ todo'[t] = s /\ \A u \in Threads : u # t => todo'[u] = todo[u]
  BY <1>1, <1>2 DEF LockInv
<1>5. \A u \in Threads : Program(u, todo'[u]) BY <1>1, <1>4 DEF LockInv
<1>6. ASSUME NEW u \in Threads, NEW l \in Locks PROVE holder'[l] = u <=> Holds(u, todo'[u], l)
  <2>1. holder[l] = u <=> Holds(u, todo[u], l) BY DEF LockInv
  <2> QED BY <1>2, <1>3, <1>4, <2>1
<1> QED BY <1>4, <1>5, <1>6 DEF LockInv

LEMMA WakeStep ==
  ASSUME LockInv, NEW t \in Threads, Idle(t), NEW k \in Locks, Available(t, k),
         holder' = [holder EXCEPT ![k] = t],
         NEW s, Program(t, s), s # <<>>, Under(t, s[1]) = k, \A l : ~Outer(t, s, l),
         todo' = [todo EXCEPT ![t] = s]
  PROVE  LockInv'
<1>1. s \in Seq(Instructions) /\ todo[t] = <<>> BY DEF Program, Idle
<1>2. \A l \in Locks : holder[l] # t
  <2>1. \A l \in Locks : ~Holds(t, <<>>, l) BY DEF Holds, Outer
  <2> QED BY <1>1, <2>1 DEF LockInv
<1>3. holder[k] = Free BY <1>2 DEF Available
<1>4. todo' \in [Threads -> Seq(Instructions)] /\ todo'[t] = s /\ \A u \in Threads : u # t => todo'[u] = todo[u]
  BY <1>1 DEF LockInv
<1>5. /\ holder' \in [Locks -> Threads \cup {Free}] /\ holder'[k] = t
      /\ \A l \in Locks : l # k => holder'[l] = holder[l]
  BY DEF LockInv
<1>6. \A u \in Threads : Program(u, todo'[u]) BY <1>4 DEF LockInv
<1>7. ASSUME NEW u \in Threads, NEW l \in Locks PROVE holder'[l] = u <=> Holds(u, todo'[u], l)
  <2>1. holder[l] = u <=> Holds(u, todo[u], l) BY DEF LockInv
  <2>2. Holds(t, s, l) <=> l = k BY DEF Holds
  <2>3. CASE u = t BY <1>2, <1>4, <1>5, <2>2, <2>3
  <2>4. CASE u # t BY <1>3, <1>4, <1>5, <2>1, <2>4, ThreadsAssumption
  <2> QED BY <2>3, <2>4
<1> QED BY <1>4, <1>5, <1>6, <1>7 DEF LockInv

\* The program c is what q returns to, or nothing.
Returns(t, q, c) == /\ Program(t, c)
                    /\ \A k \in 1..Len(c) : \E j \in 1..Len(q) : c[k] = q[j]
                    /\ c # <<>> => c[1][1] = "return"

\* A call that holds l raises: what is left is what the listener returns to.
Raises(t, l) ==
  \/ todo[t][1][1] \in {"failover", "states", "internals"} /\ l = "balancer"
  \/ todo[t][1][1] = "probe" /\ l = "health"

LEMMA RaiseStep ==
  ASSUME LockInv, NEW t \in Threads, ~Idle(t), NEW b, Raises(t, b), Raise(t, b)
  PROVE  /\ LockInv'
         /\ \E c : Returns(t, todo[t], c) /\ todo' = [todo EXCEPT ![t] = Rest(c)]
<1> DEFINE q == todo[t]
           returns == {i \in 1..Len(q) : q[i][1] = "return"}
           first == CHOOSE i \in returns : \A j \in returns : i <= j
           c == IF returns = {} THEN <<>> ELSE SubSeq(q, first, Len(q))
           h == [holder EXCEPT ![b] = Free]
<1>1. Program(t, q) /\ q # <<>> /\ Len(q) \in Nat /\ q[1][1] # "return" BY AtIs DEF Raises
<1>2. /\ holder' = [l \in Locks |-> IF l = b \/ Dropped(c, l) THEN Free ELSE holder[l]]
      /\ todo' = [todo EXCEPT ![t] = Rest(c)]
  BY DEF Raise, Dropped, Rest
<1>3. \A l \in Locks : holder[l] = t <=> Holds(t, q, l) BY DEF LockInv
<1>4. \A l \in Locks, u \in Threads : u # t => (holder[l] = u <=> Holds(u, todo[u], l)) BY DEF LockInv
<1>5. /\ b \in Locks /\ h \in [Locks -> Threads \cup {Free}] /\ h[b] = Free
      /\ \A l \in Locks : l # b => h[l] = holder[l]
  BY DEF LockInv, Locks, Raises
<1>8. Under(t, q[1]) = b BY DEF Under, Raises
<1>18. b = "balancer" \/ ~Listening(q[1]) BY DEF Raises, Listening
<1> HIDE DEF q
<1>6. /\ Program(t, c)
      /\ \A k \in 1..Len(c) : \E j \in 1..Len(q) : c[k] = q[j]
      /\ c # <<>> => c[1][1] = "return"
      /\ \A l : Outer(t, c, l) <=> Outer(t, q, l)
  <2>1. CASE returns = {}
    <3>1. c = <<>> BY <2>1
    <3>2. Program(t, <<>>) /\ \A l : ~Outer(t, <<>>, l) BY DEF Program, Outer
    <3>3. \A l : ~Outer(t, q, l) BY <2>1 DEF Outer
    <3> HIDE DEF c, returns
    <3> QED BY <3>1, <3>2, <3>3
  <2>2. CASE returns # {}
    <3>1. returns \in SUBSET Nat OBVIOUS
    <3>2. \E i \in returns : \A j \in returns : i <= j BY <2>2, <3>1, LeastNat
    <3>3. first \in returns /\ \A j \in returns : first <= j BY <3>2
    <3>4. c = SubSeq(q, first, Len(q)) BY <2>2
    <3> HIDE DEF c, first
    <3>5. first \in 1..Len(q) /\ q[first][1] = "return" BY <3>3
    <3>6. PICK n \in 0..Len(q) : n + 1 = first BY <1>1, <3>5
    <3>7. /\ Program(t, c) /\ Len(c) = Len(q) - n /\ \A k \in 1..(Len(q) - n) : c[k] = q[k + n]
      <4>1. c = SubSeq(q, n + 1, Len(q)) BY <3>4, <3>6
      <4> QED BY <1>1, <4>1, SuffixProgram
    <3>8. \A k \in 1..Len(c) : k + n \in 1..Len(q) /\ c[k] = q[k + n] BY <1>1, <3>7
    <3>9. 1 \in 1..Len(c) /\ c[1][1] = "return"
      <4>1. n < Len(q) BY <1>1, <3>5, <3>6
      <4>2. 1 \in 1..(Len(q) - n) /\ 1 + n = first BY <1>1, <3>6, <4>1
      <4>3. c[1] = q[1 + n] BY <3>7, <4>2
      <4>4. 1 \in 1..Len(c) BY <3>7, <4>2
      <4> QED BY <3>5, <4>2, <4>3, <4>4
    <3>10. ASSUME NEW l PROVE Outer(t, c, l) <=> Outer(t, q, l)
      <4>1. ASSUME NEW k \in 1..Len(c), k < Len(c), c[k][1] = "return", Under(t, c[k + 1]) = l PROVE Outer(t, q, l)
        <5>1. k + 1 \in 1..Len(c) /\ (k + 1) + n = (k + n) + 1 /\ k + n < Len(q) BY <1>1, <3>7, <4>1
        <5>2. c[k] = q[k + n] /\ c[k + 1] = q[(k + n) + 1] /\ k + n \in 1..Len(q) BY <3>8, <5>1
        <5> QED BY <4>1, <5>1, <5>2 DEF Outer
      <4>2. ASSUME NEW k \in 1..Len(q), k < Len(q), q[k][1] = "return", Under(t, q[k + 1]) = l PROVE Outer(t, c, l)
        <5>1. first <= k BY <3>3, <4>2
        <5>2. /\ k - n \in 1..Len(c) /\ k - n < Len(c) /\ (k - n) + 1 \in 1..Len(c)
              /\ (k - n) + n = k /\ ((k - n) + 1) + n = k + 1
          BY <1>1, <3>6, <3>7, <4>2, <5>1
        <5>3. c[k - n] = q[k] /\ c[(k - n) + 1] = q[k + 1] BY <3>8, <5>2
        <5> QED BY <4>2, <5>2, <5>3 DEF Outer
      <4> QED BY <4>1, <4>2 DEF Outer
    <3> QED BY <3>7, <3>8, <3>9, <3>10
  <2> QED BY <2>1, <2>2
<1> HIDE DEF returns, first, c, h
<1>7. ~Outer(t, q, b)
  <2>1. SUFFICES ASSUME NEW k \in 1..Len(q), k < Len(q), q[k][1] = "return", Under(t, q[k + 1]) = b PROVE FALSE
    BY DEF Outer
  <2>2. Adjacent(t, q[k], q[k + 1]) /\ k # 1 BY <1>1, <2>1 DEF Program
  <2>3. Under(t, q[k + 1]) \in {"health", "config"} BY <2>1, <2>2 DEF Adjacent
  <2>4. 1 \in 1..Len(q) /\ 1 < k BY <1>1, <2>1, <2>2
  <2>5. Listening(q[1]) BY <1>1, <2>1, <2>4 DEF Program
  <2> QED BY <1>18, <2>1, <2>3, <2>5
<1>9. \A l \in Locks : Holds(t, c, l) <=> Outer(t, q, l)
  <2>1. c # <<>> => Under(t, c[1]) = "none" BY <1>6 DEF Under
  <2> QED BY <1>6, <2>1 DEF Holds, Locks
<1>10. holder[b] = t BY <1>1, <1>3, <1>5, <1>8 DEF Holds
<1>11. \A l \in Locks : h[l] = t <=> Holds(t, c, l)
  <2>1. TAKE l \in Locks
  <2>2. CASE l = b BY <1>5, <1>7, <1>9, <2>2, ThreadsAssumption
  <2>3. CASE l # b BY <1>1, <1>3, <1>5, <1>8, <1>9, <2>3 DEF Holds
  <2> QED BY <2>2, <2>3
<1>12. \A l \in Locks, u \in Threads : u # t => (h[l] = u <=> Holds(u, todo[u], l))
  BY <1>4, <1>5, <1>10, ThreadsAssumption
<1>13. holder' = [l \in Locks |-> IF Dropped(c, l) THEN Free ELSE h[l]] BY <1>2, <1>5
<1>14. todo' = [todo EXCEPT ![t] = Rest(c)] BY <1>2
<1>15. h \in [Locks -> Threads \cup {Free}] /\ Program(t, c) BY <1>5, <1>6
<1>16. LockInv' BY <1>11, <1>12, <1>13, <1>14, <1>15, GoOn
<1>17. Returns(t, q, c) BY <1>6 DEF Returns
<1> QED BY <1>2, <1>16, <1>17 DEF q

-----------------------------------------------------------------------------
(* The order of the locks. *)

\* Who waits for a lock, outside a listener, holds one that comes before it.
LEMMA InOrder ==
  ASSUME NEW t, NEW i \in Instructions
  PROVE  /\ Under(t, i) = "config" => Needs(i) = "none"
         /\ Under(t, i) = "health" => Needs(i) \in {"none", "config"}
         /\ Under(t, i) \in {"balancer", "metrics"} => Needs(i) \in {"none", "health", "config"}
         /\ Needs(i) \in Locks \cup {"none"}
<1>1. i[1] \in {"take", "drop", "touch"} => i[2] \in Locks /\ i = <<i[1], i[2]>> BY Kinds DEF Plain
<1>2. CASE i[1] = "take" BY <1>1, <1>2 DEF Under, Needs
<1>3. CASE i[1] = "drop" BY <1>3 DEF Under, Needs
<1>4. CASE i[1] = "touch"
  <2>1. Needs(i) = i[2] /\ i[2] \in Locks BY <1>1, <1>4 DEF Needs
  <2>2. Under(t, i) = IF i = <<"touch", "config">> /\ t = Collector THEN "metrics" ELSE "none" BY <1>4 DEF Under
  <2>3. i = <<"touch", "config">> => i[2] = "config" OBVIOUS
  <2> QED BY <2>1, <2>2, <2>3
<1>5. CASE i[1] \notin {"take", "drop", "touch"}
  <2>1. i # <<"touch", "config">> BY <1>5
  <2> QED BY <1>5, <2>1 DEF Under, Needs, Locks
<1> QED BY <1>2, <1>3, <1>4, <1>5

\* A thread in no listener, that waits for another such, holds a later lock.
LEMMA Blocked ==
  ASSUME LockInv, NEW t \in Threads, NEW u \in Threads, WaitsFor(t, u), ~InListener(u)
  PROVE  /\ todo[t] # <<>> /\ todo[t][1] \in Instructions
         /\ Needs(todo[t][1]) \in Locks
         /\ todo[u] # <<>> /\ Under(u, todo[u][1]) = Needs(todo[t][1])
<1> DEFINE l == Needs(todo[t][1])
<1>1. ~Idle(t) BY DEF WaitsFor
<1>2. Head(todo[t]) = todo[t][1] /\ todo[t] # <<>> /\ todo[t][1] \in Instructions BY <1>1, AtIs
<1>3. l # "none" /\ holder[l] = u BY <1>2 DEF WaitsFor
<1>4. l \in Locks BY <1>2, <1>3, InOrder
<1> HIDE DEF l
<1>5. Holds(u, todo[u], l) BY <1>3, <1>4 DEF LockInv
<1>6. ~Outer(u, todo[u], l) BY DEF Outer, InListener
<1> QED BY <1>2, <1>4, <1>5, <1>6 DEF Holds, l

LEMMA OnlyInListeners == LockInv => StuckOnlyInListeners
<1> SUFFICES ASSUME LockInv, NEW S \in SUBSET Threads, Deadlocked(S), \A t \in S : ~InListener(t) PROVE FALSE
  BY DEF StuckOnlyInListeners
<1> DEFINE need(t) == Needs(todo[t][1])
           has(t) == Under(t, todo[t][1])
<1>1. S # {} /\ \A t \in S : \E u \in S : WaitsFor(t, u) BY DEF Deadlocked
<1>2. ASSUME NEW t \in S PROVE need(t) \in Locks /\ todo[t][1] \in Instructions /\ \E u \in S : has(u) = need(t)
  <2>1. PICK u \in S : WaitsFor(t, u) BY <1>1
  <2> QED BY <2>1, Blocked
<1>3. ASSUME NEW t \in S
      PROVE  /\ has(t) # "config"
             /\ has(t) = "health" => need(t) = "config"
             /\ has(t) \in {"balancer", "metrics"} => need(t) \in {"health", "config"}
  BY <1>2, InOrder DEF Locks
<1> HIDE DEF need, has
<1>4. \A t \in S : need(t) # "config" BY <1>2, <1>3
<1>5. \A t \in S : need(t) # "health" BY <1>2, <1>3, <1>4
<1>6. \A t \in S : need(t) \notin {"balancer", "metrics"} BY <1>2, <1>3, <1>4, <1>5
<1> QED BY <1>1, <1>2, <1>4, <1>5, <1>6 DEF Locks

-----------------------------------------------------------------------------
(* What a step leaves of a program. *)

InRebalance == {"scores", "sched", "failover", "states", "internals"}

\* The loop is in a rebalance that was called by a set, which is not over and
\* holds the configuration.
Telling(s) ==
  \E i, k \in 1..Len(s) : /\ i < k /\ k < Len(s) /\ s[i][1] \in InRebalance
                         /\ s[k][1] = "return" /\ Under(Loop, s[k + 1]) = "config"

LEMMA RestKeeps ==
  ASSUME NEW t, NEW c, Program(t, c)
  PROVE  /\ \A n : Writes(Rest(c), n) => Writes(c, n)
         /\ Telling(c) => Telling(Rest(c))
<1>1. c \in Seq(Instructions) /\ Len(c) \in Nat BY DEF Program
<1>2. PICK n \in 0..Len(c) :
        /\ Len(Leaving(c)) = n /\ Len(Rest(c)) = Len(c) - n
        /\ \A k \in 1..n : Leaving(c)[k] = c[k] /\ c[k][1] \in Gives
        /\ \A k \in 1..(Len(c) - n) : Rest(c)[k] = c[k + n]
        /\ n < Len(c) => c[n + 1][1] \notin Gives
  BY RestIs
<1>3. ASSUME NEW m, Writes(Rest(c), m) PROVE Writes(c, m)
  <2>1. PICK k \in 1..Len(Rest(c)) : Rest(c)[k][1] = "write" /\ Rest(c)[k][3] = m BY <1>3 DEF Writes
  <2>2. k + n \in 1..Len(c) /\ Rest(c)[k] = c[k + n] BY <1>1, <1>2
  <2> QED BY <2>1, <2>2 DEF Writes
<1>4. ASSUME Telling(c) PROVE Telling(Rest(c))
  <2>1. PICK i, k \in 1..Len(c) : /\ i < k /\ k < Len(c) /\ c[i][1] \in InRebalance
                                /\ c[k][1] = "return" /\ Under(Loop, c[k + 1]) = "config"
    BY <1>4 DEF Telling
  <2>2. i \notin 1..n BY <1>2, <2>1 DEF InRebalance, Gives
  <2>3. n \in Nat /\ i \in Nat /\ k \in Nat /\ n < i /\ i < k /\ k < Len(c) BY <1>1, <2>1, <2>2
  <2>4. /\ i - n \in 1..(Len(c) - n) /\ k - n \in 1..(Len(c) - n) /\ (k - n) + 1 \in 1..(Len(c) - n)
        /\ (i - n) + n = i /\ (k - n) + n = k /\ ((k - n) + 1) + n = k + 1
        /\ i - n < k - n /\ k - n < Len(c) - n
    BY <1>1, <2>3
  <2>5. /\ Rest(c)[i - n] = c[i] /\ Rest(c)[k - n] = c[k] /\ Rest(c)[(k - n) + 1] = c[k + 1]
    BY <1>2, <2>4
  <2>6. /\ i - n \in 1..Len(Rest(c)) /\ k - n \in 1..Len(Rest(c)) /\ k - n < Len(Rest(c)) BY <1>2, <2>4
  <2>7. /\ Rest(c)[i - n][1] \in InRebalance /\ Rest(c)[k - n][1] = "return"
        /\ Under(Loop, Rest(c)[(k - n) + 1]) = "config"
    BY <2>1, <2>5
  <2> QED BY <2>4, <2>6, <2>7 DEF Telling
<1> QED BY <1>3, <1>4

\* Whoever is told, holds the configuration.
LEMMA TellingHolds ==
  ASSUME NEW s, Telling(s)
  PROVE  Outer(Loop, s, "config")
BY DEF Telling, Outer

LEMMA NoTelling ==
  ASSUME NEW q, Program(Loop, q), q # <<>>, ~Listening(q[1])
  PROVE  ~Telling(q)
<1>1. q \in Seq(Instructions) /\ 1 \in 1..Len(q) BY DEF Program
<1>2. SUFFICES ASSUME NEW i \in 1..Len(q), NEW k \in 1..Len(q), i < k, q[k][1] = "return" PROVE FALSE
  BY DEF Telling
<1>3. 1 < k BY <1>1, <1>2
<1> QED BY <1>1, <1>2, <1>3 DEF Program

\* The instruction at the front is executed and nothing is put in front.
LEMMA TailKeeps ==
  ASSUME NEW t, NEW q, Program(t, q), q # <<>>, q[1][1] # "return"
  PROVE  /\ \A n : Writes(Rest(Tail(q)), n) => Writes(q, n)
         /\ t = Loop /\ Telling(q) /\ q[1][1] \notin {"scores", "states", "internals"} => Telling(Rest(Tail(q)))
         /\ Rest(Tail(q)) # <<>> =>
              /\ Rest(Tail(q))[1][1] \notin {"sched", "internals"}
              /\ Rest(Tail(q))[1][1] = "failover" => q[1][1] = "sched"
              /\ Rest(Tail(q))[1][1] = "states" => q[1][1] = "failover"
         /\ q[1][1] \in Last => Rest(Tail(q)) = <<>>
<1> DEFINE c == Tail(q)
<1>1. /\ Program(t, c) /\ Len(c) = Len(q) - 1 /\ \A k \in 1..(Len(q) - 1) : c[k] = q[k + 1]
      /\ c # <<>> => c[1] = q[2] /\ Adjacent(t, q[1], q[2])
  BY TailProgram
<1>2. q \in Seq(Instructions) /\ Len(q) \in Nat BY DEF Program
<1> HIDE DEF c
<1>3. \A n : Writes(c, n) => Writes(q, n)
  <2>1. \A k \in 1..Len(c) : k + 1 \in 1..Len(q) /\ c[k] = q[k + 1] BY <1>1, <1>2
  <2> QED BY <2>1 DEF Writes
<1>4. ASSUME t = Loop, Telling(q), q[1][1] \notin {"scores", "states", "internals"} PROVE Telling(c)
  <2>1. PICK i, k \in 1..Len(q) : /\ i < k /\ k < Len(q) /\ q[i][1] \in InRebalance
                                /\ q[k][1] = "return" /\ Under(Loop, q[k + 1]) = "config"
    BY <1>4 DEF Telling
  <2>2. /\ k - 1 \in 1..Len(c) /\ k \in 1..(Len(q) - 1) /\ k - 1 \in 1..(Len(q) - 1)
        /\ (k - 1) + 1 = k /\ k - 1 < Len(c)
    BY <1>1, <1>2, <2>1
  <2>3. c[k - 1][1] = "return" /\ Under(Loop, c[(k - 1) + 1]) = "config" BY <1>1, <2>1, <2>2
  <2>4. CASE i > 1
    <3>1. i - 1 \in 1..Len(c) /\ i - 1 \in 1..(Len(q) - 1) /\ (i - 1) + 1 = i /\ i - 1 < k - 1
      BY <1>1, <1>2, <2>1, <2>4
    <3>2. c[i - 1][1] \in InRebalance BY <1>1, <2>1, <3>1
    <3> QED BY <2>2, <2>3, <3>1, <3>2 DEF Telling
  <2>5. CASE i = 1
    <3>1. q[1][1] \in {"sched", "failover"} BY <1>4, <2>1, <2>5 DEF InRebalance
    <3>2. 1 \in 1..Len(q) /\ 1 < Len(q) /\ 1 + 1 = 2 BY <2>1
    <3>3. Adjacent(t, q[1], q[2]) BY <3>2 DEF Program
    <3>4. q[2][1] \in {"failover", "states"} BY <3>1, <3>3 DEF Adjacent
    <3>5. k # 2 BY <2>1, <3>4
    <3>6. 1 \in 1..Len(c) /\ 1 \in 1..(Len(q) - 1) /\ 1 < k - 1 BY <1>1, <1>2, <2>1, <2>5, <3>5
    <3>7. c[1][1] \in InRebalance BY <1>1, <3>2, <3>4, <3>6 DEF InRebalance
    <3> QED BY <2>2, <2>3, <3>6, <3>7 DEF Telling
  <2> QED BY <2>1, <2>4, <2>5
<1>5. ASSUME Rest(c) # <<>>, Rest(c)[1][1] \in {"sched", "failover", "states", "internals"}
      PROVE  /\ Rest(c)[1][1] \notin {"sched", "internals"}
             /\ Rest(c)[1][1] = "failover" => q[1][1] = "sched"
             /\ Rest(c)[1][1] = "states" => q[1][1] = "failover"
  <2>1. Rest(c) = c BY <1>1, <1>5, RestHead
  <2>2. Rest(c)[1] = q[2] /\ Adjacent(t, q[1], q[2]) BY <1>1, <1>5, <2>1
  <2> QED BY <2>2 DEF Adjacent
<1>6. ASSUME q[1][1] \in Last PROVE Rest(c) = <<>>
  <2>1. c = <<>> BY <1>1, <1>6 DEF Adjacent
  <2>2. PICK n \in 0..Len(c) :
          /\ Len(Leaving(c)) = n /\ Len(Rest(c)) = Len(c) - n
          /\ \A k \in 1..n : Leaving(c)[k] = c[k] /\ c[k][1] \in Gives
          /\ \A k \in 1..(Len(c) - n) : Rest(c)[k] = c[k + n]
          /\ n < Len(c) => c[n + 1][1] \notin Gives
    BY <1>1, RestIs
  <2>3. Program(t, Rest(c)) BY <1>1, RestIs
  <2>4. Rest(c) \in Seq(Instructions) BY <2>3 DEF Program
  <2> QED BY <2>1, <2>2, <2>4
<1>7. /\ \A n : Writes(Rest(c), n) => Writes(c, n)
      /\ Telling(c) => Telling(Rest(c))
  BY <1>1, RestKeeps
<1> QED BY <1>3, <1>4, <1>5, <1>6, <1>7 DEF c

\* The instructions s are put in front, in place of the one that was there.
LEMMA PutKeeps ==
  ASSUME NEW t, NEW q, Program(t, q), q # <<>>, q[1][1] # "return",
         NEW s \in Seq(Instructions), s # <<>>, Program(t, s \o Tail(q))
  PROVE  LET r == Rest(s \o Tail(q))
         IN  /\ \A n : Writes(r, n) => Writes(s, n) \/ Writes(q, n)
             /\ r # <<>> /\ r[1][1] \in {"sched", "failover", "states", "internals"} => r[1] = s[1]
             /\ s = Decide /\ Telling(q) => Telling(r)
             /\ s = <<<<"internals">>>> /\ Telling(q) => Telling(r)
             /\ s = Notified(Rebalance) /\ t = Loop /\ q[1][1] = "set" => Telling(r)
<1> DEFINE d == Tail(q)
           c == s \o d
<1>1. /\ Program(t, d) /\ Len(d) = Len(q) - 1 /\ \A k \in 1..(Len(q) - 1) : d[k] = q[k + 1]
      /\ d # <<>> => d[1] = q[2] /\ Adjacent(t, q[1], q[2])
      /\ d = <<>> => After(t, q[1]) = "none"
  BY TailProgram
<1> HIDE DEF d
<1>2. q \in Seq(Instructions) /\ Len(q) \in Nat /\ d \in Seq(Instructions) /\ Len(d) \in Nat BY <1>1 DEF Program
<1>3. /\ Len(c) = Len(s) + Len(d) /\ Len(s) \in Nat /\ Len(s) > 0
      /\ \A k \in 1..(Len(s) + Len(d)) : c[k] = IF k <= Len(s) THEN s[k] ELSE d[k - Len(s)]
  BY <1>2, ConcatProperties
<1>4. \A k \in 1..Len(s) : c[k] = s[k] /\ k \in 1..Len(c) BY <1>2, <1>3
<1>5. ASSUME NEW k \in 1..Len(d) PROVE c[Len(s) + k] = q[k + 1] /\ k + 1 \in 1..Len(q)
  <2>1. Len(s) + k \in 1..(Len(s) + Len(d)) /\ ~(Len(s) + k <= Len(s)) /\ (Len(s) + k) - Len(s) = k
    BY <1>2, <1>3
  <2>2. k \in 1..(Len(q) - 1) /\ k + 1 \in 1..Len(q) BY <1>1, <1>2
  <2> QED BY <1>1, <1>3, <2>1, <2>2
<1>6. Program(t, c) BY DEF d
<1> HIDE DEF c
<1>7. \A n : Writes(c, n) => Writes(s, n) \/ Writes(q, n)
  <2>1. SUFFICES ASSUME NEW n, NEW k \in 1..Len(c), c[k][1] = "write" /\ c[k][3] = n
                 PROVE  Writes(s, n) \/ Writes(q, n)
    BY DEF Writes
  <2>2. CASE k <= Len(s)
    <3>1. k \in 1..Len(s) BY <2>2
    <3> QED BY <1>4, <2>1, <3>1 DEF Writes
  <2>3. CASE k > Len(s)
    <3>1. k - Len(s) \in 1..Len(d) /\ Len(s) + (k - Len(s)) = k BY <1>2, <1>3, <2>3
    <3>2. c[k] = q[(k - Len(s)) + 1] /\ (k - Len(s)) + 1 \in 1..Len(q) BY <1>5, <3>1
    <3> QED BY <2>1, <3>2 DEF Writes
  <2> QED BY <1>3, <2>2, <2>3
<1>8. ASSUME Rest(c) # <<>>, Rest(c)[1][1] \in {"sched", "failover", "states", "internals"} PROVE Rest(c)[1] = s[1]
  <2>1. Rest(c) = c /\ 1 \in 1..Len(s) BY <1>3, <1>6, <1>8, RestHead
  <2> QED BY <1>4, <2>1
<1>9. ASSUME s = Decide, Telling(q) PROVE Telling(c)
  <2>1. PICK i, k \in 1..Len(q) : /\ i < k /\ k < Len(q) /\ q[i][1] \in InRebalance
                                /\ q[k][1] = "return" /\ Under(Loop, q[k + 1]) = "config"
    BY <1>9 DEF Telling
  <2>2. Len(s) = 4 /\ s[1] = <<"sched">> BY <1>9 DEF Decide
  <2>3. /\ k - 1 \in 1..Len(d) /\ (k - 1) + 1 = k /\ k \in 1..Len(d)
        /\ Len(s) + (k - 1) = k + 3 /\ Len(s) + k = (k + 3) + 1
        /\ k + 3 \in 1..Len(c) /\ k + 3 < Len(c) /\ 1 < k + 3 /\ 1 \in 1..Len(c) /\ 1 \in 1..Len(s)
    BY <1>1, <1>2, <1>3, <2>1, <2>2
  <2>4. c[k + 3] = q[k] /\ c[(k + 3) + 1] = q[k + 1] BY <1>5, <2>3
  <2>5. c[1][1] \in InRebalance
    <3>1. c[1] = s[1] BY <1>4, <2>3
    <3> QED BY <2>2, <3>1 DEF InRebalance
  <2> QED BY <2>1, <2>3, <2>4, <2>5 DEF Telling
<1>10. ASSUME s = Notified(Rebalance), t = Loop, q[1][1] = "set" PROVE Telling(c)
  <2>1. s = <<<<"take", "balancer">>, <<"scores">>, <<"return">>>> BY <1>10, Notices
  <2>2. Len(s) = 3 /\ s[2] = <<"scores">> /\ s[3] = <<"return">> BY <2>1
  <2>3. Under(Loop, q[1]) = "config" /\ After(Loop, q[1]) = "config" BY <1>10 DEF Under, After
  <2>4. d # <<>> /\ Under(Loop, q[2]) = "config" BY <1>1, <1>10, <2>3 DEF Adjacent
  <2>5. 1 \in 1..Len(d) /\ Len(s) + 1 = 4 /\ 2 \in 1..Len(c) /\ 3 \in 1..Len(c) /\ 3 < Len(c)
        /\ 2 \in 1..Len(s) /\ 3 \in 1..Len(s)
    BY <1>2, <1>3, <2>2, <2>4
  <2>6. c[2][1] \in InRebalance /\ c[3][1] = "return" /\ c[3 + 1] = q[2]
    BY <1>4, <1>5, <2>2, <2>5 DEF InRebalance
  <2> QED BY <2>4, <2>5, <2>6 DEF Telling
<1>11. ASSUME s = <<<<"internals">>>>, Telling(q) PROVE Telling(c)
  <2>1. PICK i, k \in 1..Len(q) : /\ i < k /\ k < Len(q) /\ q[i][1] \in InRebalance
                                /\ q[k][1] = "return" /\ Under(Loop, q[k + 1]) = "config"
    BY <1>11 DEF Telling
  <2>2. Len(s) = 1 /\ s[1] = <<"internals">> BY <1>11
  <2>3. /\ k - 1 \in 1..Len(d) /\ (k - 1) + 1 = k /\ k \in 1..Len(d)
        /\ Len(s) + (k - 1) = k /\ Len(s) + k = k + 1
        /\ k \in 1..Len(c) /\ k < Len(c) /\ 1 < k /\ 1 \in 1..Len(c) /\ 1 \in 1..Len(s)
    BY <1>1, <1>2, <1>3, <2>1, <2>2
  <2>4. c[k] = q[k] /\ c[k + 1] = q[k + 1] BY <1>5, <2>3
  <2>5. c[1][1] \in InRebalance
    <3>1. c[1] = s[1] BY <1>4, <2>3
    <3> QED BY <2>2, <3>1 DEF InRebalance
  <2> QED BY <2>1, <2>3, <2>4, <2>5 DEF Telling
<1>12. /\ \A n : Writes(Rest(c), n) => Writes(c, n)
       /\ Telling(c) => Telling(Rest(c))
  BY <1>6, RestKeeps
<1> QED BY <1>7, <1>8, <1>9, <1>10, <1>11, <1>12 DEF c, d

-----------------------------------------------------------------------------
(* The steps of a thread, for what the data depends on. *)

LEMMA TheThreads == Loop \in Threads /\ Balancer \in Threads /\ Collector \in Threads /\ Paths \subseteq Threads
BY EngineAssumption DEF AllThreads

\* Thread t has executed the instruction at its front, and put nothing there.
Left(t) ==
  /\ \A u \in Threads : u # t => todo'[u] = todo[u]
  /\ \A n : Writes(todo'[Loop], n) => Writes(todo[Loop], n)
  /\ t = Loop /\ Telling(todo[Loop]) /\ todo[t][1][1] \notin {"scores", "states", "internals"} => Telling(todo'[Loop])
  /\ todo'[t] # <<>> =>
       /\ todo'[t][1][1] \notin {"sched", "internals"}
       /\ todo'[t][1][1] = "failover" => todo[t][1][1] = "sched"
       /\ todo'[t][1][1] = "states" => todo[t][1][1] = "failover"
  /\ todo[t][1][1] \in Last => todo'[t] = <<>>

\* It has put s there.
Put(t, s) ==
  /\ \A u \in Threads : u # t => todo'[u] = todo[u]
  /\ \A n : Writes(todo'[Loop], n) => Writes(s, n) \/ Writes(todo[Loop], n)
  /\ todo'[t] # <<>> /\ todo'[t][1][1] \in {"sched", "failover", "states", "internals"} => todo'[t][1] = s[1]
  /\ t = Loop /\ s \in {Decide, <<<<"internals">>>>} /\ Telling(todo[Loop]) => Telling(todo'[Loop])
  /\ t = Loop /\ s = Notified(Rebalance) /\ todo[t][1][1] = "set" => Telling(todo'[Loop])

LEMMA LeftIs ==
  ASSUME LockInv, NEW t \in Threads, todo[t] # <<>>, todo[t][1][1] # "return",
         todo' = [todo EXCEPT ![t] = Rest(Tail(todo[t]))]
  PROVE  Left(t)
<1> DEFINE q == todo[t]
           r == Rest(Tail(q))
<1>1. Program(t, q) /\ q # <<>> /\ q[1][1] # "return" BY DEF LockInv
<1>2. todo'[t] = r /\ \A u \in Threads : u # t => todo'[u] = todo[u] BY DEF LockInv
<1>3. /\ \A n : Writes(r, n) => Writes(q, n)
      /\ t = Loop /\ Telling(q) /\ q[1][1] \notin {"scores", "states", "internals"} => Telling(r)
      /\ r # <<>> => /\ r[1][1] \notin {"sched", "internals"}
                     /\ r[1][1] = "failover" => q[1][1] = "sched"
                     /\ r[1][1] = "states" => q[1][1] = "failover"
      /\ q[1][1] \in Last => r = <<>>
  <2> HIDE DEF q
  <2> QED BY <1>1, TailKeeps
<1> HIDE DEF r
<1>4. \A n : Writes(todo'[Loop], n) => Writes(todo[Loop], n)
  <2>1. CASE t = Loop BY <1>2, <1>3, <2>1
  <2>2. CASE t # Loop BY <1>2, <2>2, TheThreads
  <2> QED BY <2>1, <2>2
<1> QED BY <1>2, <1>3, <1>4 DEF Left

LEMMA PutIs ==
  ASSUME LockInv, NEW t \in Threads, todo[t] # <<>>, todo[t][1][1] # "return",
         NEW s \in Seq(Instructions), s # <<>>, Program(t, s \o Tail(todo[t])),
         todo' = [todo EXCEPT ![t] = Rest(s \o Tail(todo[t]))]
  PROVE  Put(t, s)
<1> DEFINE q == todo[t]
           r == Rest(s \o Tail(q))
<1>1. Program(t, q) /\ q # <<>> /\ q[1][1] # "return" /\ Program(t, s \o Tail(q)) BY DEF LockInv
<1>2. todo'[t] = r /\ \A u \in Threads : u # t => todo'[u] = todo[u] BY DEF LockInv
<1>3. /\ \A n : Writes(r, n) => Writes(s, n) \/ Writes(q, n)
      /\ r # <<>> /\ r[1][1] \in {"sched", "failover", "states", "internals"} => r[1] = s[1]
      /\ s = Decide /\ Telling(q) => Telling(r)
      /\ s = <<<<"internals">>>> /\ Telling(q) => Telling(r)
      /\ s = Notified(Rebalance) /\ t = Loop /\ q[1][1] = "set" => Telling(r)
  <2> HIDE DEF q
  <2> QED BY <1>1, PutKeeps
<1> HIDE DEF r
<1>4. \A n : Writes(todo'[Loop], n) => Writes(s, n) \/ Writes(todo[Loop], n)
  <2>1. CASE t = Loop BY <1>2, <1>3, <2>1
  <2>2. CASE t # Loop BY <1>2, <2>2, TheThreads
  <2> QED BY <2>1, <2>2
<1> QED BY <1>2, <1>3, <1>4 DEF Put

\* The instruction of t is op.
LEMMA Front1 ==
  ASSUME LockInv, NEW t \in Threads, NEW op, At(t, op)
  PROVE  /\ ~Idle(t) /\ todo[t] # <<>> /\ todo[t][1][1] = op /\ Head(todo[t]) = todo[t][1]
         /\ todo[t][1] \in Instructions /\ (op \in LoopOnly => t = Loop)
<1>1. ~Idle(t) BY DEF At
<1>2. /\ Program(t, todo[t]) /\ todo[t] # <<>> /\ Len(todo[t]) \in Nat /\ Len(todo[t]) > 0
      /\ Head(todo[t]) = todo[t][1] /\ todo[t][1] \in Instructions
  BY <1>1, AtIs
<1>3. todo[t][1][1] = op BY <1>2 DEF At
<1>4. 1 \in 1..Len(todo[t]) BY <1>2
<1> QED BY <1>1, <1>2, <1>3, <1>4 DEF Program

LEMMA PlainMove ==
  ASSUME LockInv, NEW t \in Threads, ~Idle(t), todo[t][1][1] \notin {"take", "drop", "return", "scores"},
         Continue(t, <<>>)
  PROVE  LockInv' /\ Left(t)
<1>1. LockInv' /\ todo' = [todo EXCEPT ![t] = Rest(Tail(todo[t]))] BY PlainStep
<1>2. todo[t] # <<>> BY DEF Idle
<1> QED BY <1>1, <1>2, LeftIs

LEMMA TakeMove ==
  ASSUME LockInv, NEW t \in Threads, Take(t)
  PROVE  LockInv' /\ Left(t) /\ todo[t] # <<>> /\ todo[t][1][1] = "take"
<1>1. LockInv' /\ todo' = [todo EXCEPT ![t] = Rest(Tail(todo[t]))] /\ todo[t][1][1] = "take" /\ ~Idle(t)
  BY TakeStep
<1>2. todo[t] # <<>> BY <1>1 DEF Idle
<1> QED BY <1>1, <1>2, LeftIs

LEMMA FrontMove ==
  ASSUME LockInv, NEW t \in Threads, ~Idle(t), todo[t][1][1] = "scores",
         NEW s, Front(t, s), Continue(t, s)
  PROVE  LockInv' /\ Put(t, s)
<1>1. /\ Program(t, s) /\ s # <<>> /\ Under(t, s[1]) = "balancer" /\ \A l : ~Outer(t, s, l) BY DEF Front
<1>2. After(t, todo[t][1]) = "none" /\ Under(t, todo[t][1]) = "balancer" BY DEF After, Under
<1>3. \A k \in 1..Len(s) : Listening(s[k]) /\ s[k][1] \notin Last BY DEF Front, Listening, Last
<1>4. todo[t][1][1] # "return" OBVIOUS
<1>5. /\ LockInv' /\ Program(t, s \o Tail(todo[t])) /\ todo' = [todo EXCEPT ![t] = Rest(s \o Tail(todo[t]))]
  BY <1>1, <1>2, <1>3, <1>4, PutStep
<1>6. todo[t] # <<>> /\ s \in Seq(Instructions) BY <1>1 DEF Idle, Program
<1> QED BY <1>1, <1>4, <1>5, <1>6, PutIs

LEMMA NoticeMove ==
  ASSUME LockInv, NEW t \in Threads, ~Idle(t), todo[t][1][1] \in {"probe", "set"},
         NEW s, \/ s = Notified(Rebalance)
                \/ s = Notified(<<<<"touch", "health">>>>) /\ t = Loop,
         Continue(t, s)
  PROVE  LockInv' /\ Put(t, s) /\ s[1][1] \in {"take", "touch"} /\ \A n : ~Writes(s, n)
<1>1. /\ Piece(t, s) /\ Under(t, s[1]) = "none" /\ (\A l : ~Outer(t, s, l)) BY Notices
<1>2. /\ s[Len(s)] = <<"return">> /\ s[1][1] \in {"take", "touch"} /\ \A n : ~Writes(s, n)
  <2>1. CASE s = Notified(Rebalance)
    <3>1. s = <<<<"take", "balancer">>, <<"scores">>, <<"return">>>> BY <2>1, Notices
    <3>2. Len(s) = 3 /\ s[1] = <<"take", "balancer">> /\ s[2] = <<"scores">> /\ s[3] = <<"return">> BY <3>1
    <3>3. \A k \in 1..Len(s) : k = 1 \/ k = 2 \/ k = 3 BY <3>2
    <3> QED BY <3>2, <3>3 DEF Writes
  <2>2. CASE s = Notified(<<<<"touch", "health">>>>) /\ t = Loop
    <3>1. s = <<<<"touch", "health">>, <<"return">>>> BY <2>2, Notices
    <3>2. Len(s) = 2 /\ s[1] = <<"touch", "health">> /\ s[2] = <<"return">> BY <3>1
    <3>3. \A k \in 1..Len(s) : k = 1 \/ k = 2 BY <3>2
    <3> QED BY <3>2, <3>3 DEF Writes
  <2> QED BY <2>1, <2>2
<1>3. /\ LockInv' /\ Program(t, s \o Tail(todo[t])) /\ todo' = [todo EXCEPT ![t] = Rest(s \o Tail(todo[t]))]
  BY <1>1, <1>2, NoticeStep
<1>4. todo[t] # <<>> /\ s \in Seq(Instructions) /\ s # <<>> /\ todo[t][1][1] # "return" BY <1>1 DEF Idle, Piece
<1>5. Put(t, s) BY <1>3, <1>4, PutIs
<1> QED BY <1>2, <1>3, <1>5

\* The front is replaced.
LEMMA SwapMove ==
  ASSUME LockInv, NEW t \in Threads, ~Idle(t),
         NEW s, \/ s = <<<<"internals">>>> /\ todo[t][1][1] = "states"
                \/ (\E p \in Paths : s = Instead(p)) /\ todo[t][1][1] = "probe",
         Continue(t, s)
  PROVE  LockInv' /\ Put(t, s) /\ s[1][1] \in {"internals", "drop"} /\ \A n : ~Writes(s, n)
<1> DEFINE Swapped ==
             /\ Piece(t, s) /\ (\A l : ~Outer(t, s, l)) /\ s[1][1] \in {"internals", "drop"}
             /\ s[Len(s)][1] \notin {"return", "sched", "failover"} \cup Last
             /\ Under(t, s[1]) = Under(t, todo[t][1]) /\ After(t, s[Len(s)]) = After(t, todo[t][1])
             /\ ~Listening(todo[t][1]) \/ \A k \in 1..Len(s) : Listening(s[k])
             /\ \A n : ~Writes(s, n)
<1>1. Swapped
  <2>1. CASE s = <<<<"internals">>>> /\ todo[t][1][1] = "states"
    <3>1. /\ Piece(t, s) /\ Len(s) = 1 /\ s[1] = <<"internals">> /\ \A l : ~Outer(t, s, l) BY <2>1, Swaps
    <3>2. \A k \in 1..Len(s) : k = 1 BY <3>1
    <3> QED BY <2>1, <3>1, <3>2 DEF Last, Under, After, Listening, Writes
  <2>2. ASSUME NEW p \in Paths, s = Instead(p), todo[t][1][1] = "probe" PROVE Swapped
    <3>1. /\ Piece(t, s) /\ Len(s) = 3
          /\ s[1] = <<"drop", "health">> /\ s[2] = <<"take", "health">> /\ s[3] = <<"probe", p, FALSE>>
          /\ \A l : ~Outer(t, s, l)
      BY <2>2, Swaps
    <3>2. \A k \in 1..Len(s) : k = 1 \/ k = 2 \/ k = 3 BY <3>1
    <3> QED BY <2>2, <3>1, <3>2 DEF Last, Under, After, Listening, Writes
  <2> QED BY <2>1, <2>2
<1>2. todo[t][1][1] \notin {"return", "sched", "failover"} OBVIOUS
<1>3. /\ LockInv' /\ Program(t, s \o Tail(todo[t])) /\ todo' = [todo EXCEPT ![t] = Rest(s \o Tail(todo[t]))]
  BY <1>1, <1>2, SwapStep
<1>4. todo[t] # <<>> /\ s \in Seq(Instructions) /\ s # <<>> BY <1>1 DEF Idle, Piece
<1>5. Put(t, s) BY <1>2, <1>3, <1>4, PutIs
<1> QED BY <1>1, <1>3, <1>5

\* What raises goes on with what the listener returns to.
LEMMA RaiseMove ==
  ASSUME LockInv, NEW t \in Threads, ~Idle(t), NEW b, Raises(t, b), Raise(t, b)
  PROVE  /\ LockInv'
         /\ \A u \in Threads : u # t => todo'[u] = todo[u]
         /\ \A n : Writes(todo'[Loop], n) => Writes(todo[Loop], n)
         /\ todo'[t] # <<>> => todo'[t][1][1] \notin {"sched", "failover", "states", "internals"}
<1>1. PICK c : Returns(t, todo[t], c) /\ todo' = [todo EXCEPT ![t] = Rest(c)] BY RaiseStep
<1>2. /\ Program(t, c)
      /\ \A k \in 1..Len(c) : \E j \in 1..Len(todo[t]) : c[k] = todo[t][j]
      /\ c # <<>> => c[1][1] = "return"
  BY <1>1 DEF Returns
<1>3. todo'[t] = Rest(c) /\ \A u \in Threads : u # t => todo'[u] = todo[u] BY <1>1 DEF LockInv
<1>4. \A n : Writes(Rest(c), n) => Writes(todo[t], n)
  <2>1. \A n : Writes(Rest(c), n) => Writes(c, n) BY <1>2, RestKeeps
  <2>2. \A n : Writes(c, n) => Writes(todo[t], n) BY <1>2 DEF Writes
  <2> QED BY <2>1, <2>2
<1>5. \A n : Writes(todo'[Loop], n) => Writes(todo[Loop], n)
  <2>1. CASE t = Loop BY <1>3, <1>4, <2>1
  <2>2. CASE t # Loop BY <1>3, <2>2, TheThreads
  <2> QED BY <2>1, <2>2
<1>6. ASSUME Rest(c) # <<>>, Rest(c)[1][1] \in {"sched", "failover", "states", "internals"} PROVE FALSE
  <2>1. Rest(c) = c BY <1>2, <1>6, RestHead
  <2> QED BY <1>2, <1>6, <2>1
<1>7. LockInv' BY RaiseStep
<1> QED BY <1>3, <1>5, <1>6, <1>7

-----------------------------------------------------------------------------
(* What the engine has read, and what it has decided. *)

ConfigRecords == [mode : Modes \cup {Defaults.mode}, trigger : Triggers \cup {Defaults.trigger},
                  weights : Weights \cup {Defaults.weights}]

ViewRecord(v) == v = [scores |-> v.scores, mode |-> v.mode, trigger |-> v.trigger, weights |-> v.weights]

Shared ==
  /\ config \in ConfigRecords
  /\ health \in [Paths -> Health] /\ active \subseteq Paths /\ running \subseteq Threads
  /\ ViewRecord(view)
  /\ DOMAIN view.scores \subseteq Paths
  /\ basis.mode \in SchedulerModes

\* The instruction of t is op.
Ready(t, op) == todo[t] # <<>> /\ todo[t][1][1] = op

Scheduled == view.mode = config.mode /\ view.weights = config.weights
Matched   == Scheduled /\ view.trigger = config.trigger

\* The directives are those of the configuration, or the loop, which has set it,
\* is on its way to compute them.
Followed == ~unannounced /\ Schedulable(config) => basis = config \/ Telling(todo[Loop])

\* And so is what the rebalance under way has read.
Fresh ==
  \A t \in Threads :
    /\ Ready(t, "failover") => \/ unannounced \/ Scheduled
                               \/ t # Loop /\ Telling(todo[Loop])
    /\ Ready(t, "states") \/ Ready(t, "internals") =>
         /\ view.mode \in SchedulerModes
         /\ \/ unannounced \/ Matched
            \/ t # Loop /\ Telling(todo[Loop])

\* A path is never forgotten.
KnownKept ==
  /\ ~unannounced => Known # {}
  /\ \A t \in Threads, op \in {"sched", "failover", "states", "internals"} : Ready(t, op) => Known # {}

Rebalanced == Followed /\ Fresh /\ KnownKept

\* One thread at most is in a rebalance.
LEMMA OneRebalances ==
  ASSUME LockInv, NEW t \in Threads, NEW u \in Threads,
         todo[t] # <<>>, todo[t][1][1] \in InRebalance, todo[u] # <<>>, todo[u][1][1] \in InRebalance
  PROVE  t = u
<1>1. Under(t, todo[t][1]) = "balancer" /\ Under(u, todo[u][1]) = "balancer" BY DEF Under, InRebalance
<1>2. "balancer" \in Locks BY DEF Locks
<1> QED BY <1>1, <1>2 DEF LockInv, Holds

LEMMA NotTold ==
  ASSUME LockInv, todo[Loop] = <<>> \/ ~Listening(todo[Loop][1])
  PROVE  ~Telling(todo[Loop])
<1>1. CASE todo[Loop] = <<>> BY <1>1 DEF Telling
<1>2. CASE todo[Loop] # <<>> /\ ~Listening(todo[Loop][1]) BY <1>2, NoTelling, TheThreads DEF LockInv
<1> QED BY <1>1, <1>2

\* A step of t that has to do with neither the configuration nor a rebalance.
LEMMA QuietStep ==
  ASSUME Rebalanced, NEW t \in Threads,
         \A u \in Threads : u # t => todo'[u] = todo[u],
         todo'[t] # <<>> => todo'[t][1][1] \notin {"sched", "failover", "states", "internals"},
         t = Loop /\ Telling(todo[Loop]) => Telling(todo'[Loop]),
         UNCHANGED <<config, view, basis, unannounced>>, Known \subseteq Known'
  PROVE  Rebalanced'
<1>1. Telling(todo[Loop]) => Telling(todo'[Loop])
  <2>1. CASE t = Loop BY <2>1
  <2>2. CASE t # Loop BY <2>2, TheThreads
  <2> QED BY <2>1, <2>2
<1>2. Followed' BY <1>1 DEF Rebalanced, Followed
<1>3. ASSUME NEW u \in Threads, NEW op \in {"sched", "failover", "states", "internals"}, Ready(u, op)' PROVE Ready(u, op)
  <2>1. todo'[u] # <<>> /\ todo'[u][1][1] = op BY <1>3 DEF Ready
  <2>2. u # t BY <2>1
  <2> QED BY <2>1, <2>2 DEF Ready
<1>4. Fresh' BY <1>1, <1>3 DEF Rebalanced, Fresh, Matched, Scheduled
<1>5. KnownKept' BY <1>3 DEF Rebalanced, KnownKept
<1> QED BY <1>2, <1>4, <1>5 DEF Rebalanced

-----------------------------------------------------------------------------
(* The steps of the engine's threads. *)

EngineInv == LockInv /\ Shared /\ Rebalanced

FewerWrites == \A n : Writes(todo'[Loop], n) => Writes(todo[Loop], n)

LEMMA MeasuredIs ==
  ASSUME NEW r \in Health, NEW ok, NEW m \in Measured(r, ok)
  PROVE  m \in Health /\ m.state = r.state
<1>1. Count(r.fails, ok) \in 0..(DeadFailures + 1)
  <2>1. r.fails \in 0..(DeadFailures + 1) /\ DeadFailures \in Nat BY BalancerAssumption DEF Health
  <2> QED BY <2>1 DEF Count
<1>2. \A s \in Scores \cup {r.score} : s \in 0..10 BY BalancerAssumption DEF Health
<1>3. PICK s \in Scores \cup {r.score} : m = [r EXCEPT !.score = s, !.fails = Count(r.fails, ok)] BY DEF Measured
<1> QED BY <1>1, <1>2, <1>3 DEF Health

LEMMA NewStatesIs ==
  ASSUME NEW m \in Health, NEW g, NEW s \in NewStates(m, g)
  PROVE  [m EXCEPT !.state = s] \in Health /\ s # "unknown"
<1>1. s \in PathStates BY DEF NewStates, PathStates
<1>2. s # "unknown" BY <1>1 DEF PathStates
<1> QED BY <1>1, <1>2 DEF Health

LEMMA TakeKeeps ==
  ASSUME EngineInv, NEW t \in Threads, Take(t) \/ Touch(t), UNCHANGED engineVars
  PROVE  EngineInv' /\ FewerWrites
<1>1. LockInv' /\ Left(t) /\ todo[t] # <<>> /\ todo[t][1][1] \in {"take", "touch"}
  <2>1. CASE Take(t) BY <2>1, TakeMove DEF EngineInv
  <2>2. CASE Touch(t)
    <3>1. todo[t][1][1] = "touch" /\ ~Idle(t) /\ todo[t] # <<>> BY <2>2, Front1 DEF EngineInv, Touch
    <3> QED BY <2>2, <3>1, PlainMove DEF EngineInv, Touch
  <2> QED BY <2>1, <2>2
<1>2. Shared' BY DEF EngineInv, Shared, engineVars, storeVars
<1>3. Rebalanced'
  <2>1. UNCHANGED <<config, view, basis, unannounced>> /\ Known \subseteq Known' BY DEF engineVars, storeVars, Known
  <2>2. Rebalanced BY DEF EngineInv
  <2> QED BY <1>1, <2>1, <2>2, QuietStep DEF Left
<1> QED BY <1>1, <1>2, <1>3 DEF EngineInv, Left, FewerWrites

LEMMA ProbeKeeps ==
  ASSUME EngineInv, NEW t \in Threads, Probe(t)
  PROVE  EngineInv' /\ FewerWrites
<1> DEFINE p == todo[t][1][2]
           ok == todo[t][1][3]
<1>1. /\ ~Idle(t) /\ todo[t] # <<>> /\ todo[t][1][1] = "probe" /\ Head(todo[t]) = todo[t][1]
      /\ todo[t][1] \in Instructions
  BY Front1 DEF EngineInv, Probe
<1>2. p \in Paths BY <1>1, Kinds DEF Plain
<1>3. UNCHANGED <<config, active, view, basis, unannounced>> BY DEF Probe
<1>4. \/ Continue(t, <<>>) /\ UNCHANGED <<health, running>>
      \/ /\ p \in Known
         /\ \E m \in Measured(health[p], ok) :
              \/ /\ \E s \in NewStates(m, config.trigger) : health' = [health EXCEPT ![p] = [m EXCEPT !.state = s]]
                 /\ Continue(t, <<>>) \/ Continue(t, Notified(Rebalance))
                 /\ UNCHANGED running
              \/ /\ health' = [health EXCEPT ![p] = m]
                 /\ \/ Continue(t, Instead(p)) /\ UNCHANGED running
                    \/ Raise(t, "health")
  BY <1>1 DEF Probe
<1> HIDE DEF p, ok
<1>5. /\ health' \in [Paths -> Health] /\ Known \subseteq Known' /\ running' \subseteq running
      /\ \/ Continue(t, <<>>) \/ Continue(t, Notified(Rebalance)) \/ Continue(t, Instead(p))
         \/ Raise(t, "health")
  <2>1. health \in [Paths -> Health] BY DEF EngineInv, Shared
  <2>2. CASE Continue(t, <<>>) /\ UNCHANGED <<health, running>> BY <2>1, <2>2 DEF Known
  <2>3. ASSUME p \in Known, NEW m \in Measured(health[p], ok), NEW s \in NewStates(m, config.trigger),
               health' = [health EXCEPT ![p] = [m EXCEPT !.state = s]]
        PROVE  health' \in [Paths -> Health] /\ Known \subseteq Known'
    <3>1. m \in Health BY <1>2, <2>1, <2>3, MeasuredIs
    <3> DEFINE h == [m EXCEPT !.state = s]
    <3>2. h \in Health /\ h.state = s /\ s # "unknown" BY <2>3, <3>1, NewStatesIs DEF Health
    <3>3. health' = [health EXCEPT ![p] = h] BY <2>3
    <3> HIDE DEF h
    <3> QED BY <2>1, <3>2, <3>3 DEF Known
  <2>4. ASSUME p \in Known, NEW m \in Measured(health[p], ok), health' = [health EXCEPT ![p] = m]
        PROVE  health' \in [Paths -> Health] /\ Known \subseteq Known'
    <3>1. m \in Health /\ m.state = health[p].state BY <1>2, <2>1, <2>4, MeasuredIs
    <3> QED BY <2>1, <2>4, <3>1 DEF Known
  <2>5. Raise(t, "health") => running' \subseteq running BY DEF Raise
  <2> QED BY <1>4, <2>2, <2>3, <2>4, <2>5
<1>6. /\ LockInv' /\ FewerWrites /\ \A u \in Threads : u # t => todo'[u] = todo[u]
      /\ todo'[t] # <<>> => todo'[t][1][1] \notin {"sched", "failover", "states", "internals"}
  <2>1. CASE Continue(t, <<>>)
    <3>1. LockInv' /\ Left(t) BY <1>1, <2>1, PlainMove DEF EngineInv
    <3> QED BY <1>1, <3>1 DEF Left, FewerWrites
  <2>2. CASE Continue(t, Notified(Rebalance))
    <3> DEFINE s == Notified(Rebalance)
    <3>1. /\ LockInv' /\ Put(t, s) /\ s[1][1] \in {"take", "touch"} /\ \A n : ~Writes(s, n)
      BY <1>1, <2>2, NoticeMove DEF EngineInv
    <3> HIDE DEF s
    <3> QED BY <3>1 DEF Put, FewerWrites
  <2>3. CASE Continue(t, Instead(p))
    <3> DEFINE s == Instead(p)
    <3>1. /\ LockInv' /\ Put(t, s) /\ s[1][1] \in {"internals", "drop"} /\ \A n : ~Writes(s, n)
      BY <1>1, <1>2, <2>3, SwapMove DEF EngineInv
    <3>2. s[1][1] = "drop" BY DEF Instead
    <3> HIDE DEF s
    <3> QED BY <3>1, <3>2 DEF Put, FewerWrites
  <2>4. CASE Raise(t, "health")
    <3>1. Raises(t, "health") BY <1>1 DEF Raises
    <3> QED BY <1>1, <2>4, <3>1, RaiseMove DEF EngineInv, FewerWrites
  <2> QED BY <1>5, <2>1, <2>2, <2>3, <2>4
<1>7. t = Loop => ~Telling(todo[Loop])
  <2>1. ~Listening(todo[t][1]) BY <1>1 DEF Listening
  <2> QED BY <2>1, NotTold DEF EngineInv
<1>8. Shared' BY <1>3, <1>5 DEF EngineInv, Shared
<1>9. Rebalanced'
  <2>1. Rebalanced BY DEF EngineInv
  <2> QED BY <1>3, <1>5, <1>6, <1>7, <2>1, QuietStep
<1> QED BY <1>6, <1>8, <1>9 DEF EngineInv

LEMMA RegisterKeeps ==
  ASSUME EngineInv, NEW t \in Threads, Register(t)
  PROVE  EngineInv' /\ FewerWrites
<1> DEFINE p == todo[t][1][2]
<1>1. /\ ~Idle(t) /\ todo[t] # <<>> /\ todo[t][1][1] = "register" /\ Head(todo[t]) = todo[t][1]
      /\ todo[t][1] \in Instructions
  BY Front1 DEF EngineInv, Register
<1>2. p \in Paths BY <1>1, Kinds DEF Plain
<1>3. /\ UNCHANGED <<config, active, view, basis, unannounced>> /\ Continue(t, <<>>)
      /\ health' = [health EXCEPT ![p] = Registered] /\ running' = running \cup {p}
  BY <1>1 DEF Register
<1> HIDE DEF p
<1>4. health' \in [Paths -> Health] /\ Known \subseteq Known'
  <2>1. Registered \in Health /\ Registered.state # "unknown"
    BY BalancerAssumption DEF Registered, Unknown, Health, PathStates
  <2>2. health \in [Paths -> Health] BY DEF EngineInv, Shared
  <2> QED BY <1>2, <1>3, <2>1, <2>2 DEF Known
<1>5. LockInv' /\ Left(t) BY <1>1, <1>3, PlainMove DEF EngineInv
<1>6. t = Loop => ~Telling(todo[Loop])
  <2>1. ~Listening(todo[t][1]) BY <1>1 DEF Listening
  <2> QED BY <2>1, NotTold DEF EngineInv
<1>7. Shared' BY <1>2, <1>3, <1>4, TheThreads DEF EngineInv, Shared
<1>8. Rebalanced'
  <2>1. Rebalanced BY DEF EngineInv
  <2> QED BY <1>1, <1>3, <1>4, <1>5, <1>6, <2>1, QuietStep DEF Left
<1> QED BY <1>5, <1>7, <1>8 DEF EngineInv, Left, FewerWrites

\* While t is in a rebalance, nobody else is.
LEMMA OthersCalm ==
  ASSUME LockInv, NEW t \in Threads, todo[t] # <<>>, todo[t][1][1] \in InRebalance,
         \A u \in Threads : u # t => todo'[u] = todo[u]
  PROVE  \A u \in Threads, op \in InRebalance : u # t => ~Ready(u, op)'
<1> SUFFICES ASSUME NEW u \in Threads, NEW op \in InRebalance, u # t, Ready(u, op)' PROVE FALSE
  OBVIOUS
<1>1. todo'[u] # <<>> /\ todo'[u][1][1] = op BY DEF Ready
<1> QED BY <1>1, OneRebalances

LEMMA ScoresKeeps ==
  ASSUME EngineInv, NEW t \in Threads, ReadScores(t)
  PROVE  EngineInv' /\ FewerWrites
<1> DEFINE s == IF Known = {} THEN <<<<"drop", "balancer">>>> ELSE Decide
<1>1. ~Idle(t) /\ todo[t] # <<>> /\ todo[t][1][1] = "scores" BY Front1 DEF EngineInv, ReadScores
<1>2. /\ UNCHANGED <<config, health, active, basis, running, unannounced>> /\ Continue(t, s)
      /\ view' = [NoView EXCEPT !.scores = [p \in Known |-> health[p].score]]
  BY DEF ReadScores
<1>3. /\ s = <<<<"drop", "balancer">>>> \/ (s = Decide /\ Known # {})
      /\ Known = {} => s = <<<<"drop", "balancer">>>>
  OBVIOUS
<1> HIDE DEF s
<1>4. Front(t, s) BY <1>3, Fronts
<1>5. LockInv' /\ Put(t, s) BY <1>1, <1>2, <1>4, FrontMove DEF EngineInv
<1>6. FewerWrites BY <1>4, <1>5 DEF Put, Front, FewerWrites
<1>7. Shared'
  <2>1. ViewRecord(view') /\ DOMAIN view'.scores = Known BY <1>2 DEF NoView, ViewRecord
  <2>2. Known \subseteq Paths BY DEF Known
  <2> QED BY <1>2, <2>1, <2>2 DEF EngineInv, Shared
<1>8. Known' = Known BY <1>2 DEF Known
<1>9. ASSUME NEW u \in Threads PROVE ~Ready(u, "failover")' /\ ~Ready(u, "states")' /\ ~Ready(u, "internals")'
  <2>1. CASE u = t
    <3>1. s[1] \in {<<"sched">>, <<"drop", "balancer">>} BY <1>3 DEF Decide
    <3>2. s[1][1] \in {"sched", "drop"} BY <3>1
    <3> QED BY <1>5, <2>1, <3>2 DEF Put, Ready
  <2>2. CASE u # t BY <1>1, <1>5, <2>2, OthersCalm DEF EngineInv, Put, InRebalance
  <2> QED BY <2>1, <2>2
<1>10. ASSUME NEW u \in Threads, Ready(u, "sched")' PROVE Known # {}
  <2>1. CASE u = t
    <3>1. todo'[t] # <<>> /\ todo'[t][1][1] = "sched" BY <1>10, <2>1 DEF Ready
    <3>2. s[1][1] = "sched" BY <1>5, <3>1 DEF Put
    <3> QED BY <1>3, <3>2
  <2>2. CASE u # t BY <1>1, <1>5, <1>10, <2>2, OthersCalm DEF EngineInv, Put, InRebalance
  <2> QED BY <2>1, <2>2
<1>11. Followed'
  <2>1. CASE Known = {} BY <1>2, <2>1 DEF EngineInv, Rebalanced, KnownKept, Followed
  <2>2. CASE Known # {}
    <3>1. s = Decide BY <2>2 DEF s
    <3>2. Telling(todo[Loop]) => Telling(todo'[Loop])
      <4>1. CASE t = Loop BY <1>5, <3>1, <4>1 DEF Put
      <4>2. CASE t # Loop BY <1>5, <4>2, TheThreads DEF Put
      <4> QED BY <4>1, <4>2
    <3> QED BY <1>2, <3>2 DEF EngineInv, Rebalanced, Followed
  <2> QED BY <2>1, <2>2
<1>12. Fresh' BY <1>9 DEF Fresh
<1>13. KnownKept' BY <1>2, <1>8, <1>9, <1>10 DEF EngineInv, Rebalanced, KnownKept
<1> QED BY <1>5, <1>6, <1>7, <1>11, <1>12, <1>13 DEF EngineInv, Rebalanced

LEMMA SchedulingKeeps ==
  ASSUME EngineInv, NEW t \in Threads, ReadScheduling(t)
  PROVE  EngineInv' /\ FewerWrites
<1>1. ~Idle(t) /\ todo[t] # <<>> /\ todo[t][1][1] = "sched" BY Front1 DEF EngineInv, ReadScheduling
<1>2. /\ UNCHANGED <<config, health, active, basis, running, unannounced>> /\ Continue(t, <<>>)
      /\ view' = [view EXCEPT !.mode = config.mode, !.weights = config.weights]
  BY DEF ReadScheduling
<1>3. LockInv' /\ Left(t) BY <1>1, <1>2, PlainMove DEF EngineInv
<1>4. /\ view' = [scores |-> view.scores, mode |-> config.mode, trigger |-> view.trigger, weights |-> config.weights]
      /\ DOMAIN view.scores \subseteq Paths
  BY <1>2 DEF EngineInv, Shared, ViewRecord
<1>5. Shared' BY <1>2, <1>4 DEF EngineInv, Shared, ViewRecord
<1>6. Telling(todo[Loop]) => Telling(todo'[Loop])
  <2>1. CASE t = Loop BY <1>1, <1>3, <2>1 DEF Left
  <2>2. CASE t # Loop BY <1>3, <2>2, TheThreads DEF Left
  <2> QED BY <2>1, <2>2
<1>7. Followed' BY <1>2, <1>6 DEF EngineInv, Rebalanced, Followed
<1>8. ASSUME NEW u \in Threads PROVE ~Ready(u, "states")' /\ ~Ready(u, "internals")' /\ ~Ready(u, "sched")'
  <2>1. CASE u = t BY <1>1, <1>3, <2>1 DEF Left, Ready
  <2>2. CASE u # t BY <1>1, <1>3, <2>2, OthersCalm DEF EngineInv, Left, InRebalance
  <2> QED BY <2>1, <2>2
<1>9. Scheduled' BY <1>2, <1>4 DEF Scheduled
<1>10. Fresh' BY <1>8, <1>9 DEF Fresh
<1>11. Known' = Known /\ Known # {} BY <1>1, <1>2 DEF Known, EngineInv, Rebalanced, KnownKept, Ready
<1>12. KnownKept' BY <1>11 DEF KnownKept
<1> QED BY <1>3, <1>5, <1>7, <1>10, <1>12 DEF EngineInv, Rebalanced, Left, FewerWrites

LEMMA FailoverKeeps ==
  ASSUME EngineInv, NEW t \in Threads, ReadFailover(t)
  PROVE  EngineInv' /\ FewerWrites
<1>1. ~Idle(t) /\ todo[t] # <<>> /\ todo[t][1][1] = "failover" BY Front1 DEF EngineInv, ReadFailover
<1>2. UNCHANGED <<config, health, active, basis, unannounced>> BY DEF ReadFailover
<1>3. \/ unannounced \/ Scheduled
      \/ t # Loop /\ Telling(todo[Loop])
  BY <1>1 DEF EngineInv, Rebalanced, Fresh, Ready
<1>4. Known' = Known /\ Known # {} BY <1>1, <1>2 DEF Known, EngineInv, Rebalanced, KnownKept, Ready
<1>5. KnownKept' BY <1>4 DEF KnownKept
<1>6. CASE view.mode \in SchedulerModes
  <2>1. view' = [view EXCEPT !.trigger = config.trigger] /\ Continue(t, <<>>) /\ UNCHANGED running
    BY <1>6 DEF ReadFailover
  <2>2. LockInv' /\ Left(t) BY <1>1, <2>1, PlainMove DEF EngineInv
  <2>3. /\ view' = [scores |-> view.scores, mode |-> view.mode, trigger |-> config.trigger, weights |-> view.weights]
        /\ DOMAIN view.scores \subseteq Paths
    BY <2>1 DEF EngineInv, Shared, ViewRecord
  <2>4. Shared' BY <1>2, <2>1, <2>3 DEF EngineInv, Shared, ViewRecord
  <2>5. Telling(todo[Loop]) => Telling(todo'[Loop])
    <3>1. CASE t = Loop BY <1>1, <2>2, <3>1 DEF Left
    <3>2. CASE t # Loop BY <2>2, <3>2, TheThreads DEF Left
    <3> QED BY <3>1, <3>2
  <2>6. Followed' BY <1>2, <2>5 DEF EngineInv, Rebalanced, Followed
  <2>7. ASSUME NEW u \in Threads PROVE ~Ready(u, "failover")' /\ ~Ready(u, "internals")' /\ (Ready(u, "states")' => u = t)
    <3>1. CASE u = t BY <1>1, <2>2, <3>1 DEF Left, Ready
    <3>2. CASE u # t BY <1>1, <2>2, <3>2, OthersCalm DEF EngineInv, Left, InRebalance
    <3> QED BY <3>1, <3>2
  <2>8. view'.mode \in SchedulerModes /\ (Scheduled => Matched') BY <1>2, <1>6, <2>3 DEF Scheduled, Matched
  <2>9. Fresh' BY <1>2, <1>3, <2>5, <2>7, <2>8 DEF Fresh
  <2> QED BY <1>5, <2>2, <2>4, <2>6, <2>9 DEF EngineInv, Rebalanced, Left, FewerWrites
<1>7. CASE view.mode \notin SchedulerModes
  <2>1. Raise(t, "balancer") /\ view' = NoView BY <1>7 DEF ReadFailover
  <2>2. /\ LockInv'
        /\ \A u \in Threads : u # t => todo'[u] = todo[u]
        /\ FewerWrites
        /\ todo'[t] # <<>> => todo'[t][1][1] \notin {"sched", "failover", "states", "internals"}
    BY <1>1, <2>1, RaiseMove DEF EngineInv, FewerWrites, Raises
  <2>3. running' \subseteq running BY <2>1 DEF Raise
  <2>4. ViewRecord(NoView) /\ DOMAIN NoView.scores = {} BY DEF NoView, ViewRecord
  <2>5. Shared' BY <1>2, <2>1, <2>3, <2>4 DEF EngineInv, Shared
  <2>6. t # Loop => todo'[Loop] = todo[Loop] BY <2>2, TheThreads
  <2>7. Followed' BY <1>2, <1>3, <1>7, <2>6 DEF Followed, Scheduled, Schedulable
  <2>8. ASSUME NEW u \in Threads PROVE ~Ready(u, "failover")' /\ ~Ready(u, "states")' /\ ~Ready(u, "internals")'
    <3>1. CASE u = t BY <2>2, <3>1 DEF Ready
    <3>2. CASE u # t BY <1>1, <2>2, <3>2, OthersCalm DEF EngineInv, InRebalance
    <3> QED BY <3>1, <3>2
  <2>9. Fresh' BY <2>8 DEF Fresh
  <2> QED BY <1>5, <2>2, <2>5, <2>7, <2>9 DEF EngineInv, Rebalanced
<1> QED BY <1>6, <1>7

\* The directives are made, or not because something raises.
LEMMA DirectKeeps ==
  ASSUME EngineInv, NEW t \in Threads, ~Idle(t), todo[t][1][1] \in {"states", "internals"}, Direct(t),
         UNCHANGED <<config, health>>
  PROVE  EngineInv' /\ FewerWrites
<1>1. todo[t] # <<>> BY DEF Idle
<1>2. /\ view.mode \in SchedulerModes
      /\ \/ unannounced \/ Matched
         \/ t # Loop /\ Telling(todo[Loop])
  BY <1>1 DEF EngineInv, Rebalanced, Fresh, Ready
<1>3. Known' = Known /\ Known # {} BY <1>1 DEF Known, EngineInv, Rebalanced, KnownKept, Ready
<1>4. KnownKept' BY <1>3 DEF KnownKept
<1>5. view' = NoView /\ ViewRecord(NoView) /\ DOMAIN NoView.scores = {} BY DEF Direct, NoView, ViewRecord
<1>6. /\ LockInv' /\ FewerWrites /\ \A u \in Threads : u # t => todo'[u] = todo[u]
      /\ todo'[t] # <<>> => todo'[t][1][1] \notin {"sched", "failover", "states", "internals"}
  <2>1. CASE Raise(t, "balancer") BY <2>1, RaiseMove DEF EngineInv, FewerWrites, Raises
  <2>2. CASE Continue(t, <<>>)
    <3>1. LockInv' /\ Left(t) BY <2>2, PlainMove DEF EngineInv
    <3> QED BY <3>1 DEF Left, FewerWrites
  <2> QED BY <2>1, <2>2 DEF Direct
<1>7. ASSUME NEW u \in Threads, NEW op \in {"sched", "failover", "states", "internals"} PROVE ~Ready(u, op)'
  <2>1. CASE u = t BY <1>6, <2>1 DEF Ready
  <2>2. CASE u # t BY <1>1, <1>6, <2>2, OthersCalm DEF EngineInv, InRebalance
  <2> QED BY <2>1, <2>2
<1>8. Fresh' BY <1>7 DEF Fresh
<1>9. t # Loop => todo'[Loop] = todo[Loop] BY <1>6, TheThreads
<1>10. config = [mode |-> config.mode, trigger |-> config.trigger, weights |-> config.weights]
  BY DEF EngineInv, Shared, ConfigRecords
<1>11. CASE Fails(view)
  <2>1. /\ UNCHANGED <<basis, unannounced>> /\ running' \subseteq running /\ active' \subseteq active
    BY <1>11 DEF Direct, Raise
  <2>2. Shared' BY <1>5, <2>1 DEF EngineInv, Shared
  <2>3. Matched => ~Schedulable(config) BY <1>11 DEF Matched, Scheduled, Fails, Weighs, Schedulable
  <2>4. Followed' BY <1>2, <1>9, <2>1, <2>3 DEF Followed
  <2> QED BY <1>4, <1>6, <1>8, <2>2, <2>4 DEF EngineInv, Rebalanced
<1>12. CASE ~Fails(view)
  <2>1. /\ UNCHANGED running
        /\ active' \in ActiveSets(view.mode, view.scores, view.trigger)
        /\ basis' = [mode |-> view.mode, trigger |-> view.trigger, weights |-> view.weights]
        /\ unannounced' = (unannounced /\ basis' # config)
    BY <1>12 DEF Direct
  <2>2. active' \subseteq Paths
    <3>1. Usable(view.scores, view.trigger) \subseteq Paths BY DEF Usable, EngineInv, Shared
    <3> HIDE DEF Usable
    <3> QED BY <2>1, <3>1 DEF ActiveSets
  <2>3. Shared'
    <3>1. basis'.mode \in SchedulerModes BY <1>2, <2>1
    <3> QED BY <1>5, <2>1, <2>2, <3>1 DEF EngineInv, Shared
  <2>4. Matched => basis' = config BY <1>10, <2>1 DEF Matched, Scheduled
  <2>5. Followed' BY <1>2, <1>9, <2>1, <2>4 DEF Followed
  <2> QED BY <1>4, <1>6, <1>8, <2>3, <2>5 DEF EngineInv, Rebalanced
<1> QED BY <1>11, <1>12

\* The adaptive mode goes on to another read.
LEMMA AskingAgainKeeps ==
  ASSUME EngineInv, NEW t \in Threads, ~Idle(t), todo[t][1][1] = "states", Continue(t, <<<<"internals">>>>),
         UNCHANGED <<config, health, active, view, basis, running, unannounced>>
  PROVE  EngineInv' /\ FewerWrites
<1> DEFINE s == <<<<"internals">>>>
<1>1. todo[t] # <<>> BY DEF Idle
<1>2. LockInv' /\ Put(t, s) /\ \A n : ~Writes(s, n) BY SwapMove DEF EngineInv
<1>3. s[1][1] = "internals" /\ s = <<<<"internals">>>> OBVIOUS
<1> HIDE DEF s
<1>4. FewerWrites BY <1>2 DEF Put, FewerWrites
<1>5. Shared' BY DEF EngineInv, Shared
<1>6. Telling(todo[Loop]) => Telling(todo'[Loop])
  <2>1. CASE t = Loop BY <1>2, <1>3, <2>1 DEF Put
  <2>2. CASE t # Loop BY <1>2, <2>2, TheThreads DEF Put
  <2> QED BY <2>1, <2>2
<1>7. Followed' BY <1>6 DEF EngineInv, Rebalanced, Followed
<1>8. ASSUME NEW u \in Threads, NEW op \in {"sched", "failover", "states", "internals"}, Ready(u, op)'
      PROVE  u = t /\ op = "internals"
  <2>1. CASE u = t
    <3>1. todo'[t] # <<>> /\ todo'[t][1][1] = op BY <1>8, <2>1 DEF Ready
    <3> QED BY <1>2, <1>3, <2>1, <3>1 DEF Put
  <2>2. CASE u # t BY <1>1, <1>2, <1>8, <2>2, OthersCalm DEF EngineInv, Put, InRebalance
  <2> QED BY <2>1, <2>2
<1>9. /\ view.mode \in SchedulerModes
      /\ \/ unannounced \/ Matched
         \/ t # Loop /\ Telling(todo[Loop])
  BY <1>1 DEF EngineInv, Rebalanced, Fresh, Ready
<1>10. Matched => Matched' BY DEF Matched, Scheduled
<1>11. Fresh' BY <1>6, <1>8, <1>9, <1>10 DEF Fresh
<1>12. Known' = Known /\ Known # {} BY <1>1 DEF Known, EngineInv, Rebalanced, KnownKept, Ready
<1>13. KnownKept' BY <1>12 DEF KnownKept
<1> QED BY <1>2, <1>4, <1>5, <1>7, <1>11, <1>13 DEF EngineInv, Rebalanced

LEMMA ScheduleKeeps ==
  ASSUME EngineInv, NEW t \in Threads, Schedule(t) \/ ScheduleAdaptive(t)
  PROVE  EngineInv' /\ FewerWrites
<1>1. CASE Schedule(t)
  <2>1. ~Idle(t) /\ todo[t][1][1] = "states" /\ UNCHANGED <<config, health>>
    BY <1>1, Front1 DEF EngineInv, Schedule
  <2>2. CASE Direct(t) BY <2>1, <2>2, DirectKeeps
  <2>3. CASE Continue(t, <<<<"internals">>>>) /\ UNCHANGED <<active, view, basis, running, unannounced>>
    BY <2>1, <2>3, AskingAgainKeeps
  <2> QED BY <1>1, <2>2, <2>3 DEF Schedule
<1>2. CASE ScheduleAdaptive(t)
  <2>1. ~Idle(t) /\ todo[t][1][1] = "internals" /\ UNCHANGED <<config, health>>
    BY <1>2, Front1 DEF EngineInv, ScheduleAdaptive
  <2> QED BY <1>2, <2>1, DirectKeeps DEF ScheduleAdaptive
<1> QED BY <1>1, <1>2

\* What a set writes, and whom it tells.
LEMMA SetIs ==
  ASSUME EngineInv, NEW t \in Threads, Set(t)
  PROVE  /\ t = Loop /\ ~Idle(t) /\ todo[t] # <<>> /\ todo[t][1][1] = "set"
         /\ config' \in ConfigRecords
         /\ \/ Continue(t, Notified(Rebalance))
            \/ Continue(t, Notified(<<<<"touch", "health">>>>)) /\ UNCHANGED config
<1> DEFINE i == todo[t][1]
<1>1. /\ ~Idle(t) /\ todo[t] # <<>> /\ i[1] = "set" /\ Head(todo[t]) = i /\ i \in Instructions
      /\ t = Loop
  BY Front1 DEF EngineInv, Set, LoopOnly
<1>2. PICK s \in Settings : i = <<"set">> \o s BY <1>1, Kinds DEF Plain
<1>3. /\ config' = IF i[2] \in DOMAIN config THEN [config EXCEPT ![i[2]] = i[3]] ELSE config
      /\ Continue(t, Listeners(i[2]))
  BY <1>1 DEF Set
<1>4. config \in ConfigRecords /\ DOMAIN config = {"mode", "trigger", "weights"} BY DEF EngineInv, Shared, ConfigRecords
<1>5. \/ s = <<"window">> \/ (\E m \in Modes : s = <<"mode", m>>) \/ (\E g \in Triggers : s = <<"trigger", g>>)
      \/ \E w \in Weights : s = <<"weights", w>>
  BY DEF Settings
<1>6. CASE s = <<"window">>
  <2>1. i[2] = "window" BY <1>2, <1>6
  <2> HIDE DEF i
  <2> QED BY <1>1, <1>3, <1>4, <2>1 DEF Listeners, ResizeWindows, i
<1>7. ASSUME NEW m \in Modes, s = <<"mode", m>>
      PROVE  config' \in ConfigRecords /\ Continue(t, Notified(Rebalance))
  <2>1. i[2] = "mode" /\ i[3] = m BY <1>2, <1>7
  <2> HIDE DEF i
  <2>2. config' = [config EXCEPT !["mode"] = m] BY <1>3, <1>4, <2>1
  <2>3. config' \in ConfigRecords BY <1>4, <2>2 DEF ConfigRecords
  <2> QED BY <1>3, <2>1, <2>3 DEF Listeners, ResizeWindows
<1>8. ASSUME NEW g \in Triggers, s = <<"trigger", g>>
      PROVE  config' \in ConfigRecords /\ Continue(t, Notified(Rebalance))
  <2>1. i[2] = "trigger" /\ i[3] = g BY <1>2, <1>8
  <2> HIDE DEF i
  <2>2. config' = [config EXCEPT !["trigger"] = g] BY <1>3, <1>4, <2>1
  <2>3. config' \in ConfigRecords BY <1>4, <2>2 DEF ConfigRecords
  <2> QED BY <1>3, <2>1, <2>3 DEF Listeners, ResizeWindows
<1>9. ASSUME NEW w \in Weights, s = <<"weights", w>>
      PROVE  config' \in ConfigRecords /\ Continue(t, Notified(Rebalance))
  <2>1. i[2] = "weights" /\ i[3] = w BY <1>2, <1>9
  <2> HIDE DEF i
  <2>2. config' = [config EXCEPT !["weights"] = w] BY <1>3, <1>4, <2>1
  <2>3. config' \in ConfigRecords BY <1>4, <2>2 DEF ConfigRecords
  <2> QED BY <1>3, <2>1, <2>3 DEF Listeners, ResizeWindows
<1> QED BY <1>1, <1>5, <1>6, <1>7, <1>8, <1>9

LEMMA SetKeeps ==
  ASSUME EngineInv, NEW t \in Threads, Set(t)
  PROVE  EngineInv' /\ FewerWrites
<1>1. /\ t = Loop /\ ~Idle(t) /\ todo[t] # <<>> /\ todo[t][1][1] = "set"
      /\ config' \in ConfigRecords
      /\ \/ Continue(t, Notified(Rebalance))
         \/ Continue(t, Notified(<<<<"touch", "health">>>>)) /\ UNCHANGED config
  BY SetIs
<1>2. UNCHANGED <<health, active, view, basis, running, unannounced>> BY DEF Set
<1>3. Shared' BY <1>1, <1>2 DEF EngineInv, Shared
<1>4. ~Telling(todo[Loop])
  <2>1. ~Listening(todo[t][1]) BY <1>1 DEF Listening
  <2> QED BY <1>1, <2>1, NotTold DEF EngineInv
<1>5. Known' = Known BY <1>2 DEF Known
<1>6. CASE Continue(t, Notified(Rebalance))
  <2> DEFINE s == Notified(Rebalance)
  <2>1. LockInv' /\ Put(t, s) /\ s[1][1] \in {"take", "touch"} /\ \A n : ~Writes(s, n)
    BY <1>1, <1>6, NoticeMove DEF EngineInv
  <2>2. Telling(todo'[Loop]) BY <1>1, <2>1 DEF Put
  <2> HIDE DEF s
  <2>3. FewerWrites BY <2>1 DEF Put, FewerWrites
  <2>4. Followed' BY <2>2 DEF Followed
  <2>5. ASSUME NEW u \in Threads, NEW op \in {"sched", "failover", "states", "internals"}, Ready(u, op)'
        PROVE  u # Loop /\ Ready(u, op)
    <3>1. todo'[u] # <<>> /\ todo'[u][1][1] = op BY <2>5 DEF Ready
    <3>2. u # t BY <2>1, <3>1 DEF Put
    <3> QED BY <1>1, <2>1, <3>1, <3>2 DEF Put, Ready
  <2>6. Fresh' BY <1>2, <2>2, <2>5 DEF EngineInv, Rebalanced, Fresh
  <2>7. KnownKept' BY <1>2, <1>5, <2>5 DEF EngineInv, Rebalanced, KnownKept
  <2> QED BY <1>3, <2>1, <2>3, <2>4, <2>6, <2>7 DEF EngineInv, Rebalanced
<1>7. CASE Continue(t, Notified(<<<<"touch", "health">>>>)) /\ UNCHANGED config
  <2> DEFINE s == Notified(<<<<"touch", "health">>>>)
  <2>1. LockInv' /\ Put(t, s) /\ s[1][1] \in {"take", "touch"} /\ \A n : ~Writes(s, n)
    BY <1>1, <1>7, NoticeMove DEF EngineInv
  <2> HIDE DEF s
  <2>2. Rebalanced /\ UNCHANGED <<config, view, basis, unannounced>> /\ Known \subseteq Known'
    BY <1>2, <1>5, <1>7 DEF EngineInv
  <2>3. Rebalanced' BY <1>4, <2>1, <2>2, QuietStep DEF Put
  <2>4. FewerWrites BY <2>1 DEF Put, FewerWrites
  <2> QED BY <1>3, <2>1, <2>3, <2>4 DEF EngineInv
<1> QED BY <1>1, <1>6, <1>7

LEMMA ResetKeeps ==
  ASSUME EngineInv, NEW t \in Threads, Reset(t)
  PROVE  EngineInv' /\ FewerWrites
<1>1. /\ ~Idle(t) /\ todo[t] # <<>> /\ todo[t][1][1] = "reset" /\ t = Loop
  BY Front1 DEF EngineInv, Reset, LoopOnly
<1>2. /\ UNCHANGED <<health, active, view, basis, running>> /\ Continue(t, <<>>)
      /\ config' = Defaults /\ unannounced' = TRUE
  BY DEF Reset
<1>3. LockInv' /\ Left(t) BY <1>1, <1>2, PlainMove DEF EngineInv
<1>4. Defaults \in ConfigRecords BY DEF Defaults, ConfigRecords
<1>5. Shared' BY <1>2, <1>4 DEF EngineInv, Shared
<1>6. Followed' BY <1>2 DEF Followed
<1>7. ASSUME NEW u \in Threads, NEW op \in {"sched", "failover", "states", "internals"}, Ready(u, op)' PROVE Ready(u, op)
  <2>1. todo'[u] # <<>> /\ todo'[u][1][1] = op BY <1>7 DEF Ready
  <2>2. u # t BY <1>1, <1>3, <2>1 DEF Left
  <2> QED BY <1>3, <2>1, <2>2 DEF Left, Ready
<1>8. Fresh' BY <1>2, <1>7 DEF EngineInv, Rebalanced, Fresh
<1>9. Known' = Known BY <1>2 DEF Known
<1>10. KnownKept' BY <1>2, <1>7, <1>9 DEF EngineInv, Rebalanced, KnownKept
<1> QED BY <1>3, <1>5, <1>6, <1>8, <1>10 DEF EngineInv, Rebalanced, Left, FewerWrites

LEMMA ExecuteKeeps ==
  ASSUME EngineInv, NEW t \in Threads, Execute(t)
  PROVE  EngineInv' /\ FewerWrites
BY TakeKeeps, ProbeKeeps, RegisterKeeps, ScoresKeeps, SchedulingKeeps, FailoverKeeps, ScheduleKeeps,
   SetKeeps, ResetKeeps
DEF Execute

-----------------------------------------------------------------------------
(* The steps that start something. *)

LEMMA BeginKeeps ==
  ASSUME EngineInv, NEW s, Start(Loop, s), Begin(Loop, s),
         UNCHANGED <<holder, config, health, active, view, basis, running, unannounced>>
  PROVE  EngineInv' /\ \A n : ~Writes(todo'[Loop], n)
<1>1. LockInv' BY BeginStep, TheThreads DEF EngineInv
<1>2. todo[Loop] = <<>> /\ todo'[Loop] = s /\ \A u \in Threads : u # Loop => todo'[u] = todo[u]
  BY TheThreads DEF Begin, Idle, EngineInv, LockInv
<1>3. s # <<>> /\ s[1][1] \notin {"sched", "failover", "states", "internals"} /\ \A n : ~Writes(s, n) BY DEF Start, Under
<1>4. Shared' BY DEF EngineInv, Shared
<1>5. Rebalanced'
  <2>1. ~Telling(todo[Loop]) BY <1>2, NotTold DEF EngineInv
  <2>2. Rebalanced /\ Known \subseteq Known' BY DEF EngineInv, Known
  <2> QED BY <1>2, <1>3, <2>1, <2>2, TheThreads, QuietStep
<1> QED BY <1>1, <1>2, <1>3, <1>4, <1>5 DEF EngineInv

LEMMA WakeKeeps ==
  ASSUME EngineInv, NEW t \in Threads, NEW k \in Locks, Idle(t), Available(t, k),
         holder' = [holder EXCEPT ![k] = t],
         NEW s, Program(t, s), s # <<>>, Under(t, s[1]) = k, \A l : ~Outer(t, s, l),
         s[1][1] \notin {"sched", "failover", "states", "internals"}, \A n : ~Writes(s, n),
         todo' = [todo EXCEPT ![t] = s],
         UNCHANGED storeVars
  PROVE  EngineInv' /\ FewerWrites
<1>1. LockInv' BY WakeStep DEF EngineInv
<1>2. todo[t] = <<>> /\ todo'[t] = s /\ \A u \in Threads : u # t => todo'[u] = todo[u]
  BY DEF Idle, EngineInv, LockInv
<1>3. Shared' BY DEF EngineInv, Shared, storeVars
<1>4. Rebalanced'
  <2>1. t = Loop => ~Telling(todo[Loop]) BY <1>2, NotTold DEF EngineInv
  <2>2. Rebalanced /\ UNCHANGED <<config, view, basis, unannounced>> /\ Known \subseteq Known'
    BY DEF EngineInv, Known, storeVars
  <2> QED BY <1>2, <2>1, <2>2, QuietStep
<1>5. FewerWrites
  <2>1. CASE t = Loop BY <1>2, <2>1 DEF FewerWrites
  <2>2. CASE t # Loop BY <1>2, <2>2, TheThreads DEF FewerWrites
  <2> QED BY <2>1, <2>2
<1> QED BY <1>1, <1>3, <1>4, <1>5 DEF EngineInv

LEMMA ThreadsKeep ==
  ASSUME EngineInv, BalancerWakes \/ CollectorWakes \/ \E p \in Paths : ProbeReturns(p)
  PROVE  EngineInv' /\ FewerWrites
<1>1. CASE BalancerWakes
  <2> DEFINE s == <<<<"scores">>>>
  <2>1. Head(Rebalance)[2] = "balancer" /\ Tail(Rebalance) = s BY DEF Rebalance
  <2>2. /\ Idle(Balancer) /\ Available(Balancer, "balancer") /\ holder' = [holder EXCEPT !["balancer"] = Balancer]
        /\ todo' = [todo EXCEPT ![Balancer] = s] /\ UNCHANGED storeVars
    BY <1>1, <2>1 DEF BalancerWakes, Wake, engineVars
  <2>3. Program(Balancer, s) /\ (\A l : ~Outer(Balancer, s, l)) BY ThreadStarts
  <2>4. s # <<>> /\ s[1] = <<"scores">> /\ (\A n : ~Writes(s, n)) BY DEF Writes
  <2> HIDE DEF s
  <2>5. Under(Balancer, s[1]) = "balancer" /\ s[1][1] \notin {"sched", "failover", "states", "internals"} BY <2>4 DEF Under
  <2>6. Balancer \in Threads /\ "balancer" \in Locks BY TheThreads DEF Locks
  <2> QED BY <2>2, <2>3, <2>4, <2>5, <2>6, WakeKeeps
<1>2. CASE CollectorWakes
  <2> DEFINE s == <<<<"touch", "config">>, <<"drop", "metrics">>>>
             f == <<<<"take", "metrics">>, <<"touch", "config">>, <<"drop", "metrics">>>>
  <2>1. Head(f)[2] = "metrics" /\ Tail(f) = s OBVIOUS
  <2>2. /\ Idle(Collector) /\ Available(Collector, "metrics") /\ holder' = [holder EXCEPT !["metrics"] = Collector]
        /\ todo' = [todo EXCEPT ![Collector] = s] /\ UNCHANGED storeVars
    <3>1. Wake(Collector, f) /\ UNCHANGED storeVars BY <1>2 DEF CollectorWakes, Record, engineVars
    <3> HIDE DEF f, s
    <3> QED BY <2>1, <3>1 DEF Wake
  <2>3. Program(Collector, s) /\ (\A l : ~Outer(Collector, s, l)) BY ThreadStarts
  <2>4. s # <<>> /\ s[1] = <<"touch", "config">> /\ (\A n : ~Writes(s, n)) BY DEF Writes
  <2> HIDE DEF s, f
  <2>5. Under(Collector, s[1]) = "metrics" /\ s[1][1] \notin {"sched", "failover", "states", "internals"} BY <2>4 DEF Under
  <2>6. Collector \in Threads /\ "metrics" \in Locks BY TheThreads DEF Locks
  <2> QED BY <2>2, <2>3, <2>4, <2>5, <2>6, WakeKeeps
<1>3. ASSUME NEW p \in Paths, ProbeReturns(p) PROVE EngineInv' /\ FewerWrites
  <2>1. PICK ok \in BOOLEAN : Wake(p, RecordProbe(p, ok)) BY <1>3 DEF ProbeReturns
  <2> DEFINE s == <<<<"probe", p, ok>>, <<"drop", "health">>>>
             f == RecordProbe(p, ok)
  <2>2. Head(f)[2] = "health" /\ Tail(f) = s BY DEF RecordProbe
  <2>3. UNCHANGED storeVars BY <1>3 DEF ProbeReturns, storeVars
  <2>4. /\ Idle(p) /\ Available(p, "health") /\ holder' = [holder EXCEPT !["health"] = p]
        /\ todo' = [todo EXCEPT ![p] = s]
    <3> HIDE DEF f, s
    <3> QED BY <2>1, <2>2 DEF Wake, f
  <2>5. Program(p, s) /\ (\A l : ~Outer(p, s, l)) BY ThreadStarts
  <2>6. s # <<>> /\ s[1][1] = "probe" /\ (\A n : ~Writes(s, n)) BY DEF Writes
  <2> HIDE DEF s, f
  <2>7. Under(p, s[1]) = "health" /\ s[1][1] \notin {"sched", "failover", "states", "internals"} BY <2>6 DEF Under
  <2>8. p \in Threads /\ "health" \in Locks BY TheThreads DEF Locks
  <2> QED BY <2>3, <2>4, <2>5, <2>6, <2>7, <2>8, WakeKeeps
<1> QED BY <1>1, <1>2, <1>3

LEMMA CallsKeep ==
  ASSUME EngineInv, ApiCall \/ OptimizerAsks \/ OptimizerForced \/ OptimizerAnswered
  PROVE  EngineInv' /\ FewerWrites
<1>1. UNCHANGED <<holder, config, health, active, view, basis, running, unannounced>>
  BY DEF ApiCall, OptimizerAsks, OptimizerForced, OptimizerAnswered
<1>2. \E s : Start(Loop, s) /\ Begin(Loop, s)
  <2>1. CASE ApiCall BY <2>1, LoopStarts DEF ApiCall
  <2>2. CASE OptimizerAsks BY <2>2, LoopStarts DEF OptimizerAsks
  <2>4. CASE OptimizerForced BY <2>4, LoopStarts DEF OptimizerForced
  <2>3. CASE OptimizerAnswered
    <3>1. PICK n \in 0..MaxChanges :
            \E s \in [1..n -> Settings] : Begin(Loop, <<<<"touch", "config">>>> \o SetEach(n, s))
      BY <2>3 DEF OptimizerAnswered
    <3>2. PICK s \in [1..n -> Settings] : Begin(Loop, <<<<"touch", "config">>>> \o SetEach(n, s)) BY <3>1
    <3>3. n \in Nat BY EngineAssumption
    <3>4. Start(Loop, <<<<"touch", "config">>>> \o SetEach(n, s)) BY <3>3, AnswerStarts
    <3> QED BY <3>2, <3>4
  <2> QED BY <2>1, <2>2, <2>3, <2>4
<1> QED BY <1>1, <1>2, BeginKeeps DEF FewerWrites

LEMMA EngineKeeps ==
  ASSUME EngineInv, EngineNext
  PROVE  EngineInv' /\ FewerWrites
BY ThreadsKeep, CallsKeep, ExecuteKeeps DEF EngineNext

LEMMA EngineStarts == EngineInit => EngineInv
<1> SUFFICES ASSUME EngineInit PROVE EngineInv OBVIOUS
<1>1. /\ holder = [l \in Locks |-> Free] /\ todo = [t \in Threads |-> <<>>]
      /\ config = Defaults /\ health = [p \in Paths |-> Unknown] /\ active = {} /\ view = NoView
      /\ basis = Defaults /\ running = {Loop, Balancer, Collector} /\ unannounced = TRUE
  BY DEF EngineInit, ThreadsInit
<1>2. LockInv
  <2>1. \A t : Program(t, <<>>) /\ \A l : ~Holds(t, <<>>, l) BY DEF Program, Holds, Outer
  <2> QED BY <1>1, <2>1, ThreadsAssumption DEF LockInv
<1>3. Shared
  <2>1. Defaults \in ConfigRecords /\ Defaults.mode \in SchedulerModes BY DEF Defaults, ConfigRecords, SchedulerModes
  <2>2. Unknown \in Health BY BalancerAssumption DEF Unknown, Health, PathStates
  <2>3. ViewRecord(NoView) /\ DOMAIN NoView.scores = {} BY DEF NoView, ViewRecord
  <2> QED BY <1>1, <2>1, <2>2, <2>3, TheThreads DEF Shared
<1>4. Rebalanced BY <1>1 DEF Rebalanced, Followed, Fresh, KnownKept, Ready
<1> QED BY <1>2, <1>3, <1>4 DEF EngineInv

-----------------------------------------------------------------------------
(* The tunnel. *)

Streams ==
  /\ seq \in 0..MaxSeq /\ added \cup serving \subseteq Paths /\ connected \subseteq added
  /\ stream \in [Paths -> Seq(0..MaxSeq)]
  /\ buffer \subseteq 0..MaxSeq /\ expected \in Nat
  /\ writing \in [Paths -> [seq : -1..MaxSeq, done : BOOLEAN]]
  /\ \A p \in Paths : writing[p].seq = -1 => writing[p] = NotWriting
  /\ written \in Seq(-1..MaxSeq)

\* The handler of p awaits a write.
Awaits(p) == writing[p].seq # -1

\* One packet at most is between the buffer and the increment of expected, and
\* it is the packet expected.
Order ==
  ~doubled =>
    /\ \A p, q \in Paths : Awaits(p) /\ Awaits(q) => p = q
    /\ \A p \in Paths : Awaits(p) => /\ writing[p].seq = expected /\ expected \notin buffer
                                     /\ \A n : ~Writes(todo[Loop], n)
    /\ \A n : Writes(todo[Loop], n) => n = expected /\ expected \notin buffer
    /\ Len(written) = IF \E p \in Paths : Awaits(p) /\ writing[p].done THEN expected + 1 ELSE expected
    /\ \A i \in 1..Len(written) : written[i] = i - 1

TunnelInv == EngineInv /\ Streams /\ Order

LEMMA SameEngine ==
  ASSUME EngineInv, UNCHANGED <<holder, todo, storeVars>>
  PROVE  EngineInv' /\ FewerWrites
<1>1. UNCHANGED <<holder, todo, config, health, active, view, basis, running, unannounced>> BY DEF storeVars
<1>2. LockInv' BY <1>1 DEF EngineInv, LockInv
<1>3. Shared' BY <1>1 DEF EngineInv, Shared
<1>4. Rebalanced' BY <1>1 DEF EngineInv, Rebalanced, Followed, Fresh, KnownKept, Ready, Matched, Scheduled, Known
<1> QED BY <1>1, <1>2, <1>3, <1>4 DEF EngineInv, FewerWrites

LEMMA SameOrder ==
  ASSUME Order, UNCHANGED <<buffer, expected, writing, written, doubled>>, FewerWrites
  PROVE  Order'
BY DEF Order, Awaits, FewerWrites

\* The tunnel's own instructions are the last of a program.
LEMMA Alone ==
  ASSUME LockInv, NEW op \in Last, At(Loop, op)
  PROVE  /\ ~Idle(Loop) /\ todo[Loop] # <<>> /\ todo[Loop][1][1] = op /\ Head(todo[Loop]) = todo[Loop][1]
         /\ todo[Loop][1] \in Instructions /\ Len(todo[Loop]) = 1
         /\ Under(Loop, todo[Loop][1]) = "none" /\ After(Loop, todo[Loop][1]) = "none"
         /\ ~Listening(todo[Loop][1])
         /\ op # "write" => \A n : ~Writes(todo[Loop], n)
<1>1. /\ ~Idle(Loop) /\ todo[Loop] # <<>> /\ todo[Loop][1][1] = op /\ Head(todo[Loop]) = todo[Loop][1]
      /\ todo[Loop][1] \in Instructions
  BY Front1, TheThreads
<1>2. Program(Loop, todo[Loop]) /\ todo[Loop] \in Seq(Instructions) BY TheThreads DEF LockInv
<1>3. Len(todo[Loop]) = 1
  <2>1. 1 \in 1..Len(todo[Loop]) BY <1>1, <1>2
  <2>2. 1 < Len(todo[Loop]) => Adjacent(Loop, todo[Loop][1], todo[Loop][1 + 1]) BY <1>2, <2>1 DEF Program
  <2>3. ~(1 < Len(todo[Loop])) BY <1>1, <2>2 DEF Adjacent
  <2>4. Len(todo[Loop]) \in Nat BY <1>2
  <2> DEFINE m == Len(todo[Loop])
  <2>5. m \in Nat /\ 1 \in 1..m /\ ~(1 < m) BY <2>1, <2>3, <2>4
  <2> HIDE DEF m
  <2>6. m = 1 BY <2>5
  <2> QED BY <2>6 DEF m
<1>4. op # "write" => \A n : ~Writes(todo[Loop], n) BY <1>1, <1>3 DEF Writes
<1>5. /\ Under(Loop, todo[Loop][1]) = "none" /\ After(Loop, todo[Loop][1]) = "none"
      /\ ~Listening(todo[Loop][1])
  BY <1>1 DEF Under, After, Listening, Last
<1> QED BY <1>1, <1>3, <1>4, <1>5

LEMMA AloneEnds ==
  ASSUME EngineInv, NEW op \in Last, At(Loop, op), Continue(Loop, <<>>), UNCHANGED storeVars
  PROVE  EngineInv' /\ todo'[Loop] = <<>>
<1>1. /\ ~Idle(Loop) /\ todo[Loop] # <<>> /\ todo[Loop][1][1] = op /\ ~Listening(todo[Loop][1])
  BY Alone DEF EngineInv
<1>2. LockInv' /\ Left(Loop) BY <1>1, PlainMove, TheThreads DEF EngineInv, Last
<1>3. todo'[Loop] = <<>> BY <1>1, <1>2 DEF Left
<1>4. Shared' BY DEF EngineInv, Shared, storeVars
<1>5. Rebalanced'
  <2>1. ~Telling(todo[Loop]) BY <1>1, NotTold DEF EngineInv
  <2>2. Rebalanced /\ UNCHANGED <<config, view, basis, unannounced>> /\ Known \subseteq Known'
    BY DEF EngineInv, Known, storeVars
  <2> QED BY <1>2, <1>3, <2>1, <2>2, TheThreads, QuietStep DEF Left
<1> QED BY <1>2, <1>3, <1>4, <1>5 DEF EngineInv

LEMMA AlonePuts ==
  ASSUME EngineInv, NEW op \in Last, op # "write", At(Loop, op),
         NEW s, Program(Loop, s), s # <<>>, Under(Loop, s[1]) = "none", \A l : ~Outer(Loop, s, l),
         Continue(Loop, s), UNCHANGED storeVars
  PROVE  EngineInv' /\ \A n : Writes(todo'[Loop], n) => Writes(s, n)
<1>1. /\ ~Idle(Loop) /\ todo[Loop] # <<>> /\ todo[Loop][1][1] = op /\ ~Listening(todo[Loop][1])
      /\ Len(todo[Loop]) = 1
      /\ Under(Loop, todo[Loop][1]) = "none" /\ After(Loop, todo[Loop][1]) = "none"
      /\ \A n : ~Writes(todo[Loop], n)
  BY Alone DEF EngineInv
<1>2. todo[Loop][1][1] # "return" BY <1>1 DEF Last
<1>3. /\ LockInv' /\ Program(Loop, s \o Tail(todo[Loop]))
      /\ todo' = [todo EXCEPT ![Loop] = Rest(s \o Tail(todo[Loop]))]
  BY <1>1, <1>2, PutStep, TheThreads DEF EngineInv
<1>4. s \in Seq(Instructions) BY DEF Program
<1>5. Put(Loop, s) BY <1>1, <1>2, <1>3, <1>4, PutIs, TheThreads DEF EngineInv
<1>6. s[1][1] \notin {"sched", "failover", "states", "internals"} BY DEF Under
<1>7. Shared' BY DEF EngineInv, Shared, storeVars
<1>8. Rebalanced'
  <2>1. ~Telling(todo[Loop]) BY <1>1, NotTold DEF EngineInv
  <2>2. Rebalanced /\ UNCHANGED <<config, view, basis, unannounced>> /\ Known \subseteq Known'
    BY DEF EngineInv, Known, storeVars
  <2>3. /\ \A u \in Threads : u # Loop => todo'[u] = todo[u]
        /\ todo'[Loop] # <<>> => todo'[Loop][1][1] \notin {"sched", "failover", "states", "internals"}
    BY <1>5, <1>6 DEF Put
  <2> QED BY <2>1, <2>2, <2>3, TheThreads, QuietStep
<1>9. \A n : Writes(todo'[Loop], n) => Writes(s, n) BY <1>1, <1>5 DEF Put
<1> QED BY <1>3, <1>7, <1>8, <1>9 DEF EngineInv

LEMMA Prefix ==
  ASSUME NEW S, NEW s \in Seq(S), NEW n \in 0..Len(s)
  PROVE  SubSeq(s, 1, n) \in Seq(S)
<1>1. \A k \in 1..n : s[k] \in S OBVIOUS
<1> QED BY <1>1, SubSeqProperties

LEMMA CutIs ==
  ASSUME NEW p \in Paths, NEW S, stream[p] \in Seq(S)
  PROVE  Cut(p) \subseteq Seq(S)
BY Prefix DEF Cut

LEMMA ClientKeeps ==
  ASSUME TunnelInv, NEW p \in Paths, Connect(p) \/ Send(p) \/ Break(p)
  PROVE  TunnelInv'
<1>1. UNCHANGED <<buffer, expected, writing, written, doubled>> BY DEF Connect, Send, Break
<1>2. EngineInv' /\ FewerWrites
  <2>1. CASE Connect(p)
    <3>1. Begin(Loop, RegisterPath(p)) /\ UNCHANGED <<holder, storeVars>> BY <2>1 DEF Connect
    <3>2. Start(Loop, RegisterPath(p)) BY LoopStarts
    <3> QED BY <3>1, <3>2, BeginKeeps DEF TunnelInv, FewerWrites, storeVars
  <2>2. CASE Send(p) \/ Break(p)
    <3>1. UNCHANGED <<holder, todo, storeVars>> BY <2>2 DEF Send, Break
    <3> QED BY <3>1, SameEngine DEF TunnelInv
  <2> QED BY <2>1, <2>2
<1>3. /\ seq' \in 0..MaxSeq /\ added' \cup serving' \subseteq Paths /\ connected' \subseteq added'
      /\ stream' \in [Paths -> Seq(0..MaxSeq)]
  <2>1. /\ seq \in 0..MaxSeq /\ added \cup serving \subseteq Paths /\ connected \subseteq added
        /\ stream \in [Paths -> Seq(0..MaxSeq)] /\ MaxSeq \in Nat
    BY TunnelAssumption DEF TunnelInv, Streams
  <2>2. CASE Connect(p)
    <3>1. <<>> \in Seq(0..MaxSeq) OBVIOUS
    <3>2. stream' \in [Paths -> Seq(0..MaxSeq)] BY <2>1, <2>2, <3>1 DEF Connect
    <3> QED BY <2>1, <2>2, <3>2 DEF Connect
  <2>3. CASE Send(p)
    <3>1. /\ UNCHANGED <<added, connected, serving>> /\ seq' = seq + 1 /\ seq < MaxSeq
          /\ \/ stream' = Sent(p, seq)
             \/ \E q \in connected \ {p} : stream' = [Sent(p, seq) EXCEPT ![q] = Append(@, seq)]
      BY <2>3 DEF Send
    <3>2. Sent(p, seq) \in [Paths -> Seq(0..MaxSeq)] BY <2>1 DEF Sent
    <3>3. \A q \in connected : [Sent(p, seq) EXCEPT ![q] = Append(@, seq)] \in [Paths -> Seq(0..MaxSeq)]
      BY <2>1, <3>2
    <3>4. stream' \in [Paths -> Seq(0..MaxSeq)] BY <3>1, <3>2, <3>3
    <3>5. seq' \in 0..MaxSeq BY <2>1, <3>1
    <3> QED BY <2>1, <3>1, <3>4, <3>5
  <2>4. CASE Break(p)
    <3>1. PICK s \in Cut(p) : stream' = [stream EXCEPT ![p] = s] BY <2>4 DEF Break
    <3>3. s \in Seq(0..MaxSeq) BY <2>1, CutIs
    <3>4. stream' \in [Paths -> Seq(0..MaxSeq)] BY <2>1, <3>1, <3>3
    <3>5. /\ seq' = (IF seq < MaxSeq THEN seq + 1 ELSE seq) /\ connected' = connected \ {p} /\ UNCHANGED <<added, serving>>
      BY <2>4 DEF Break
    <3> QED BY <2>1, <3>4, <3>5
  <2> QED BY <2>2, <2>3, <2>4
<1>4. Streams' BY <1>1, <1>3 DEF TunnelInv, Streams
<1>5. Order' BY <1>1, <1>2, SameOrder DEF TunnelInv
<1> QED BY <1>2, <1>4, <1>5 DEF TunnelInv

LEMMA RestartKeeps ==
  ASSUME TunnelInv, ClientRestart
  PROVE  TunnelInv'
<1>1. UNCHANGED <<buffer, expected, writing, written, doubled>> BY DEF ClientRestart
<1>2. EngineInv' /\ FewerWrites BY SameEngine DEF TunnelInv, ClientRestart
<1>3. /\ seq' = 0 /\ added' = {} /\ connected' = {} /\ UNCHANGED serving
      /\ stream' \in [Paths -> UNION {Cut(p) : p \in Paths}]
  BY DEF ClientRestart
<1>4. stream' \in [Paths -> Seq(0..MaxSeq)]
  <2>1. \A p \in Paths : Cut(p) \subseteq Seq(0..MaxSeq)
    <3>1. \A p \in Paths : stream[p] \in Seq(0..MaxSeq) BY DEF TunnelInv, Streams
    <3> QED BY <3>1, CutIs
  <2> QED BY <1>3, <2>1
<1>5. Streams' BY <1>1, <1>3, <1>4, TunnelAssumption DEF TunnelInv, Streams
<1>6. Order' BY <1>1, <1>2, SameOrder DEF TunnelInv
<1> QED BY <1>2, <1>5, <1>6 DEF TunnelInv

LEMMA ReceiveKeeps ==
  ASSUME TunnelInv, NEW p \in Paths, Receive(p)
  PROVE  TunnelInv'
<1>1. UNCHANGED <<buffer, expected, writing, written, doubled, seq, added, connected, serving>> BY DEF Receive
<1>2. stream[p] \in Seq(0..MaxSeq) /\ stream[p] # <<>> BY DEF Receive, TunnelInv, Streams
<1>3. Head(stream[p]) \in 0..MaxSeq /\ Tail(stream[p]) \in Seq(0..MaxSeq) BY <1>2, HeadTailProperties
<1>4. stream' \in [Paths -> Seq(0..MaxSeq)] BY <1>3 DEF Receive, TunnelInv, Streams
<1>5. EngineInv' /\ FewerWrites
  <2>1. /\ Begin(Loop, RecordProbe(p, TRUE) \o <<<<"arrive", p, Head(stream[p])>>>>)
        /\ UNCHANGED <<holder, config, health, active, view, basis, running, unannounced>>
    BY DEF Receive, engineVars, storeVars
  <2>2. Start(Loop, RecordProbe(p, TRUE) \o <<<<"arrive", p, Head(stream[p])>>>>) BY <1>3, LoopStarts
  <2> QED BY <2>1, <2>2, BeginKeeps DEF TunnelInv, FewerWrites
<1>6. Streams' BY <1>1, <1>4 DEF TunnelInv, Streams
<1>7. Order' BY <1>1, <1>5, SameOrder DEF TunnelInv
<1> QED BY <1>5, <1>6, <1>7 DEF TunnelInv

LEMMA ArriveKeeps ==
  ASSUME TunnelInv, Arrive
  PROVE  TunnelInv'
<1> DEFINE p == todo[Loop][1][2]
           m == todo[Loop][1][3]
           s == <<<<"deliver", p>>>>
<1>1. /\ Head(todo[Loop]) = todo[Loop][1] /\ todo[Loop][1] \in Instructions /\ todo[Loop][1][1] = "arrive"
      /\ At(Loop, "arrive")
  BY Alone DEF Arrive, TunnelInv, EngineInv, Last
<1>2. p \in Paths /\ m \in 0..MaxSeq BY <1>1, Kinds DEF Plain
<1>3. /\ buffer' = buffer \cup {m} /\ doubled' = (doubled \/ \E q \in Paths : writing[q].seq = m)
      /\ Continue(Loop, s) /\ UNCHANGED storeVars
      /\ UNCHANGED <<seq, added, connected, serving, stream, expected, writing, written>>
  BY <1>1 DEF Arrive, engineVars
<1>4. Start(Loop, s) BY <1>2, LoopStarts
<1> HIDE DEF p, m, s
<1>5. EngineInv' /\ \A n : ~Writes(todo'[Loop], n)
  <2>1. EngineInv' /\ \A n : Writes(todo'[Loop], n) => Writes(s, n)
    BY <1>1, <1>3, <1>4, AlonePuts DEF TunnelInv, Start, Last
  <2> QED BY <1>4, <2>1 DEF Start
<1>6. Streams' BY <1>2, <1>3 DEF TunnelInv, Streams
<1>7. Order'
  <2>1. SUFFICES ASSUME ~doubled' PROVE Order' BY DEF Order
  <2>2. ~doubled /\ \A q \in Paths : writing[q].seq # m BY <1>3, <2>1
  <2>3. \A q \in Paths : Awaits(q)' <=> Awaits(q) BY <1>3 DEF Awaits
  <2>4. \A q \in Paths : Awaits(q) => writing[q].seq = expected /\ expected \notin buffer'
    BY <1>3, <2>2 DEF TunnelInv, Order
  <2> QED BY <1>3, <1>5, <2>2, <2>3, <2>4 DEF TunnelInv, Order
<1> QED BY <1>5, <1>6, <1>7 DEF TunnelInv

\* What the delivery loop goes on with when it has taken packet n.
LEMMA DeliverPuts ==
  ASSUME NEW p \in Paths, NEW n \in 0..MaxSeq
  PROVE  LET s == <<<<"touch", "balancer">>, <<"write", p, n>>>>
         IN  /\ Program(Loop, s) /\ s # <<>> /\ Under(Loop, s[1]) = "none" /\ (\A l : ~Outer(Loop, s, l))
             /\ \A m : Writes(s, m) => m = n
<1> USE AreInstructions DEF Locks, LoopOnly, Last
<1> DEFINE s == <<<<"touch", "balancer">>, <<"write", p, n>>>>
<1>1. /\ Fit(Loop, <<"touch", "balancer">>) /\ Fit(Loop, <<"write", p, n>>)
      /\ Adjacent(Loop, <<"touch", "balancer">>, <<"write", p, n>>) /\ After(Loop, <<"write", p, n>>) = "none"
      /\ Under(Loop, <<"touch", "balancer">>) = "none"
  BY DEF Fit, Adjacent, Under, After
<1>2. Program(Loop, s) /\ (\A l : ~Outer(Loop, s, l)) BY <1>1, TwoProgram
<1>3. s # <<>> /\ s[1] = <<"touch", "balancer">> /\ (\A m : Writes(s, m) => m = n) BY DEF Writes
<1> QED BY <1>1, <1>2, <1>3

LEMMA DeliverKeeps ==
  ASSUME TunnelInv, Deliver
  PROVE  TunnelInv'
<1> DEFINE p == todo[Loop][1][2]
<1>1. /\ Head(todo[Loop]) = todo[Loop][1] /\ todo[Loop][1] \in Instructions /\ todo[Loop][1][1] = "deliver"
      /\ At(Loop, "deliver")
  BY Alone DEF Deliver, TunnelInv, EngineInv, Last
<1>2. p \in Paths BY <1>1, Kinds DEF Plain
<1>3. /\ UNCHANGED storeVars
      /\ UNCHANGED <<seq, added, connected, serving, stream, expected, writing, written, doubled>>
      /\ \/ InTurn = {} /\ Continue(Loop, <<>>) /\ UNCHANGED buffer
         \/ \E n \in InTurn : /\ buffer' = buffer \ {n}
                              /\ Continue(Loop, <<<<"touch", "balancer">>, <<"write", p, n>>>>)
  BY <1>1 DEF Deliver, engineVars
<1> HIDE DEF p
<1>4. ~doubled' <=> ~doubled BY <1>3
<1>5. \A q \in Paths : Awaits(q)' <=> Awaits(q) BY <1>3 DEF Awaits
<1>6. CASE Continue(Loop, <<>>) /\ UNCHANGED buffer
  <2>1. EngineInv' /\ todo'[Loop] = <<>> BY <1>1, <1>3, <1>6, AloneEnds DEF TunnelInv, Last
  <2>2. FewerWrites BY <2>1 DEF FewerWrites, Writes
  <2>3. Streams' BY <1>3, <1>6 DEF TunnelInv, Streams
  <2>4. Order' BY <1>3, <1>6, <2>2, SameOrder DEF TunnelInv
  <2> QED BY <2>1, <2>3, <2>4 DEF TunnelInv
<1>7. ASSUME NEW n \in InTurn, buffer' = buffer \ {n},
             Continue(Loop, <<<<"touch", "balancer">>, <<"write", p, n>>>>)
      PROVE  TunnelInv'
  <2> DEFINE s == <<<<"touch", "balancer">>, <<"write", p, n>>>>
  <2>1. n \in buffer /\ n = expected BY DEF InTurn
  <2>2. n \in 0..MaxSeq BY <2>1 DEF TunnelInv, Streams
  <2>3. /\ Program(Loop, s) /\ s # <<>> /\ Under(Loop, s[1]) = "none" /\ (\A l : ~Outer(Loop, s, l))
        /\ \A m : Writes(s, m) => m = n
    BY <1>2, <2>2, DeliverPuts
  <2>4. Continue(Loop, s) BY <1>7
  <2> HIDE DEF s
  <2>5. EngineInv' /\ \A m : Writes(todo'[Loop], m) => Writes(s, m)
    BY <1>1, <1>3, <2>3, <2>4, AlonePuts DEF TunnelInv, Last
  <2>6. Streams' BY <1>3, <1>7 DEF TunnelInv, Streams
  <2>7. Order'
    <3>1. SUFFICES ASSUME ~doubled PROVE Order' BY <1>4 DEF Order
    <3>2. \A q \in Paths : ~Awaits(q) BY <2>1, <3>1 DEF TunnelInv, Order
    <3>3. \A m : Writes(todo'[Loop], m) => m = expected' /\ expected' \notin buffer'
      BY <1>3, <1>7, <2>1, <2>3, <2>5
    <3> QED BY <1>3, <1>5, <3>1, <3>2, <3>3 DEF TunnelInv, Order
  <2> QED BY <2>5, <2>6, <2>7 DEF TunnelInv
<1> QED BY <1>3, <1>6, <1>7

LEMMA WriteKeeps ==
  ASSUME TunnelInv, Write
  PROVE  TunnelInv'
<1> DEFINE p == todo[Loop][1][2]
           m == todo[Loop][1][3]
<1>1. /\ Head(todo[Loop]) = todo[Loop][1] /\ todo[Loop][1] \in Instructions /\ todo[Loop][1][1] = "write"
      /\ At(Loop, "write") /\ Len(todo[Loop]) = 1
  BY Alone DEF Write, TunnelInv, EngineInv, Last
<1>2. p \in Paths /\ m \in 0..MaxSeq BY <1>1, Kinds DEF Plain
<1>3. /\ UNCHANGED storeVars /\ Continue(Loop, <<>>)
      /\ UNCHANGED <<seq, added, connected, serving, stream, buffer, expected, written, doubled>>
      /\ writing' = [writing EXCEPT ![p] = [seq |-> m, done |-> FALSE]]
  BY <1>1 DEF Write, engineVars
<1>4. Writes(todo[Loop], m) BY <1>1 DEF Writes
<1> HIDE DEF p, m
<1>5. EngineInv' /\ todo'[Loop] = <<>> BY <1>1, <1>3, AloneEnds DEF TunnelInv, Last
<1>6. \A n : ~Writes(todo'[Loop], n) BY <1>5 DEF Writes
<1>7. /\ writing' \in [Paths -> [seq : -1..MaxSeq, done : BOOLEAN]]
      /\ writing'[p].seq = m /\ ~writing'[p].done /\ \A q \in Paths : q # p => writing'[q] = writing[q]
  BY <1>2, <1>3, TunnelAssumption DEF TunnelInv, Streams
<1>8. Streams' BY <1>2, <1>3, <1>7 DEF TunnelInv, Streams
<1>9. Order'
  <2>1. SUFFICES ASSUME ~doubled PROVE Order' BY <1>3 DEF Order
  <2>2. m = expected /\ expected \notin buffer /\ \A q \in Paths : ~Awaits(q) BY <1>4, <2>1 DEF TunnelInv, Order
  <2>3. \A q \in Paths : Awaits(q)' => q = p BY <1>7, <2>2 DEF Awaits
  <2>4. Len(written) = expected /\ \A i \in 1..Len(written) : written[i] = i - 1 BY <2>1, <2>2 DEF TunnelInv, Order
  <2> QED BY <1>3, <1>6, <1>7, <2>2, <2>3, <2>4 DEF Order
<1> QED BY <1>5, <1>8, <1>9 DEF TunnelInv

LEMMA WrittenKeeps ==
  ASSUME TunnelInv, NEW p \in Paths, Written(p)
  PROVE  TunnelInv'
<1>1. /\ UNCHANGED <<holder, todo, storeVars>>
      /\ UNCHANGED <<seq, added, connected, serving, stream, buffer, expected, doubled>>
      /\ ~writing[p].done /\ written' = Append(written, writing[p].seq)
      /\ writing' = [writing EXCEPT ![p].done = TRUE]
  BY DEF Written, engineVars
<1>2. EngineInv' BY <1>1, SameEngine DEF TunnelInv
<1>3. /\ writing' \in [Paths -> [seq : -1..MaxSeq, done : BOOLEAN]]
      /\ writing'[p].seq = writing[p].seq /\ writing'[p].done /\ \A q \in Paths : q # p => writing'[q] = writing[q]
  BY <1>1 DEF TunnelInv, Streams
<1>4. Awaits(p) BY <1>1 DEF TunnelInv, Streams, Awaits, NotWriting
<1>5. /\ written \in Seq(-1..MaxSeq) /\ written' \in Seq(-1..MaxSeq) /\ Len(written') = Len(written) + 1
      /\ written'[Len(written) + 1] = writing[p].seq /\ \A i \in 1..Len(written) : written'[i] = written[i]
  <2>1. written \in Seq(-1..MaxSeq) /\ writing[p].seq \in -1..MaxSeq BY DEF TunnelInv, Streams
  <2> QED BY <1>1, <2>1, AppendProperties
<1>6. Streams' BY <1>1, <1>3, <1>4, <1>5 DEF TunnelInv, Streams, Awaits
<1>7. Order'
  <2>1. SUFFICES ASSUME ~doubled PROVE Order' BY <1>1 DEF Order
  <2>2. \A q \in Paths : Awaits(q)' <=> Awaits(q) BY <1>3 DEF Awaits
  <2>3. \A q \in Paths : Awaits(q) => q = p BY <1>4, <2>1 DEF TunnelInv, Order
  <2>4. writing[p].seq = expected /\ expected \notin buffer /\ \A n : ~Writes(todo[Loop], n)
    BY <1>4, <2>1 DEF TunnelInv, Order
  <2>5. Len(written) = expected /\ \A i \in 1..Len(written) : written[i] = i - 1
    BY <1>1, <2>1, <2>3 DEF TunnelInv, Order
  <2>6. Len(written') = expected + 1 /\ \A i \in 1..Len(written') : written'[i] = i - 1
    BY <1>5, <2>4, <2>5
  <2>7. Awaits(p)' /\ writing'[p].done BY <1>3, <1>4, <2>2
  <2> QED BY <1>1, <1>3, <2>2, <2>3, <2>4, <2>6, <2>7 DEF Order
<1> QED BY <1>2, <1>6, <1>7 DEF TunnelInv

LEMMA ResumeKeeps ==
  ASSUME TunnelInv, NEW p \in Paths, Resume(p)
  PROVE  TunnelInv'
<1>1. /\ UNCHANGED <<holder, config, health, active, view, basis, running, unannounced>>
      /\ UNCHANGED <<seq, added, connected, serving, stream, buffer, written, doubled>>
      /\ writing[p] # NotWriting /\ writing[p].done /\ Begin(Loop, <<<<"deliver", p>>>>)
      /\ expected' = expected + 1 /\ writing' = [writing EXCEPT ![p] = NotWriting]
  BY DEF Resume, engineVars, storeVars
<1>2. EngineInv' /\ \A n : ~Writes(todo'[Loop], n)
  <2>1. Start(Loop, <<<<"deliver", p>>>>) BY LoopStarts
  <2> QED BY <1>1, <2>1, BeginKeeps DEF TunnelInv
<1>3. /\ writing' \in [Paths -> [seq : -1..MaxSeq, done : BOOLEAN]]
      /\ writing'[p] = NotWriting /\ \A q \in Paths : q # p => writing'[q] = writing[q]
  BY <1>1, TunnelAssumption DEF TunnelInv, Streams, NotWriting
<1>4. Awaits(p) BY <1>1 DEF TunnelInv, Streams, Awaits
<1>5. ~Awaits(p)' BY <1>3 DEF Awaits, NotWriting
<1>6. Streams' BY <1>1, <1>3 DEF TunnelInv, Streams
<1>7. Order'
  <2>1. SUFFICES ASSUME ~doubled PROVE Order' BY <1>1 DEF Order
  <2>2. \A q \in Paths : Awaits(q) => q = p BY <1>4, <2>1 DEF TunnelInv, Order
  <2>3. \A q \in Paths : ~Awaits(q)' BY <1>3, <1>5, <2>2 DEF Awaits
  <2>4. Len(written) = expected + 1 /\ \A i \in 1..Len(written) : written[i] = i - 1
    BY <1>1, <1>4, <2>1 DEF TunnelInv, Order
  <2> QED BY <1>1, <1>2, <2>3, <2>4 DEF Order
<1> QED BY <1>2, <1>6, <1>7 DEF TunnelInv

-----------------------------------------------------------------------------
(* The theorems. *)

LEMMA TunnelStarts == Init => TunnelInv
<1> SUFFICES ASSUME Init PROVE TunnelInv OBVIOUS
<1>1. EngineInv BY EngineStarts DEF Init
<1>2. /\ seq = 0 /\ added = {} /\ connected = {} /\ serving = {} /\ stream = [p \in Paths |-> <<>>]
      /\ buffer = {} /\ expected = 0 /\ writing = [p \in Paths |-> NotWriting] /\ written = <<>>
      /\ todo[Loop] = <<>>
  BY TheThreads DEF Init, EngineInit, ThreadsInit
<1>3. NotWriting \in [seq : -1..MaxSeq, done : BOOLEAN] /\ NotWriting.seq = -1
  BY TunnelAssumption DEF NotWriting
<1>4. Streams BY <1>2, <1>3, TunnelAssumption DEF Streams
<1>5. Order BY <1>2, <1>3 DEF Order, Awaits, Writes
<1> QED BY <1>1, <1>4, <1>5 DEF TunnelInv

LEMMA TunnelSteps == TunnelInv /\ [Next]_vars => TunnelInv'
<1> SUFFICES ASSUME TunnelInv, [Next]_vars PROVE TunnelInv' OBVIOUS
<1>1. CASE EngineNext /\ serving' = serving \ Failed /\ UNCHANGED tunnelVars
  <2>1. EngineInv' /\ FewerWrites BY <1>1, EngineKeeps DEF TunnelInv
  <2>2. Streams' BY <1>1 DEF TunnelInv, Streams, tunnelVars
  <2>3. Order' BY <1>1, <2>1, SameOrder DEF TunnelInv, tunnelVars
  <2> QED BY <2>1, <2>2, <2>3 DEF TunnelInv
<1>2. CASE TunnelNext
  BY <1>2, ClientKeeps, RestartKeeps, ReceiveKeeps, ArriveKeeps, DeliverKeeps, WriteKeeps, WrittenKeeps, ResumeKeeps
  DEF TunnelNext
<1>3. CASE UNCHANGED vars
  <2>1. EngineInv' /\ FewerWrites BY <1>3, SameEngine DEF TunnelInv, vars, engineVars
  <2>2. Streams' BY <1>3 DEF TunnelInv, Streams, vars, tunnelVars
  <2>3. Order' BY <1>3, <2>1, SameOrder DEF TunnelInv, vars, tunnelVars
  <2> QED BY <2>1, <2>2, <2>3 DEF TunnelInv
<1> QED BY <1>1, <1>2, <1>3 DEF Next

(***************************************************************************)
(* The engine keeps its invariant: what every thread still has to execute  *)
(* is a program, in which locks nest (Program), each lock is held by the   *)
(* thread whose program says so (LockInv), what a rebalance has read is    *)
(* the configuration or the event loop, which wrote it, is about to tell   *)
(* the balancer (Rebalanced), and the handlers of the tunnel have one      *)
(* packet between them, the one expected (Order).                          *)
(***************************************************************************)
THEOREM EngineInvariant == Spec => []TunnelInv
<1> QED BY TunnelStarts, TunnelSteps, PTL DEF Spec

Asking == asked \subseteq Cycles

LEMMA AskingKeeps == Asking /\ [Next]_vars => Asking'
<1> SUFFICES ASSUME Asking, [Next]_vars PROVE Asking' OBVIOUS
<1> USE DEF Asking
<1>1. CASE BalancerWakes \/ CollectorWakes \/ \E p \in Paths : ProbeReturns(p)
  BY <1>1 DEF BalancerWakes, CollectorWakes, ProbeReturns, engineVars, storeVars
<1>2. CASE ApiCall \/ OptimizerAsks \/ OptimizerForced \/ OptimizerAnswered
  BY <1>2 DEF ApiCall, OptimizerAsks, OptimizerForced, OptimizerAnswered, Cycles
<1>3. ASSUME NEW t \in Threads, Execute(t) PROVE Asking'
  BY <1>3 DEF Execute, Probe, Register, ReadScores, ReadScheduling, ReadFailover, Schedule, ScheduleAdaptive, Set, Reset,
     engineVars, storeVars
<1>4. CASE TunnelNext
  BY <1>4 DEF TunnelNext, Connect, Send, Break, Receive, Written, Resume, ClientRestart, Arrive, Deliver, Write,
     engineVars, storeVars
<1>5. CASE UNCHANGED vars BY <1>5 DEF vars, engineVars, storeVars
<1> QED BY <1>1, <1>2, <1>3, <1>4, <1>5 DEF Next, EngineNext

(***************************************************************************)
(* The types: the threads only ever have instructions to execute, the      *)
(* health of a path stays within its states, scores and counts             *)
(* (health_monitor.py), the directives come of a mode the balancer knows   *)
(* (path_balancer.py), and the numbers of the tunnel stay within theirs.   *)
(***************************************************************************)
THEOREM EngineTypeCorrect == Spec => []TypeOK
<1>1. TunnelInv /\ Asking => TypeOK
  <2> SUFFICES ASSUME TunnelInv, Asking PROVE TypeOK OBVIOUS
  <2>1. /\ holder \in [Locks -> Threads \cup {Free}]
        /\ \A t \in Threads : \A i \in 1..Len(todo[t]) : todo[t][i] \in Instructions
    BY DEF TunnelInv, EngineInv, LockInv
  <2>2. /\ config \in [mode : Modes \cup {Defaults.mode}, trigger : Triggers \cup {Defaults.trigger},
                       weights : Weights \cup {Defaults.weights}]
        /\ health \in [Paths -> Health] /\ active \subseteq Paths
        /\ basis.mode \in SchedulerModes /\ running \subseteq Threads
    BY DEF TunnelInv, EngineInv, Shared, ConfigRecords
  <2>3. /\ seq \in 0..MaxSeq /\ connected \subseteq added /\ added \cup serving \subseteq Paths /\ buffer \subseteq 0..MaxSeq
        /\ expected \in Nat /\ \A p \in Paths : writing[p].seq \in -1..MaxSeq
    BY DEF TunnelInv, Streams
  <2> QED BY <2>1, <2>2, <2>3 DEF TypeOK, Asking
<1>2. Init => Asking BY DEF Init, EngineInit, Asking
<1> QED BY <1>1, <1>2, AskingKeeps, EngineInvariant, PTL DEF Spec

(***************************************************************************)
(* However many paths and threads there are, and whatever the API writes:  *)
(* threads that wait for each other, or one that waits for itself, have a  *)
(* listener among them.  The lock of ConfigStore, HealthMonitor,           *)
(* PathBalancer or MetricsCollector that a thread holds outside a listener *)
(* comes after the one it waits for, in an order that has no cycle.        *)
(***************************************************************************)
THEOREM LocksInOrder == Spec => []StuckOnlyInListeners
<1>1. TunnelInv => StuckOnlyInListeners BY OnlyInListeners DEF TunnelInv, EngineInv
<1> QED BY <1>1, EngineInvariant, PTL

(***************************************************************************)
(* Whatever values the API writes, malformed ones among them: when nobody  *)
(* holds the lock of ConfigStore, and what it has is something that a      *)
(* rebalance does not raise with, the directives of PathBalancer were      *)
(* computed from the mode, the threshold and the weights it has.  They are *)
(* read one after the other while others may write, and rebalances of      *)
(* malformed values fail; but a set holds the lock until its own rebalance *)
(* is through, or has failed.                                              *)
(***************************************************************************)
THEOREM DirectivesFollowConfig == Spec => []DirectivesFollow
<1>1. TunnelInv => DirectivesFollow
  <2> SUFFICES ASSUME TunnelInv, holder["config"] = Free, Schedulable(config), ~unannounced
               PROVE  basis = config
    BY DEF DirectivesFollow
  <2>1. basis = config \/ Telling(todo[Loop]) BY DEF TunnelInv, EngineInv, Rebalanced, Followed
  <2>2. ASSUME Telling(todo[Loop]) PROVE FALSE
    <3>1. Holds(Loop, todo[Loop], "config") BY <2>2, TellingHolds DEF Holds
    <3>2. holder["config"] = Loop BY <3>1, TheThreads DEF TunnelInv, EngineInv, LockInv, Locks
    <3> QED BY <3>2, TheThreads, ThreadsAssumption
  <2> QED BY <2>1, <2>2
<1> QED BY <1>1, EngineInvariant, PTL

(***************************************************************************)
(* The TUN device gets the numbers 0, 1, 2... and each of them once, with  *)
(* any number of paths and handlers, unless a second copy of a packet      *)
(* comes while the first is being written (tunnel_server.py:203-205).      *)
(***************************************************************************)
THEOREM InTurnOnce == Spec => []InTurnUnlessDoubled
<1>1. TunnelInv => InTurnUnlessDoubled BY DEF TunnelInv, Order, InTurnUnlessDoubled
<1> QED BY <1>1, EngineInvariant, PTL
-----------------------------------------------------------------------------
(* What the server holds, as OrderedDelivery sees it. *)

\* An instruction to write is the last that the loop has, but for one lock
\* that is taken before it.
WriteLast(s) ==
  \E p \in Paths, n \in 0..MaxSeq :
    s = <<<<"write", p, n>>>> \/ s = <<<<"touch", "balancer">>, <<"write", p, n>>>>

Paired == \A n : Writes(todo[Loop], n) => WriteLast(todo[Loop])

SameWrites == \A n : Writes(todo'[Loop], n) <=> Writes(todo[Loop], n)

\* Nothing is left out in front of an instruction that does something.
LEMMA RestAll ==
  ASSUME NEW s \in Seq(Instructions), s # <<>>, s[1][1] \notin Gives
  PROVE  Rest(s) = s
<1>1. PICK n \in 0..Len(s) : Len(Leaving(s)) = n /\ \A k \in 1..n : s[k][1] \in Gives
  BY LeavingIs
<1>2. n = 0 BY <1>1
<1>3. Rest(s) = SubSeq(s, 1, Len(s)) BY <1>1, <1>2 DEF Rest
<1>4. /\ SubSeq(s, 1, Len(s)) \in Seq(Instructions) /\ Len(SubSeq(s, 1, Len(s))) = Len(s)
      /\ \A k \in 1..Len(s) : SubSeq(s, 1, Len(s))[k] = s[k]
  BY SubSeqProperties
<1> QED BY <1>3, <1>4, SeqEqual

LEMMA TouchThenWrite ==
  ASSUME LockInv, NEW p \in Paths, NEW n \in 0..MaxSeq,
         todo[Loop] = <<<<"touch", "balancer">>, <<"write", p, n>>>>, Continue(Loop, <<>>)
  PROVE  todo'[Loop] = <<<<"write", p, n>>>>
<1> DEFINE w == <<<<"write", p, n>>>>
<1>1. /\ Tail(<<<<"touch", "balancer">>, <<"write", p, n>>>>) = w
      /\ <<"write", p, n>> \in Instructions /\ <<"write", p, n>>[1] = "write"
  <2>1. \A a, b : Tail(<<a, b>>) = <<b>> OBVIOUS
  <2> QED BY <2>1, AreInstructions
<1>2. /\ Tail(todo[Loop]) = w
      /\ w \in Seq(Instructions) /\ w # <<>> /\ w[1][1] = "write" /\ <<>> \o w = w
  BY <1>1
<1> HIDE DEF w
<1>3. Rest(w) = w BY <1>2, RestAll DEF Gives
<1>4. todo' = [todo EXCEPT ![Loop] = Rest(<<>> \o Tail(todo[Loop]))] BY TheThreads, ContinueIs DEF Continue
<1>5. todo'[Loop] = w BY <1>2, <1>3, <1>4, TheThreads DEF LockInv
<1> QED BY <1>5 DEF w

\* The engine neither loses nor invents a write.
LEMMA WritesStay ==
  ASSUME EngineInv, Paired, EngineNext
  PROVE  Paired' /\ SameWrites
<1>1. FewerWrites BY EngineKeeps
<1>2. CASE \A n : ~Writes(todo[Loop], n) BY <1>1, <1>2 DEF FewerWrites, Paired, SameWrites
<1>3. ASSUME NEW m, Writes(todo[Loop], m) PROVE Paired' /\ SameWrites
  <2>1. PICK p \in Paths, n \in 0..MaxSeq :
          \/ todo[Loop] = <<<<"write", p, n>>>>
          \/ todo[Loop] = <<<<"touch", "balancer">>, <<"write", p, n>>>>
    BY <1>3 DEF Paired, WriteLast
  <2>2. ~Idle(Loop) /\ Head(todo[Loop])[1] \in {"touch", "write"}
    <3>1. /\ <<<<"write", p, n>>>> # <<>> /\ Head(<<<<"write", p, n>>>>)[1] = "write"
          /\ <<<<"touch", "balancer">>, <<"write", p, n>>>> # <<>>
          /\ Head(<<<<"touch", "balancer">>, <<"write", p, n>>>>)[1] = "touch"
      OBVIOUS
    <3>2. todo[Loop] # <<>> /\ Head(todo[Loop])[1] \in {"touch", "write"} BY <2>1, <3>1
    <3> QED BY <3>2 DEF Idle
  <2>3. CASE todo'[Loop] = todo[Loop] BY <2>3 DEF Paired, SameWrites
  <2>4. ASSUME Touch(Loop) PROVE Paired' /\ SameWrites
    <3>1. Head(todo[Loop])[1] = "touch" /\ Continue(Loop, <<>>) BY <2>4 DEF Touch, At
    <3>2. todo[Loop] = <<<<"touch", "balancer">>, <<"write", p, n>>>> BY <2>1, <3>1
    <3>3. todo'[Loop] = <<<<"write", p, n>>>> BY <3>1, <3>2, TouchThenWrite DEF EngineInv
    <3>4. WriteLast(todo'[Loop]) BY <3>3 DEF WriteLast
    <3>5. \A k : Writes(todo'[Loop], k) <=> k = n BY <3>3 DEF Writes
    <3>6. \A k : Writes(todo[Loop], k) <=> k = n BY <3>2 DEF Writes
    <3> QED BY <3>4, <3>5, <3>6 DEF Paired, SameWrites
  <2>5. ASSUME NEW t \in Threads, Execute(t) PROVE (t # Loop /\ todo'[Loop] = todo[Loop]) \/ Touch(Loop)
    <3>1. CASE t = Loop
      <4>1. \A op \in {"take", "probe", "register", "scores", "sched", "failover", "states", "internals",
                    "set", "reset"} :
              ~At(Loop, op)
        BY <2>2 DEF At
      <4> QED BY <2>5, <3>1, <4>1
          DEF Execute, Take, Probe, Register, ReadScores, ReadScheduling, ReadFailover, Schedule, ScheduleAdaptive, Set,
              Reset
    <3>2. CASE t # Loop
      <4>1. \A h, q : ContinueHolding(t, h, q) => \E r : todo' = [todo EXCEPT ![t] = r]
        BY DEF ContinueHolding
      <4>2. \A l : Raise(t, l) => \E r : todo' = [todo EXCEPT ![t] = r] BY DEF Raise
      <4>3. (\E l : Raise(t, l)) \/ \E h, q : ContinueHolding(t, h, q)
        BY <2>5 DEF Execute, Take, Touch, Probe, Register, ReadScores, ReadScheduling, ReadFailover, Schedule,
             ScheduleAdaptive, Direct, Set, Reset, Continue
      <4>4. \E q : todo' = [todo EXCEPT ![t] = q] BY <4>1, <4>2, <4>3
      <4> QED BY <3>2, <4>4, TheThreads DEF EngineInv, LockInv
    <3> QED BY <3>1, <3>2
  <2>6. ASSUME BalancerWakes \/ CollectorWakes \/ \E r \in Paths : ProbeReturns(r)
        PROVE  todo'[Loop] = todo[Loop]
    <3>1. \E t \in Threads : \E q : Wake(t, q)
      BY <2>6, TheThreads DEF BalancerWakes, CollectorWakes, ProbeReturns
    <3>2. PICK t \in Threads : \E q : Wake(t, q) BY <3>1
    <3>3. PICK q : Wake(t, q) BY <3>2
    <3>4. t # Loop /\ todo' = [todo EXCEPT ![t] = Tail(q)] BY <2>2, <3>3 DEF Wake
    <3> QED BY <3>4, TheThreads DEF EngineInv, LockInv
  <2>7. ~(ApiCall \/ OptimizerAsks \/ OptimizerForced \/ OptimizerAnswered)
    BY <2>2 DEF ApiCall, OptimizerAsks, OptimizerForced, OptimizerAnswered, Begin
  <2> QED BY <2>3, <2>4, <2>5, <2>6, <2>7 DEF EngineNext
<1> QED BY <1>2, <1>3

LEMMA WritesOf ==
  ASSUME NEW q \in Seq(Instructions)
  PROVE  {q[i][3] : i \in {j \in 1..Len(q) : q[j][1] = "write"}} = {n \in 0..MaxSeq : Writes(q, n)}
<1>1. \A i \in 1..Len(q) : q[i] \in Instructions OBVIOUS
<1>2. \A i \in 1..Len(q) : q[i][1] = "write" => q[i][3] \in 0..MaxSeq BY <1>1, Kinds DEF Plain
<1> QED BY <1>2 DEF Writes

\* The numbers whose write is under way.
UnderWay == {writing[p].seq : p \in {q \in Paths : ~writing[q].done}}

LEMMA InHandIs ==
  ASSUME LockInv
  PROVE  InHand = {n \in buffer : n >= Len(written)} \cup {n \in 0..MaxSeq : Writes(todo[Loop], n)} \cup UnderWay
<1>1. todo[Loop] \in Seq(Instructions) BY TheThreads DEF LockInv
<1> QED BY <1>1, WritesOf DEF InHand, UnderWay

LEMMA InHandNext ==
  ASSUME LockInv'
  PROVE  InHand' = {n \in buffer' : n >= Len(written')} \cup {n \in 0..MaxSeq : Writes(todo'[Loop], n)} \cup UnderWay'
<1>1. todo'[Loop] \in Seq(Instructions) BY TheThreads DEF LockInv
<1> QED BY <1>1, WritesOf DEF InHand, UnderWay

\* No step changes what is held in hand that leaves the buffer, the writes and
\* the TUN alone.
LEMMA InHandSame ==
  ASSUME LockInv, LockInv', SameWrites, UNCHANGED <<buffer, written, UnderWay>>
  PROVE  UNCHANGED OD!vars
<1>1. {n \in 0..MaxSeq : Writes(todo[Loop], n)} = {n \in 0..MaxSeq : Writes(todo'[Loop], n)}
  BY DEF SameWrites
<1>2. InHand' = InHand BY <1>1, InHandIs, InHandNext
<1> QED BY <1>2 DEF OD!vars

\* An undone write is awaited.
LEMMA Undone ==
  ASSUME TunnelInv
  PROVE  \A p \in Paths : ~writing[p].done => Awaits(p)
BY DEF TunnelInv, Streams, Awaits, NotWriting

\* Unless a copy came in between, what is held is at the frontier or above.
LEMMA InHandAbove ==
  ASSUME TunnelInv, ~doubled
  PROVE  /\ Len(written) \in Nat /\ InHand \subseteq 0..MaxSeq
         /\ \A n \in InHand : n >= Len(written)
         /\ \A n : Writes(todo[Loop], n) => n = Len(written)
         /\ \A p \in Paths : ~writing[p].done => writing[p].seq = Len(written)
<1>1. /\ Len(written) \in Nat /\ buffer \subseteq 0..MaxSeq
      /\ \A p \in Paths : writing[p].seq \in -1..MaxSeq
  BY DEF TunnelInv, Streams
<1>2. \A n : Writes(todo[Loop], n) => n = Len(written) BY DEF TunnelInv, Order
<1>3. ASSUME NEW p \in Paths, ~writing[p].done PROVE writing[p].seq = Len(written)
  <2>1. Awaits(p) BY <1>3, Undone
  <2>2. \A q \in Paths : Awaits(q) => q = p BY <2>1 DEF TunnelInv, Order
  <2> QED BY <1>3, <2>1, <2>2 DEF TunnelInv, Order
<1>4. UnderWay \subseteq {Len(written)} BY <1>3 DEF UnderWay
<1>5. \A p \in Paths : ~writing[p].done => writing[p].seq \in 0..MaxSeq
  BY <1>1, <1>3
<1>6. UnderWay \subseteq 0..MaxSeq BY <1>5 DEF UnderWay
<1>7. InHand = {n \in buffer : n >= Len(written)} \cup {n \in 0..MaxSeq : Writes(todo[Loop], n)} \cup UnderWay
  BY InHandIs DEF TunnelInv, EngineInv
<1>8. InHand \subseteq 0..MaxSeq BY <1>1, <1>6, <1>7
<1>9. \A n \in InHand : n >= Len(written) BY <1>1, <1>2, <1>4, <1>7
<1> QED BY <1>1, <1>2, <1>3, <1>8, <1>9

\* Nothing comes out: the frontier stays.
LEMMA FrontierStays ==
  ASSUME TunnelInv, ~doubled, UNCHANGED written, NEW held, InHand' = held,
         \A n \in held : n >= Len(written)
  PROVE  OD!Advance(held)
<1>1. written \in Seq(-1..MaxSeq) /\ Len(written) \in Nat BY DEF TunnelInv, Streams
<1>2. OD!Appended = <<>>
  <2>1. SubSeq(written, Len(written) + 1, Len(written)) = <<>> BY <1>1
  <2> QED BY <2>1 DEF OD!Appended
<1>3. written = written \o <<>> BY <1>1, ConcatEmptySeq
<1>4. OD!Ascending(<<>>) BY DEF OD!Ascending
<1> QED BY <1>1, <1>2, <1>3, <1>4 DEF OD!Advance

-----------------------------------------------------------------------------
(* Each step takes a packet in, gives one out, or changes nothing of this. *)

Promised == OD!Next \/ doubled' \/ UNCHANGED OD!vars

LEMMA NoWrites ==
  ASSUME \A n : ~Writes(todo[Loop], n), \A n : ~Writes(todo'[Loop], n)
  PROVE  Paired' /\ SameWrites
BY DEF Paired, SameWrites

LEMMA BeginHands ==
  ASSUME LockInv, NEW s, Start(Loop, s), Begin(Loop, s)
  PROVE  Paired' /\ SameWrites
<1>1. todo[Loop] = <<>> /\ todo'[Loop] = s BY TheThreads DEF Begin, Idle, LockInv
<1>2. (\A n : ~Writes(<<>>, n)) /\ (\A n : ~Writes(s, n)) BY DEF Writes, Start
<1> QED BY <1>1, <1>2, NoWrites

LEMMA EngineHands ==
  ASSUME TunnelInv, TunnelInv', Paired, EngineNext, UNCHANGED tunnelVars
  PROVE  Paired' /\ Promised
<1>1. Paired' /\ SameWrites BY WritesStay DEF TunnelInv
<1>2. UNCHANGED <<buffer, written, UnderWay>> BY DEF tunnelVars, UnderWay
<1> QED BY <1>1, <1>2, InHandSame DEF TunnelInv, EngineInv, Promised

LEMMA ClientHands ==
  ASSUME TunnelInv, TunnelInv', Paired,
         ClientRestart \/ \E p \in Paths : Connect(p) \/ Send(p) \/ Break(p) \/ Receive(p)
  PROVE  Paired' /\ Promised
<1>1. UNCHANGED <<buffer, written, UnderWay>>
  BY DEF ClientRestart, Connect, Send, Break, Receive, UnderWay
<1>2. Paired' /\ SameWrites
  <2>1. CASE ClientRestart BY <2>1 DEF ClientRestart, Paired, SameWrites
  <2>2. ASSUME NEW p \in Paths, Send(p) \/ Break(p) PROVE Paired' /\ SameWrites
    BY <2>2 DEF Send, Break, Paired, SameWrites
  <2>3. ASSUME NEW p \in Paths, Connect(p) PROVE Paired' /\ SameWrites
    BY <2>3, LoopStarts, BeginHands DEF Connect, TunnelInv, EngineInv
  <2>4. ASSUME NEW p \in Paths, Receive(p) PROVE Paired' /\ SameWrites
    <3>1. stream[p] \in Seq(0..MaxSeq) /\ stream[p] # <<>> BY <2>4 DEF Receive, TunnelInv, Streams
    <3>2. Head(stream[p]) \in 0..MaxSeq BY <3>1, HeadTailProperties
    <3>3. Start(Loop, RecordProbe(p, TRUE) \o <<<<"arrive", p, Head(stream[p])>>>>) BY <3>2, LoopStarts
    <3>4. Begin(Loop, RecordProbe(p, TRUE) \o <<<<"arrive", p, Head(stream[p])>>>>) BY <2>4 DEF Receive
    <3> QED BY <3>3, <3>4, BeginHands DEF TunnelInv, EngineInv
  <2> QED BY <2>1, <2>2, <2>3, <2>4
<1> QED BY <1>1, <1>2, InHandSame DEF TunnelInv, EngineInv, Promised

LEMMA ArriveHands ==
  ASSUME TunnelInv, TunnelInv', Paired, Arrive
  PROVE  Paired' /\ Promised
<1> DEFINE p == todo[Loop][1][2]
           m == todo[Loop][1][3]
           s == <<<<"deliver", p>>>>
<1>1. /\ Head(todo[Loop]) = todo[Loop][1] /\ todo[Loop][1] \in Instructions /\ todo[Loop][1][1] = "arrive"
      /\ At(Loop, "arrive") /\ \A n : ~Writes(todo[Loop], n)
  BY Alone DEF Arrive, TunnelInv, EngineInv, Last
<1>2. p \in Paths /\ m \in 0..MaxSeq BY <1>1, Kinds DEF Plain
<1>3. /\ buffer' = buffer \cup {m} /\ doubled' = (doubled \/ \E q \in Paths : writing[q].seq = m)
      /\ Continue(Loop, s) /\ UNCHANGED storeVars /\ UNCHANGED <<writing, written>>
  BY <1>1 DEF Arrive, engineVars
<1>4. Start(Loop, s) BY <1>2, LoopStarts
<1> HIDE DEF p, m, s
<1>5. \A n : ~Writes(todo'[Loop], n)
  <2>1. \A n : Writes(todo'[Loop], n) => Writes(s, n)
    BY <1>1, <1>3, <1>4, AlonePuts DEF TunnelInv, Start, Last
  <2> QED BY <1>4, <2>1 DEF Start
<1>6. Paired' /\ SameWrites BY <1>1, <1>5, NoWrites
<1>7. SUFFICES ASSUME ~doubled' PROVE Promised BY <1>6 DEF Promised
<1>8. ~doubled BY <1>3, <1>7
<1>9. /\ InHand = {n \in buffer : n >= Len(written)} \cup {n \in 0..MaxSeq : Writes(todo[Loop], n)} \cup UnderWay
      /\ InHand' = {n \in buffer' : n >= Len(written')} \cup {n \in 0..MaxSeq : Writes(todo'[Loop], n)} \cup UnderWay'
      /\ UNCHANGED UnderWay
  BY <1>3, InHandIs, InHandNext DEF TunnelInv, EngineInv, UnderWay
<1>10. InHand' = InHand \cup {n \in {m} : n >= Len(written)} BY <1>3, <1>6, <1>9 DEF SameWrites
<1>11. CASE m < Len(written) \/ m \in InHand
  <2>1. Len(written) \in Nat /\ m \in Nat BY <1>2, <1>8, InHandAbove
  <2>2. InHand' = InHand BY <1>10, <1>11, <2>1
  <2> QED BY <1>3, <2>2 DEF Promised, OD!vars
<1>12. CASE m >= Len(written) /\ m \notin InHand
  <2>1. InHand' = InHand \cup {m} /\ \A n \in InHand \cup {m} : n >= Len(written)
    BY <1>8, <1>10, <1>12, InHandAbove
  <2>2. OD!Advance(InHand \cup {m}) BY <1>3, <1>8, <2>1, FrontierStays
  <2>3. OD!Receive(m) BY <1>12, <2>2 DEF OD!Receive
  <2> QED BY <1>2, <2>3 DEF Promised, OD!Next
<1>13. Len(written) \in Nat /\ m \in Nat BY <1>2, <1>8, InHandAbove
<1> QED BY <1>11, <1>12, <1>13

LEMMA DeliverHands ==
  ASSUME TunnelInv, TunnelInv', Paired, Deliver
  PROVE  Paired' /\ Promised
<1> DEFINE p == todo[Loop][1][2]
<1>1. /\ Head(todo[Loop]) = todo[Loop][1] /\ todo[Loop][1] \in Instructions /\ todo[Loop][1][1] = "deliver"
      /\ At(Loop, "deliver") /\ Len(todo[Loop]) = 1 /\ \A n : ~Writes(todo[Loop], n)
  BY Alone DEF Deliver, TunnelInv, EngineInv, Last
<1>2. p \in Paths BY <1>1, Kinds DEF Plain
<1>3. /\ UNCHANGED storeVars /\ UNCHANGED <<expected, writing, written, doubled>>
      /\ \/ InTurn = {} /\ Continue(Loop, <<>>) /\ UNCHANGED buffer
         \/ \E n \in InTurn : /\ buffer' = buffer \ {n}
                              /\ Continue(Loop, <<<<"touch", "balancer">>, <<"write", p, n>>>>)
  BY <1>1 DEF Deliver, engineVars
<1> HIDE DEF p
<1>4. UNCHANGED UnderWay BY <1>3 DEF UnderWay
<1>5. CASE Continue(Loop, <<>>) /\ UNCHANGED buffer
  <2>1. todo'[Loop] = <<>> BY <1>1, <1>3, <1>5, AloneEnds DEF TunnelInv, Last
  <2>2. Paired' /\ SameWrites BY <1>1, <2>1, NoWrites DEF Writes
  <2> QED BY <1>3, <1>4, <1>5, <2>2, InHandSame DEF TunnelInv, EngineInv, Promised
<1>6. ASSUME NEW n \in InTurn, buffer' = buffer \ {n},
             Continue(Loop, <<<<"touch", "balancer">>, <<"write", p, n>>>>)
      PROVE  Paired' /\ Promised
  <2> DEFINE s == <<<<"touch", "balancer">>, <<"write", p, n>>>>
  <2>1. n \in buffer /\ n = expected BY DEF InTurn
  <2>2. n \in 0..MaxSeq BY <2>1 DEF TunnelInv, Streams
  <2>3. s \in Seq(Instructions) /\ s # <<>> /\ s[1][1] \notin Gives
    <3>1. Program(Loop, s) /\ s # <<>> BY <1>2, <2>2, DeliverPuts
    <3> QED BY <3>1 DEF Program, Gives
  <2>4. todo'[Loop] = s
    <3>1. todo[Loop] \in Seq(Instructions) /\ Len(todo[Loop]) = 1 BY <1>1, TheThreads DEF TunnelInv, EngineInv, LockInv
    <3>2. Tail(todo[Loop]) = <<>>
      <4>1. Len(Tail(todo[Loop])) = 0 /\ Tail(todo[Loop]) \in Seq(Instructions) BY <3>1, HeadTailProperties
      <4> QED BY <4>1, EmptySeq
    <3> HIDE DEF s
    <3>3. s \o Tail(todo[Loop]) = s BY <2>3, <3>2, ConcatEmptySeq
    <3>4. Continue(Loop, s) BY <1>6 DEF s
    <3>5. todo' = [todo EXCEPT ![Loop] = Rest(s)] BY <3>3, <3>4, TheThreads, ContinueIs DEF Continue
    <3> QED BY <2>3, <3>5, RestAll, TheThreads DEF TunnelInv, EngineInv, LockInv
  <2>5. WriteLast(todo'[Loop]) /\ \A k : Writes(todo'[Loop], k) <=> k = n
    BY <1>2, <2>2, <2>4 DEF WriteLast, Writes
  <2>6. Paired' BY <2>5 DEF Paired
  <2>7. SUFFICES ASSUME ~doubled' PROVE Promised BY <2>6 DEF Promised
  <2>8. n = Len(written)
    <3>1. \A q \in Paths : ~Awaits(q) BY <1>3, <2>1, <2>7 DEF TunnelInv, Order
    <3> QED BY <1>3, <2>1, <2>7, <3>1 DEF TunnelInv, Order
  <2>9. /\ InHand = {k \in buffer : k >= Len(written)} \cup {k \in 0..MaxSeq : Writes(todo[Loop], k)} \cup UnderWay
        /\ InHand' = {k \in buffer' : k >= Len(written')} \cup {k \in 0..MaxSeq : Writes(todo'[Loop], k)} \cup UnderWay'
    BY InHandIs, InHandNext DEF TunnelInv, EngineInv
  <2>10. {k \in 0..MaxSeq : Writes(todo[Loop], k)} = {} /\ {k \in 0..MaxSeq : Writes(todo'[Loop], k)} = {n}
    BY <1>1, <2>2, <2>5
  <2>11. {k \in buffer : k >= Len(written)} = {k \in buffer' : k >= Len(written')} \cup {n}
    BY <1>3, <1>6, <2>1, <2>2, <2>8
  <2>12. InHand' = InHand BY <1>4, <2>9, <2>10, <2>11
  <2> QED BY <1>3, <2>12 DEF Promised, OD!vars
<1> QED BY <1>3, <1>5, <1>6

LEMMA WriteHands ==
  ASSUME TunnelInv, TunnelInv', Paired, Write
  PROVE  Paired' /\ Promised
<1> DEFINE p == todo[Loop][1][2]
           m == todo[Loop][1][3]
<1>1. /\ Head(todo[Loop]) = todo[Loop][1] /\ todo[Loop][1] \in Instructions /\ todo[Loop][1][1] = "write"
      /\ At(Loop, "write") /\ Len(todo[Loop]) = 1
  BY Alone DEF Write, TunnelInv, EngineInv, Last
<1>2. p \in Paths /\ m \in 0..MaxSeq BY <1>1, Kinds DEF Plain
<1>3. /\ UNCHANGED storeVars /\ Continue(Loop, <<>>)
      /\ UNCHANGED <<buffer, expected, written, doubled>>
      /\ writing' = [writing EXCEPT ![p] = [seq |-> m, done |-> FALSE]]
  BY <1>1 DEF Write, engineVars
<1>4. \A k : Writes(todo[Loop], k) <=> k = m BY <1>1 DEF Writes
<1> HIDE DEF p, m
<1>5. todo'[Loop] = <<>> BY <1>1, <1>3, AloneEnds DEF TunnelInv, Last
<1>6. \A k : ~Writes(todo'[Loop], k) BY <1>5 DEF Writes
<1>7. Paired' BY <1>6 DEF Paired
<1>8. SUFFICES ASSUME ~doubled' PROVE Promised BY <1>7 DEF Promised
<1>9. \A q \in Paths : writing[q].done BY <1>3, <1>4, <1>8, Undone DEF TunnelInv, Order
<1>10. /\ writing'[p].seq = m /\ ~writing'[p].done /\ \A q \in Paths : q # p => writing'[q] = writing[q]
  BY <1>2, <1>3 DEF TunnelInv, Streams
<1>11. UnderWay = {} /\ UnderWay' = {m} BY <1>2, <1>9, <1>10 DEF UnderWay
<1>12. /\ InHand = {k \in buffer : k >= Len(written)} \cup {k \in 0..MaxSeq : Writes(todo[Loop], k)} \cup UnderWay
       /\ InHand' = {k \in buffer' : k >= Len(written')} \cup {k \in 0..MaxSeq : Writes(todo'[Loop], k)} \cup UnderWay'
  BY InHandIs, InHandNext DEF TunnelInv, EngineInv
<1>13. {k \in 0..MaxSeq : Writes(todo[Loop], k)} = {m} /\ {k \in 0..MaxSeq : Writes(todo'[Loop], k)} = {}
  BY <1>2, <1>4, <1>6
<1>14. InHand' = InHand BY <1>3, <1>11, <1>12, <1>13
<1> QED BY <1>3, <1>14 DEF Promised, OD!vars

LEMMA WrittenHands ==
  ASSUME TunnelInv, TunnelInv', Paired, NEW p \in Paths, Written(p)
  PROVE  Paired' /\ Promised
<1>1. /\ UNCHANGED <<todo, buffer, expected, doubled>>
      /\ ~writing[p].done /\ written' = Append(written, writing[p].seq)
      /\ writing' = [writing EXCEPT ![p].done = TRUE]
  BY DEF Written
<1>2. Paired' /\ SameWrites BY <1>1 DEF Paired, SameWrites
<1>3. SUFFICES ASSUME ~doubled PROVE OD!Advance(InHand) BY <1>1, <1>2 DEF Promised, OD!Next, OD!GiveUp
<1> DEFINE f == Len(written)
<1>4. /\ f \in Nat /\ writing[p].seq = f /\ InHand \subseteq 0..MaxSeq /\ \A n \in InHand : n >= f
  BY <1>1, <1>3, InHandAbove
<1>5. \A n : ~Writes(todo[Loop], n) BY <1>1, <1>3, Undone DEF TunnelInv, Order
<1>6. /\ written \in Seq(-1..MaxSeq) /\ writing[p].seq \in -1..MaxSeq
      /\ writing \in [Paths -> [seq : -1..MaxSeq, done : BOOLEAN]]
  BY DEF TunnelInv, Streams
<1>7. /\ written' \in Seq(-1..MaxSeq) /\ Len(written') = f + 1 /\ written'[f + 1] = f
      /\ written' = written \o <<f>>
  <2>1. Append(written, writing[p].seq) = written \o <<writing[p].seq>> BY <1>6, AppendIsConcat
  <2> QED BY <1>1, <1>4, <1>6, <2>1, AppendProperties
<1>8. OD!Appended = <<f>>
  <2> DEFINE q == SubSeq(written', f + 1, f + 1)
  <2>1. q \in Seq(-1..MaxSeq) /\ Len(q) = 1 /\ q[1] = f BY <1>4, <1>7, SubSeqProperties
  <2>2. <<f>> \in Seq(-1..MaxSeq) /\ Len(<<f>>) = 1 /\ <<f>>[1] = f BY <1>4, <1>6
  <2> HIDE DEF f, q
  <2>3. \A i \in 1..Len(q) : q[i] = <<f>>[i] BY <2>1, <2>2
  <2>4. q = <<f>> BY <2>1, <2>2, <2>3, SeqEqual
  <2> QED BY <1>7, <2>4 DEF OD!Appended, f, q
<1>9. UnderWay = {f} /\ UnderWay' = {}
  <2>1. \A q \in Paths : ~writing[q].done => writing[q].seq = f /\ q = p
    BY <1>1, <1>3, InHandAbove, Undone DEF TunnelInv, Order
  <2>2. writing'[p].done /\ \A q \in Paths : q # p => writing'[q] = writing[q] BY <1>1, <1>6
  <2> QED BY <1>1, <1>4, <2>1, <2>2 DEF UnderWay
<1>10. /\ InHand = {n \in buffer : n >= f} \cup {n \in 0..MaxSeq : Writes(todo[Loop], n)} \cup UnderWay
       /\ InHand' = {n \in buffer' : n >= Len(written')} \cup {n \in 0..MaxSeq : Writes(todo'[Loop], n)} \cup UnderWay'
  BY InHandIs, InHandNext DEF TunnelInv, EngineInv
<1>11. buffer \subseteq 0..MaxSeq /\ f \notin buffer
  <2>1. Awaits(p) BY <1>1, Undone
  <2>2. writing[p].seq = expected /\ expected \notin buffer BY <1>3, <2>1 DEF TunnelInv, Order
  <2> QED BY <1>4, <2>2 DEF TunnelInv, Streams
<1>12. InHand = {n \in buffer : n >= f + 1} \cup {f}
  <2>1. \A n \in buffer : n >= f <=> n >= f + 1
    <3>1. \A n \in buffer : n \in Nat /\ n # f BY <1>11
    <3> HIDE DEF f
    <3> QED BY <1>4, <3>1
  <2> QED BY <1>5, <1>9, <1>10, <2>1
<1>13. InHand' = {n \in buffer : n >= f + 1} BY <1>1, <1>5, <1>7, <1>9, <1>10
<1>14. InHand' = {n \in InHand : n >= Len(written')} /\ InHand \ InHand' = {f}
  BY <1>4, <1>7, <1>11, <1>12, <1>13
<1>15. OD!Ascending(<<f>>) /\ {<<f>>[i] : i \in 1..Len(<<f>>)} = {f} BY DEF OD!Ascending
<1> HIDE DEF f
<1>16. Len(written') \in Nat /\ Len(written') >= f BY <1>4, <1>7
<1> QED BY <1>7, <1>8, <1>14, <1>15, <1>16 DEF OD!Advance, f

LEMMA ResumeHands ==
  ASSUME TunnelInv, TunnelInv', Paired, NEW p \in Paths, Resume(p)
  PROVE  Paired' /\ Promised
<1>1. /\ UNCHANGED <<buffer, written>> /\ writing[p].done /\ Begin(Loop, <<<<"deliver", p>>>>)
      /\ writing' = [writing EXCEPT ![p] = NotWriting]
  BY DEF Resume
<1>2. Paired' /\ SameWrites BY <1>1, LoopStarts, BeginHands DEF TunnelInv, EngineInv
<1>3. writing'[p].done /\ \A q \in Paths : q # p => writing'[q] = writing[q]
  BY <1>1 DEF TunnelInv, Streams, NotWriting
<1>4. UNCHANGED UnderWay BY <1>1, <1>3 DEF UnderWay
<1> QED BY <1>1, <1>2, <1>4, InHandSame DEF TunnelInv, EngineInv, Promised

(***************************************************************************)
(* The server of src/engine keeps the promise of OrderedDelivery with any  *)
(* paths, threads and bounds, until a copy of a packet comes during its    *)
(* write (tunnel_server.py:198-205): a packet that arrives is taken in if  *)
(* the TUN has not had it, is held, popped or not, through whatever the    *)
(* threads do, and is given out when all below it have been.               *)
(***************************************************************************)
THEOREM OrderedDelivered == Spec => OrderedUntilDoubled
<1>1. Init => OD!Init /\ Paired
  <2> SUFFICES ASSUME Init PROVE OD!Init /\ Paired OBVIOUS
  <2>1. /\ buffer = {} /\ writing = [p \in Paths |-> NotWriting] /\ written = <<>> /\ todo[Loop] = <<>>
    BY TheThreads DEF Init, EngineInit, ThreadsInit
  <2>2. InHand = {}
    <3>1. {p \in Paths : ~writing[p].done} = {} BY <2>1 DEF NotWriting
    <3> QED BY <2>1, <3>1 DEF InHand
  <2> QED BY <2>1, <2>2 DEF OD!Init, Paired, Writes
<1>2. TunnelInv /\ TunnelInv' /\ Paired /\ [Next]_vars => Paired' /\ [OD!Next \/ doubled']_OD!vars
  <2> SUFFICES ASSUME TunnelInv, TunnelInv', Paired, [Next]_vars PROVE Paired' /\ Promised BY DEF Promised
  <2>1. CASE EngineNext /\ serving' = serving \ Failed /\ UNCHANGED tunnelVars BY <2>1, EngineHands
  <2>2. CASE TunnelNext
    BY <2>2, ClientHands, ArriveHands, DeliverHands, WriteHands, WrittenHands, ResumeHands DEF TunnelNext
  <2>3. CASE UNCHANGED vars
    <3>1. Paired' /\ SameWrites BY <2>3 DEF vars, Paired, SameWrites
    <3>2. UNCHANGED <<buffer, written, UnderWay>> BY <2>3 DEF vars, tunnelVars, UnderWay
    <3> QED BY <3>1, <3>2, InHandSame DEF TunnelInv, EngineInv, Promised
  <2> QED BY <2>1, <2>2, <2>3 DEF Next
<1> QED BY <1>1, <1>2, EngineInvariant, PTL DEF Spec, OrderedUntilDoubled
=============================================================================
