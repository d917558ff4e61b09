-------------------------- MODULE ClientPaths_proofs --------------------------
(***************************************************************************)
(* Proofs about the paths of a tunnel client, for every set of paths,      *)
(* ports and addresses, any limit of failures and any number of faults and *)
(* datagrams; and, at the end, about the regulation of the traffic on them *)
(* (an instance of ClientControl).                                         *)
(***************************************************************************)
EXTENDS ClientPaths, FiniteSetTheorems, WellFoundedInduction, TLAPS

-----------------------------------------------------------------------------
(* Facts about the operators. *)

\* What the monitor records of a path stays within its count.
LEMMA RecordedType ==
  ASSUME NEW f \in [Paths -> 0..Dead], NEW S
  PROVE  RecordLosses(f, S) \in [Paths -> 0..Dead]
<1> Dead \in Nat \ {0}
  BY SchedulerAssumption
<1>1. \A q \in Paths : f[q] < Dead => f[q] + 1 \in 0..Dead
  OBVIOUS
<1>2. QED
  BY <1>1 DEF RecordLosses

LEMMA MonitorType ==
  ASSUME NEW f \in [Paths -> 0..Dead], NEW p \in Paths
  PROVE  RecordRtt(f, p) \in [Paths -> 0..Dead] /\ RecordLosses(f, {p}) \in [Paths -> 0..Dead]
<1>1. RecordRtt(f, p) \in [Paths -> 0..Dead]
  BY SchedulerAssumption DEF RecordRtt
<1>2. QED
  BY <1>1, RecordedType

\* A loss revives no path.
LEMMA LossesOnlyKill ==
  ASSUME NEW f \in [Paths -> 0..Dead], NEW S
  PROVE  Alive(RecordLosses(f, S)) \subseteq Alive(f)
  BY SchedulerAssumption DEF Alive, RecordLosses

\* A packet is scheduled on alive paths only, in every mode and tier.
LEMMA ScheduledAlive ==
  ASSUME NEW mode, NEW tier, NEW A, NEW prob, NEW S \in Schedule(mode, tier, A, prob)
  PROVE  S \subseteq A
<1>1. \A T \in OneOf(A) : T \subseteq A
  BY DEF OneOf
<1>2. \A T \in ScheduleAi(tier, A, prob) : T \subseteq A
  <2>1. SUFFICES ASSUME NEW T \in ScheduleAi(tier, A, prob)
                 PROVE  T \subseteq A
    OBVIOUS
  <2>2. CASE tier = "realtime" \/ Cardinality(A) = 1
    BY <2>1, <2>2 DEF ScheduleAi
  <2>3. CASE ~(tier = "realtime" \/ Cardinality(A) = 1)
    <3>1. PICK l \in Leaders(A, prob) : T \in Spread(A, prob, l[1], l[2])
      BY <2>1, <2>3 DEF ScheduleAi
    <3>2. l[1] \in A /\ l[2] \in A
      BY DEF Leaders
    <3>3. T \in {{l[1]}} \cup {{l[1], l[2]}} \cup OneOf(A) \cup {A}
      BY <3>1 DEF Spread
    <3>4. QED
      BY <1>1, <3>2, <3>3
  <2>4. QED
    BY <2>2, <2>3
<1>3. CASE A = {}
  BY <1>3 DEF Schedule
<1>4. CASE A # {} /\ mode = "ai"
  <2>1. S \in ScheduleAi(tier, A, prob)
    BY <1>4 DEF Schedule
  <2>2. QED
    BY <1>2, <2>1
<1>5. CASE A # {} /\ mode # "ai"
  <2>1. S \in {A} \cup OneOf(A)
    BY <1>5 DEF Schedule
  <2>2. QED
    BY <1>1, <2>1
<1>6. QED
  BY <1>3, <1>4, <1>5

LEMMA DecidedAlive ==
  ASSUME NEW A \in SUBSET Paths, NEW S \in Decisions[A]
  PROVE  S \subseteq A
<1>1. PICK mode \in Modes, tier \in Tiers, prob \in Predictions(A) : S \in Schedule(mode, tier, A, prob)
  BY DEF Decisions
<1>2. QED
  BY <1>1, ScheduledAlive

-----------------------------------------------------------------------------
(***************************************************************************)
(* The inductive invariant.  What the scheduler holds alive and what the   *)
(* monitor holds alive both have been alive lately: the copy while it is   *)
(* fresh, the monitor always, because the history only loses paths when    *)
(* the copy ages, and then to what the monitor says.                       *)
(***************************************************************************)

CopyIsRecent    == fresh => alive \subseteq recent
MonitorIsRecent == Alive(fails) \subseteq recent

IInv == TypeOK /\ CopyIsRecent /\ MonitorIsRecent /\ OnlyFreshlyAlive

LEMMA InitInv == Init => IInv
<1> SUFFICES ASSUME Init PROVE IInv
  OBVIOUS
<1>1. fails \in [Paths -> 0..Dead]
  BY SchedulerAssumption DEF Init, NewMonitor
<1>2. sessions \in [Ips -> [Paths -> Ports \cup {SS!NoPort}]]
  BY DEF Init, SS!NewSessions
<1>3. TypeOK
  <2>1. link \in [Paths -> {"up", "silent", "refuses"}] /\ port \in [Paths -> Ports]
    BY PathsAssumption DEF Init
  <2>2. faults \in 0..MaxFaults /\ attempt \in 0..MaxRetries
    BY PathsAssumption DEF Init
  <2>3. net \subseteq Datagrams /\ phase \in {"handshake", "running"} /\ fresh \in BOOLEAN
    BY Zenon DEF Init
  <2>4. /\ alive \subseteq Paths /\ recent \subseteq Paths /\ assigned \subseteq Paths
        /\ known \subseteq Ips \X Ports /\ active \subseteq Ips
    BY DEF Init
  <2>5. QED
    BY <1>1, <1>2, <2>1, <2>2, <2>3, <2>4, Zenon DEF TypeOK
<1>4. CopyIsRecent /\ MonitorIsRecent /\ OnlyFreshlyAlive
  BY DEF Init, CopyIsRecent, MonitorIsRecent, OnlyFreshlyAlive, Alive
<1>5. QED
  BY <1>3, <1>4 DEF IInv

\* A probe sent on some paths is a datagram.
LEMMA ProbesType ==
  ASSUME TypeOK, NEW kind \in {"handshake", "keepalive"}, SendProbes(kind)
  PROVE  net' \subseteq Datagrams
<1>1. PICK S \in SUBSET Up :
        net' = net \cup {[kind |-> kind, to |-> "server", path |-> p, port |-> port[p]] : p \in S}
  BY DEF SendProbes
<1>2. \A p \in S : [kind |-> kind, to |-> "server", path |-> p, port |-> port[p]] \in Datagrams
  BY DEF TypeOK, Up, Datagrams
<1>3. QED
  BY <1>1, <1>2 DEF TypeOK

\* The server's table stays well typed, from whichever path a datagram comes.
LEMMA SessionsType ==
  ASSUME TypeOK, NEW p \in Paths, NEW q \in Paths, NEW n \in Ports
  PROVE  /\ SS!AddressOnData(known, sessions, p, <<Ip[q], n>>) \in [Ips -> [Paths -> Ports \cup {SS!NoPort}]]
         /\ SS!AddressOnProbe(known, sessions, p, <<Ip[q], n>>) \in [Ips -> [Paths -> Ports \cup {SS!NoPort}]]
<1>1. Ip[q] \in Ips
  BY DEF Ips
<1>2. SS!SetAddress(sessions, p, <<Ip[q], n>>) \in [Ips -> [Paths -> Ports \cup {SS!NoPort}]]
  BY <1>1 DEF TypeOK, SS!SetAddress
<1>3. QED
  BY <1>2 DEF TypeOK, SS!AddressOnData, SS!AddressOnProbe

LEMMA RefreshKeeps ==
  ASSUME IInv, Refresh, UNCHANGED recent
  PROVE  alive' \subseteq Paths /\ fresh' \in BOOLEAN /\ alive' \subseteq recent'
  BY DEF IInv, Refresh, MonitorIsRecent, Alive

LEMMA DataType ==
  ASSUME TypeOK, NEW S \in SUBSET Paths, DataArrives(S)
  PROVE  /\ sessions' \in [Ips -> [Paths -> Ports \cup {SS!NoPort}]]
         /\ known' \subseteq Ips \X Ports /\ active' \subseteq Ips
<1>1. PICK p \in S, via \in S \cap Up :
        /\ sessions' = SS!AddressOnData(known, sessions, p, Address(via))
        /\ known' = known \cup {Address(via)}
        /\ active' = {Ip[via]}
  BY DEF DataArrives
<1>2. via \in Paths /\ port[via] \in Ports /\ Ip[via] \in Ips
  BY DEF TypeOK, Ips, Up
<1>3. sessions' \in [Ips -> [Paths -> Ports \cup {SS!NoPort}]]
  BY <1>1, <1>2, SessionsType DEF Address
<1>4. known' \subseteq Ips \X Ports /\ active' \subseteq Ips
  BY <1>1, <1>2 DEF TypeOK, Address
<1>5. QED
  BY <1>3, <1>4

LEMMA StepInv == IInv /\ [Next]_vars => IInv'
<1> SUFFICES ASSUME IInv, [Next]_vars
             PROVE  IInv'
  OBVIOUS
<1> USE DEF IInv
\* What every action that leaves the scheduler and the monitor alone preserves.
<1>1. ASSUME TypeOK', UNCHANGED <<fails, alive, fresh, recent>>, assigned' = {}
      PROVE  IInv'
  BY <1>1 DEF CopyIsRecent, MonitorIsRecent, OnlyFreshlyAlive, Alive
<1>2. ASSUME NEW p \in Paths, LinkChanges(p) \/ Rebind(p)
      PROVE  IInv'
  <2>1. faults' \in 0..MaxFaults
    BY <1>2, PathsAssumption DEF TypeOK, LinkChanges, Rebind
  <2>2. link' \in [Paths -> {"up", "silent", "refuses"}] /\ port' \in [Paths -> Ports]
    BY <1>2 DEF TypeOK, LinkChanges, Rebind
  <2>3. UNCHANGED <<net, client, server>> /\ assigned' = {}
    BY <1>2 DEF LinkChanges, Rebind
  <2>4. TypeOK'
    BY <2>1, <2>2, <2>3 DEF TypeOK, client, server
  <2>5. QED
    BY <1>1, <2>3, <2>4 DEF client
<1>3. CASE SendHandshake
  <2>1. net' \subseteq Datagrams
    BY <1>3, ProbesType DEF SendHandshake
  <2>2. attempt' \in 0..MaxRetries
    BY <1>3, PathsAssumption DEF SendHandshake, TypeOK
  <2>3. UNCHANGED <<network, phase, fails, alive, fresh, recent, server>> /\ assigned' = {}
    BY <1>3 DEF SendHandshake
  <2>4. TypeOK'
    BY <2>1, <2>2, <2>3 DEF TypeOK, network, server
  <2>5. QED
    BY <1>1, <2>3, <2>4
<1>4. ASSUME StartLoops, net' \subseteq Datagrams
      PROVE  IInv'
  <2>1. /\ phase' = "running" /\ assigned' = {}
        /\ UNCHANGED <<network, attempt, fails, recent, server>>
    BY <1>4 DEF StartLoops
  <2>2. alive' \subseteq Paths /\ fresh' \in BOOLEAN /\ alive' \subseteq recent'
    BY <1>4, <2>1, RefreshKeeps DEF StartLoops
  <2>3. TypeOK'
    BY <1>4, <2>1, <2>2 DEF TypeOK, network, server
  <2>4. QED
    BY <2>1, <2>2, <2>3 DEF CopyIsRecent, MonitorIsRecent, OnlyFreshlyAlive, Alive
<1>5. CASE GiveUp
  BY <1>4, <1>5 DEF GiveUp, TypeOK
<1>6. ASSUME NEW d \in net, GetAck(d)
      PROVE  IInv'
  BY <1>4, <1>6 DEF GetAck, TypeOK
<1>7. CASE KeepaliveRound
  <2>1. net' \subseteq Datagrams
    BY <1>7, ProbesType DEF KeepaliveRound
  <2>2. PICK S \in SUBSET Paths : fails' = RecordLosses(fails, S)
    BY <1>7 DEF KeepaliveRound
  <2>3. fails' \in [Paths -> 0..Dead] /\ Alive(fails') \subseteq Alive(fails)
    BY <2>2, SchedulerAssumption, LossesOnlyKill, RecordedType DEF TypeOK
  <2>4. UNCHANGED <<network, phase, attempt, alive, fresh, recent, server>> /\ assigned' = {}
    BY <1>7 DEF KeepaliveRound
  <2>5. TypeOK'
    BY <2>1, <2>3, <2>4 DEF TypeOK, network, server
  <2>6. MonitorIsRecent'
    BY <2>3, <2>4 DEF MonitorIsRecent, Alive
  <2>7. QED
    BY <2>4, <2>5, <2>6 DEF CopyIsRecent, OnlyFreshlyAlive
<1>8. ASSUME NEW d \in net, Receive(d)
      PROVE  IInv'
  <2>1. d.path \in Paths
    BY DEF TypeOK, Datagrams
  <2>2. fails' \in {fails, RecordRtt(fails, d.path), RecordLosses(fails, {d.path})}
    BY <1>8 DEF Receive
  <2>3. fails' \in [Paths -> 0..Dead]
    <3>1. fails \in [Paths -> 0..Dead]
      BY DEF TypeOK
    <3>2. /\ RecordRtt(fails, d.path) \in [Paths -> 0..Dead]
          /\ RecordLosses(fails, {d.path}) \in [Paths -> 0..Dead]
      BY <2>1, <3>1, MonitorType
    <3>3. QED
      BY <2>2, <3>1, <3>2
  <2>4. /\ net' \subseteq Datagrams /\ recent' = recent \cup Alive(fails') /\ assigned' = {}
        /\ UNCHANGED <<network, phase, attempt, alive, fresh, server>>
    BY <1>8 DEF Receive, TypeOK
  <2>5. TypeOK'
    BY <2>3, <2>4 DEF TypeOK, network, server, Alive
  <2>6. QED
    BY <2>4, <2>5 DEF CopyIsRecent, MonitorIsRecent, OnlyFreshlyAlive, Alive
<1>9. CASE ControlTick
  <2>1. assigned' = {} /\ UNCHANGED <<network, net, phase, attempt, fails, recent, server>>
    BY <1>9 DEF ControlTick
  <2>2. alive' \subseteq Paths /\ fresh' \in BOOLEAN /\ alive' \subseteq recent'
    BY <1>9, <2>1, RefreshKeeps DEF ControlTick
  <2>3. TypeOK'
    BY <2>1, <2>2 DEF TypeOK, network, server
  <2>4. QED
    BY <2>1, <2>2, <2>3 DEF CopyIsRecent, MonitorIsRecent, OnlyFreshlyAlive, Alive
<1>10. CASE Age
  <2>1. /\ fresh' = FALSE /\ recent' = Alive(fails) /\ assigned' = {}
        /\ UNCHANGED <<network, net, phase, attempt, fails, alive, server>>
    BY <1>10 DEF Age
  <2>2. TypeOK'
    BY <2>1 DEF TypeOK, network, server, Alive
  <2>3. QED
    BY <2>1, <2>2 DEF CopyIsRecent, MonitorIsRecent, OnlyFreshlyAlive, Alive
<1>11. CASE Send
  <2>1. UNCHANGED <<network, net, phase, attempt, fails, recent>>
    BY <1>11 DEF Send
  <2>2. alive' \subseteq Paths /\ fresh' \in BOOLEAN /\ alive' \subseteq recent'
    <3>1. CASE fresh
      BY <1>11, <2>1, <3>1 DEF Send, TypeOK, CopyIsRecent
    <3>2. CASE ~fresh
      BY <1>11, <2>1, <3>2, RefreshKeeps DEF Send
    <3>3. QED
      BY <3>1, <3>2
  <2>3. assigned' \subseteq alive'
    BY <1>11, <2>2, DecidedAlive DEF Send
  <2>4. /\ sessions' \in [Ips -> [Paths -> Ports \cup {SS!NoPort}]]
        /\ known' \subseteq Ips \X Ports /\ active' \subseteq Ips
    <3>1. CASE DataArrives(assigned')
      BY <2>2, <2>3, <3>1, DataType
    <3>2. CASE UNCHANGED server
      BY <3>2 DEF TypeOK, server
    <3>3. QED
      BY <1>11, <3>1, <3>2 DEF Send
  <2>5. TypeOK'
    BY <2>1, <2>2, <2>3, <2>4 DEF TypeOK, network
  <2>6. QED
    BY <2>1, <2>2, <2>3, <2>5 DEF CopyIsRecent, MonitorIsRecent, OnlyFreshlyAlive, Alive
<1>12. ASSUME NEW d \in net, Handle(d)
       PROVE  IInv'
  <2>1. d.path \in Paths /\ d.port \in Ports /\ Ip[d.path] \in Ips /\ [d EXCEPT !.to = "client"] \in Datagrams
    BY DEF TypeOK, Datagrams, Ips
  <2>2. net' \subseteq Datagrams
    BY <1>12, <2>1 DEF Handle, TypeOK
  <2>3. sessions' \in [Ips -> [Paths -> Ports \cup {SS!NoPort}]]
    BY <1>12, <2>1, SessionsType DEF Handle
  <2>4. known' \subseteq Ips \X Ports /\ active' \subseteq Ips
    BY <1>12, <2>1 DEF Handle, TypeOK
  <2>5. UNCHANGED <<network, client>> /\ assigned' = {}
    BY <1>12 DEF Handle
  <2>6. TypeOK'
    BY <2>2, <2>3, <2>4, <2>5 DEF TypeOK, network, client
  <2>7. QED
    BY <1>1, <2>5, <2>6 DEF client
<1>13. CASE UNCHANGED vars
  BY <1>13 DEF TypeOK, CopyIsRecent, MonitorIsRecent, OnlyFreshlyAlive, Alive,
               vars, network, client, server
<1>14. QED
  BY <1>2, <1>3, <1>5, <1>6, <1>7, <1>8, <1>9, <1>10, <1>11, <1>12, <1>13 DEF Next

-----------------------------------------------------------------------------
(***************************************************************************)
(* The monitor, the scheduler's copy and the history stay related as above *)
(* through every order of the loops, the datagrams and the faults          *)
(* (client.py:288-593, path_scheduler.py:68-137).                          *)
(***************************************************************************)
THEOREM PathsInvariant == Spec => []IInv
  BY InitInv, StepInv, PTL DEF Spec

\* Types of client, network and server: failures are counted to the limit
\* (path_monitor.py:82-88), addresses are those of the client's IPs (server.py:303).
THEOREM TypeCorrect == Spec => []TypeOK
<1>1. IInv => TypeOK
  BY DEF IInv
<1>2. QED
  BY <1>1, PathsInvariant, PTL

(***************************************************************************)
(* A packet is given only paths that the monitor has held alive since the  *)
(* scheduler's copy was last too old, in every mode and for every tier     *)
(* (path_scheduler.py:101-228).                                            *)
(***************************************************************************)
THEOREM FreshlyAlive == Spec => []OnlyFreshlyAlive
<1>1. IInv => OnlyFreshlyAlive
  BY DEF IInv
<1>2. QED
  BY <1>1, PathsInvariant, PTL
-----------------------------------------------------------------------------
(* A packet always gets a path, as long as there is one. *)

\* Every nonempty set of naturals has a least element.
LEMMA LeastNat ==
  ASSUME NEW S \in SUBSET Nat, S # {}
  PROVE  \E x \in S : \A y \in S : x <= y
<1>1. PICK x \in S : \A y \in S : <<y, x>> \notin OpToRel(<, Nat)
  BY NatLessThanWellFounded, WFMin
<1>2. ASSUME NEW y \in S PROVE x <= y
  <2>1. ~(y < x) BY <1>1 DEF OpToRel
  <2> QED BY <2>1
<1> QED BY <1>2

\* Among the paths of A there is one that no other beats.
LEMMA SomeBest ==
  ASSUME NEW A, A # {}, NEW prob \in [A -> 0..100]
  PROVE  \E b \in A : \A q \in A : prob[q] <= prob[b]
<1> DEFINE Short == {100 - prob[q] : q \in A}
<1>1. Short \subseteq Nat /\ Short # {} OBVIOUS
<1>2. PICK n \in Short : \A m \in Short : n <= m
  BY <1>1, LeastNat
<1>3. PICK b \in A : n = 100 - prob[b] OBVIOUS
<1>4. \A q \in A : n <= 100 - prob[q] BY <1>2
<1>5. \A q \in A : prob[q] \in Int /\ prob[b] \in Int OBVIOUS
<1> HIDE DEF Short
<1> QED BY <1>3, <1>4, <1>5

LEMMA SomeLeaders ==
  ASSUME NEW A, A # {}, Cardinality(A) # 1, NEW prob \in [A -> 0..100]
  PROVE  Leaders(A, prob) # {}
<1>1. PICK b \in A : \A q \in A : prob[q] <= prob[b] BY SomeBest
<1>2. A # {b} BY FS_Singleton
<1>3. A \ {b} # {} BY <1>1, <1>2
<1>4. [q \in A \ {b} |-> prob[q]] \in [A \ {b} -> 0..100] OBVIOUS
<1>5. PICK s \in A \ {b} : \A q \in A \ {b} : prob[q] <= prob[s] BY <1>3, <1>4, SomeBest
<1>6. <<b, s>> \in A \X A /\ b # s /\ prob[b] >= prob[s] BY <1>1, <1>5
<1>7. <<b, s>> \in Leaders(A, prob) BY <1>5, <1>6 DEF Leaders
<1> QED BY <1>7

\* A decision for paths that are there: one at least, and none of them is empty.
LEMMA SpreadGives ==
  ASSUME NEW A, A # {}, NEW prob, NEW b \in A, NEW s \in A
  PROVE  Spread(A, prob, b, s) # {} /\ {} \notin Spread(A, prob, b, s)
<1>1. OneOf(A) # {} /\ {} \notin OneOf(A) BY DEF OneOf
<1>2. Spread(A, prob, b, s) \in {{{b}}, {{b, s}}, OneOf(A), {A}} BY DEF Spread
<1> QED BY <1>1, <1>2

LEMMA ScheduleGives ==
  ASSUME NEW mode, NEW tier, NEW A, A # {}, NEW prob \in [A -> 0..100]
  PROVE  Schedule(mode, tier, A, prob) # {} /\ {} \notin Schedule(mode, tier, A, prob)
<1>1. OneOf(A) # {} /\ {} \notin OneOf(A) BY DEF OneOf
<1>2. CASE mode # "ai"
  <2>1. Schedule(mode, tier, A, prob) \in {{A}, OneOf(A)} BY <1>2 DEF Schedule
  <2> QED BY <1>1, <2>1
<1>3. CASE mode = "ai" /\ (tier = "realtime" \/ Cardinality(A) = 1)
  <2>1. Schedule(mode, tier, A, prob) = {A} BY <1>3 DEF Schedule, ScheduleAi
  <2> QED BY <2>1
<1>4. CASE mode = "ai" /\ ~(tier = "realtime" \/ Cardinality(A) = 1)
  <2>1. Schedule(mode, tier, A, prob) = UNION {Spread(A, prob, l[1], l[2]) : l \in Leaders(A, prob)}
    BY <1>4 DEF Schedule, ScheduleAi
  <2>2. PICK l \in Leaders(A, prob) : TRUE BY <1>4, SomeLeaders
  <2>3. \A k \in Leaders(A, prob) : k[1] \in A /\ k[2] \in A BY DEF Leaders
  <2>4. \A k \in Leaders(A, prob) :
          Spread(A, prob, k[1], k[2]) # {} /\ {} \notin Spread(A, prob, k[1], k[2])
    BY <2>3, SpreadGives
  <2> QED BY <2>1, <2>2, <2>4
<1> QED BY <1>2, <1>3, <1>4

LEMMA PredictionsAreLevels ==
  ASSUME NEW A
  PROVE  Predictions(A) # {} /\ Predictions(A) \subseteq [A -> 0..100]
<1>1. [p \in A |-> 50] \in Predictions(A) BY DEF Predictions
<1>2. {50} \cup Levels \subseteq 0..100 BY SchedulerAssumption
<1>3. Predictions(A) \subseteq [A -> 0..100] BY <1>2 DEF Predictions
<1> QED BY <1>1, <1>3

(***************************************************************************)
(* schedule decides for every set of alive paths, and gives the packet a   *)
(* path of it when there is one: the thresholds of _schedule_ai leave no   *)
(* gap, whatever the predictions (path_scheduler.py:101-228).              *)
(***************************************************************************)
THEOREM AlwaysDecides ==
  \A A \in SUBSET Paths : Decisions[A] # {} /\ (A # {} => {} \notin Decisions[A])
<1> SUFFICES ASSUME NEW A \in SUBSET Paths
             PROVE  Decisions[A] # {} /\ (A # {} => {} \notin Decisions[A])
  OBVIOUS
<1>1. Decisions[A] = UNION {Schedule(mode, tier, A, prob) :
                              mode \in Modes, tier \in Tiers, prob \in Predictions(A)}
  BY DEF Decisions
<1>2. PICK prob \in Predictions(A) : TRUE BY PredictionsAreLevels
<1>3. "ai" \in Modes /\ "bulk" \in Tiers BY DEF Modes, Tiers
<1>4. Schedule("ai", "bulk", A, prob) \subseteq Decisions[A] BY <1>1, <1>2, <1>3
<1>5. CASE A = {}
  <2>1. Schedule("ai", "bulk", A, prob) = {{}} BY <1>5 DEF Schedule
  <2> QED BY <1>4, <1>5, <2>1
<1>6. CASE A # {}
  <2>1. \A mode \in Modes, tier \in Tiers, pr \in Predictions(A) :
          Schedule(mode, tier, A, pr) # {} /\ {} \notin Schedule(mode, tier, A, pr)
    BY <1>6, PredictionsAreLevels, ScheduleGives
  <2>2. Schedule("ai", "bulk", A, prob) # {} BY <2>1, <1>2, <1>3
  <2>3. {} \notin Decisions[A] BY <1>1, <2>1
  <2> QED BY <1>4, <2>2, <2>3
<1> QED BY <1>5, <1>6

PacketsGetPaths == [][Send /\ alive' # {} => assigned' # {}]_vars

(***************************************************************************)
(* So a packet is given a path whenever the scheduler, after the refresh   *)
(* that schedule may make, holds one alive.                                *)
(***************************************************************************)
THEOREM NoPacketWithoutPath == Spec => PacketsGetPaths
<1>1. IInv' /\ [Next]_vars => [Send /\ alive' # {} => assigned' # {}]_vars
  <2> SUFFICES ASSUME IInv', Send, alive' # {} PROVE assigned' # {} OBVIOUS
  <2>1. alive' \in SUBSET Paths BY DEF IInv, TypeOK
  <2>2. assigned' \in Decisions[alive'] BY DEF Send
  <2> QED BY <2>1, <2>2, AlwaysDecides
<1> QED BY <1>1, PathsInvariant, PTL DEF Spec, PacketsGetPaths

-----------------------------------------------------------------------------
(* Whom the server answers. *)

AnswersTheSeen ==
  /\ \A ip \in Ips, p \in Paths :
       sessions[ip][p] # SS!NoPort => <<ip, sessions[ip][p]>> \in known
  /\ \A ip \in active : SS!HasSession(known, ip)

LEMMA SetSeen ==
  ASSUME TypeOK, AnswersTheSeen, NEW p \in Paths, NEW q \in Paths, NEW n \in Ports,
         sessions' = SS!AddressOnData(known, sessions, p, <<Ip[q], n>>)
           \/ sessions' = SS!AddressOnProbe(known, sessions, p, <<Ip[q], n>>),
         known' = known \cup {<<Ip[q], n>>},
         active' \in {active, {Ip[q]}}
  PROVE  AnswersTheSeen'
<1>1. sessions' = sessions \/ sessions' = [sessions EXCEPT ![Ip[q]][p] = n]
  BY DEF SS!AddressOnData, SS!AddressOnProbe, SS!SetAddress
<1>2. \A ip \in Ips, r \in Paths :
        sessions'[ip][r] # SS!NoPort => <<ip, sessions'[ip][r]>> \in known'
  <2> SUFFICES ASSUME NEW ip \in Ips, NEW r \in Paths, sessions'[ip][r] # SS!NoPort
               PROVE  <<ip, sessions'[ip][r]>> \in known'
    OBVIOUS
  <2>1. CASE sessions'[ip][r] = sessions[ip][r] BY <2>1 DEF AnswersTheSeen
  <2>2. CASE sessions'[ip][r] # sessions[ip][r]
    <3>1. ip = Ip[q] /\ sessions'[ip][r] = n BY <1>1, <2>2 DEF TypeOK
    <3> QED BY <3>1
  <2> QED BY <2>1, <2>2
<1>3. \A ip \in active' : SS!HasSession(known', ip)
  <2>1. \A ip \in active : SS!HasSession(known', ip) BY DEF AnswersTheSeen, SS!HasSession
  <2>2. <<Ip[q], n>>[1] = Ip[q] OBVIOUS
  <2>3. SS!HasSession(known', Ip[q]) BY <2>2 DEF SS!HasSession
  <2> QED BY <2>1, <2>3
<1>4. SS!NoPort' = SS!NoPort BY DEF SS!NoPort
<1> QED BY <1>2, <1>3 DEF AnswersTheSeen

LEMMA AnswersKeeps == IInv /\ AnswersTheSeen /\ [Next]_vars => AnswersTheSeen'
<1> SUFFICES ASSUME IInv, AnswersTheSeen, [Next]_vars PROVE AnswersTheSeen' OBVIOUS
<1>1. TypeOK BY DEF IInv
<1>2. CASE UNCHANGED server BY <1>2 DEF server, AnswersTheSeen
<1>3. CASE Send /\ ~UNCHANGED server
  <2>1. PICK S : assigned' = S /\ S \in Decisions[alive'] /\ DataArrives(S) BY <1>3 DEF Send
  <2>2. alive' \in SUBSET Paths BY <1>1, <1>3 DEF Send, Refresh, Alive, TypeOK
  <2>3. S \subseteq Paths BY <2>1, <2>2, DecidedAlive
  <2>4. PICK p \in S, via \in S \cap Up :
          /\ sessions' = SS!AddressOnData(known, sessions, p, Address(via))
          /\ known' = known \cup {Address(via)}
          /\ active' = {Ip[via]}
    BY <2>1 DEF DataArrives
  <2>5. p \in Paths /\ via \in Paths /\ port[via] \in Ports BY <1>1, <2>3 DEF TypeOK
  <2> QED BY <1>1, <2>4, <2>5, SetSeen DEF Address
<1>4. ASSUME NEW d \in net, Handle(d) PROVE AnswersTheSeen'
  <2>1. d.path \in Paths /\ d.port \in Ports BY <1>1 DEF TypeOK, Datagrams
  <2>2. /\ sessions' = SS!AddressOnProbe(known, sessions, d.path, <<Ip[d.path], d.port>>)
        /\ known' = known \cup {<<Ip[d.path], d.port>>}
        /\ active' \in {active, {Ip[d.path]}}
    BY <1>4 DEF Handle
  <2> QED BY <1>1, <2>1, <2>2, SetSeen
<1>5. CASE ~Send /\ ~\E d \in net : Handle(d)
  <2>1. UNCHANGED server
    BY <1>5 DEF Next, LinkChanges, Rebind, GetAck, Receive, SendHandshake, GiveUp, StartLoops,
       KeepaliveRound, ControlTick, Age, vars, server
  <2> QED BY <1>2, <2>1
<1> QED BY <1>2, <1>3, <1>4, <1>5

(***************************************************************************)
(* The server returns traffic only to a client it has a session for, and   *)
(* for each path only to an address that a datagram of that client came    *)
(* from, whatever datagrams arrive late or under another path's id         *)
(* (server.py:267-303).                                                    *)
(***************************************************************************)
THEOREM AnswersOnlySeen == Spec => []AnswersTheSeen
<1>1. Init => AnswersTheSeen
  BY DEF Init, AnswersTheSeen, SS!NewSessions
<1> QED BY <1>1, AnswersKeeps, PathsInvariant, PTL DEF Spec

-----------------------------------------------------------------------------
(***************************************************************************)
(* The regulation of the traffic over the same paths (ClientControl), for  *)
(* any settings, loss rates and bursts.                                    *)
(***************************************************************************)
CONSTANTS Settings, Losses, Bursts

VARIABLES samples, est, rate, tokens, capacity, spent, windowOver, sent,
          setting, mode, sizer, loss, burst

CC == INSTANCE ClientControl

ManualModeHolds == setting # "auto" => mode = setting

ControlInv == CC!TypeOK /\ ManualModeHolds

\* Of the estimates, the sum of a measured one is a class that the tiers know.
LEMMA MeasuredTotals ==
  ASSUME NEW e
  PROVE  CC!Totals(e) \subseteq {"low", "high"}
<1>1. \A C : CC!Totals(e) \in {{"high"}, {}, {"low", "high"}, {"low"}}
  BY DEF CC!Totals
<1> QED BY <1>1

LEMMA MeasureKeeps ==
  ASSUME CC!TypeOK, CC!Measure
  PROVE  /\ samples' = samples /\ windowOver' = windowOver
         /\ est' \in [Paths -> CC!Classes] /\ rate' \in [Paths -> CC!Classes \ {"none"}]
         /\ tokens' \subseteq {p \in Paths : rate'[p] # "tiny"}
         /\ capacity' \in {"low", "high"} /\ spent' \subseteq CC!Tiers \ {"realtime"}
<1> USE DEF CC!TypeOK
<1>1. est' \in [Paths -> CC!Classes] BY DEF CC!Measure, CC!Estimates
<1>2. rate' \in [Paths -> CC!Classes \ {"none"}]
  BY <1>1 DEF CC!Measure, CC!Classes
<1>3. tokens' \subseteq {p \in Paths : rate'[p] # "tiny"} BY DEF CC!Measure
<1>4. capacity' \in {"low", "high"} BY MeasuredTotals DEF CC!Measure
<1>5. spent' \subseteq CC!Tiers \ {"realtime"} BY DEF CC!Measure, CC!Tiers
<1> QED BY <1>1, <1>2, <1>3, <1>4, <1>5 DEF CC!Measure

LEMMA ModeKeeps ==
  ASSUME CC!ControlAssumption, ControlInv, CC!UpdateMode
  PROVE  /\ setting' = setting /\ loss' = loss /\ burst' = burst
         /\ mode' \in CC!FecModes /\ sizer' \in Bursts \cup {"xor"} /\ ManualModeHolds'
<1> USE DEF ControlInv, CC!TypeOK, ManualModeHolds
<1>1. burst \in CC!FecModes /\ loss \in CC!FecModes
  BY DEF CC!ControlAssumption, CC!FecModes
<1> QED BY <1>1 DEF CC!UpdateMode, CC!Sizer, CC!Fallback

LEMMA ControlStarts == CC!ControlAssumption /\ CC!Init => ControlInv
<1> SUFFICES ASSUME CC!ControlAssumption, CC!Init PROVE ControlInv OBVIOUS
<1>1. /\ samples \in [Paths -> 0..2] /\ est \in [Paths -> CC!Classes]
      /\ rate \in [Paths -> CC!Classes \ {"none"}]
      /\ tokens \subseteq {p \in Paths : rate[p] # "tiny"}
  BY DEF CC!Init, CC!Classes
<1>2. mode \in CC!FecModes /\ ManualModeHolds
  BY DEF CC!Init, CC!ControlAssumption, CC!FecModes, ManualModeHolds
<1> QED BY <1>1, <1>2 DEF CC!Init, CC!TypeOK, CC!Tiers, ControlInv

LEMMA ControlSteps == CC!ControlAssumption /\ ControlInv /\ [CC!Next]_CC!vars => ControlInv'
<1> SUFFICES ASSUME CC!ControlAssumption, ControlInv, [CC!Next]_CC!vars
             PROVE  ControlInv'
  OBVIOUS
<1> USE DEF ControlInv, CC!TypeOK
<1>1. CASE CC!Round
  <2>1. CC!UpdateMode /\ CC!Measure /\ sent' = "none" BY <1>1 DEF CC!Round
  <2> QED BY <2>1, MeasureKeeps, ModeKeeps
<1>2. ASSUME NEW m \in Settings, CC!SetFecMode(m) PROVE ControlInv'
  BY <1>2 DEF CC!SetFecMode, CC!budget, CC!ControlAssumption, ManualModeHolds
<1>3. ASSUME NEW l \in Losses, NEW b \in Bursts, CC!Measured(l, b) PROVE ControlInv'
  BY <1>3 DEF CC!Measured, CC!budget, ManualModeHolds
<1>4. ASSUME NEW tier \in CC!Tiers, NEW p \in Paths, CC!SendOn(tier, p) PROVE ControlInv'
  <2>1. UNCHANGED <<est, rate, capacity, setting, mode, sizer, loss, burst>> /\ sent' = tier
    BY <1>4 DEF CC!SendOn, CC!fec
  <2>2. tokens' \subseteq tokens BY <1>4 DEF CC!SendOn
  <2>3. samples' \in [Paths -> 0..2] BY <1>4 DEF CC!SendOn, CC!RecordAck
  <2>4. spent' \subseteq CC!Tiers \ {"realtime"} /\ windowOver' \in BOOLEAN
    BY <1>4 DEF CC!SendOn, CC!ResetWindow
  <2> QED BY <2>1, <2>2, <2>3, <2>4 DEF ManualModeHolds
<1>5. CASE CC!Drop
  BY <1>5 DEF CC!Drop, CC!ResetWindow, CC!fec, ManualModeHolds
<1>6. ASSUME NEW p \in Paths, CC!Receive(p) PROVE ControlInv'
  <2>1. samples' \in [Paths -> 0..2] BY <1>6 DEF CC!Receive, CC!RecordAck
  <2> QED BY <1>6, <2>1 DEF CC!Receive, CC!fec, ManualModeHolds
<1>7. CASE CC!Refill BY <1>7 DEF CC!Refill, CC!fec, ManualModeHolds
<1>8. CASE CC!Second BY <1>8 DEF CC!Second, CC!fec, ManualModeHolds
<1>9. CASE UNCHANGED CC!vars BY <1>9 DEF CC!vars, CC!budget, CC!fec, ManualModeHolds
<1> QED BY <1>1, <1>2, <1>3, <1>4, <1>5, <1>6, <1>7, <1>8, <1>9 DEF CC!Next

LEMMA ControlInvariant ==
  ASSUME CC!ControlAssumption
  PROVE  CC!Spec => []ControlInv
<1> QED BY ControlStarts, ControlSteps, PTL DEF CC!Spec

(***************************************************************************)
(* Estimates, pacers, budgets and modes stay within their types; and a     *)
(* pacer that was set below a packet in 50 ms has no tokens, whatever was  *)
(* in its bucket before: set_rate caps it (congestion_control.py).         *)
(***************************************************************************)
THEOREM ControlTypeCorrect ==
  ASSUME CC!ControlAssumption
  PROVE  CC!Spec => []CC!TypeOK
<1>1. ControlInv => CC!TypeOK BY DEF ControlInv
<1> QED BY <1>1, ControlInvariant, PTL

(***************************************************************************)
(* While an FEC mode is set by hand it is the one in force, at once and    *)
(* through every round of both loops, whatever losses and bursts they      *)
(* measure (fec_engine.py).                                                *)
(***************************************************************************)
THEOREM ManualModeInForce ==
  ASSUME CC!ControlAssumption
  PROVE  CC!Spec => []ManualModeHolds
<1>1. ControlInv => ManualModeHolds BY DEF ControlInv
<1> QED BY <1>1, ControlInvariant, PTL
=============================================================================
