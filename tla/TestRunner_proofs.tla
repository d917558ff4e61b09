------------------------- MODULE TestRunner_proofs --------------------------
(***************************************************************************)
(* Proofs about TestRunner, for any users and any number of sessions:      *)
(* unless a session was started while a stop_test was suspended, one       *)
(* session is captured at a time, and its snapshots carry the variant that *)
(* is applied.                                                             *)
(*                                                                         *)
(* Neither is inductive.  That no old task is left when a session starts   *)
(* needs to be known of tasks that were told to stop: somebody awaits      *)
(* them.  That the end of a stop_test finds nothing being captured needs   *)
(* that what is awaited is the newest session.                             *)
(*                                                                         *)
(* Under the same condition, at the end (Final): a session that has ended  *)
(* never changes, and its file says how it ended.                          *)
(***************************************************************************)
EXTENDS TestRunner, TLAPS

\* Only the newest session's task may be left, and that session is the active one.
OnlyNewest == \A s \in Sessions : sessions[s].task # "done" => s = Len(sessions) /\ active = s

RunningIsCaptured == \A s \in Sessions : sessions[s].status = "running" => sessions[s].task # "done"

\* A task whose session was stopped is awaited.
StoppedIsAwaited ==
  \A s \in Sessions :
    sessions[s].task # "done" /\ sessions[s].status # "running" => \E u \in Users : awaiting[u] = s

CancelledIsStopped == \A s \in Sessions : sessions[s].cancelled => sessions[s].status # "running"

AwaitsNewest == \A u \in Users : awaiting[u] # NoSession => awaiting[u] = Len(sessions)

\* The variant of the A/B session being captured is the one applied.
AppliedIsOwn ==
  \A s \in Sessions :
    sessions[s].ab /\ sessions[s].task = "capturing" => applied = [of |-> s, half |-> sessions[s].half]

Serial ==
  /\ OnlyNewest /\ RunningIsCaptured /\ StoppedIsAwaited /\ CancelledIsStopped /\ AwaitsNewest
  /\ AppliedIsOwn /\ ~mislabelled

IInv == TypeOK /\ (~overlapped => Serial)

-----------------------------------------------------------------------------

(***************************************************************************)
(* _finalize (test_runner.py:270-343) changes nothing of a session but its *)
(* end time and its file.                                                  *)
(***************************************************************************)
LEMMA FinalizedKeeps ==
  ASSUME NEW s \in Session, NEW f \in Finalized(s)
  PROVE  /\ f.session \in Session /\ f.raised \in BOOLEAN
         /\ f.session.status = s.status /\ f.session.task = s.task
         /\ f.session.ab = s.ab /\ f.session.half = s.half /\ f.session.cancelled = s.cancelled
<1> DEFINE ended == [s EXCEPT !.ended = TRUE]
           saved == [s EXCEPT !.ended = TRUE, !.saved = s.status]
<1>1. f \in {[session |-> saved, raised |-> FALSE], [session |-> ended, raised |-> TRUE],
             [session |-> ended, raised |-> FALSE]}
  BY Zenon DEF Finalized
<1>2. ended \in Session /\ ended.status = s.status /\ ended.task = s.task /\ ended.ab = s.ab
      /\ ended.half = s.half /\ ended.cancelled = s.cancelled
  BY DEF Session
<1>3. saved \in Session /\ saved.status = s.status /\ saved.task = s.task /\ saved.ab = s.ab
      /\ saved.half = s.half /\ saved.cancelled = s.cancelled
  BY DEF Session
<1> HIDE DEF ended, saved
<1>4. CASE f = [session |-> saved, raised |-> FALSE]
  BY <1>3, <1>4, Zenon
<1>5. CASE f = [session |-> ended, raised |-> TRUE]
  BY <1>2, <1>5, Zenon
<1>6. CASE f = [session |-> ended, raised |-> FALSE]
  BY <1>2, <1>6, Zenon
<1> QED BY <1>1, <1>4, <1>5, <1>6, Zenon

(***************************************************************************)
(* Putting a session in place of one of the sessions leaves the others.    *)
(***************************************************************************)
LEMMA Replace ==
  ASSUME NEW q \in Seq(Session), NEW s \in 1..Len(q), NEW t \in Session, NEW q2,
         q2 = [q EXCEPT ![s] = t]
  PROVE  /\ q2 \in Seq(Session) /\ Len(q2) = Len(q)
         /\ q2[s] = t
         /\ \A r \in 1..Len(q) : r # s => q2[r] = q[r]
OBVIOUS

\* At first there is no session.
LEMMA InitInv == Init => IInv
<1> SUFFICES ASSUME Init PROVE IInv
  OBVIOUS
<1> USE DEF Init, Sessions, NoSession
<1>1. TypeOK
  <2>1. sessions \in Seq(Session) /\ Len(sessions) <= MaxSessions
    BY RunnerAssumption
  <2>2. overlapped \in BOOLEAN /\ mislabelled \in BOOLEAN
    BY Zenon
  <2>3. /\ active \in 0..Len(sessions)
        /\ awaiting \in [Users -> 0..Len(sessions)] /\ \A u \in Users : awaiting[u] = NoSession
        /\ applied \in [of : 0..Len(sessions), half : Halves]
    BY DEF NoVariant, Halves
  <2> QED BY <2>1, <2>2, <2>3, Zenon DEF TypeOK
<1>2. Serial
  BY DEF Serial, OnlyNewest, RunningIsCaptured, StoppedIsAwaited, CancelledIsStopped, AwaitsNewest,
         AppliedIsOwn
<1> QED BY <1>1, <1>2 DEF IInv

\* A session starts only when no task is left of any other.
LEMMA StartInv ==
  ASSUME IInv, NEW ab \in BOOLEAN, Start(ab)
  PROVE  IInv'
<1> DEFINE n == Len(sessions) + 1
<1>1. NewSession(ab) \in Session /\ NewSession(ab).task = "created" /\ NewSession(ab).status = "running"
      /\ ~NewSession(ab).cancelled
  BY DEF NewSession, Session, Halves
<1>2. /\ sessions \in Seq(Session) /\ Len(sessions) \in Nat /\ Len(sessions) < MaxSessions
      /\ sessions' = Append(sessions, NewSession(ab))
  BY DEF Start, IInv, TypeOK
<1>3. /\ sessions' \in Seq(Session) /\ Len(sessions') = n
      /\ Sessions' = Sessions \cup {n} /\ sessions'[n] = NewSession(ab)
      /\ \A s \in Sessions : sessions'[s] = sessions[s] /\ s # n
  BY <1>1, <1>2 DEF Sessions
<1>4. TypeOK'
  <2>1. Len(sessions') <= MaxSessions /\ active' \in 0..Len(sessions')
    BY <1>2, <1>3, RunnerAssumption DEF Start
  <2>2. awaiting' \in [Users -> 0..Len(sessions')] /\ applied' \in [of : 0..Len(sessions'), half : Halves]
    BY <1>2, <1>3 DEF Start, IInv, TypeOK
  <2>3. \A u \in Users : awaiting'[u] # NoSession => sessions'[awaiting'[u]].cancelled
    BY <1>2, <1>3 DEF Start, IInv, TypeOK, Sessions, NoSession
  <2>4. overlapped' \in BOOLEAN /\ mislabelled' \in BOOLEAN
    BY Zenon DEF Start, IInv, TypeOK
  <2> QED BY <1>3, <2>1, <2>2, <2>3, <2>4 DEF TypeOK
<1>5. ASSUME ~overlapped' PROVE Serial'
  <2>1. ~overlapped /\ \A u \in Users : awaiting[u] = NoSession /\ awaiting'[u] = NoSession
    BY <1>5, Zenon DEF Start
  <2>2. Serial
    BY <2>1 DEF IInv
  <2>3. \A s \in Sessions : sessions[s].task = "done" /\ sessions[s].status # "running"
    BY <1>2, <2>1, <2>2 DEF Serial, OnlyNewest, RunningIsCaptured, StoppedIsAwaited, Start, ActiveRuns,
                            Sessions, NoSession
  <2>4. \A s \in Sessions' : s # n => sessions'[s].task = "done" /\ sessions'[s].status # "running"
    BY <1>3, <2>3
  <2>5. OnlyNewest' /\ RunningIsCaptured' /\ StoppedIsAwaited'
    BY <1>1, <1>3, <2>4 DEF OnlyNewest, RunningIsCaptured, StoppedIsAwaited, Start
  <2>9. CancelledIsStopped'
    BY <1>1, <1>3, <2>4 DEF CancelledIsStopped
  <2>6. AwaitsNewest'
    BY <2>1 DEF AwaitsNewest
  <2>7. AppliedIsOwn'
    BY <1>1, <1>3, <2>4 DEF AppliedIsOwn
  <2>8. ~mislabelled'
    BY <2>2 DEF Start, Serial
  <2> QED BY <2>5, <2>6, <2>7, <2>8, <2>9 DEF Serial
<1> QED BY <1>4, <1>5 DEF IInv

(***************************************************************************)
(* When a task ends, none is left; its session is no longer running.       *)
(***************************************************************************)
LEMMA TaskEnds ==
  ASSUME IInv, NEW s \in Sessions, sessions[s].task # "done",
         NEW t \in Session, t.task = "done", ~overlapped => t.status # "running",
         t.cancelled = sessions[s].cancelled,
         sessions' = [sessions EXCEPT ![s] = t],
         active' \in {active, NoSession},
         applied' \in [of : 0..Len(sessions), half : Halves],
         UNCHANGED <<awaiting, overlapped, mislabelled>>
  PROVE  IInv'
<1>1. sessions \in Seq(Session)
  BY DEF IInv, TypeOK
<1>2. /\ sessions' \in Seq(Session) /\ Len(sessions') = Len(sessions) /\ Sessions' = Sessions
      /\ sessions'[s] = t /\ \A r \in Sessions : r # s => sessions'[r] = sessions[r]
  BY <1>1, Replace DEF Sessions
<1>3. TypeOK'
  <2>1. active' \in 0..Len(sessions') /\ Len(sessions') <= MaxSessions
    BY <1>1, <1>2 DEF IInv, TypeOK, NoSession
  <2>2. awaiting' \in [Users -> 0..Len(sessions')] /\ applied' \in [of : 0..Len(sessions'), half : Halves]
    BY <1>2 DEF IInv, TypeOK
  <2>3. ASSUME NEW u \in Users, awaiting'[u] # NoSession PROVE sessions'[awaiting'[u]].cancelled
    <3>1. awaiting'[u] \in Sessions /\ sessions[awaiting'[u]].cancelled
      BY <1>1, <2>3 DEF IInv, TypeOK, Sessions, NoSession
    <3> QED BY <1>2, <3>1
  <2>4. overlapped' \in BOOLEAN /\ mislabelled' \in BOOLEAN
    BY Zenon DEF IInv, TypeOK
  <2> QED BY <1>2, <2>1, <2>2, <2>3, <2>4 DEF TypeOK
<1>4. ASSUME ~overlapped' PROVE Serial'
  <2>1. ~overlapped /\ Serial
    BY <1>4, Zenon DEF IInv
  <2>2. \A r \in Sessions : sessions'[r].task = "done"
    BY <1>2, <2>1 DEF Serial, OnlyNewest
  <2>3. OnlyNewest' /\ StoppedIsAwaited' /\ AppliedIsOwn'
    BY <1>2, <2>2 DEF OnlyNewest, StoppedIsAwaited, AppliedIsOwn
  <2>4. RunningIsCaptured' /\ CancelledIsStopped'
    BY <1>2, <2>1 DEF Serial, RunningIsCaptured, CancelledIsStopped
  <2>5. AwaitsNewest'
    BY <1>2, <2>1 DEF Serial, AwaitsNewest
  <2>6. ~mislabelled'
    BY <2>1 DEF Serial
  <2> QED BY <2>3, <2>4, <2>5, <2>6 DEF Serial
<1> QED BY <1>3, <1>4 DEF IInv

\* The finally of a capture loop is such an end.
LEMMA EndsInv ==
  ASSUME IInv, NEW s \in Sessions, sessions[s].task # "done", Ends(s),
         applied' \in [of : 0..Len(sessions), half : Halves],
         UNCHANGED <<awaiting, overlapped, mislabelled>>
  PROVE  IInv'
<1> DEFINE t == [sessions[s] EXCEPT !.task = "done",
                                    !.status = IF @ = "running" THEN "completed" ELSE @]
<1>1. sessions[s] \in Session
  BY DEF IInv, TypeOK, Sessions
<1>2. t \in Session /\ t.task = "done" /\ t.status # "running" /\ t.cancelled = sessions[s].cancelled
  BY <1>1 DEF Session
<1>3. PICK f \in Finalized(t) : /\ sessions' = [sessions EXCEPT ![s] = [f.session EXCEPT !.raised = f.raised]]
                                /\ active' \in {active, NoSession}
  BY Zenon DEF Ends
<1> DEFINE end == [f.session EXCEPT !.raised = f.raised]
<1> HIDE DEF t
<1>4. f.session \in Session /\ f.raised \in BOOLEAN /\ f.session.task = "done"
      /\ f.session.status # "running" /\ f.session.cancelled = sessions[s].cancelled
  BY <1>2, FinalizedKeeps
<1>5. end \in Session /\ end.task = "done" /\ end.status # "running" /\ end.cancelled = sessions[s].cancelled
  BY <1>4 DEF Session
<1> QED BY <1>3, <1>5, TaskEnds

LEMMA NextIsHalf ==
  ASSUME IInv, NEW s \in Sessions
  PROVE  NextHalves(s) \subseteq Halves /\ s \in 0..Len(sessions)
<1>1. sessions[s] \in Session /\ s \in 0..Len(sessions)
  BY DEF IInv, TypeOK, Sessions
<1>2. sessions[s].half \in Halves
  BY <1>1 DEF Session
<1> QED BY <1>1, <1>2, Zenon DEF NextHalves

LEMMA ExpireInv ==
  ASSUME IInv, NEW s \in Sessions, Expire(s)
  PROVE  IInv'
<1>1. /\ sessions[s].task # "done" /\ Ends(s) /\ UNCHANGED <<awaiting, overlapped, mislabelled>>
      /\ \E half \in NextHalves(s) : ApplyVariant(s, half)
  BY DEF Expire, CanTurn
<1>2. applied \in [of : 0..Len(sessions), half : Halves]
  BY DEF IInv, TypeOK
<1>3. applied' \in [of : 0..Len(sessions), half : Halves]
  BY <1>1, <1>2, NextIsHalf DEF ApplyVariant
<1> QED BY <1>1, <1>3, EndsInv

LEMMA CancelledInv ==
  ASSUME IInv, NEW s \in Sessions, Cancelled(s)
  PROVE  IInv'
<1>1. /\ sessions[s].task # "done" /\ sessions[s].cancelled
      /\ UNCHANGED <<awaiting, applied, overlapped, mislabelled>>
      /\ sessions \in Seq(Session) /\ sessions[s] \in Session
      /\ applied' \in [of : 0..Len(sessions), half : Halves]
  BY DEF Cancelled, IInv, TypeOK, Sessions
<1>2. CASE Ends(s)
  BY <1>1, <1>2, EndsInv
<1>3. CASE sessions' = [sessions EXCEPT ![s].task = "done"] /\ UNCHANGED active
  <2> DEFINE t == [sessions[s] EXCEPT !.task = "done"]
  <2>1. t \in Session /\ t.task = "done" /\ t.status = sessions[s].status /\ t.cancelled = sessions[s].cancelled
    BY <1>1 DEF Session
  <2>2. ~overlapped => t.status # "running"
    BY <1>1, <2>1 DEF IInv, Serial, CancelledIsStopped
  <2>3. sessions' = [sessions EXCEPT ![s] = t]
    BY <1>1, <1>3 DEF Sessions
  <2> HIDE DEF t
  <2> QED BY <1>1, <1>3, <2>1, <2>2, <2>3, TaskEnds
<1> QED BY <1>2, <1>3, Zenon DEF Cancelled

\* stop_test stops the session whose task it cancels.
LEMMA StopInv ==
  ASSUME IInv, NEW u \in Users, Stop(u)
  PROVE  IInv'
<1> DEFINE n == Len(sessions)
<1>1. /\ sessions \in Seq(Session) /\ n \in Nat /\ active \in Sessions /\ n \in Sessions
      /\ sessions[active].status = "running" /\ awaiting[u] = NoSession
      /\ sessions' = [sessions EXCEPT ![active].status = "stopped", ![n].cancelled = TRUE]
      /\ awaiting' = [awaiting EXCEPT ![u] = n] /\ awaiting \in [Users -> 0..n]
      /\ UNCHANGED <<active, applied, overlapped, mislabelled>>
  BY DEF Stop, ActiveRuns, IInv, TypeOK, Sessions, NoSession
<1> DEFINE stopped   == [sessions[active] EXCEPT !.status = "stopped"]
           between   == [sessions EXCEPT ![active] = stopped]
           cancelled == [between[n] EXCEPT !.cancelled = TRUE]
<1>2. \A s \in Sessions : sessions[s] \in Session
  BY <1>1 DEF Sessions
<1>3. /\ stopped \in Session /\ stopped.status = "stopped" /\ stopped.task = sessions[active].task
      /\ stopped.ab = sessions[active].ab /\ stopped.half = sessions[active].half
      /\ stopped.cancelled = sessions[active].cancelled
  BY <1>1, <1>2 DEF Session
<1>4. sessions' = [between EXCEPT ![n] = cancelled]
  BY <1>1 DEF Sessions
<1> HIDE DEF stopped
<1>5. /\ between \in Seq(Session) /\ Len(between) = n /\ between[active] = stopped
      /\ \A s \in Sessions : s # active => between[s] = sessions[s]
  BY <1>1, <1>3, Replace DEF Sessions
<1> HIDE DEF between
<1>6. between[n] \in Session /\ n \in 1..Len(between)
  BY <1>1, <1>5 DEF Sessions
<1>7. cancelled \in Session
  BY <1>6 DEF Session
<1>8. /\ cancelled.cancelled /\ cancelled.status = between[n].status
      /\ cancelled.task = between[n].task /\ cancelled.ab = between[n].ab /\ cancelled.half = between[n].half
  BY <1>6 DEF Session
<1> HIDE DEF cancelled
<1>9. /\ sessions' \in Seq(Session) /\ Len(sessions') = n /\ sessions'[n] = cancelled
      /\ \A s \in Sessions : s # n => sessions'[s] = between[s]
  BY <1>4, <1>5, <1>6, <1>7, Replace DEF Sessions
<1>10. Sessions' = Sessions
  BY <1>9 DEF Sessions
<1>11. \A s \in Sessions :
        /\ sessions'[s].task = sessions[s].task /\ sessions'[s].ab = sessions[s].ab
        /\ sessions'[s].half = sessions[s].half
        /\ sessions'[s].status = (IF s = active THEN "stopped" ELSE sessions[s].status)
        /\ s # n => sessions'[s].cancelled = sessions[s].cancelled
        /\ s = n => sessions'[s].cancelled
  <2> SUFFICES ASSUME NEW s \in Sessions
               PROVE  /\ sessions'[s].task = sessions[s].task /\ sessions'[s].ab = sessions[s].ab
                      /\ sessions'[s].half = sessions[s].half
                      /\ sessions'[s].status = (IF s = active THEN "stopped" ELSE sessions[s].status)
                      /\ s # n => sessions'[s].cancelled = sessions[s].cancelled
                      /\ s = n => sessions'[s].cancelled
    OBVIOUS
  <2>1. CASE s = n
    BY <1>3, <1>5, <1>8, <1>9, <2>1
  <2>2. CASE s # n
    BY <1>3, <1>5, <1>9, <2>2
  <2> QED BY <2>1, <2>2
<1>12. TypeOK'
  <2>1. Len(sessions') <= MaxSessions /\ active' \in 0..Len(sessions')
        /\ awaiting' \in [Users -> 0..Len(sessions')] /\ applied' \in [of : 0..Len(sessions'), half : Halves]
    BY <1>1, <1>9, <1>10, <1>11 DEF IInv, TypeOK
  <2>2. ASSUME NEW v \in Users, awaiting'[v] # NoSession PROVE sessions'[awaiting'[v]].cancelled
    <3>1. CASE awaiting'[v] = n
      BY <1>1, <1>9, <1>10, <1>11, <3>1
    <3>2. CASE awaiting'[v] # n
      <4>1. awaiting[v] = awaiting'[v] /\ awaiting[v] \in Sessions
        BY <1>1, <2>2, <3>2 DEF Sessions, NoSession
      <4>2. sessions[awaiting[v]].cancelled
        BY <2>2, <4>1 DEF IInv, TypeOK
      <4> QED BY <1>9, <1>10, <1>11, <3>2, <4>1, <4>2
    <3> QED BY <3>1, <3>2
  <2>3. overlapped' \in BOOLEAN /\ mislabelled' \in BOOLEAN
    BY <1>1, Zenon DEF IInv, TypeOK
  <2> QED BY <1>9, <2>1, <2>2, <2>3 DEF TypeOK
<1>13. ASSUME ~overlapped' PROVE Serial'
  <2>1. Serial
    BY <1>1, <1>13, Zenon DEF IInv
  <2>2. active = n
    BY <1>1, <2>1 DEF Serial, OnlyNewest, RunningIsCaptured
  <2>3. OnlyNewest'
    BY <1>1, <1>9, <1>10, <1>11, <2>1 DEF Serial, OnlyNewest
  <2>8. RunningIsCaptured'
    BY <1>10, <1>11, <2>1 DEF Serial, RunningIsCaptured
  <2>4. StoppedIsAwaited'
    <3> SUFFICES ASSUME NEW s \in Sessions, sessions'[s].task # "done", sessions'[s].status # "running"
                 PROVE  \E v \in Users : awaiting'[v] = s
      BY <1>9, <1>10, <1>11 DEF StoppedIsAwaited
    <3>1. s = n
      BY <1>9, <1>10, <1>11, <2>1 DEF Serial, OnlyNewest
    <3> QED BY <1>1, <3>1
  <2>5. CancelledIsStopped'
    BY <1>9, <1>10, <1>11, <2>1, <2>2 DEF Serial, CancelledIsStopped
  <2>6. AwaitsNewest'
    BY <1>1, <1>9, <1>10, <1>11, <2>1 DEF Serial, AwaitsNewest
  <2>7. AppliedIsOwn'
    <3>1. applied' = applied /\ AppliedIsOwn
      BY <1>1, <2>1, Zenon DEF Serial
    <3>2. ASSUME NEW s \in Sessions, sessions'[s].ab, sessions'[s].task = "capturing"
          PROVE  applied' = [of |-> s, half |-> sessions'[s].half]
      <4>1. sessions[s].ab /\ sessions[s].task = "capturing" /\ sessions'[s].half = sessions[s].half
        BY <1>11, <3>2
      <4> QED BY <3>1, <4>1, Zenon DEF AppliedIsOwn
    <3> QED BY <1>10, <3>2, Zenon DEF AppliedIsOwn
  <2>9. ~mislabelled'
    BY <1>1, <2>1, Zenon DEF Serial
  <2> QED BY <2>3, <2>4, <2>5, <2>6, <2>7, <2>8, <2>9 DEF Serial
<1> QED BY <1>12, <1>13 DEF IInv

(***************************************************************************)
(* When a stop_test goes on, no task is left, so that what it does to the  *)
(* active session disturbs none.                                           *)
(***************************************************************************)
LEMMA FinishStopInv ==
  ASSUME IInv, NEW u \in Users, FinishStop(u)
  PROVE  IInv'
<1>1. /\ sessions \in Seq(Session) /\ Len(sessions) \in Nat /\ Len(sessions) <= MaxSessions
      /\ active \in 0..Len(sessions) /\ awaiting \in [Users -> 0..Len(sessions)]
      /\ applied \in [of : 0..Len(sessions), half : Halves]
      /\ \A v \in Users : awaiting[v] # NoSession => sessions[awaiting[v]].cancelled
  BY DEF IInv, TypeOK
<1>2. /\ awaiting[u] # NoSession /\ sessions[awaiting[u]].task = "done"
      /\ awaiting' = [awaiting EXCEPT ![u] = NoSession]
      /\ UNCHANGED <<applied, overlapped, mislabelled>>
  BY DEF FinishStop
<1>3. \A v \in Users : awaiting'[v] # NoSession => v # u /\ awaiting'[v] = awaiting[v]
  BY <1>1, <1>2
<1>4. awaiting' \in [Users -> 0..Len(sessions)]
  BY <1>1, <1>2 DEF NoSession
<1>5. overlapped' \in BOOLEAN /\ mislabelled' \in BOOLEAN
  BY <1>2, Zenon DEF FinishStop, IInv, TypeOK
<1>6. ASSUME ~overlapped' PROVE Serial /\ \A s \in Sessions : sessions[s].task = "done"
  <2>1. Serial
    BY <1>2, <1>6, Zenon DEF IInv
  <2> QED BY <1>1, <1>2, <2>1 DEF Serial, AwaitsNewest, OnlyNewest, Sessions
<1>7. CASE UNCHANGED <<sessions, active>>
  <2>1. TypeOK'
    BY <1>1, <1>2, <1>3, <1>4, <1>5, <1>7 DEF TypeOK
  <2>2. ASSUME ~overlapped' PROVE Serial'
    <3>1. OnlyNewest' /\ StoppedIsAwaited' /\ AppliedIsOwn'
      BY <1>6, <1>7, <2>2 DEF OnlyNewest, StoppedIsAwaited, AppliedIsOwn, Sessions
    <3>2. RunningIsCaptured' /\ CancelledIsStopped'
      BY <1>6, <1>7, <2>2 DEF Serial, RunningIsCaptured, CancelledIsStopped, Sessions
    <3>3. AwaitsNewest' /\ ~mislabelled'
      BY <1>2, <1>3, <1>6, <1>7, <2>2 DEF Serial, AwaitsNewest
    <3> QED BY <3>1, <3>2, <3>3 DEF Serial
  <2> QED BY <2>1, <2>2 DEF IInv
<1>8. ASSUME active # NoSession, NEW f \in Finalized(sessions[active]),
             sessions' = [sessions EXCEPT ![active] = f.session], active' \in {active, NoSession}
      PROVE  IInv'
  <2>1. active \in Sessions /\ sessions[active] \in Session
    BY <1>1, <1>8 DEF Sessions, NoSession
  <2>2. /\ f.session \in Session /\ f.session.status = sessions[active].status
        /\ f.session.task = sessions[active].task /\ f.session.cancelled = sessions[active].cancelled
    BY <1>8, <2>1, FinalizedKeeps
  <2>3. /\ sessions' \in Seq(Session) /\ Len(sessions') = Len(sessions) /\ sessions'[active] = f.session
        /\ \A s \in Sessions : s # active => sessions'[s] = sessions[s]
    BY <1>1, <1>8, <2>1, <2>2, Replace DEF Sessions
  <2>4. Sessions' = Sessions
    BY <2>3 DEF Sessions
  <2>5. \A s \in Sessions : /\ sessions'[s].status = sessions[s].status
                            /\ sessions'[s].task = sessions[s].task
                            /\ sessions'[s].cancelled = sessions[s].cancelled
    BY <2>2, <2>3
  <2>6. TypeOK'
    <3>1. active' \in 0..Len(sessions')
      BY <1>1, <1>8, <2>3 DEF NoSession
    <3>2. ASSUME NEW v \in Users, awaiting'[v] # NoSession PROVE sessions'[awaiting'[v]].cancelled
      <4>1. awaiting'[v] = awaiting[v] /\ awaiting[v] \in Sessions /\ sessions[awaiting[v]].cancelled
        BY <1>1, <1>3, <3>2 DEF Sessions, NoSession
      <4> QED BY <2>5, <4>1
    <3> QED BY <1>1, <1>2, <1>4, <1>5, <2>3, <3>1, <3>2 DEF TypeOK
  <2>7. ASSUME ~overlapped' PROVE Serial'
    <3>1. \A s \in Sessions : sessions'[s].task = "done"
      BY <1>6, <2>5, <2>7
    <3>2. OnlyNewest' /\ StoppedIsAwaited' /\ AppliedIsOwn'
      BY <2>4, <3>1 DEF OnlyNewest, StoppedIsAwaited, AppliedIsOwn
    <3>3. RunningIsCaptured' /\ CancelledIsStopped'
      BY <1>6, <2>4, <2>5, <2>7 DEF Serial, RunningIsCaptured, CancelledIsStopped
    <3>4. AwaitsNewest' /\ ~mislabelled'
      BY <1>2, <1>3, <1>6, <2>3, <2>7 DEF Serial, AwaitsNewest
    <3> QED BY <3>2, <3>3, <3>4 DEF Serial
  <2> QED BY <2>6, <2>7 DEF IInv
<1>9. \/ UNCHANGED <<sessions, active>>
      \/ /\ active # NoSession
         /\ \E f \in Finalized(sessions[active]) :
              sessions' = [sessions EXCEPT ![active] = f.session] /\ active' \in {active, NoSession}
  BY Zenon DEF FinishStop
<1> QED BY <1>7, <1>8, <1>9

\* A turn applies the variant it labels its snapshot with, or has applied it before.
LEMMA TurnInv ==
  ASSUME IInv, NEW s \in Sessions, NEW half \in Halves, Turn(s, half)
  PROVE  IInv'
<1> DEFINE t == [sessions[s] EXCEPT !.task = "capturing", !.shots = TRUE, !.half = half]
<1>1. /\ sessions \in Seq(Session) /\ sessions[s] \in Session /\ s \in 0..Len(sessions)
      /\ applied \in [of : 0..Len(sessions), half : Halves]
  BY DEF IInv, TypeOK, Sessions
<1>2. /\ sessions[s].task # "done" /\ ApplyVariant(s, half)
      /\ UNCHANGED <<active, awaiting, overlapped>>
      /\ mislabelled' = (mislabelled \/ (sessions[s].ab /\ applied' # [of |-> s, half |-> half]))
  BY DEF Turn, CanTurn
<1>3. sessions' = [sessions EXCEPT ![s] = t]
  BY <1>1 DEF Turn, Sessions
<1>4. t \in Session
  BY <1>1 DEF Session
<1>5. /\ t.task = "capturing" /\ t.half = half /\ t.status = sessions[s].status
      /\ t.ab = sessions[s].ab /\ t.cancelled = sessions[s].cancelled
  BY <1>1 DEF Session
<1> HIDE DEF t
<1>6. /\ sessions' \in Seq(Session) /\ Len(sessions') = Len(sessions) /\ sessions'[s] = t
      /\ \A r \in Sessions : r # s => sessions'[r] = sessions[r]
  BY <1>1, <1>3, <1>4, Replace DEF Sessions
<1>7. Sessions' = Sessions
  BY <1>6 DEF Sessions
<1>8. applied' \in [of : 0..Len(sessions), half : Halves]
  BY <1>1, <1>2 DEF ApplyVariant
<1>9. TypeOK'
  <2>1. /\ Len(sessions') <= MaxSessions /\ active' \in 0..Len(sessions')
        /\ awaiting' \in [Users -> 0..Len(sessions')] /\ applied' \in [of : 0..Len(sessions'), half : Halves]
    BY <1>2, <1>6, <1>8 DEF IInv, TypeOK
  <2>2. ASSUME NEW u \in Users, awaiting'[u] # NoSession PROVE sessions'[awaiting'[u]].cancelled
    <3>1. awaiting'[u] \in Sessions /\ sessions[awaiting'[u]].cancelled
      BY <1>1, <1>2, <2>2 DEF IInv, TypeOK, Sessions, NoSession
    <3> QED BY <1>5, <1>6, <3>1
  <2>3. overlapped' \in BOOLEAN /\ mislabelled' \in BOOLEAN
    BY <1>2, Zenon DEF IInv, TypeOK
  <2> QED BY <1>6, <2>1, <2>2, <2>3 DEF TypeOK
<1>10. ASSUME ~overlapped' PROVE Serial'
  <2>1. Serial
    BY <1>2, <1>10, Zenon DEF IInv
  <2>2. \A r \in Sessions : r # s => sessions'[r].task = "done"
    BY <1>2, <1>6, <2>1 DEF Serial, OnlyNewest
  <2>3. OnlyNewest' /\ RunningIsCaptured'
    BY <1>2, <1>5, <1>6, <1>7, <2>1 DEF Serial, OnlyNewest, RunningIsCaptured
  <2>4. StoppedIsAwaited' /\ CancelledIsStopped'
    BY <1>2, <1>5, <1>6, <1>7, <2>1 DEF Serial, StoppedIsAwaited, CancelledIsStopped
  <2>5. AwaitsNewest'
    BY <1>2, <1>6, <2>1 DEF Serial, AwaitsNewest
  <2>6. sessions[s].ab => applied' = [of |-> s, half |-> half]
    <3>1. CASE sessions[s].task = "created" \/ half # sessions[s].half
      BY <1>2, <3>1, Zenon DEF ApplyVariant
    <3>2. CASE sessions[s].task # "created" /\ half = sessions[s].half
      <4>1. sessions[s].task = "capturing"
        BY <1>1, <1>2, <3>2 DEF Session
      <4> QED BY <1>2, <2>1, <3>2, <4>1, Zenon DEF ApplyVariant, Serial, AppliedIsOwn
    <3> QED BY <3>1, <3>2, Zenon
  <2>7. AppliedIsOwn'
    BY <1>5, <1>6, <1>7, <2>2, <2>6 DEF AppliedIsOwn
  <2>8. ~mislabelled'
    BY <1>2, <2>1, <2>6, Zenon DEF Serial
  <2> QED BY <2>3, <2>4, <2>5, <2>7, <2>8 DEF Serial
<1> QED BY <1>9, <1>10 DEF IInv

LEMMA NextInv == IInv /\ [Next]_vars => IInv'
<1> SUFFICES ASSUME IInv, [Next]_vars PROVE IInv'
  OBVIOUS
<1>1. ASSUME NEW ab \in BOOLEAN, Start(ab) PROVE IInv'
  BY <1>1, StartInv
<1>2. ASSUME NEW u \in Users, Stop(u) PROVE IInv'
  BY <1>2, StopInv
<1>3. ASSUME NEW u \in Users, FinishStop(u) PROVE IInv'
  BY <1>3, FinishStopInv
<1>4. ASSUME NEW s \in Sessions, NEW half \in Halves, Turn(s, half) PROVE IInv'
  BY <1>4, TurnInv
<1>5. ASSUME NEW s \in Sessions, Expire(s) PROVE IInv'
  BY <1>5, ExpireInv
<1>6. ASSUME NEW s \in Sessions, Cancelled(s) PROVE IInv'
  BY <1>6, CancelledInv
<1>7. CASE UNCHANGED vars
  BY <1>7 DEF vars, IInv, TypeOK, Serial, OnlyNewest, RunningIsCaptured, StoppedIsAwaited,
              CancelledIsStopped, AwaitsNewest, AppliedIsOwn, Sessions
<1> QED BY <1>1, <1>2, <1>3, <1>4, <1>5, <1>6, <1>7, Zenon DEF Next

(***************************************************************************)
(* The inductive invariant of the test runner: types, and, unless a        *)
(* session was started while a stop_test was suspended, at most the        *)
(* newest session's task is left, which is the active one; what was        *)
(* stopped is awaited; and an A/B session's variant is the one applied     *)
(* (test_runner.py:110-268).                                               *)
(***************************************************************************)
THEOREM InductiveInvariant == Spec => []IInv
BY InitInv, NextInv, PTL DEF Spec

(***************************************************************************)
(* The variables of the test runner keep their types, and what a           *)
(* suspended stop_test awaits was cancelled (test_runner.py:223-239).      *)
(***************************************************************************)
THEOREM TypeCorrect == Spec => []TypeOK
<1>1. IInv => TypeOK
  BY DEF IInv
<1> QED BY <1>1, InductiveInvariant, PTL

(***************************************************************************)
(* "A test is already running" (test_runner.py:114, 150) keeps its promise *)
(* to users who do not start a session while a stop_test is suspended.     *)
(***************************************************************************)
THEOREM OneSessionAtATime == Spec => []OneAtATime
<1>1. IInv => OneAtATime
  BY DEF IInv, Serial, OnlyNewest, RunningIsCaptured, OneAtATime
<1> QED BY <1>1, InductiveInvariant, PTL

(***************************************************************************)
(* Under the same condition the snapshots of an A/B session are taken      *)
(* under the variant they are labelled with (test_runner.py:171-203).      *)
(***************************************************************************)
THEOREM SnapshotsLabelledTruly == Spec => []LabelledTruly
<1>1. IInv => LabelledTruly
  BY DEF IInv, Serial, LabelledTruly
<1> QED BY <1>1, InductiveInvariant, PTL
-----------------------------------------------------------------------------
(* A session that has ended stays as it is. *)

EndedIsDone == \A s \in Sessions : sessions[s].ended => sessions[s].task = "done"

SavedAsEnded ==
  \A s \in Sessions :
    sessions[s].saved # "none" => sessions[s].ended /\ sessions[s].saved = sessions[s].status

ActiveIsNewest == active \in {NoSession, Len(sessions)}

OneAwaits == \A u, v \in Users : awaiting[u] # NoSession /\ awaiting[v] # NoSession => u = v

\* A stop_test that finds its session ended, and still the active one, passes on an exception.
AwaitsTheEnd ==
  \A u \in Users :
    awaiting[u] # NoSession /\ active # NoSession /\ sessions[active].ended
      => sessions[awaiting[u]].raised

Final == EndedIsDone /\ SavedAsEnded /\ ActiveIsNewest /\ OneAwaits /\ AwaitsTheEnd

EInv == IInv /\ (~overlapped => Final)

EndedKept == \A s \in Sessions : sessions[s].ended => sessions'[s] = sessions[s]

\* What _finalize does change.
LEMMA FinalizedEnds ==
  ASSUME NEW s \in Session, NEW f \in Finalized(s)
  PROVE  f.session.ended /\ f.session.saved \in {s.status, s.saved} /\ f.session.raised = s.raised
<1> DEFINE ended == [s EXCEPT !.ended = TRUE]
           saved == [s EXCEPT !.ended = TRUE, !.saved = s.status]
<1>1. f \in {[session |-> saved, raised |-> FALSE], [session |-> ended, raised |-> TRUE],
             [session |-> ended, raised |-> FALSE]}
  BY Zenon DEF Finalized
<1>2. ended.ended /\ ended.saved = s.saved /\ ended.raised = s.raised BY DEF Session
<1>3. saved.ended /\ saved.saved = s.status /\ saved.raised = s.raised BY DEF Session
<1> HIDE DEF ended, saved
<1>4. f.session \in {ended, saved} BY <1>1
<1> QED BY <1>2, <1>3, <1>4

(***************************************************************************)
(* A step that changes one session, which has not ended, leaves Final: it  *)
(* ends the session only when its task is over, saves it as it ends it,    *)
(* and either nobody who awaits it finds it the active one, or he is told  *)
(* by an exception.                                                        *)
(***************************************************************************)
LEMMA OneChanges ==
  ASSUME IInv, Serial, Serial', Final,
         NEW s \in Sessions, NEW t \in Session,
         sessions' = [sessions EXCEPT ![s] = t],
         ~sessions[s].ended,
         t.ended => t.task = "done",
         t.saved # "none" => t.ended /\ t.saved = t.status,
         active' \in {active, NoSession},
         awaiting' = awaiting \/ s = active,
         OneAwaits',
         t.ended => \/ active' = NoSession \/ t.raised
                    \/ \A u \in Users : awaiting'[u] = NoSession
  PROVE  Final' /\ EndedKept
<1>1. sessions \in Seq(Session) BY DEF IInv, TypeOK
<1>2. /\ sessions' \in Seq(Session) /\ Len(sessions') = Len(sessions) /\ Sessions' = Sessions
      /\ sessions'[s] = t /\ \A r \in Sessions : r # s => sessions'[r] = sessions[r]
  BY <1>1, Replace DEF Sessions
<1>3. EndedIsDone' BY <1>2 DEF Final, EndedIsDone
<1>4. SavedAsEnded' BY <1>2 DEF Final, SavedAsEnded
<1>5. ActiveIsNewest' BY <1>2 DEF Final, ActiveIsNewest, NoSession
<1>6. ASSUME NEW u \in Users, awaiting'[u] # NoSession, active' # NoSession, sessions'[active'].ended
      PROVE  sessions'[awaiting'[u]].raised
  <2>1. active' = active /\ active = Len(sessions) /\ awaiting'[u] = active
    BY <1>2, <1>6 DEF Final, ActiveIsNewest, Serial, AwaitsNewest, NoSession
  <2>2. active \in Sessions BY <1>1, <1>6, <2>1 DEF Sessions, NoSession
  <2>3. CASE s = active BY <1>2, <1>6, <2>1, <2>3
  <2>4. CASE s # active
    <3>1. sessions'[active] = sessions[active] BY <1>2, <2>2, <2>4
    <3> QED BY <1>6, <2>1, <2>4, <3>1 DEF Final, AwaitsTheEnd
  <2> QED BY <2>3, <2>4
<1>7. AwaitsTheEnd' BY <1>6 DEF AwaitsTheEnd, NoSession
<1>8. EndedKept BY <1>2 DEF EndedKept
<1> QED BY <1>3, <1>4, <1>5, <1>7, <1>8 DEF Final

\* The finally of a capture loop ends a session that has not ended.
LEMMA EndsFinal ==
  ASSUME IInv, Serial, Serial', Final, NEW s \in Sessions, sessions[s].task # "done", Ends(s),
         awaiting' = awaiting
  PROVE  Final' /\ EndedKept
<1> DEFINE t == [sessions[s] EXCEPT !.task = "done",
                                    !.status = IF @ = "running" THEN "completed" ELSE @]
<1>1. sessions[s] \in Session /\ ~sessions[s].ended
  BY DEF IInv, TypeOK, Sessions, Final, EndedIsDone
<1>2. sessions[s].saved = "none" BY <1>1 DEF Final, SavedAsEnded
<1>3. t \in Session /\ t.task = "done" /\ t.saved = "none" BY <1>1, <1>2 DEF Session
<1>4. PICK f \in Finalized(t) : /\ sessions' = [sessions EXCEPT ![s] = [f.session EXCEPT !.raised = f.raised]]
                                /\ active' = IF f.raised THEN active ELSE NoSession
  BY Zenon DEF Ends
<1> DEFINE end == [f.session EXCEPT !.raised = f.raised]
<1> HIDE DEF t
<1>5. /\ f.session \in Session /\ f.raised \in BOOLEAN /\ f.session.task = "done"
      /\ f.session.saved \in {f.session.status, "none"}
  BY <1>3, FinalizedKeeps, FinalizedEnds
<1>6. end \in Session /\ end.task = "done" /\ end.saved \in {end.status, "none"} /\ end.raised = f.raised
  BY <1>5 DEF Session
<1>7. end.ended BY <1>3, <1>5, FinalizedEnds DEF Session
<1> HIDE DEF end
<1>8. active' = NoSession \/ end.raised BY <1>4, <1>5, <1>6
<1>9. OneAwaits' BY DEF Final, OneAwaits, NoSession
<1>10. sessions' = [sessions EXCEPT ![s] = end] BY <1>4 DEF end
<1> QED BY <1>1, <1>4, <1>6, <1>7, <1>8, <1>9, <1>10, OneChanges

LEMMA CancelledFinal ==
  ASSUME IInv, Serial, Serial', Final, NEW s \in Sessions, Cancelled(s)
  PROVE  Final' /\ EndedKept
<1>1. CASE Ends(s) BY <1>1, EndsFinal DEF Cancelled
<1>2. CASE ~Ends(s)
  <2> DEFINE t == [sessions[s] EXCEPT !.task = "done"]
  <2>1. sessions \in Seq(Session) /\ sessions[s] \in Session /\ sessions[s].task # "done"
    BY DEF IInv, TypeOK, Sessions, Cancelled
  <2>2. ~sessions[s].ended /\ sessions[s].saved = "none"
    BY <2>1 DEF Final, EndedIsDone, SavedAsEnded
  <2>3. t \in Session /\ ~t.ended /\ t.saved = "none" BY <2>1, <2>2 DEF Session
  <2>4. sessions' = [sessions EXCEPT ![s] = t] /\ active' = active /\ awaiting' = awaiting
    BY <1>2, <2>1 DEF Cancelled, Sessions
  <2>5. OneAwaits' BY <2>4 DEF Final, OneAwaits, NoSession
  <2> HIDE DEF t
  <2> QED BY <2>2, <2>3, <2>4, <2>5, OneChanges
<1> QED BY <1>1, <1>2

LEMMA TurnFinal ==
  ASSUME IInv, Serial, Serial', Final, NEW s \in Sessions, NEW half \in Halves, Turn(s, half)
  PROVE  Final' /\ EndedKept
<1> DEFINE t == [sessions[s] EXCEPT !.task = "capturing", !.shots = TRUE, !.half = half]
<1>1. sessions \in Seq(Session) /\ sessions[s] \in Session /\ sessions[s].task # "done"
  BY DEF IInv, TypeOK, Sessions, Turn, CanTurn
<1>2. ~sessions[s].ended /\ sessions[s].saved = "none"
  BY <1>1 DEF Final, EndedIsDone, SavedAsEnded
<1>3. t \in Session /\ ~t.ended /\ t.saved = "none" BY <1>1, <1>2 DEF Session
<1>4. sessions' = [sessions EXCEPT ![s] = t] /\ active' = active /\ awaiting' = awaiting
  BY <1>1 DEF Turn, Sessions
<1>5. OneAwaits' BY <1>4 DEF Final, OneAwaits, NoSession
<1> HIDE DEF t
<1> QED BY <1>2, <1>3, <1>4, <1>5, OneChanges

\* stop_test stops a session that runs, which nobody awaits.
LEMMA StopFinal ==
  ASSUME IInv, Serial, Serial', Final, NEW u \in Users, Stop(u)
  PROVE  Final' /\ EndedKept
<1> DEFINE n == Len(sessions)
           t == [sessions[n] EXCEPT !.status = "stopped", !.cancelled = TRUE]
<1>1. /\ sessions \in Seq(Session) /\ n \in Nat /\ n \in Sessions /\ active = n
      /\ sessions[n].status = "running" /\ sessions[n] \in Session
  BY DEF Stop, ActiveRuns, IInv, TypeOK, Sessions, NoSession, Final, ActiveIsNewest
<1>2. /\ active' = active /\ awaiting' = [awaiting EXCEPT ![u] = n] /\ awaiting \in [Users -> 0..n]
      /\ sessions' = [sessions EXCEPT ![active].status = "stopped", ![n].cancelled = TRUE]
  BY DEF Stop, IInv, TypeOK
<1>3. sessions' = [sessions EXCEPT ![n] = t]
  BY <1>1, <1>2 DEF Sessions
<1>4. ~sessions[n].ended /\ sessions[n].saved = "none"
  BY <1>1 DEF Serial, RunningIsCaptured, Final, EndedIsDone, SavedAsEnded
<1>5. t \in Session /\ ~t.ended /\ t.saved = "none" BY <1>1, <1>4 DEF Session
<1>6. \A v \in Users : awaiting[v] = NoSession
  <2> SUFFICES ASSUME NEW v \in Users, awaiting[v] # NoSession PROVE FALSE OBVIOUS
  <2>1. awaiting[v] = n BY DEF Serial, AwaitsNewest
  <2>2. sessions[n].cancelled BY <2>1 DEF IInv, TypeOK
  <2> QED BY <1>1, <2>2 DEF Serial, CancelledIsStopped
<1>7. OneAwaits' BY <1>2, <1>6 DEF OneAwaits, NoSession
<1> HIDE DEF t
<1> QED BY <1>1, <1>2, <1>3, <1>4, <1>5, <1>7, OneChanges

\* The rest of stop_test ends what its task did not.
LEMMA FinishStopFinal ==
  ASSUME IInv, Serial, Serial', Final, NEW u \in Users, FinishStop(u)
  PROVE  Final' /\ EndedKept
<1>1. /\ awaiting[u] # NoSession /\ sessions[awaiting[u]].task = "done"
      /\ awaiting' = [awaiting EXCEPT ![u] = NoSession]
      /\ awaiting \in [Users -> 0..Len(sessions)] /\ sessions \in Seq(Session)
  BY DEF FinishStop, IInv, TypeOK
<1>2. \A v \in Users : awaiting'[v] = NoSession
  BY <1>1 DEF Final, OneAwaits, NoSession
<1>3. OneAwaits' BY <1>2 DEF OneAwaits, NoSession
<1>4. CASE UNCHANGED <<sessions, active>>
  <2>1. EndedIsDone' /\ SavedAsEnded' /\ ActiveIsNewest' /\ EndedKept
    BY <1>4 DEF Final, EndedIsDone, SavedAsEnded, ActiveIsNewest, EndedKept, Sessions, NoSession
  <2>2. AwaitsTheEnd' BY <1>2 DEF AwaitsTheEnd, NoSession
  <2> QED BY <1>3, <2>1, <2>2 DEF Final
<1>5. CASE /\ ~sessions[awaiting[u]].raised /\ active # NoSession
           /\ \E f \in Finalized(sessions[active]) :
                /\ sessions' = [sessions EXCEPT ![active] = f.session]
                /\ active' = IF f.raised THEN active ELSE NoSession
  <2>1. PICK f \in Finalized(sessions[active]) :
          /\ sessions' = [sessions EXCEPT ![active] = f.session]
          /\ active' \in {active, NoSession}
    BY <1>5, Zenon
  <2>2. active = Len(sessions) /\ active \in Sessions /\ awaiting[u] = active /\ sessions[active] \in Session
    BY <1>1, <1>5 DEF Final, ActiveIsNewest, Serial, AwaitsNewest, IInv, TypeOK, Sessions, NoSession
  <2>3. ~sessions[active].ended BY <1>1, <1>5, <2>2 DEF Final, AwaitsTheEnd
  <2>4. sessions[active].saved = "none" BY <2>2, <2>3 DEF Final, SavedAsEnded
  <2>5. /\ f.session \in Session /\ f.session.ended /\ f.session.task = "done"
        /\ f.session.saved \in {f.session.status, "none"}
    BY <1>1, <2>2, <2>4, FinalizedKeeps, FinalizedEnds
  <2> QED BY <1>2, <1>3, <2>1, <2>2, <2>3, <2>5, OneChanges
<1> QED BY <1>4, <1>5, Zenon DEF FinishStop

\* A session starts when nobody awaits any.
LEMMA StartFinal ==
  ASSUME IInv, Final, NEW ab \in BOOLEAN, Start(ab), ~overlapped'
  PROVE  Final' /\ EndedKept
<1> DEFINE n == Len(sessions) + 1
<1>1. NewSession(ab) \in Session /\ ~NewSession(ab).ended /\ NewSession(ab).saved = "none"
  BY DEF NewSession, Session, Halves
<1>2. sessions \in Seq(Session) /\ sessions' = Append(sessions, NewSession(ab)) /\ active' = Len(sessions')
  BY DEF Start, IInv, TypeOK
<1>3. /\ Len(sessions') = n /\ Sessions' = Sessions \cup {n} /\ sessions'[n] = NewSession(ab)
      /\ \A s \in Sessions : sessions'[s] = sessions[s]
  BY <1>1, <1>2 DEF Sessions
<1>4. \A u \in Users : awaiting'[u] = NoSession BY Zenon DEF Start
<1>5. EndedIsDone' /\ SavedAsEnded' BY <1>1, <1>3 DEF Final, EndedIsDone, SavedAsEnded
<1>6. ActiveIsNewest' BY <1>2 DEF ActiveIsNewest
<1>7. OneAwaits' /\ AwaitsTheEnd' BY <1>4 DEF OneAwaits, AwaitsTheEnd, NoSession
<1>8. EndedKept BY <1>3 DEF EndedKept
<1> QED BY <1>5, <1>6, <1>7, <1>8 DEF Final

LEMMA FinalSteps == EInv /\ [Next]_vars => EInv' /\ (~overlapped' => EndedKept)
<1> SUFFICES ASSUME EInv, [Next]_vars PROVE EInv' /\ (~overlapped' => EndedKept)
  OBVIOUS
<1>1. IInv /\ IInv' BY NextInv DEF EInv
<1>2. SUFFICES ASSUME ~overlapped' PROVE Final' /\ EndedKept
  BY <1>1 DEF EInv
<1>3. ~overlapped
  BY <1>2, Zenon DEF Next, Start, Stop, FinishStop, Turn, Expire, Cancelled, vars
<1>4. Serial /\ Serial' /\ Final BY <1>1, <1>2, <1>3 DEF EInv, IInv
<1>5. ASSUME NEW ab \in BOOLEAN, Start(ab) PROVE Final' /\ EndedKept
  BY <1>1, <1>2, <1>4, <1>5, StartFinal
<1>6. ASSUME NEW u \in Users, Stop(u) PROVE Final' /\ EndedKept
  BY <1>1, <1>4, <1>6, StopFinal
<1>7. ASSUME NEW u \in Users, FinishStop(u) PROVE Final' /\ EndedKept
  BY <1>1, <1>4, <1>7, FinishStopFinal
<1>8. ASSUME NEW s \in Sessions, NEW half \in Halves, Turn(s, half) PROVE Final' /\ EndedKept
  BY <1>1, <1>4, <1>8, TurnFinal
<1>9. ASSUME NEW s \in Sessions, Expire(s) PROVE Final' /\ EndedKept
  <2>1. sessions[s].task # "done" /\ Ends(s) /\ awaiting' = awaiting BY <1>9 DEF Expire, CanTurn
  <2> QED BY <1>1, <1>4, <2>1, EndsFinal
<1>10. ASSUME NEW s \in Sessions, Cancelled(s) PROVE Final' /\ EndedKept
  BY <1>1, <1>4, <1>10, CancelledFinal
<1>11. CASE UNCHANGED vars
  BY <1>4, <1>11 DEF vars, Final, EndedIsDone, SavedAsEnded, ActiveIsNewest, OneAwaits, AwaitsTheEnd,
     EndedKept, Sessions, NoSession
<1> QED BY <1>5, <1>6, <1>7, <1>8, <1>9, <1>10, <1>11, Zenon DEF Next

LEMMA FinalStarts == Init => EInv
<1> SUFFICES ASSUME Init PROVE EInv OBVIOUS
<1>1. Sessions = {} /\ active = NoSession /\ \A u \in Users : awaiting[u] = NoSession
  BY DEF Init, Sessions
<1> QED BY <1>1, InitInv
        DEF EInv, Final, EndedIsDone, SavedAsEnded, ActiveIsNewest, OneAwaits, AwaitsTheEnd

LEMMA FinalInvariant == Spec => []EInv
<1>1. EInv /\ [Next]_vars => EInv' BY FinalSteps
<1> QED BY <1>1, FinalStarts, PTL DEF Spec

EndsForGood == [][~overlapped' => EndedKept]_vars

(***************************************************************************)
(* A session that has its end time stays as it is for good: neither        *)
(* another stop_test nor the finally of a capture loop finalizes it again, *)
(* and no request changes its status, unless a session was started while a *)
(* stop_test was suspended (test_runner.py:205-211, 223-239, 262-272).     *)
(***************************************************************************)
THEOREM EndedStaysEnded == Spec => EndsForGood
<1>1. EInv /\ [Next]_vars => [~overlapped' => EndedKept]_vars BY FinalSteps
<1> QED BY <1>1, FinalInvariant, PTL DEF Spec, EndsForGood

FileTellsTheEnd ==
  ~overlapped =>
    \A s \in Sessions :
      sessions[s].saved # "none" => sessions[s].ended /\ sessions[s].saved = sessions[s].status

(***************************************************************************)
(* Under the same condition a session is in its file as it ended: it is    *)
(* written once, completed or stopped, after its status was settled        *)
(* (test_runner.py:270-343).                                               *)
(***************************************************************************)
THEOREM FilesTellTheEnd == Spec => []FileTellsTheEnd
<1>1. EInv => FileTellsTheEnd BY DEF EInv, Final, SavedAsEnded, FileTellsTheEnd
<1> QED BY <1>1, FinalInvariant, PTL
=============================================================================
