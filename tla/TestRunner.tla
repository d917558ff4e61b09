----------------------------- MODULE TestRunner -----------------------------
(***************************************************************************)
(* hyperagg/testing/test_runner.py: named test sessions.  A session has a  *)
(* capture task that takes a snapshot every two seconds until its time is  *)
(* over, and then finalizes the session and saves it.  An A/B session      *)
(* applies a variant of the configuration in each half.  The dashboard     *)
(* starts sessions, which has no await inside, and stops them, which       *)
(* awaits the capture task.  Time is read once per turn of a capture loop, *)
(* so each turn just finds the session in its first half, its second, or   *)
(* over.  What a snapshot holds is left out, but for its variant.          *)
(***************************************************************************)
EXTENDS Integers, Sequences

CONSTANTS
  Users,        \* those who call stop_test, one call at a time each
  MaxSessions   \* sessions started (bound)

ASSUME RunnerAssumption == MaxSessions \in Nat

VARIABLES
  sessions,     \* the sessions, oldest first; the last one's task is _capture_task
  active,       \* _active: a session, or NoSession
  awaiting,     \* the session whose task a suspended stop_test awaits, or NoSession
  applied,      \* the variant applied last: that of a session, or NoVariant
  overlapped,   \* history: was a session started while a stop_test was suspended?
  mislabelled   \* history: was a snapshot taken under another variant than its own?

vars == <<sessions, active, awaiting, applied, overlapped, mislabelled>>

NoSession == 0
Sessions  == 1..Len(sessions)
Halves    == {"A", "B"}
NoVariant == [of |-> NoSession, half |-> "A"]

(***************************************************************************)
(* A session: its status, kind and half (current_variant); its capture     *)
(* task and whether cancel() was called on that; whether it has snapshots, *)
(* has an ended_at; the status in its file ("none" without a file); and    *)
(* whether saving it raised in the task.                                   *)
(***************************************************************************)
Session == [status : {"running", "completed", "stopped"},
            ab : BOOLEAN, half : Halves,
            task : {"created", "capturing", "done"}, cancelled : BOOLEAN,
            shots : BOOLEAN, ended : BOOLEAN,
            saved : {"none", "running", "completed", "stopped"}, raised : BOOLEAN]

NewSession(ab) ==
  [status |-> "running", ab |-> ab, half |-> "A", task |-> "created", cancelled |-> FALSE,
   shots |-> FALSE, ended |-> FALSE, saved |-> "none", raised |-> FALSE]

Init ==
  /\ sessions = << >>
  /\ active = NoSession
  /\ awaiting = [u \in Users |-> NoSession]
  /\ applied = NoVariant
  /\ overlapped = FALSE
  /\ mislabelled = FALSE

TypeOK ==
  /\ sessions \in Seq(Session) /\ Len(sessions) <= MaxSessions
  /\ active \in 0..Len(sessions)
  /\ awaiting \in [Users -> 0..Len(sessions)]
  /\ \A u \in Users : awaiting[u] # NoSession => sessions[awaiting[u]].cancelled
  /\ applied \in [of : 0..Len(sessions), half : Halves]
  /\ overlapped \in BOOLEAN /\ mislabelled \in BOOLEAN

ActiveRuns == active # NoSession /\ sessions[active].status = "running"

-----------------------------------------------------------------------------
(* _finalize. *)

(***************************************************************************)
(* A session after _finalize, and whether that raised.  Without snapshots  *)
(* nothing is saved; writing the file may fail.                            *)
(***************************************************************************)
Finalized(s) ==
  IF s.shots
  THEN {[session |-> [s EXCEPT !.ended = TRUE, !.saved = s.status], raised |-> FALSE],
        [session |-> [s EXCEPT !.ended = TRUE], raised |-> TRUE]}
  ELSE {[session |-> [s EXCEPT !.ended = TRUE], raised |-> FALSE]}

-----------------------------------------------------------------------------
(* Requests of the dashboard. *)

(* Definitions named X_<flaw> are X with a plausible bug; no action uses them. *)
Start_Unguarded(ab) ==
  /\ Len(sessions) < MaxSessions
  /\ sessions' = Append(sessions, NewSession(ab))
  /\ active' = Len(sessions')
  /\ overlapped' = (overlapped \/ \E u \in Users : awaiting[u] # NoSession)
  /\ UNCHANGED <<awaiting, applied, mislabelled>>

\* start_test, start_ab_test.
Start(ab) ==
  /\ ~ActiveRuns
  /\ Len(sessions) < MaxSessions
  /\ sessions' = Append(sessions, NewSession(ab))
  /\ active' = Len(sessions')
  /\ overlapped' = (overlapped \/ \E u \in Users : awaiting[u] # NoSession)
  /\ UNCHANGED <<awaiting, applied, mislabelled>>

Stop_WithoutCancel(u) ==
  /\ awaiting[u] = NoSession
  /\ ActiveRuns
  /\ sessions' = [sessions EXCEPT ![active].status = "stopped"]
  /\ awaiting' = [awaiting EXCEPT ![u] = Len(sessions)]
  /\ UNCHANGED <<active, applied, overlapped, mislabelled>>

\* stop_test up to the await of the capture task.
Stop(u) ==
  /\ awaiting[u] = NoSession
  /\ ActiveRuns
  /\ sessions' = [sessions EXCEPT ![active].status = "stopped",
                                  ![Len(sessions)].cancelled = TRUE]
  /\ awaiting' = [awaiting EXCEPT ![u] = Len(sessions)]
  /\ UNCHANGED <<active, applied, overlapped, mislabelled>>

FinishStop_LeavesEndToTask(u) ==
  /\ awaiting[u] # NoSession
  /\ sessions[awaiting[u]].task = "done"
  /\ awaiting' = [awaiting EXCEPT ![u] = NoSession]
  /\ active' = NoSession
  /\ UNCHANGED <<sessions, applied, overlapped, mislabelled>>

(***************************************************************************)
(* The rest of stop_test, when the task it awaits is over.  It passes on   *)
(* what the task raised; otherwise it finalizes whatever _active is by     *)
(* now, and raises if that is None.                                        *)
(***************************************************************************)
FinishStop(u) ==
  /\ awaiting[u] # NoSession
  /\ sessions[awaiting[u]].task = "done"
  /\ awaiting' = [awaiting EXCEPT ![u] = NoSession]
  /\ \/ /\ sessions[awaiting[u]].raised \/ active = NoSession
        /\ UNCHANGED <<sessions, active>>
     \/ /\ ~sessions[awaiting[u]].raised /\ active # NoSession
        /\ \E f \in Finalized(sessions[active]) :
             /\ sessions' = [sessions EXCEPT ![active] = f.session]
             /\ active' = IF f.raised THEN active ELSE NoSession
  /\ UNCHANGED <<applied, overlapped, mislabelled>>

-----------------------------------------------------------------------------
(* The capture task. *)

ApplyVariant_Once(s, half) ==
  applied' = IF sessions[s].ab /\ sessions[s].task = "created"
             THEN [of |-> s, half |-> half]
             ELSE applied

\* An A/B session applies A when it begins and B when it finds itself past the half.
ApplyVariant(s, half) ==
  applied' = IF sessions[s].ab /\ (sessions[s].task = "created" \/ half # sessions[s].half)
             THEN [of |-> s, half |-> half]
             ELSE applied

\* The halves a turn can find a session in.
NextHalves(s) == IF sessions[s].ab /\ sessions[s].half = "A" THEN Halves ELSE {sessions[s].half}

\* A capture loop can take a turn: its sleep is over, and no cancel() before that.
CanTurn(s) == sessions[s].task # "done" /\ ~sessions[s].cancelled

\* A turn of _capture_loop or _ab_capture_loop that takes a snapshot.
Turn(s, half) ==
  /\ CanTurn(s) /\ half \in NextHalves(s)
  /\ ApplyVariant(s, half)
  /\ sessions' = [sessions EXCEPT ![s].task = "capturing", ![s].shots = TRUE, ![s].half = half]
  /\ mislabelled' = (mislabelled \/ (sessions[s].ab /\ applied' # [of |-> s, half |-> half]))
  /\ UNCHANGED <<active, awaiting, overlapped>>

Ends_KeepsRunning(s) ==
  \E f \in Finalized([sessions[s] EXCEPT !.task = "done"]) :
    /\ sessions' = [sessions EXCEPT ![s] = [f.session EXCEPT !.raised = f.raised]]
    /\ active' = IF f.raised THEN active ELSE NoSession

\* The finally of a capture loop.
Ends(s) ==
  LET t == [sessions[s] EXCEPT !.task = "done",
                               !.status = IF @ = "running" THEN "completed" ELSE @]
  IN  \E f \in Finalized(t) :
        /\ sessions' = [sessions EXCEPT ![s] = [f.session EXCEPT !.raised = f.raised]]
        /\ active' = IF f.raised THEN active ELSE NoSession

\* A turn that finds the time over, or in which taking the snapshot raises.
Expire(s) ==
  /\ CanTurn(s)
  /\ \E half \in NextHalves(s) : ApplyVariant(s, half)
  /\ Ends(s)
  /\ UNCHANGED <<awaiting, overlapped, mislabelled>>

\* The cancellation reaches a task; one that never ran ends without its finally.
Cancelled(s) ==
  /\ sessions[s].task # "done" /\ sessions[s].cancelled
  /\ \/ /\ sessions[s].task = "created"
        /\ sessions' = [sessions EXCEPT ![s].task = "done"]
        /\ UNCHANGED active
     \/ /\ sessions[s].task = "capturing"
        /\ Ends(s)
  /\ UNCHANGED <<awaiting, applied, overlapped, mislabelled>>

Next ==
  \/ \E ab \in BOOLEAN : Start(ab)
  \/ \E u \in Users : Stop(u) \/ FinishStop(u)
  \/ \E s \in Sessions :
       \/ \E half \in Halves : Turn(s, half)
       \/ Expire(s)
       \/ Cancelled(s)

Spec == Init /\ [][Next]_vars

(***************************************************************************)
(* Fairness: the clock goes on, so that a capture loop finds its time over *)
(* (the API does not bound a duration, but one is finite); a cancelled     *)
(* task and the stop_test that awaits it are resumed.                      *)
(***************************************************************************)
FairSpec ==
  /\ Spec
  /\ \A s \in 1..MaxSessions : WF_vars(s \in Sessions /\ (Expire(s) \/ Cancelled(s)))
  /\ \A u \in Users : WF_vars(FinishStop(u))

-----------------------------------------------------------------------------
(* What the test runner guarantees. *)

(***************************************************************************)
(* "A test is already running" (test_runner.py:114, 150): unless a session *)
(* was started while a stop_test was suspended, only the active session is *)
(* captured, and a session is called running exactly while it is.          *)
(***************************************************************************)
OneAtATime ==
  ~overlapped =>
    \A s \in Sessions :
      /\ sessions[s].task # "done" => active = s
      /\ sessions[s].status = "running" => sessions[s].task # "done"

(***************************************************************************)
(* Under the same condition a snapshot of an A/B session is taken while    *)
(* the variant it is labelled with is the one applied                      *)
(* (test_runner.py:171-203).                                               *)
(***************************************************************************)
LabelledTruly == ~overlapped => ~mislabelled

(***************************************************************************)
(* Every session ends, whoever stops it and whether or not its task ever   *)
(* ran, and, under the same condition, gets its end time                   *)
(* (test_runner.py:205-211, 223-239, 262-272).                             *)
(***************************************************************************)
EverySessionEnds ==
  \A s \in 1..MaxSessions :
    s \in Sessions ~> /\ s \in Sessions
                      /\ sessions[s].task = "done" /\ sessions[s].status # "running"
                      /\ sessions[s].ended \/ overlapped
=============================================================================
