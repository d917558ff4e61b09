------------------------------ MODULE EngineTunnel ------------------------------
(***************************************************************************)
(* The tunnel of src/engine: TunnelServer, whose handlers run on the event *)
(* loop of module Engine, and what TunnelClient sends to it.               *)
(*                                                                         *)
(* Each path of the client has a TCP connection, a FIFO stream of numbered *)
(* packets.  The server has a handler for each: it reads a packet, records *)
(* it as a probe, puts it into the buffer of the session and hands the     *)
(* packets in turn to the TUN device.  That is done by another thread: the *)
(* handler awaits it, the handlers of other paths run meanwhile, and only  *)
(* then is next_expected_seq incremented.                                  *)
(*                                                                         *)
(* Which paths are active and whether they reinject is up to the balancer  *)
(* of the client's own engine; any choice of it is allowed for here.       *)
(***************************************************************************)
EXTENDS Engine

CONSTANTS
  MaxSeq,       \* bound: numbers the client uses
  MaxFlight     \* bound: packets in the stream of a path

ASSUME TunnelAssumption == MaxSeq \in Nat /\ MaxFlight \in Nat \ {0}

VARIABLES
  seq,          \* TunnelClient._seq
  added,        \* the paths add_interface was called for since the client started
  connected,    \* those whose SubflowConnection is connected
  serving,      \* the paths with a handler that no exception has ended
  stream,       \* the numbers under way on each path
  buffer,       \* the numbers in reassembly_buffer
  expected,     \* next_expected_seq
  writing,      \* the packet that the handler of each path awaits
  written,      \* the numbers handed to the TUN device, in this order
  doubled       \* history: a copy of a packet came while that was being written

tunnelVars == <<seq, added, connected, stream, buffer, expected, writing, written, doubled>>
vars == <<holder, todo, engineVars, tunnelVars, serving>>

NotWriting == [seq |-> -1, done |-> TRUE]

Init ==
  /\ EngineInit
  /\ seq = 0 /\ added = {} /\ connected = {} /\ serving = {}
  /\ stream = [p \in Paths |-> <<>>]
  /\ buffer = {} /\ expected = 0
  /\ writing = [p \in Paths |-> NotWriting]
  /\ written = <<>>
  /\ doubled = FALSE

-----------------------------------------------------------------------------
(* The client. *)

\* add_interface and the handshake, once for each path: there is no other
\* attempt to connect.  The server registers the path anew each time.
Connect(p) ==
  /\ p \notin added /\ Input
  /\ Begin(Loop, RegisterPath(p))
  /\ added' = added \cup {p} /\ connected' = connected \cup {p} /\ serving' = serving \cup {p}
  /\ stream' = [stream EXCEPT ![p] = IF p \in serving THEN @ ELSE <<>>]
  /\ UNCHANGED <<holder, storeVars, seq, buffer, expected, writing, written, doubled>>

Sent(p, n) == [stream EXCEPT ![p] = Append(@, n)]

\* send, on the chosen path, and on another one if that reinjects.
Send(p) ==
  /\ Input
  /\ seq < MaxSeq /\ p \in connected /\ Len(stream[p]) < MaxFlight
  /\ \/ stream' = Sent(p, seq)
     \/ \E q \in connected \ {p} :
          Len(stream[q]) < MaxFlight /\ stream' = [Sent(p, seq) EXCEPT ![q] = Append(@, seq)]
  /\ seq' = seq + 1
  /\ UNCHANGED <<holder, todo, storeVars, added, connected, serving, buffer, expected, writing, written, doubled>>

\* What becomes of the stream of path p when its connection is lost: what has
\* reached the handler's StreamReader is read, the rest is gone.
Cut(p) == {SubSeq(stream[p], 1, n) : n \in 0..Len(stream[p])}

\* _send_on_path fails, which the client sees when it sends: the connection
\* is lost with what is under way on it, and the number is used up.
Break(p) ==
  /\ p \in connected /\ Input
  /\ connected' = connected \ {p}
  /\ \E s \in Cut(p) : stream' = [stream EXCEPT ![p] = s]
  /\ seq' = IF seq < MaxSeq THEN seq + 1 ELSE seq
  /\ UNCHANGED <<holder, todo, storeVars, added, serving, buffer, expected, writing, written, doubled>>

\* The client starts again: its numbers begin at 0, its session is still there.
\* The old handlers read what has reached them.  A path that is connected again
\* before they have goes on in the same stream, behind that: of the old and the
\* new handler of one path the old is the first.  That a new packet replaces an
\* old one of its number in the buffer is not seen, packets being numbers.
ClientRestart ==
  /\ seq > 0 /\ Input
  /\ seq' = 0
  /\ added' = {} /\ connected' = {}
  /\ stream' \in [Paths -> UNION {Cut(p) : p \in Paths}] /\ \A p \in Paths : stream'[p] \in Cut(p)
  /\ UNCHANGED <<holder, todo, storeVars, serving, buffer, expected, writing, written, doubled>>

-----------------------------------------------------------------------------
(* The handlers of the server, and the thread that writes to the TUN. *)

\* The handlers whose packet record_probe has raised an exception for: the loop
\* has given up what it had to execute, the handler closes the connection and
\* ends.  The client sees it when a send fails (Break).
Failed == {p \in Paths : At(Loop, "probe") /\ Head(todo[Loop])[2] = p /\ Idle(Loop)'}

\* _handle_data_packet, up to its call of record_probe.
Receive(p) ==
  /\ writing[p] = NotWriting /\ stream[p] # <<>> /\ p \in serving /\ p \in Known
  /\ Begin(Loop, RecordProbe(p, TRUE) \o <<<<"arrive", p, Head(stream[p])>>>>)
  /\ stream' = [stream EXCEPT ![p] = Tail(@)]
  /\ UNCHANGED <<holder, engineVars, seq, added, connected, serving, buffer, expected, writing, written, doubled>>

Arrive ==
  /\ At(Loop, "arrive")
  /\ LET p == Head(todo[Loop])[2]  n == Head(todo[Loop])[3]
     IN  /\ buffer' = buffer \cup {n}
         /\ doubled' = (doubled \/ \E q \in Paths : writing[q].seq = n)
         /\ Continue(Loop, <<<<"deliver", p>>>>)
  /\ UNCHANGED <<engineVars, seq, added, connected, serving, stream, expected, writing, written>>

(* Definitions named X_<flaw> are X with a plausible bug; no action uses them. *)
InTurn_Any == buffer

\* The packets in the buffer that may be delivered next.
InTurn == buffer \cap {expected}

\* One turn of the delivery loop, as far as the await of the write.
Deliver ==
  /\ At(Loop, "deliver")
  /\ LET p == Head(todo[Loop])[2]
     IN  \/ InTurn = {} /\ Continue(Loop, <<>>) /\ UNCHANGED buffer
         \/ \E n \in InTurn :
              /\ buffer' = buffer \ {n}
              /\ Continue(Loop, <<<<"touch", "balancer">>, <<"write", p, n>>>>)
  /\ UNCHANGED <<engineVars, seq, added, connected, serving, stream, expected, writing, written, doubled>>

Write ==
  /\ At(Loop, "write")
  /\ LET p == Head(todo[Loop])[2]
     IN  writing' = [writing EXCEPT ![p] = [seq |-> Head(todo[Loop])[3], done |-> FALSE]]
  /\ Continue(Loop, <<>>)
  /\ UNCHANGED <<engineVars, seq, added, connected, serving, stream, buffer, expected, written, doubled>>

\* A thread of the executor writes the packet.
Written(p) ==
  /\ ~writing[p].done
  /\ written' = Append(written, writing[p].seq)
  /\ writing' = [writing EXCEPT ![p].done = TRUE]
  /\ UNCHANGED <<holder, todo, engineVars, seq, added, connected, serving, stream, buffer, expected, doubled>>

\* The handler goes on after the await.
Resume(p) ==
  /\ writing[p] # NotWriting /\ writing[p].done
  /\ Begin(Loop, <<<<"deliver", p>>>>)
  /\ expected' = expected + 1
  /\ writing' = [writing EXCEPT ![p] = NotWriting]
  /\ UNCHANGED <<holder, engineVars, seq, added, connected, serving, stream, buffer, written, doubled>>

TunnelNext ==
  \/ \E p \in Paths : Connect(p) \/ Send(p) \/ Break(p) \/ Receive(p) \/ Written(p) \/ Resume(p)
  \/ ClientRestart \/ Arrive \/ Deliver \/ Write

Next == (EngineNext /\ serving' = serving \ Failed /\ UNCHANGED tunnelVars) \/ TunnelNext

Spec == Init /\ [][Next]_vars

-----------------------------------------------------------------------------
Instructions ==
  UNION {{"take", "drop", "touch"} \X Locks,
         {<<o>> : o \in {"return", "scores", "sched", "failover", "states", "internals", "reset"}},
         {<<"set">> \o s : s \in Settings},
         {"probe"} \X Paths \X BOOLEAN, {"register", "deliver"} \X Paths,
         {"arrive", "write"} \X Paths \X (0..MaxSeq)}

\* Type invariant.
TypeOK ==
  /\ holder \in [Locks -> Threads \cup {Free}]
  /\ \A t \in Threads : \A i \in 1..Len(todo[t]) : todo[t][i] \in Instructions
  /\ config \in [mode : Modes \cup {Defaults.mode}, trigger : Triggers \cup {Defaults.trigger},
                 weights : Weights \cup {Defaults.weights}]
  /\ health \in [Paths -> Health] /\ active \subseteq Paths
  /\ basis.mode \in SchedulerModes /\ running \subseteq Threads /\ asked \subseteq Cycles
  /\ seq \in 0..MaxSeq /\ connected \subseteq added /\ added \cup serving \subseteq Paths
  /\ buffer \subseteq 0..MaxSeq
  /\ expected \in Nat /\ \A p \in Paths : writing[p].seq \in -1..MaxSeq

(***************************************************************************)
(* The order of the locks is right but for the callbacks.  The locks are   *)
(* taken in the order metrics or balancer, health, config; only listeners  *)
(* run against it, under the lock of the object that calls them            *)
(* (health_monitor.py:145, config_store.py:95).  So whenever threads wait  *)
(* for each other, or one for itself, one of them is executing a listener. *)
(***************************************************************************)
StuckOnlyInListeners ==
  \A S \in SUBSET Threads : Deadlocked(S) => \E t \in S : InListener(t)

(***************************************************************************)
(* What the API has set is what traffic is scheduled by: when nobody holds *)
(* the configuration, the directives were computed from it as it is, all   *)
(* of it, although a rebalance reads its parts one after the other         *)
(* (path_balancer.py:144-145), others may write meanwhile, and rebalances  *)
(* of settings that raise (:146, 170-174) fail in listeners, handlers and  *)
(* threads, before or after it.  It is claimed for settings with which a   *)
(* rebalance does not raise, and not after /config/reset, which tells      *)
(* nobody (config_store.py:150).                                           *)
(***************************************************************************)
DirectivesFollow ==
  holder["config"] = Free /\ Schedulable(config) /\ ~unannounced => basis = config

(***************************************************************************)
(* The server keeps the promise of OrderedDelivery, whatever the paths do, *)
(* and whatever runs between the pop of a packet and the increment         *)
(* (tunnel_server.py:203-205), but for one thing: a second copy of a       *)
(* packet, which reinjection sends, coming while the first is written.     *)
(* What was popped is still held, until it is written; a late copy of what *)
(* was written stays in reassembly_buffer for good, and is not.            *)
(***************************************************************************)
InHand ==
  {n \in buffer : n >= Len(written)}
    \cup {todo[Loop][i][3] : i \in {j \in 1..Len(todo[Loop]) : todo[Loop][j][1] = "write"}}
    \cup {writing[p].seq : p \in {q \in Paths : ~writing[q].done}}

OD == INSTANCE OrderedDelivery
        WITH Numbers <- 0..MaxSeq, frontier <- Len(written), pending <- InHand, out <- written

OrderedUntilDoubled == OD!Init /\ [][OD!Next \/ doubled']_OD!vars

(***************************************************************************)
(* So the TUN gets every number once and in turn.  It follows, the number  *)
(* of packets written being the frontier.                                  *)
(***************************************************************************)
InTurnUnlessDoubled ==
  ~doubled => \A i \in 1..Len(written) : written[i] = i - 1
=============================================================================
