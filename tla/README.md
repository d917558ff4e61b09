# HyperAgg in TLA+

HyperAgg (`src/hyperagg/`) bonds several WAN links: an edge client reads IP
packets from a TUN device, protects them with forward error correction, spreads
them over UDP paths and a server on a VPS puts them back together; return
traffic takes the same way back. `src/engine/` and `src/api/` are an older TCP
implementation of the same idea. This directory holds TLA+ models of the parts
where order, loss, time and restarts matter, the TLC configurations that check
them, and proofs.

    tlc -workers 2 -config MCReorderBuffer.cfg MCReorderBuffer
    tlapm ReorderBuffer_proofs.tla    # and the other *_proofs modules

`PROJECT.json` lists components, runs, the source lines of every definition,
the hazards, and for every property a plausible bug that the property catches.
Definitions named `X_<flaw>` are those bugs; no action uses them.

## The system

| Part | State | Operations | Modelled in |
|---|---|---|---|
| Reorder buffer (`tunnel/reorder_buffer.py`) | next number, buffer with arrival times, seen and flushed numbers, adaptive timeout, recent outcomes | `insert`, `check_timeouts`, `update_timeout` | `ReorderBuffer` |
| FEC engine, XOR and RS codecs (`fec/`) | group being filled per code, open groups, finished groups per decoder, mode | `encode_packet`, `decode_packet`, `expire_groups`, `update_mode` | `FecEngine`, `FecChannel` |
| Tunnel client and server (`tunnel/client.py`, `server.py`) | global and per-path sequence numbers, sockets, sessions, connected paths | `_send_packet`, `_send_return`, `_on_udp_readable`, `_reorder_timeout_loop`, `_keepalive_loop`, handshake | `Tunnel` (pipelines, restarts), `ClientPaths`, `ServerSessions` (handshake, keepalives, addresses), `ClientControl` (budgets, pacing) |
| Session manager (`tunnel/session.py`) | session state, on disk every few seconds | `create_session`, `update`, `try_resume` | `Tunnel` (what `start` gets from it) |
| Edge agent (`agent/edge_agent.py`) | tunnel status, tunnel task, VPS connection | start, stop, restart, configure, WebSocket loop | `EdgeAgent` |
| Device registry (`dashboard/agent_ws.py`) | one entry per device: socket, connected flag, last status | provision, WebSocket handler, `send_command` | `ControlPlane` |
| Test runner (`testing/test_runner.py`) | active session, capture task, sessions | start, A/B start, stop, capture loop | `TestRunner` |
| Path scheduler, monitor, predictor (`scheduler/`) | failures per path, alive paths as of the last refresh, weights, predictions | `record_rtt`, `record_loss`, `update_predictions`, `schedule` | `PathScheduler`, `ClientPaths` |
| Bandwidth estimator, pacer, tier budgets (`scheduler/bandwidth_estimator.py`, `congestion_control.py`), adaptive FEC (`fec/adaptive_fec.py`) | samples, rates, tokens, use of each tier, burst lengths | `record_ack`, `set_rate`, `can_send`, `update_capacity`, `reset_window`, `update` | `ClientControl` |
| SDN controller (`controller/sdn_controller.py`) | none that lasts | `_control_tick`, `set_scheduler_mode`, `set_fec_mode` | `ClientPaths`, `ClientControl` |
| Legacy engine: configuration, health, balancer, metrics (`engine/`) | configuration and listeners, a health record and a probe thread per path, directives; a lock each | `set`, `batch_set`, `reset_to_defaults`, `record_probe`, `register_path`, `_do_rebalance` | `Threads`, `PathBalancer`, `Engine` |
| Legacy engine: tunnel, optimizer, API (`engine/`, `api/`) | subflows, a reassembly buffer and the next number per session | `send`, `_handle_data_packet`, the handlers that write or take a lock, a periodic and a forced optimization cycle | `EngineTunnel`, `Engine` |
| Send queue, path MTU discovery, WebSocket fallback, network manager | queues, probe sizes, a flag | nothing on the data path calls the first two | not modelled |
| Dashboard, metrics, chat, entry points, scripts | display state, wiring | - | not modelled |

The two tunnel ends are asyncio programs: the socket callback, the TX loop, the
keepalive loop and the reorder-timeout loop (50 ms) share one event loop, so a
piece of code without `await` is atomic and everything else interleaves at the
awaits. The two ends share only datagrams, which are lost, reordered, delayed,
and duplicated when the scheduler sends a packet on several paths. The legacy
engine adds threads and locks.

### What is hard here

- *Order*: data and parity share one number space, but parity never enters the
  reorder buffer; every parity number is a hole that only a timeout passes.
- *Three records of the same packet*: the dedup record, the FEC decoders and the
  reorder buffer each keep, prune and expire their own.
- *Time*: gap timeouts, group expiry, the adaptive timeout, all against packets
  that are merely late.
- *Restarts*: numbers and group ids of a new process begin at 0 and meet the
  state of the old ones at the other end.
- *Requests that interleave at awaits*: start and stop of the tunnel, of a test,
  of a device connection.
- *Three loops, one record of a path*: keepalives count failures, echoes clear them,
  the control tick copies the result, and the scheduler decides on the copy.
- *Addresses that change*: the server learns where to return traffic from whatever
  arrives, old datagrams and data under another path's id included.
- *Budgets that only a packet restores*: the tier window starts anew in `_send_packet`.
- *Locks and callbacks* in the legacy engine: listeners run under the lock of the
  object that calls them, and take the locks of others.

`PROJECT.json` "hazards" lists each with its line and the properties that watch it.

### What makes each part correct

- Reorder buffer: ascending output, each number once; a held packet is never lost
  and comes out in the end; a gap is given up only for a packet that outwaited the
  timeout; the pruned records stay consistent with the buffer; the loops end.
- FEC: a recovered body is the one sent; enough shards give all the data; nothing
  is recovered twice; pruning forgets the oldest groups only.
- Tunnel: nothing is invented; what the buffer releases is in source order; a packet
  that arrived or is determined by what arrived reaches the TUN; only stale packets
  are refused, also across restarts.
- Edge agent: status and tunnel agree, at most one tunnel, a stop stops it.
- Device registry: a connected device is listed and reachable.
- Paths: packets go only on paths held alive lately; the paths in use follow the links;
  return traffic ends up at the port the client has.
- Regulation: bulk traffic is not starved for ever; a manual FEC mode stays in force.
- Legacy engine: one order of the locks; directives computed from the configuration as
  it is, if it can be computed with; every number written to the TUN once and in turn.
- Test runner: the active session is the one being captured, every session ends and
  is summarised once.

## The modules

`OrderedDelivery` is the abstract promise to the TUN device: a frontier that only
rises, packets held above it, released in order when it passes them. Three components
implement it: `ReorderBuffer`, the same buffer inside `Tunnel` until its receiver restarts, and
the legacy server in `EngineTunnel` until a packet is doubled.

`ReorderBuffer` is `AdaptiveReorderBuffer`. `nextSeq`, `buffer`, `age`, `seen`,
`flushed`, `timeout`, `recent`, `lateCount` are the fields of the same names;
`delivered` is a history of all return values. `Insert` and `InsertDuplicate` are
the two ways through `insert`; `CheckTimeouts` is the whole of `check_timeouts`;
`UpdateTimeout` takes any metrics of any subset of paths. `DeliverInOrder` replaces
the loop of `_deliver_in_order` by where it ends. A payload is its number. Instead
of timestamps the model keeps ages in ticks, saturating above the largest timeout,
because the code compares only `now - timestamp` with the timeout. Milliseconds are
whole and floats are floored.

`FecEngine` has the encoders and decoders as operators on values: `EncodeOut`,
`EncodeNext`, `DecodeOut`, `DecodeNext`, `Expire`. Field arithmetic is abstracted to
what it guarantees: a parity shard carries the bodies of its group, and a decoder
gives them back exactly when all shards it holds belong to one group of its own
code, otherwise `Garbage`. Bodies are equal up to the zero padding that recovery
leaves. `FecChannel` puts an encoder and a decoder at the ends of a network and adds
histories.

`Tunnel` composes encoder, numbering, network (a bag of datagrams), dedup, decoder,
`ReorderBuffer` (as an INSTANCE over its own variables) and TUN. `Send` is
`_send_packet` / `_send_return`: one read packet, one or several outputs, each with a
number and on as many paths as the scheduler likes, none included. `Drop`,
`ReceiveData`, `ReceiveParity` are the three ways through `_on_udp_readable`;
`TimeoutRound` is a round of `_reorder_timeout_loop`; `Adapt` its call of
`update_timeout`, which only the client makes. `direction` is client to server
("up") or back ("down"), each with bounds of its own (`Limits`), and never changes. `SenderRestart` and `ReceiverRestart` replace an end by a
new process. Per-path sequence numbers are not modelled; whom the server answers is
`ClientPaths`.

`PathScheduler` and `ServerSessions` are the operators of the path scheduler with its
monitor, and of the server's address table; `ClientPaths` gives them state. A link is
`up`, `silent` or `refuses`. `fails` counts failures in the monitor, `alive` is the
scheduler's copy, `fresh` whether that is younger than the probe interval. `SendHandshake`,
`GetAck` and `GiveUp` are `_handshake_with_retry`, `StartLoops` the rest of `start`,
`KeepaliveRound`, `ControlTick` and `Send` the loops, `Receive` and `Handle` the socket
callbacks of client and server. `Schedule` gives the set of all decisions a mode may
make: weights and RTTs are abstracted to any level of the predicted probability. A
client is to the server the public IP it comes from, as in the code.

`ClientControl` is what regulates the traffic of a client: estimates, pacers, tier
budgets and the FEC mode. Rates are classes (none, less than a packet in 50 ms, low,
more than the 7 Mbps that the upper tiers are guaranteed); loss rates and bursts are
named by the mode the thresholds choose for them. `Round` is what both the timeout
loop and the control tick do. `Receive`, `SendOn` and `Drop` are the ends of the data
path, as far as budgets go.

`Threads` has threads and locks: every thread has the instructions it still has to
execute, one taking or needing a lock at a time; a listener is put in front of the rest.
`PathBalancer` has the health state machine and the schedules as operators. `Engine`
writes each call of the legacy engine that takes a lock as such a sequence:
`RecordProbe`, `RegisterPath`, `Rebalance` (its four reads are instructions of their
own), `SetConfig`, `BatchSet`, `ResetToDefaults`, `Record`, those that only read, `CollectState`; `Probe`, `Register`, `ReadScores`,
`ReadScheduling`, `ReadFailover`, `Schedule`, `ScheduleAdaptive`, `Set`, `Reset` execute them. A setting is a
value to compute with or `Malformed`, which raises where the code computes with it: `Fails` and
`Unstated` say where, `Raise` gives back the locks up to the listener, handler or thread that
the exception ends. A malformed section that only `record_probe` reads (`path_health`,
`state_thresholds`) is left out; it makes `record_probe` raise as a malformed threshold does. The threads are
the event loop (API handlers and optimizer), the balancer, the metrics collector and one
probe thread per path. `EngineTunnel` adds the server's subflow handlers on the event
loop, the executor thread that writes to the TUN, and what the client sends. `serving` are
the paths whose handler no exception has ended (`Failed`). When a connection is lost, what
has reached the handler's reader is still read (`Cut`); after a restart of the client the old
and the new handler of a path are one in the model, as are the probe threads of a path that is
registered again: they do the same, and packets are numbers.
Instructions that only give a lock back are part of the step before. `InHand` maps it to
`OrderedDelivery`: what is buffered for later, what was popped and not yet handed to the
executor, and what that writes. A late copy stays in `reassembly_buffer` for good and is not
in hand.

`EdgeAgent` is the life cycle of the tunnel on an edge device. `status`, `task` and
`hostSet` are `_tunnel_status`, `_tunnel_task` and whether `_vps_host` is set;
`tunnels` are the tasks of `_run_tunnel`. A caller is an asyncio task that makes
requests: a local HTTP handler, the WebSocket loop, auto-start, shutdown. `pc` says at
which await each is suspended: `starting` (the 2 s sleep), `stopping` (the await of the
tunnel's task), `pausing` (the 1 s sleep of a restart). A request is one step up to its
first await, `FinishStart`, `FinishStop` and `FinishPause` are the rest. A tunnel task
is created, then runs (`Launch`) up to the first await of `client.start`, may fail, or
is cancelled; `client.start` returns only by cancellation or exception, for it gathers
endless loops. A configuration always has an address here. `overlapped` is a
history: a request was made while another was suspended.

`ControlPlane` extends it with the WebSocket connections and the registry of the VPS.
`link` is `_vps_ws`; `conns` are connections, each with the commands under way to the
agent and the handler at the VPS; `devices` are `DeviceEntry` objects, of which `entry`
is the one in `_devices`. A connection breaks at any time; the agent leaves it when a
read or send finds out, the handler at the VPS later, so that connections overlap. A
command is served by the agent's one loop, which does not read while a command is
suspended. `sends` are calls of `send_command` suspended in their send, with the entry
and the connection they read before. The device is one, since devices share nothing.

`TestRunner` has the sessions, the active one, the users suspended in `stop_test`, and
the capture task of each session. `Turn` is a round of a capture loop with a snapshot,
`Expire` one that finds the time over or raises, `Cancelled` the arrival of a
cancellation; a task cancelled before its first step skips its `finally`, as asyncio
has it. `_finalize` ends a session and saves it when it has snapshots; the write may
fail. `applied` is the A/B variant in force. Duration is a choice at each turn.

## The runs

| Run | Instance | Shows |
|---|---|---|
| `reorder_buffer` | 5 numbers, window 1, 2 paths, clamps 10..100 ms, ticks of 50 ms | types; ascending output; the flush loop ends; `seen` and `buffer` agree whatever pruning dropped; flushed numbers were skipped; a held packet stays; a gap is outwaited; refinement of `OrderedDelivery`; everything buffered is delivered in the end |
| `fec_channel` | XOR 2+1, RS 1+1, heavy 2+3, 3 packets, all modes and tiers, records of 1 and 2 groups | recovered packets are original, none twice, enough shards suffice, pruning keeps the newest group |
| `tunnel` | up: 4 numbers, 3 packets, XOR 3+1, with and without FEC; down: 3 numbers, 3 packets, RS 2+1, restarts of both ends | the stages fit together, with an adapting receiver and across restarts; the tunnel's steps are steps of `ReorderBuffer`; only stale packets are refused; FEC writes nothing that is already there |
| `control_plane` | a local user and the VPS, 2 tunnels, 2 connections, 1 command, 1 provisioning | with one request at a time status and tunnel agree; starting and stopping pass whatever overlaps; a listed device has a serving handler; a broken connection is delisted |
| `test_runner` | 2 users, 3 sessions, plain or A/B | one session at a time, snapshots labelled with the variant in force, every session ends and gets its end time |
| `client_paths` | 2 paths behind one public IP, 3 ports, dead after 2 failures, 1 handshake, 1 fault, 1 datagram under way | packets get only paths held alive since the copy was last too old; paths in use follow links that stay; return traffic ends up at the right port |
| `client_control` | 1 path, settings auto and none, 2 loss rates, 3 burst lengths | bulk traffic goes on while the estimate is high |
| `engine` | 2 paths, scores below and above the thresholds, 1 valid and 1 bogus mode, thresholds and weights good and malformed, 4 inputs, 2 numbers, 1 packet per stream | threads that wait in a ring include one in a listener; directives follow every configuration that can be scheduled by; the server refines `OrderedDelivery` until a copy comes during a write |
| `fec_collide` (violation) | deployed sizes 8+2 and 6+4 | a heavy group is decoded by the wrong code |
| `tunnel_encrypted` (violation) | up, with a key | encrypted parity meets decrypted data: recovery invents a packet |
| `tunnel_resume` (violation) | up, sender restart | new packets are refused after a restart of the client |
| `agent_status` (violation) | as `control_plane`, 1 connection | a stop during a start leaves "running" without a tunnel |

### Bounds

The window of 1 makes pruning of `seen` and `flushed` happen within five numbers, and
five numbers allow two gaps with packets behind each. RTTs and jitters are chosen so
that the computed timeout falls below, between and above the clamps. Sizes of the
codes all differ in `fec_channel`, because the code tells codes apart by their size
alone; `fec_collide` takes the sizes of `config.yaml` instead. Records of one or two
finished groups make pruning happen with three. In the tunnel, three packets fill one
group and begin another, and one of the group's numbers is a parity hole; the gap
timeout (1 or 2 ticks) and the group timeout (2 ticks) can expire in either order.
In the control plane two
tunnels are enough for one to be started over another, and two connections for an old
handler to outlive a new registration; with three sessions one may be dropped from
`_active` while another runs and a third is started. In `client_paths` the first state
of each link is any, and one fault then changes a link or rebinds a port, at any moment;
with one datagram under way a late one meets a new port, since a probe is answered or
lost before the next. Both paths share one public IP there, so that data under the other
path's id, and datagrams of before a rebinding, reach the same table of the server; three
ports leave one free to rebind to. Paths with IPs of their own are clients of their own, whose
tables do not meet. In `client_control` one path is enough, as the packet budget of a
tier does not ask on which path; two change only how many pacers refuse. In
`engine` four inputs are a registration or two with what comes after: two settings written
while a rebalance reads (a batch of two counts as two), a malformed one and the probe that
raises, a failing probe of each path, or two packets and a copy. With a
failure limit of 1 a state change takes two probes. Of the recommendations that handlers
force one at most awaits its answer, next to the optimizer's own cycle (`Cycles`). Paths are symmetric in `engine`,
whose properties are invariants and one of steps, and which chooses no path by name. `MaxLate`, `RecentMax`,
`MaxSeq`, `MaxPackets`, `MaxTunnels`, `MaxConns`, `MaxCommands`,
`MaxProvisions`, `MaxSessions`, `MaxFaults`, `MaxInFlight`, `MaxInputs`, `MaxFlight` and the
restart counts only bound the state space. Deadlock is not checked: the bounded inputs run
out and the system rests.

### Fairness

`ReorderBuffer!FairSpec` assumes weak fairness of `CheckTimeouts` and of time. The
code justifies it: `_reorder_timeout_loop` is a task that calls `check_timeouts`
every 50 ms and catches every exception; the clock does not stop. Arrivals and
metrics are not assumed. `ControlPlane!FairSpec` assumes that a suspended coroutine
is resumed, that a created or cancelled tunnel task runs, and that a handler
reads the auth message and, with its ping every 30 s, notices a broken connection; nothing of
requests, commands, connections or failures. `TestRunner!FairSpec` assumes that the
clock reaches the end of a session and that cancelled tasks and those who await them
are resumed. `ClientPaths!FairSpec` assumes that the handshake, the keepalive loop and the
control tick go on (each catches its exceptions), that no datagram stays in the network
for ever, and that of the probes and echoes of a path that is up, sent again and again,
some arrive; nothing of faults, packets and refreshes by `schedule`. The control tick is that
of `hyperagg/main.py` in client mode; a tunnel that `edge_agent.py:265-302` starts has no SDN
controller, so there its copy of the alive paths follows the links only while packets are
sent (`Send`), and `AliveFollowsLink` is not claimed.
`ClientControl!FairSpec` assumes that the loops and the clock go on, that the TUN always
has bulk packets, and that some come when the pacers have tokens and some when not; both
of the last are strong fairness, because a packet meets whatever the bucket holds at its
time. The engine has no fairness: its properties are safety properties, and it can hang.

### Where the code departs from its own words

The four violation runs each check a sentence of the repository; `PROJECT.json`
"findings" quotes it. Others were met without a run of their own:

- `reorder_buffer.py:10` calls late deliveries a feedback signal, but both receivers
  ask `is_duplicate` first (`client.py:494`, `server.py:211`), so `insert` never sees a
  late packet, `_late_count` stays 0 and the timeout is never widened. `InsertDuplicate`
  is kept in `ReorderBuffer` as the API allows it; in `Tunnel` it never happens, which
  theorem `LatenessIsNotSeen` proves.
- `reorder_buffer.py:135` promises to deliver packets that waited past the timeout, but
  one call gives up one gap; packets behind a second gap wait for the next round.
- `server.py:8` puts reorder between FEC decode and TUN, but recovered packets are
  written to the TUN at once (`server.py:228`), past the buffer in which their number
  is still a gap: out of order, and a second time if the original arrives before the gap is
  given up. What `ReorderedInSourceOrder` says is therefore of the buffer's output only;
  `RecoversOnlyUnwritten` says that the other order, FEC after the buffer, does not happen.
- The handler of an old connection clears the registration of the new one
  (`agent_ws.py:172-176`): after a reconnect the device may be shown as disconnected,
  and refuse commands, while its connection is fine. `NoGhostDevice` is the other half,
  which holds. A `send_command` whose send fails late does the same to an entry
  that was registered anew meanwhile (`agent_ws.py:86`).
- Two starts before the first one's task has run create two tunnels, of which
  `_tunnel_task` knows one (`edge_agent.py:182`); likewise two test sessions
  may be captured at once when one is started while a stop is suspended
  (`test_runner.py:113`). `StatusIsTrue`, `OneAtATime` and `LabelledTruly` are stated for
  requests that do not overlap so.
- `stop_test` cancels the capture task and awaits it; the `finally` of that has then
  set `_active` to `None`, so `_finalize(self._active)` raises `AttributeError`
  (`test_runner.py:236`), unless the task had not taken its first step, as in
  `tests/test_controller.py:205`. `FinishStop` models the exception.
- `path_balancer.py:311` says "React to path state changes - trigger immediate
  rebalance", but `record_probe` calls it with the non-reentrant lock of the monitor
  held (`health_monitor.py:114,145`), and the first thing a rebalance does is
  `health.get_scores()`, which takes that lock. The thread stops for ever, then everything
  that asks the monitor or the balancer, the event loop included. In server mode every
  path that is registered is probed by UDP at the client's address
  (`health_monitor.py:265`), where nothing answers, so that without traffic it takes
  some failures only. `config_store.py:95` calls listeners under its lock too, against
  the order in which a rebalance takes balancer and configuration.
  `StuckOnlyInListeners` says that there is no other way to get stuck.
- `PUT /config` (`api/control_plane.py:63`) takes any value for any key. A scheduler mode the
  balancer does not know raises `ValueError` in a rebalance, a threshold or weights that cannot
  be computed with `TypeError` (`path_balancer.py:170-172`, `206`, `237`, `269`): listeners
  swallow it (`config_store.py:98`, `health_monitor.py:254`), the balancer's thread dies of it.
  A malformed threshold also makes `record_probe` raise when it looks at the state
  (`health_monitor.py:235`): a tunnel handler closes its connection, a probe thread records a
  failure instead and, when that raises too, dies. `DirectivesFollow` is claimed for settings a rebalance can
  compute with (`Schedulable`), whatever was written before them: the directives are
  then of these settings although threads may have died.
- `reset_to_defaults` calls no listener and leaves no change in the history
  (`config_store.py:150`): until the balancer's thread rebalances by the defaults, the
  directives are of the old settings, and for ever if that thread has died. `DirectivesFollow` excludes
  the time from a reset to a rebalance that agrees with the configuration (`unannounced`). Further, `zombie_timeout_ms` never applies because `last_probe_at` was
  just set (`health_monitor.py:225`), and a dead path with a middling score is active at
  once, without recovering (`health_monitor.py:246`).
- A copy of a packet that comes while the first is written is delivered again, and
  `next_expected_seq` then skips a number for ever (`tunnel_server.py:202`). After a restart
  of the client, whose numbers begin at 0, nothing is delivered before they pass the old
  ones; and a subflow that breaks is never connected again.
- `fec_engine.py:111` promises a mode "based on current path loss rates AND burst
  detection", with the adaptive sizer checked first (`:120`) and the loss rate as fallback
  (`:133`); `adaptive_fec.py:8` full replication for bursts of five. But `update_mode` takes the
  sizer's mode only in the call in which that changes (`:122`). 50 ms later it finds
  it unchanged and returns to the mode of the loss rate, while the bursts go on. If the sizer
  changes to the mode in force, the loss rate decides at once. `UpdateMode` is the code as it is.
- With less than 7 Mbps in sight bulk traffic is refused altogether
  (`congestion_control.py:179`); `BulkFlowsIfHigh` claims nothing then.
- After a restart of a sender its group ids begin at 0 too. Shards of old and new groups
  with the same id mix in one decoder; that is why `EnoughFedReachTun` excludes it.

## Proofs

`ReorderBuffer_proofs` proves for every window, timeout, tick, set of paths and
metric within the named assumption `ConstAssumption`:

| Theorem | Says |
|---|---|
| `InductiveInvariant` | `Spec => []IInv` |
| `TypeCorrect` | `Spec => []TypeOK` |
| `DeliveryInOrder` | `Spec => []InOrder` |
| `FlushLoopTerminates` | `Spec => []FlushLoopEnds` |
| `PruningIsHarmless` | `Spec => []SeenIsHeld` |
| `FlushedNotDelivered` | `Spec => []FlushedWasSkipped` |
| `Implements` | `Spec => ImplementsOrderedDelivery` |
| `HoldsUntilDelivery` | `Spec => HeldUntilDelivered` |
| `GapsOutwaited` | `Spec => GapOutwaited` |
| `OutwaitedDelivered` | `Spec => OutwaitedIsDelivered`: a round of timeouts delivers the next packet in line once it has outwaited |

`IInv` is the conjunction of `TypeOK`, `InOrder`, `FlushLoopEnds`, `SeenIsHeld` and
`FlushedWasSkipped`. None is inductive alone: that a duplicate is refused needs
`SeenIsHeld`; that what is released is new needs `InOrder` together with
`FlushLoopEnds`, so that the whole run from `nextSeq` on is above everything
delivered; that a skipped number was never delivered needs both. The central lemma is
`DeliverInOrderStep`: from any buffer at or above a frontier `n` that is itself at or
above the old frontier, `DeliverInOrder` restores the invariant. `Insert` and
`CheckTimeouts` are two uses of it. `Implements` shows that a step is a `Receive`, a
`GiveUp` or a stutter of `OrderedDelivery`. The two action properties follow
from `IInv` and lemmas on what a step keeps: `DeliverInOrderKeeps` (a call keeps what is
above the new frontier, with its age, and delivers all the rest), `InsertKeeps` and
`CheckTimeoutsKeeps` (where it moves the frontier over a missing number, a stale packet is
above it). `OutwaitedDelivered` is the safety half of `EventuallyDelivered`: what fairness
adds is that rounds and time go on.

`FecEngine_proofs` has lemmas about the FEC operators on any values that look like
encoders, shards and decoders: what `encode_packet` returns (`NewShardIs`), that the
shards ever sent stay consistent (`EncodeConsistent`: two with the same code, group and
index are one, a parity shard carries the bodies of its group), what `receive_shard`
leaves (`DecodeNextOK`, `FinishKeepsAll`). `FecChannel_proofs` rests on them, for any sizes of
the codes, packets, mix of modes and network (`FecAssumption`, `ChannelAssumption`):

| Theorem | Says |
|---|---|
| `ChannelInvariant` | `Spec => []CInv` |
| `ChannelTypeCorrect` | `Spec => []TypeOK` |
| `NewestGroupRemembered` | `Spec => []NewestFinishedKept` |
| `OwnDecoderInvariant` | `EachItsOwn`: `Spec => []OInv` |
| `RecoversOriginals` | `EachItsOwn`: `Spec => []RecoveredIsOriginal` |
| `EnoughSuffice` | `EachItsOwn`: `Spec => []EnoughShardsSuffice` |
| `GivesBackOnlyMissing` | `EachItsOwn`: `Spec => RecoversOnlyMissing` |

`CInv` says that what was sent is consistent, that the encoders hold exactly the open
groups, that a decoder holds shards of one group under each number and none of a group it
is done with, and that the record of finished groups loses one only at its limit. `OInv`
adds that a group neither finished nor expired is held as it arrived and is not ready, and
that of a finished one everything arrived or was given back.

The hypothesis `EachItsOwn` says that each code in use is the one the decoder chooses for
its group size. It is needed, and it is not always so: the decoder is looked up by size
alone, and with the sizes of `config.yaml` (`reed_solomon` 8+2, `reed_solomon_heavy` 6+4)
both Reed-Solomon codes have groups of ten. Run `fec_collide` shows what happens then. It
holds when only one of the two is used, or the sizes differ, as in run `fec_channel`.

`ControlPlane_proofs`, on the agent and on the composition, for any callers and any number
of tunnels, connections, commands and provisions (`AgentAssumption`, `PlaneAssumption`):

| Theorem | Says |
|---|---|
| `AgentInvariant` | `AgentSpec => []AInv` |
| `StatusAgrees` | `AgentSpec => []StatusIsTrue` |
| `PlaneInvariant` | `Spec => []PInv` |
| `ImplementsAgent` | `Spec => AgentSpec` |
| `StatusAgreesUnderVps` | `Spec => []StatusIsTrue` |
| `TrueThroughout` | `Spec => []StatusTrueThroughout`: the same at every moment, in the middle of requests too |
| `NoGhosts` | `Spec => []NoGhostDevice` |
| `TypeCorrect` | `Spec => []TypeOK` |

`StatusIsTrue` speaks of the time between requests; `AInv` adds what holds at each await
of a request: in the sleep of `start_tunnel` the status is what the phase of the tunnel
makes it, during the await of `stop_tunnel` it is `stopping` and the tunnel cancelled, and
only one caller is at an await. All of that is claimed only until requests overlap, since
the code promises nothing then (`agent_status` shows it). `ImplementsAgent` shows that
every step of the composition is a step of `EdgeAgent` or leaves it alone, so what is
proved of the agent holds under the VPS's commands. `PInv` adds to `NoGhostDevice` that a
serving handler has a registered device and that every entry marked connected, a replaced
one that a send still holds included, names a connection that exists.

`TestRunner_proofs`, for any users and any number of sessions:

| Theorem | Says |
|---|---|
| `InductiveInvariant` | `Spec => []IInv` |
| `TypeCorrect` | `Spec => []TypeOK` |
| `OneSessionAtATime` | `Spec => []OneAtATime` |
| `SnapshotsLabelledTruly` | `Spec => []LabelledTruly` |
| `EndedStaysEnded` | `Spec => EndsForGood`: unless overlapped, a session that has ended never changes |
| `FilesTellTheEnd` | `Spec => []FileTellsTheEnd`: unless overlapped, a file has the status the session ended with |

`IInv` is `TypeOK` and, unless a session was started while a `stop_test` was suspended:
only the newest session's task is left and it is the active one (`OnlyNewest`), a running
session is being captured (`RunningIsCaptured`), a task whose session is stopped is
awaited (`StoppedIsAwaited`), what is cancelled is stopped (`CancelledIsStopped`), what is
awaited is the newest session (`AwaitsNewest`) and the variant applied is that of the
session being captured (`AppliedIsOwn`). Starting a session needs the third to know that
no task is left; the end of a stop needs the fifth.

The last two need `Final` besides, of a session that has ended: its task is done
(`EndedIsDone`), its file is of its end (`SavedAsEnded`), `_active` is the newest session or
none (`ActiveIsNewest`), at most one user awaits (`OneAwaits`), and if the active session has
ended, the exception that left it so reaches that user before a second end (`AwaitsTheEnd`).
`OneChanges` is the lemma of all steps but a start: they change one session, and that had not
ended.

`ClientPaths_proofs`, for any paths, ports, addresses, limit of failures and number of
faults and datagrams (`SchedulerAssumption`, `PathsAssumption`):

| Theorem | Says |
|---|---|
| `PathsInvariant` | `Spec => []IInv` |
| `TypeCorrect` | `Spec => []TypeOK` |
| `FreshlyAlive` | `Spec => []OnlyFreshlyAlive` |
| `AlwaysDecides` | every set of paths has a decision in every mode, and not the empty one unless it is empty |
| `NoPacketWithoutPath` | `Spec => PacketsGetPaths`: a packet sent while the copy has an alive path gets one |
| `AnswersOnlySeen` | `Spec => []AnswersTheSeen`: the server answers addresses from which a datagram came, of clients with a session |
| `ControlTypeCorrect` | `ClientControl`: `Spec => []TypeOK` |
| `ManualModeInForce` | `ClientControl`: `Spec => []ManualModeHolds`: a FEC mode set by hand is the one in force |

`IInv` is `TypeOK`, `OnlyFreshlyAlive` and the two facts it rests on: the scheduler's copy
of the alive paths is within the history while it is fresh (`CopyIsRecent`), and so are
the paths the monitor holds alive (`MonitorIsRecent`), since a refresh copies those. The
central lemma is `ScheduledAlive`: in every mode and tier, and for any predictions, the
scheduler picks among the paths it is given. `AlwaysDecides` says that it picks: whatever the
predictions, some path is best (`SomeBest`), and a finite set has its leading ones (`SomeLeaders`).
`schedule` thus never runs out of a decision, and a packet is dropped for want of a path only
when its copy has none alive.

The regulation of the same traffic is proved about here too, by an instance `CC` of
`ClientControl` under its assumption `ControlAssumption`.

`Tunnel_proofs`, for both directions, any network, any restarts and any bounds within
`TunnelAssumption` and `FecAssumption`:

| Theorem | Says |
|---|---|
| `TunnelInvariant` | `Spec => []PInv` |
| `TunnelTypeCorrect` | `Spec => []TypeOK` |
| `UsesReorderBuffer` | `Spec => ImplementsReorderBuffer` |
| `TunnelBuffer` | `Spec => [](RB!InOrder /\ RB!FlushLoopEnds /\ RB!SeenIsHeld /\ RB!FlushedWasSkipped)` |
| `TunnelInOrder` | `Spec => []ReorderedInSourceOrder` |
| `DropsNothingNew` | `Spec => DropsOnlyStale` |
| `TunnelInventsNothing` | `~Encrypted`, `EachItsOwn`: `Spec => []NothingInvented` |
| `EnoughReachTun` | `~Encrypted`, `EachItsOwn`: `Spec => []EnoughFedReachTun` |
| `TunnelDelivers` | `Spec => BufferDelivers`: the buffer in the tunnel implements `OrderedDelivery`, until its receiver restarts |
| `LatenessIsNotSeen` | `Spec => []LatenessUnseen`: the buffer never counts a late packet |

A step of the tunnel is one of the buffer only if the number it inserts is one of the
buffer's (of every datagram in flight, from the sender's counter and the number of shards
an encoder returns) and a tick of the clock only if there is an age for each buffered
packet and no other. The module has an instance `RBP` of `ReorderBuffer_proofs` over the
tunnel's own variables, so the lemmas of the buffer hold of the tunnel's steps, and
`TunnelBuffer` carries its invariants over, `TunnelDelivers` its refinement. `TunnelAssumption`
contains the buffer's. `LatenessIsNotSeen` needs that all recent outcomes were in time
(`AllInTime`); a number that the frontier has passed is a duplicate, so none is recorded as late.

`PInv` is `TInv` (the buffer's invariant, numbers, ages), `SenderInv` and `WireInv` (what
encoders and network hold was read), `ReceiverInv` (decoders, payloads, TUN) and
`OrderInv`. The last is the argument for order: among the packets on the wire, in the
buffer and handed on by it, two that the same run of the sender read have their numbers
in the order in which they were read (`Coherent`); those handed on since the receiver
started have ascending numbers, the last just below `nextSeq` (`TurnsOK`). So a higher
place on the TUN is a later packet, and a data packet refused as a duplicate is either
known or older than one already written. After a restart of the sender, whose counter starts
anew, numbers of an earlier run are told apart by `bornIn` and are below `ceiling`; that is
the exception `DropsOnlyStale` names.

`TunnelInventsNothing` adds `Genuine`, claimed until the sender restarts: every shard on
the wire or given to a decoder is consistent with the others and with the encoders, and the
TUN has only packets that were read. It needs the hypotheses: under encryption a decoder is
fed ciphertext bodies next to plain ones (run `tunnel_encrypted`), and two codes of
one size mix their groups. A restart of the sender begins at group 0 again while the decoders
still hold the old groups, so from then on nothing is claimed.

`EnoughReachTun` joins `Genuine` with what decoder and TUN have in common, in `EInv`: the
body of every data packet the receiver took in was written or is held (`DataKnown`); and of
every group, unless it expired, the decoder holds exactly the shards it was given and is
not ready (`Kept`), or the group is closed at the encoder and all its packets are written
or held (`Complete`) (`GroupsKnown`). A shard that makes a group ready completes it: what the
group's parity says of an index, a data shard it was given says too, or the decoder gives
it back. `Complete` speaks of the encoder because a finished group must stay complete: no later
packet may join it. And it, not the decoder's record, says that a group is finished, as
that record is pruned, after which a late shard opens the group again.

`EngineTunnel_proofs`, for any paths, scores and bounds, and any modes, thresholds and weights
that the API may write, malformed ones included (`EngineAssumption`, `ThreadsAssumption`,
`BalancerAssumption`, `TunnelAssumption`):

| Theorem | Says |
|---|---|
| `EngineInvariant` | `Spec => []TunnelInv` |
| `EngineTypeCorrect` | `Spec => []TypeOK` |
| `LocksInOrder` | `Spec => []StuckOnlyInListeners` |
| `DirectivesFollowConfig` | `Spec => []DirectivesFollow` |
| `InTurnOnce` | `Spec => []InTurnUnlessDoubled`: the TUN gets every number once and in turn until a packet is doubled |
| `OrderedDelivered` | `Spec => OrderedUntilDoubled`: until then the server implements `OrderedDelivery` |

What a thread still has to execute is a sequence of instructions that calls and listeners
make longer. An invariant that listed all such sequences would be unreadable, so it says how
neighbours fit: `Under` is the lock under which an instruction is executed, `After` the one
held once it is over, `Adjacent` that two may follow each other, and a `Program` is a
sequence in which all neighbours do. Programs are closed under what the steps do
(`TailProgram`, `PutProgram`, `NotifyProgram`, `LeavePrograms` and `RaiseStep` for an exception,
`SwapProgram` for the failure recorded instead of a probe), and every
call is one (`LoopStarts`, `ThreadStarts`). `LockInv` says that every thread has a program
and holds the locks that its program gives back.

- `LocksInOrder` then needs no induction of its own. Outside a listener a thread holds one
  lock, that of its next instruction, and under `config` nothing is needed, under `health`
  only `config`, under `balancer` and `metrics` only these two (`InOrder`). So along a ring of
  threads of which none is in a listener the locks would have to rise for ever.
- `DirectivesFollowConfig` needs `Rebalanced`: the directives (`Followed`), and what a
  rebalance under way has read so far (`Fresh`), are of the configuration as it is, or the
  event loop, which set it, is itself in the rebalance that the set called (`Telling`) and
  will compute them anew. A rebalance that raises computes nothing, and the settings it read were
  not `Schedulable`; so if the configuration is, it was set since, and the set calls a rebalance that
  does not raise. Only one thread rebalances at a time (`OneRebalances`), so a
  rebalance that read the old mode ends before the loop's begins.
- `InTurnOnce` needs `Order`: of all handlers one at most awaits a write, or is about to,
  its packet is the one expected, that is not in the buffer any more, and what was written is
  every number below it, and it as well once its write is done.
- `OrderedDelivered` needs beyond `Order` that no step of the engine loses or invents the
  write that the loop is about to hand over (`WritesStay`, from `Paired`: it is the last thing the
  loop has to do). Then what is in hand and the frontier `Len(written)` change by the server's
  steps only: an arrival is a `Receive` (a late copy none), the end of a write a `GiveUp` that
  gives nothing up, and the pop in between a stutter.

Not proved, and checked by TLC only, are the liveness properties `EventuallyDelivered`,
`BrokenIsDelisted`, `StatusSettles`, `EverySessionEnds`, `AliveFollowsLink`,
`ReturnAddressSettles` and `BulkFlowsIfHigh`: they rest on fairness, and the
prover has no `ENABLED`. The safety halves of the first and the fourth are proved:
`OutwaitedDelivered`, `EndedStaysEnded`. `RecoversOnlyUnwritten`, an action property, is checked by
TLC only as well; its counterpart on the decoder alone, `RecoversOnlyMissing`, is proved.

## Not modelled

Field arithmetic, serialisation, encryption, kernel I/O, floating-point filters
(RTT, jitter, OWD, bandwidth, prediction), dashboards, scripts. The AIMD controller, the
send queue and path MTU discovery have no caller on the data path. Of the legacy engine,
client mode is left out (its interface monitor runs operating-system commands), and so
are the two readers of one `StreamReader` (`tunnel_client.py:204`, `256`), whose outcome
is the library's. The engine starts from its defaults, not from a saved configuration.
The reasons stand with each component in `PROJECT.json`.

## Plan

1. Data path: `ReorderBuffer`, `FecEngine`, `FecChannel`, `Tunnel` (done).
2. Control plane: `EdgeAgent`, `ControlPlane`, `TestRunner` (done).
3. Paths and regulation: `PathScheduler`, `ServerSessions`, `ClientPaths`,
   `ClientControl` (done).
4. Legacy engine: `Threads`, `PathBalancer`, `Engine`, `EngineTunnel` (done).
5. Proofs: every invariant, action property and refinement that a passing run checks, but
   for `RecoversOnlyUnwritten` (done).

Runs stay few and large: one run per composed subsystem.
