# exn-gs in TLA+

A verification project for the EXN ground segment in `src/`: TLA+ modules for
its concurrent parts, TLC configurations that check them on small instances, and
TLAPS proofs, for instances of any size, of nearly every safety property that the
runs check: of the device link, the daemon, `gsdctl`, the framer and the data path, the
simulator and its ring queue, and the UI's client.  `PROJECT.json` lists the components,
the runs, the line of source behind each definition, the hazards and the theorems.

## 1. The system

```
 exn_gsui ---+                         +--- device, or stm32_sim
 (UiClient)  |  IPC frames over TCP    |    (Simulator, RingQueue)
 exn_gsdctl -+---- exn_gsd ------------+    Space Packets over TCP or a serial port
 (GsdCtl)          (Daemon, SerialLink, Framer)

 RxPath: the bytes and frames of all of it, with SpacePacket and IpcCodec
```

| component | state | operations | talks to |
|---|---|---|---|
| `SerialLink` (daemon/serial_link) | generation, opened/connecting flags, descriptor, transmit queue | start, stop, write_bytes, the completion handlers, handle_io_error | App by callbacks; the event loop |
| `IpcServer`, `IpcSession` (daemon/ipc_server) | list of weak sessions; per session socket, receive buffer, transmit queue | accept, broadcast, send, read, write | App by callbacks; clients |
| `App` (daemon/app) | none of its own | commands CONNECT, DISCONNECT, RECONNECT, PING, STATUS, STATS; PacketSend; link, packet and connection callbacks | all of the daemon |
| `StateStore` (daemon/state) | link state, counters, packet history | set_link, on_packet, on_tx, on_decode_error, on_framing_error, snapshot | App |
| `CcsdsFramer` (shared/framer) | accumulated bytes, error count | push_bytes | the link's bytes in, packets out |
| `stm32_sim` (sim/main.cpp) | session, two ring queues, sequence count | session loop, dispatch task, transmit task | the daemon, over TCP |
| `RingQueue` (sim/main.cpp) | buffer, head, tail | try_push, try_pop and their blocking forms | io thread, dispatch and transmit tasks |
| `IpcClient` (ui/ipc_client) | socket, reconnect timer, transmit queue | connect, schedule_reconnect, read, write, send_frame | daemon; UiApp by callbacks |
| `UiApp` (ui/ui_app) | atomic flags, telecommand count, housekeeping timer, displayed lines | callbacks, timer, operator commands | IpcClient |
| `exn_gsdctl` (tools/gsdctl) | one connection | one request, wait for its answer | daemon |
| IPC codec (shared/protocol) | none | encode, try_decode, packers | daemon, UI, gsdctl |
| Space Packet codec (shared/ccsds) | none | build and parse through CCSDSPack | App, simulator, UI |
| `FileLoggerSink` (daemon/storage_file) | a file | store | App |

### What is hard about it

The daemon and the clients are single-threaded event loops.  What makes them
hard is that a completion may be *queued* when a command runs: the code that
handles it runs later, in a world that has moved on (another session, a closed
socket, an empty queue).  `SerialLink` guards against it with a generation
number, except in the lambda that `write_bytes` posts and inside the composed
`async_write`.  `IpcSession` guards with `is_open()`, `IpcClient` with the one
second of its reconnect timer.  The simulator has real threads, a lock-free
queue between each two of them, and an io thread that blocks on one of these
queues.  `PROJECT.json` lists each hazard with its line.

What makes each part correct:

* link: flags, descriptor, pending operations and published state agree; one
  reader and one writer per session; a session transmits a gap-free prefix of
  what was accepted in it, in order; attempts and packets never hang; ERROR
  stays visible until a command;
* daemon: each client's stream is what was sent to it, in order, with Hello and
  the link's state first, and ends with the state the link is in; every request
  is answered; a client's departure does not harm the daemon;
* framer: no byte is lost, and reads and sessions are invisible in the packets;
* data path: the counters, the history, the IPC frames and the UI's lists tell
  what happened on the link, in order, over connections that come and go;
* gsdctl: it returns, it succeeds on the answer to its own request, and it fails
  only for a reason of its own or of the link;
* simulator: answers in order and complete, sessions one after another, no
  deadlock through full queues; the ring is a bounded FIFO without data race;
* UI: one reconnection at a time, and always one; no stale view of the device;
  telecommands in the order of their counts.

## 2. The modules

The event loop appears in the same way everywhere: `ready` is the
`io_context`'s queue of handlers; an action that completes an operation appends
to it, `RunHandler` takes its head and runs that handler as one step.  Closing a
socket turns its pending operations into queued handlers that report an error.
Operations whose completion was queued before the close keep their success.

* **SerialLink** — `start`, `stop` and `write_bytes` are `Start`, `Stop` and
  `WriteBytes`; `Restart` is RECONNECT, which does both in one handler.
  `RunResolve`, `RunConnect`, `RunRead`, `RunWrite`, `RunPost` are the
  callbacks, `HandleIoError` the shared error path.  `handle` names the
  generation that opened the descriptor, so the model can tell a stale operation
  from a current one.  A packet is its number; a write is done in up to
  `MaxParts` parts, because `async_write` is a sequence of `write_some` calls
  (`RunPartialWrite`).  `PortKind` is `tcp`, `serial` or `none`: opening a serial
  port is synchronous, which is the whole difference.  `LinkContract` is the
  abstract specification: what the daemon may assume of a link, without an event
  loop.
* **Daemon** — IPC sessions, App and StateStore on one event loop, with the link
  reduced to the callbacks it may make.  The read handler of a session serves
  one decoded frame per step (`OnFrame`) while `running` keeps other handlers
  out.  `Alive` models the reference count behind the weak pointers that
  `broadcast` prunes; `Listed` is the list of sessions it leaves.  `HandOut` posts
  frames to sessions, one lambda per frame and session, as `send` does.  `sent`, `d2c` and `asked` are history.  `port` is the kind
  of the configured port, one of `Ports` from the start.
* **GsdCtl** — `Daemon` with its clients replaced by runs of `exn_gsdctl`.  A run
  keeps no state but the frames it read, so what it does is a function of its
  stream: `Starts`, the handshake (`HandshakeDone`), `WritesRequest` or
  `UsageError`, then `Returns` at the frame that `Ends` the reply loop, the first
  one that `Fails` or `Succeeds`; `Status` is the exit status.
  `Expected` and `LinkExpectation` are the request table of `main`.
* **SpacePacket** — `decode_meta` and `build_pus_c_tc` over packets whose headers
  have two or three bytes instead of six, five and thirteen.  What CCSDSPack
  decides (version, declared size, flags) is external; which primary headers its
  `deserialize` refuses is the constant `Refused`, any set of headers: a packet with
  one of them is the malformed packet of `App`, counted and announced as an Error.
* **IpcCodec** — `encode`, `try_decode` and the packers with the byte widths of the
  code.  `TryDecode` is one call of `try_decode`, `DecodeAll` the loop around it.
* **Framer** — `push_bytes` as a loop (`Drain`) of `Round`s, in the daemon's use:
  one framer across all sessions of the link (`NewSession`).
* **RxPath** — Framer, SpacePacket and IpcCodec joined: `ReadLink` takes a chunk of
  the link through the framer, `decode_meta`, `StateStore` (`OnPacket`) and
  `broadcast`; `ReadUi` takes bytes of the IPC connection through `try_decode` into
  the UI's lists; `SendPacket` and `ReadSession` are the way back.  `Loses` and
  `Connects` are the UI's reconnection, with a read that completed before the loss
  was noticed and is handled after `rxbuf_` was cleared; the `do_read` it ends with
  fails on the closed socket and clears once more (`LateReadFails`).  The event loops are
  those of Daemon and UiClient and are not repeated: a frame given to `send` is
  in the connection, the link is up.
* **RingQueue**, **BoundedFifo** — the lock-free queue with one step per atomic or
  buffer access, and the FIFO it implements.  The steps are sequentially
  consistent.  The code's release stores and acquire loads order each buffer
  access before the index that hands the slot over; the relaxed loads are of the
  thread's own index.  So no weaker outcome exists than those of the model.
* **Simulator** — the io thread, the dispatch task and the transmit task, joined
  by two bounded FIFOs and the lambdas posted back.  `PushTc` is `on_packet` for
  one packet of a read: a packet that it rejects is dropped, any other one is pushed,
  which blocks the io thread while the queue is full.  `PushTm` is the transmit
  queue's blocking push.  A telecommand is its request and its acknowledgement
  flags; contents of reports are left out.
* **UiClient** — `IpcClient` with the callbacks, timer and commands of `UiApp`,
  and a daemon reduced to running or not, and to the device state it sends.
  `TimerExpires` waits for an idle loop: one second is taken to be longer than
  the handlers queued when the timer was armed need to run.

`Selections` is the filter over sequences that Daemon and Simulator use,
`SequenceLemmas` what is proved about it, about counting in sequences, about
subsequences and about loops.  `SerialLinkProofs`, `RingQueueProofs`, `DaemonProofs`,
`GsdCtlProofs`, `RxPathProofs`, `SimulatorProofs` and `UiClientProofs` hold the
theorems.  `MCSimulator` and `MCRxPath` add what TLC needs: a small set of
telecommands (one with several answers, one that is refused and one that
`on_packet` rejects) and a primary header that is refused.

Definitions called a mutant in their comment are not part of any specification: each is a plausible bug, put in place of the definition it follows
in order to see that a property notices it.

## 3. The runs

| run | question | bounds |
|---|---|---|
| `serial_tcp` | TCP link: consistency, one reader, one writer, no stale post, ERROR sticky, LinkContract, liveness | 5 generations, 2 packets of up to 2 parts |
| `serial_port` | the same consistency, one reader, one writer, for a serial port (TypeOK and ErrorSticky are proved for every port) | same |
| `serial_port_concurrent` | *violated*: "Packets are never written concurrently" | same |
| `daemon_session` | one client, all nine kinds of request, link events, departure: one read, stream, view (the greeting is checked by `ctl`) | 2 requests, 1 failure or packet |
| `daemon_crash` | *violated*: a client that leaves does not end the daemon | 1 client, 1 request |
| `ctl` | two runs of gsdctl at once, on TCP, a serial port and a port that does not open: greeting, streams, verdicts, and each returns unless the other cancels its attempt | ping, raw, connect, disconnect |
| `ctl_early` | *violated*: gsdctl waits for the daemon's response | 2 runs of raw |
| `rx_path` | every byte stream in every fragmentation, from the link to the UI's lists and back | 6 bytes of 4 values, 1 refused header, link reads of up to 2, IPC reads of up to 6 and of all, 1 loss |
| `framer_daemon` | *violated*: RECONNECT starts clean | 8 bytes of 3 values, reads of up to 3 |
| `ring` | the ring implements a FIFO, without data race, and drains | 3 slots, 8 items |
| `sim` | three threads, full queues, reconnection, order of answers, wrap of the sequence count | 3 telecommands of 3 kinds, 2 connections, queues of 1, counts 0 to 5 |
| `ui` | daemon stops and starts, device comes and goes, timer and commands | 2 stops, 1 device change, 2 commands, counts to 3 |

Why the bounds are enough for the cases that matter.  Five generations allow a
session, a stop, another session and a restart with the handlers of the first still
queued; two packets of two parts give a queue behind a partly written packet.  Two
requests of one client, among all kinds, put any command behind any other in the
same read.  Two runs of gsdctl are enough for one to be told of what the other did;
the kinds of request in `ctl` are one answered to its sender, one broadcast or
rejected, one that waits for the link and one that takes the link away. An attempt
fails there on the port that does not open; a TCP attempt that fails later, and
RECONNECT, which is DISCONNECT and CONNECT in one handler, are left to
`daemon_session`, where `ViewsAgree` shows that their outcome is sent to every
session: a pair of runs with them has more states than TLC can take in minutes.  In
`rx_path` six bytes hold two packets, or a TC or TM with its service behind garbage,
or a packet whose header is refused next to a good one; reads of six bytes end
inside every part of an IPC frame, length prefix included, and reads of a hundred
hold several frames; a telecommand uses up three of the six bytes, so that two of
them, or one and a packet, cross each other.  The ring has three slots, so full,
empty and wrapped positions all occur, and eight items take the indices around more
than twice. With queues of one slot, three telecommands with up to three answers (HK
with start and completion asked for; the other requests and flags are left to
`AnswersVerify`) fill the transmit task, both queues and the dispatch task at once,
so the io thread blocks; counts that start at 4 of 6 wrap inside a telecommand.  Two
stops of the UI's daemon allow a failure while the reconnection of an earlier one is
pending.

Deadlock is checked for the ring.  In the other runs the environment may stop
acting (bounded commands, clients that leave, a process that ended), which is no
error.

### Fairness

* SerialLink, UiClient: weak fairness of the event loop (`io.run()` does nothing
  else) and of completions by the resolver and the kernel, which always answer in
  the end (a resolve and a connect time out).  Nothing is assumed of the operator.
* SerialLink: weak fairness of writes as well, that is, the device or the kernel
  drains what it is sent.  `PacketSettles` rests on it: the code has no timeout for a
  write, and behind a peer that stops reading a packet stays queued until the session
  ends.  Nothing is assumed of reads: a device may stay silent.
* GsdCtl: weak fairness of `Progress`, which is the daemon's event loop, the
  kernel's completions, the end of a connection attempt (`AttemptSettles` of
  `serial_tcp`) and the steps of a run that was started.  Starting a run,
  a wrong command line and the device are not in it.  One condition for all
  suffices: within the bounds every behaviour comes to rest, and it can rest only
  where none of these steps is possible.
* UiClient: a resolve or a connect fails only while the daemon is down (`Resolved`,
  `ConnectCompletes`): the host's name is known and a daemon that runs accepts.  An
  environment in which they may fail at any time could refuse every attempt, so
  `Reconnects` rests on this.  The end of the daemon reaches the client.
* UiClient: strong fairness of the one-second timer.  The thirty-second timer
  keeps queueing handlers, so `TimerExpires` (idle loop) is only enabled again
  and again.
* RingQueue, Simulator: weak fairness of each thread, as a preemptive scheduler
  gives it; nothing of the daemon or the network.

### What the violated runs show

* `serial_port_concurrent`: with a serial port, RECONNECT closes and reopens the
  port in one handler.  A partial completion of the old `async_write` that is
  already queued continues on the reopened port, next to the first write of the
  new session.  `serial_link.hpp:27` promises otherwise.
* `daemon_crash`: a client closes while the completion of a write to it is
  queued.  The read handler clears `tx_queue_`; the write handler then calls
  `pop_front` on it.  `ipc_client.cpp:110` has the same sequence (`crashed` in
  UiClient).
* `framer_daemon`: half a packet left by one session is completed with the first
  bytes of the next one.  The simulator, with a framer per session, is not
  affected.
* `ctl_early`: `gsdctl raw` takes the first PacketTx for its answer, and PacketTx
  is broadcast.  When another client's packet is routed meanwhile, the run
  returns 0 before the daemon has read its own request.  Queries are not affected
  (`QueriesServed`): QueryResult goes to its session alone.

### Other disagreements met while modelling

* `PostsCurrent` holds for TCP (checked and proved) but not for a serial port: the
  lambda posted by `write_bytes` carries no generation, so a PacketSend and a
  RECONNECT in one read send the packet in the new session, although
  `serial_link.cpp:94` says that stop() invalidates all earlier callbacks.
* STATS prints a framing error counter (README.md:54) that nothing increments:
  `StateStore::on_framing_error` has no caller.
* PacketTx is broadcast when a packet is accepted, not when it is sent; a link
  that fails afterwards drops it silently.  `LinkContract` states what holds.
* `gsdctl connect` and `reconnect` have no timeout: when another client's
  DISCONNECT cancels the attempt, the broadcast DISCONNECTED is skipped and nothing
  else comes.  `CtlReturns` names this case (`Cancelled`: the run's request was served,
  nothing sent to it ends it, the link is down, and another run sent DISCONNECT), and
  `ctl` shows that it is the only one in which a run does not return.
* A malformed packet of the device is broadcast as an Error frame, and any Error
  ends any waiting `gsdctl` with 1.  `FailsOnItsOwn` is about a quiet device.  The
  framer has tested the size of every packet by then, so malformed means that
  CCSDSPack refuses the primary header (`BytesAccounted`).
* `IpcClient`'s late read after a loss is decoded from the middle of a frame.  That
  it does no harm rests on a second `rxbuf_.clear()`, in `schedule_reconnect` when
  the handler's own `do_read` fails and again in `do_connect` (`FramesConserved`),
  and on such bytes not looking like a frame before that, which `RowsTrue` shows for
  the bytes of the instance only.
* `try_decode` never consumes a frame with a length below 2.
* The simulator masks `tm_seq` after the last answer of a telecommand, so at the
  wrap an answer is built with a count above 14 bits (`Build`: refused or cut).

## 4. What is proved

Each theorem below holds for every value of its module's constants.  The
assumptions are the `ASSUME`s of that module: bounds are natural numbers,
capacities are not zero, and what is said per module.

| module | theorem | says |
|---|---|---|
| `SerialLinkProofs` | `TypeCorrect` | `TypeOK`, for the three kinds of port |
| | `LinkAlwaysConsistent` | `LinkConsistent`: published state, flags, descriptor and pending operations agree |
| | `TcpPostsCurrent` | `PostsCurrent`: on TCP no write posted in an earlier session is left to run in a new one |
| | `ErrorStays` | `ErrorSticky`: only a command leaves a published ERROR |
| | `OneReaderAlways` | `OneReader`: a link that is up has exactly one read outstanding |
| | `OneWriterAlways` | `OneWriter`: it has one write outstanding exactly while packets are queued, and it writes the first of them |
| | `TcpKeepsContract` | `ImplementsContract`: on TCP every step of the link is a step of `LinkContract` or none |
| `RingQueueProofs` | `TypeCorrect`, `RaceFree` | `TypeOK`; `NoDataRace`: producer and consumer never access one slot at a time |
| | `Refinement` | `ImplementsFifo`: every step of the ring is a step of `BoundedFifo` or none |
| `DaemonProofs` | `TypeCorrect` | `TypeOK`: every variable, queue and stream, and no more packets malformed than received |
| | `ReadArmed` | `OneRead`: an open session has exactly one read, pending, queued or being served; a closed one has none pending |
| | `StreamsInOrder` | `StreamInOrder`: what was sent to a session has reached its client, waits to be written or is posted, in that order; a closed session loses only the end |
| | `Greeting` | `HelloFirst`: a stream begins with Hello and the link's state |
| | `NoStaleView` | `ViewsAgree`: the last LinkState sent to an open session is the link's state |
| `GsdCtlProofs` | `CtlImplementsDaemon` | runs of gsdctl are clients of the daemon: `CtlSpec` implements the daemon's `Spec` |
| | `RunsAreClients` | hence the three theorems above hold for the streams the runs read |
| | `QueriesAlwaysServed` | `QueriesServed`: ping and stats succeed on the answer to their own request only |
| | `FailuresAreOnesOwn` | `FailsOnItsOwn`: with a quiet device a run fails only if it was called wrongly, its own packet was served, or its port does not open |
| `RxPathProofs` | `PacketsAreTheStreams` | `PacketsOfStream`: the framer finds the packets at the boundaries of the stream, however the reads cut it |
| | `BytesAllAccounted` | `BytesAccounted`: every byte is in a counted packet, dropped and counted, or kept; the decode errors are the packets with a refused primary header; the history is the latest packets |
| | `FramesSurvive` | `FramesConserved`: each end of an IPC connection decodes what the other sent, in order, however the reads cut it; a lost one leaves nothing |
| `SimulatorProofs` | `TypeCorrect` | `TypeOK`: every variable and queue, capacities and the field of the sequence count included |
| | `OneThreadOfControl` | `SessionLoop`: the io thread accepts, reads, serves or has one such handler queued, and never two of these |
| | `AnswersConserved` | `RepliesConserved`: the answers reach the socket in the order they were built; none is lost in the first connection, and a disconnection only leaves gaps |
| | `AnswersVerify` | `VerificationOrder`: what a telecommand is answered, and in which order |
| `UiClientProofs` | `TypeCorrect` | `TypeOK`: every variable and queue, and a next sequence count above all that were used |
| | `OneWayBackAlways` | `OneWayBack`: connected, or exactly one resolve, connect or timer under way |
| | `DeviceViewTrue` | `DeviceView`: an idle UI shows the device link as it is, and as down without a daemon |
| | `TcsAlwaysInOrder` | `TcsInOrder`: telecommands arrive in the order of their counts, none twice |

### The arguments

**SerialLink.**  `LinkConsistent` is not inductive: a late completion could find
`connecting_` set by a newer attempt, or an error could close a descriptor it does
not own.  `LinkInv` adds what excludes this: no callback holds a generation that is
still to come (`GenerationsPast`), only connects, reads and writes are pending on
the descriptor (`DescriptorOps`), an attempt has one thread of control
(`OneAttempt`), reads and writes of a generation exist only after it connected
(`TransfersAfterConnect`), and on TCP the posts of an earlier session are ahead of
the resolve of this one in the queue (`PostsFirst`).  A lemma per group of actions:
a command makes a new generation, which turns everything pending into something old
(`NewGeneration`); a completion moves one operation from the descriptor to the queue
(`CompletesInv`); a handler removes the head of the queue and either fails
(`IoErrorInv`), goes on to the next stage (`ResolveOkInv`, `ConnectOkInv`), or
transfers data (`TransferInv`).

**Its transfers.**  `OneReader` and `OneWriter` count.  `TransfersInv` counts over
the pending operations and the queued handlers together (`Total`), so that a
completion leaves the sum alone; a handler takes one out and puts one back.  It also
says that no write of the session is for a packet other than the first, and that a
link that is down has an empty queue.

**Its contract.**  The mapping takes the packet to transmit next from the lengths of
the transmit queue and of the posted lambdas, and the parts sent from the write under
way (`Mapped`).  `PacketsInv` is what makes that a refinement: the packets queued, and
behind them the posted ones, have consecutive numbers up to the last accepted one
(`Numbered`); a pending write belongs to the session that is up (`Sending`); and a
partial completion of an earlier session runs before the handler that opens the
descriptor again (`PartialsFirst`).  The last one is where TCP is needed: it waits for
the resolver, a serial port does not, and `serial_port_concurrent` shows what then
happens.  The write under way is the only one by `TransfersInv`.

**RingQueue.**  The invariant (`RingInv`) describes `head_` and `tail_` as
remainders of two counts that only grow and are never `N` apart; two counts less than
`N` apart have different slots (`ModApart`), which gives both the absence of races and
the contents of the FIFO.  `N >= 2` is assumed, as a ring of one slot holds nothing.

**Daemon.**  The invariant is one formula per client, for any set of clients, finite
or not.  A client is accepted once; a session that does not exist yet has nothing
pending and nothing sent; an open one is in `sessions_`, has exactly one read
(pending, queued or being served) and a write exactly while frames wait; a closed one
has nothing pending and an empty queue (`Session`).  All that was sent to an open session
is what its client can read, then its transmit queue without a front that was written
already, then the frames in posted lambdas (`Stream`).  With this, `broadcast` and
`send` are shown to do to each client what they say (`HandedOut`), whatever other
handlers are in the queue.  `NoClient` must not be a client.

**GsdCtl.**  Every step of a run is a step of a client, so the daemon's invariant
holds.  `CtlInv` adds that a run's request is in one place at a time on its way
(`OneRequest`), what each frame in a run's stream says about the past (`Meant`: a
QueryResult that its request was served, an Error that its own packet was rejected or
the device failed), and what an exit status says (`Exits`).  Other runs' requests enter
through the frames that `broadcast` sends, so each action is shown to send only frames
that `Meant` allows (`Tells`).

**Framer and data path.**  `push_bytes` and `try_decode` are loops; a rule for loops
(`Loop` in `SequenceLemmas`) replaces induction over the bytes.  For the framer the
invariant of a round is a walk over the boundaries of the stream (`Walk`), which has
passed the packets handed over and is where the kept bytes begin; a boundary stays one
when more bytes arrive.  The account (`AccountInv`) follows the lengths through the same rounds,
and that each packet handed over has the version and the size that `decode_meta` asks for,
so that it is refused exactly for its primary header, whichever headers are refused.
For the IPC connections, numbers of two and four bytes are shown to survive `Append_u`
and `Read_u`, a frame that fits its length to survive `encode` and `try_decode`, and
`Pipe` says of each direction that the bytes buffered and under way are the encoding of
the frames not yet seen, and that no whole frame is buffered.  Without a connection both
directions are empty, and so is `rxbuf_` unless a late read has yet to fail (`PipesInv`):
what that read leaves is cleared before the next connection.  Every frame the programs send fits;
for the telecommand this is `FieldAssumption`, that its length fits sixteen bits.

**Simulator.**  `SessionLoop` needs the types of handlers and connections (`Types`), and
that a read or a packet being served belongs to a connection (`Session`).  `Delivery` is
one sequence: what was emitted, posted, held, queued and is still to be pushed is what
was built, or is embedded in it once a connection was lost.  `Numbers` keeps the
telecommands on their way to the dispatch task in the order they were sent, each still
unanswered, so that the answers of each one are a beginning of what the task builds for
it (`Verified`).

**UiClient.**  `Way` has `OneWayBack` and what the handlers rely on: `timer` or its
queued handler is what `reconnect_scheduled_` says; without a connection nothing is
pending but a connect, the transmit queue is empty, and handlers of the lost
connection are queued only while the timer runs, which is where the delay of the timer
is used; with one there is one read, and one write exactly while frames wait.  `View`
adds that a device still shown as up without a daemon has a failed read queued that will
show it as down, and that the last LinkState on the line, in the queued reads or shown is the
device's.  `Order` puts the telecommands written, in the transmit queue, posted and to
come in one order; the front of the transmit queue may be among the written ones
until its handler ran.  `Counts` bounds the sequence count, which the model takes
modulo 2^14: the theorems are for a UI that sends fewer telecommands than that
(`CountsAssumption`), since at the wrap the order of the counts ends.

**Sequences.**  The provers cannot instantiate an induction theorem with an operator.
`SequenceLemmas` states induction over naturals and sequences with a set in place of the predicate
(`Induction`, `SeqInduction`), and proves with it what `Count` and `Select` do to an
appended, removed or concatenated part.

### Only model-checked

* `RowsTrue` of RxPath.  It is not true of every instance: a read that is late after a
  loss is decoded from the middle of a frame, and whether these bytes look like a frame
  depends on the bytes.
* `ImplementsContract` is about TCP in the run and in the theorem; a serial port does
  not keep the contract.
* Liveness: `AttemptSettles`, `PacketSettles`, `CtlReturns`, `Reconnects` and `Drains` of
  ring and simulator.  Fairness and ENABLED are beyond this prover.

## 5. What is not modelled

* `build_pus_c_tm` and `parse_pus_c_tc`: stateless calls into CCSDSPack, which is
  not in the repository.  Only the simulator uses them; Simulator has their
  verdicts.  CRCs are not computed.
* IPC lengths near 2^32 or below 2, which no program of the repository sends.
* `FileLoggerSink`, argument parsing, what `gsdctl` prints, rendering and keyboard
  handling, mission constants: no state that the behaviour above depends on.
* The end of `exn_gsui` (`hk_timer.cancel` on the UI thread): the program reads
  nothing afterwards.
* `StateStore::on_framing_error` and `last_packets`, which nothing calls, the times
  at which services were seen, and its mutex: all calls come from one thread.
* Boost.Asio, the kernel, the resolver: external; modelled from how the code uses
  them.

## 6. What is left

All parts of section 1 are modelled, and every safety property of the runs is proved
except `RowsTrue`.  Worth doing next, in this order:

1. `RowsTrue` without late reads (`Loses(0)` only), from `Pipe` and a round trip of
   `pack_packet_meta`; and for all reads once `do_read` ignores a completion of a closed
   socket;
2. in `SerialLink`, a generation in the lambda of `write_bytes` and a test in the
   composed write: the contract could then be proved for serial ports too;
3. `crashed` out of Daemon and UiClient once the write handlers test for an empty
   queue.
