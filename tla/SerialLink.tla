----------------------------- MODULE SerialLink -----------------------------
(***************************************************************************)
(* The daemon's device link (daemon/src/serial_link.cpp) on the            *)
(* single-threaded Boost.Asio event loop that runs it.                     *)
(*                                                                         *)
(* The event loop is two sequences.  inflight holds the operations handed  *)
(* to the operating system on the link's descriptor; ready holds the       *)
(* handlers that wait to run, in the order they were queued.  Closing the  *)
(* descriptor moves every operation of inflight to ready with an error;    *)
(* a completion that already is in ready keeps its result.  Running one    *)
(* handler is one step: nothing else of the daemon runs meanwhile.         *)
(*                                                                         *)
(* A packet is the number of its acceptance.  async_write is a composed    *)
(* operation: each partial completion is a handler of its own that issues  *)
(* the next write_some, whatever the generation.                           *)
(***************************************************************************)
EXTENDS Integers, Sequences, FiniteSets

CONSTANTS
    PortKind,     \* --port: "tcp" (tcp://HOST:PORT), "serial" (a device path), "none"
    MaxParts,     \* bound: completions one packet's async_write may take
    MaxGen,       \* bound on generation_
    MaxPackets    \* bound on the packets accepted

ASSUME PortKindAssumption == PortKind \in {"tcp", "serial", "none"}
ASSUME BoundsAssumption == /\ MaxParts \in Nat \ {0}
                           /\ MaxGen \in Nat
                           /\ MaxPackets \in Nat

VARIABLES
    opened_, connecting_, generation_, tx_queue_,
    handle,       \* 0: descriptor closed, otherwise the generation that opened it
    link_state,   \* StateStore's link, set by the on_state_ and on_error_ callbacks
    resolving,    \* generations whose async_resolve is with the resolver thread
    inflight,     \* operations pending on the descriptor
    ready,        \* handlers queued on the io_context
    accepted,     \* number of packets write_bytes took, StateStore's tx_packets
    wire          \* history: what the descriptor took, part by part

vars == <<opened_, connecting_, generation_, tx_queue_, handle, link_state,
          resolving, inflight, ready, accepted, wire>>

Tcp == PortKind = "tcp"
Closed == 0

\* An operation or handler: the generation its callback captured (for a post,
\* which captures none, the generation at acceptance: history), the packet and
\* the parts of it already written, and the result.
Op(kind, g) == [kind |-> kind, gen |-> g, pkt |-> 0, part |-> 0, res |-> "pending"]
ReadOp(g) == Op("read", g)
WriteOp(g, p) == [Op("write", g) EXCEPT !.pkt = p]
Post(g, p) == [Op("post", g) EXCEPT !.pkt = p]

\* What close() does with the pending operations: all end in operation_aborted.
Abort(ops) == [i \in DOMAIN ops |-> [ops[i] EXCEPT !.res = "err"]]

Without(ops, i) == [j \in 1 .. Len(ops) - 1 |-> IF j < i THEN ops[j] ELSE ops[j + 1]]

------------------------------------------------------------------------------
(* start(), past the early return of a link that is up or coming up.  The   *)
(* state shown, the operations and the handlers left by what ran before it  *)
(* in the same handler are parameters: RECONNECT calls stop() first.        *)

\* Mutant of StartTcp: a blocking connect.
StartTcpBlocking(g, shown, ops, hs) ==
    /\ Tcp
    /\ connecting_' = FALSE /\ opened_' = TRUE
    /\ handle' = g
    /\ link_state' = "Connected"
    /\ inflight' = Append(ops, ReadOp(g)) /\ ready' = hs
    /\ UNCHANGED resolving

StartTcp(g, shown, ops, hs) ==
    /\ Tcp
    /\ connecting_' = TRUE /\ opened_' = FALSE
    /\ resolving' = resolving \union {g}
    /\ handle' = Closed
    /\ link_state' = shown
    /\ inflight' = ops /\ ready' = hs

\* No port, sp_.open or the baud rate refused: on_error_ at once.
StartFails(ops, hs) ==
    /\ ~Tcp
    /\ connecting_' = FALSE /\ opened_' = FALSE
    /\ handle' = Closed
    /\ link_state' = "Error"
    /\ inflight' = ops /\ ready' = hs
    /\ UNCHANGED resolving

StartSerial(g, ops, hs) ==
    /\ PortKind = "serial"
    /\ connecting_' = FALSE /\ opened_' = TRUE
    /\ handle' = g
    /\ link_state' = "Connected"
    /\ inflight' = Append(ops, ReadOp(g)) /\ ready' = hs
    /\ UNCHANGED resolving

Begin(g, shown, ops, hs) ==
    /\ g <= MaxGen
    /\ generation_' = g
    /\ \/ StartTcp(g, shown, ops, hs)
       \/ StartFails(ops, hs)
       \/ StartSerial(g, ops, hs)
    /\ UNCHANGED <<accepted, wire>>

\* CONNECT.  With the link up or coming up start() changes nothing.
Start ==
    /\ ~opened_ /\ ~connecting_
    /\ Begin(generation_ + 1, link_state, inflight, ready)
    /\ UNCHANGED tx_queue_

\* Mutant of Stop: --generation_.
StopCountsDown ==
    /\ generation_ < MaxGen
    /\ generation_' = generation_ - 1
    /\ opened_' = FALSE /\ connecting_' = FALSE
    /\ handle' = Closed
    /\ tx_queue_' = << >>
    /\ inflight' = << >>
    /\ ready' = ready \o Abort(inflight)
    /\ link_state' = "Disconnected"
    /\ UNCHANGED <<resolving, accepted, wire>>

\* DISCONNECT.  A cancelled resolve still reports back later.
Stop ==
    /\ generation_ < MaxGen
    /\ generation_' = generation_ + 1
    /\ opened_' = FALSE /\ connecting_' = FALSE
    /\ handle' = Closed
    /\ tx_queue_' = << >>
    /\ inflight' = << >>
    /\ ready' = ready \o Abort(inflight)
    /\ link_state' = "Disconnected"
    /\ UNCHANGED <<resolving, accepted, wire>>

\* RECONNECT: stop() and start() in one handler.
Restart ==
    /\ Begin(generation_ + 2, "Disconnected", << >>, ready \o Abort(inflight))
    /\ tx_queue_' = << >>

\* PacketSend: App refuses it unless opened(); write_bytes posts, App counts.
WriteBytes ==
    /\ opened_
    /\ accepted < MaxPackets
    /\ accepted' = accepted + 1
    /\ ready' = Append(ready, Post(generation_, accepted + 1))
    /\ UNCHANGED <<opened_, connecting_, generation_, tx_queue_, handle,
                   link_state, resolving, inflight, wire>>

------------------------------------------------------------------------------
(* Completions, by the resolver thread and the operating system (external). *)

Resolved(g, res) ==
    /\ g \in resolving
    /\ resolving' = resolving \ {g}
    /\ ready' = Append(ready, [Op("resolve", g) EXCEPT !.res = res])
    /\ UNCHANGED <<opened_, connecting_, generation_, tx_queue_, handle,
                   link_state, inflight, accepted, wire>>

\* The reactor serves the operations of one kind in the order they were issued.
Oldest(i) == \A j \in 1 .. i - 1 : inflight[j].kind # inflight[i].kind

Completes(i, op) ==
    /\ Oldest(i)
    /\ inflight' = Without(inflight, i)
    /\ ready' = Append(ready, op)
    /\ UNCHANGED <<opened_, connecting_, generation_, tx_queue_, handle,
                   link_state, resolving, accepted>>

\* Connected, bytes arrived, or any operation failed (end of file, reset, ...).
IoCompletes(i, res) ==
    /\ res = "ok" => inflight[i].kind # "write"
    /\ Completes(i, [inflight[i] EXCEPT !.res = res])
    /\ UNCHANGED wire

\* The descriptor takes the next part of a packet, maybe not the last one.
\* "ok": the whole packet is written; "some": a partial completion.
Transmits(i, res) ==
    /\ inflight[i].kind = "write"
    /\ res = "some" => inflight[i].part + 1 < MaxParts
    /\ Completes(i, [inflight[i] EXCEPT !.res = res, !.part = @ + 1])
    /\ wire' = Append(wire, [sess |-> handle, pkt |-> inflight[i].pkt,
                             part |-> inflight[i].part + 1, last |-> res = "ok"])

------------------------------------------------------------------------------
(* Handlers.                                                                *)

\* Mutant of HandleIoError: the descriptor stays open.
IoErrorLeavesOpen(hs) ==
    /\ opened_' = FALSE /\ connecting_' = FALSE
    /\ tx_queue_' = << >>
    /\ ready' = hs
    /\ link_state' = "Error"
    /\ UNCHANGED <<generation_, resolving, accepted, wire, handle, inflight>>

\* Mutant of HandleIoError: called for a link that is down it reports that.
IoErrorReportsDown(hs) ==
    /\ opened_' = FALSE /\ connecting_' = FALSE
    /\ tx_queue_' = << >>
    /\ handle' = Closed
    /\ inflight' = << >>
    /\ ready' = hs \o Abort(inflight)
    /\ link_state' = IF opened_ \/ connecting_ THEN "Error" ELSE "Disconnected"
    /\ UNCHANGED <<generation_, resolving, accepted, wire>>

\* handle_io_error: generation_ stays, the operations it aborts keep it.
HandleIoError(hs) ==
    /\ opened_' = FALSE /\ connecting_' = FALSE
    /\ tx_queue_' = << >>
    /\ handle' = Closed
    /\ inflight' = << >>
    /\ ready' = hs \o Abort(inflight)
    /\ link_state' = "Error"
    /\ UNCHANGED <<generation_, resolving, accepted, wire>>

\* Every callback returns first when its generation is not the current one.
Ignore(hs) ==
    /\ ready' = hs
    /\ UNCHANGED <<opened_, connecting_, generation_, tx_queue_, handle,
                   link_state, resolving, inflight, accepted, wire>>

Current(h) == h.gen = generation_

\* Mutant of RunResolve: a failed resolve is not reported.
RunResolveSilent(h, hs) ==
    /\ h.kind = "resolve"
    /\ \/ ~Current(h) /\ Ignore(hs)
       \/ Current(h) /\ h.res = "err" /\ Ignore(hs)
       \/ /\ Current(h) /\ h.res = "ok"
          /\ handle' = h.gen
          /\ inflight' = Append(inflight, Op("connect", h.gen))
          /\ ready' = hs
          /\ UNCHANGED <<opened_, connecting_, generation_, tx_queue_,
                         link_state, resolving, accepted, wire>>

\* async_connect opens the socket.
RunResolve(h, hs) ==
    /\ h.kind = "resolve"
    /\ \/ ~Current(h) /\ Ignore(hs)
       \/ Current(h) /\ h.res = "err" /\ HandleIoError(hs)
       \/ /\ Current(h) /\ h.res = "ok"
          /\ handle' = h.gen
          /\ inflight' = Append(inflight, Op("connect", h.gen))
          /\ ready' = hs
          /\ UNCHANGED <<opened_, connecting_, generation_, tx_queue_,
                         link_state, resolving, accepted, wire>>

RunConnect(h, hs) ==
    /\ h.kind = "connect"
    /\ \/ ~Current(h) /\ Ignore(hs)
       \/ Current(h) /\ h.res = "err" /\ HandleIoError(hs)
       \/ /\ Current(h) /\ h.res = "ok"
          /\ connecting_' = FALSE /\ opened_' = TRUE
          /\ link_state' = "Connected"
          /\ inflight' = Append(inflight, ReadOp(h.gen))
          /\ ready' = hs
          /\ UNCHANGED <<generation_, tx_queue_, handle, resolving, accepted, wire>>

\* Mutant of RunRead: no further read is armed.
RunReadOnce(h, hs) ==
    /\ h.kind = "read"
    /\ \/ ~Current(h) /\ Ignore(hs)
       \/ Current(h) /\ h.res = "err" /\ HandleIoError(hs)
       \/ Current(h) /\ h.res = "ok" /\ Ignore(hs)

\* The bytes go to the framer; the next read is armed only while the link is up.
RunRead(h, hs) ==
    /\ h.kind = "read"
    /\ \/ ~Current(h) /\ Ignore(hs)
       \/ Current(h) /\ h.res = "err" /\ HandleIoError(hs)
       \/ /\ Current(h) /\ h.res = "ok"
          /\ inflight' = IF opened_ THEN Append(inflight, ReadOp(h.gen)) ELSE inflight
          /\ ready' = hs
          /\ UNCHANGED <<opened_, connecting_, generation_, tx_queue_, handle,
                         link_state, resolving, accepted, wire>>

\* do_write, once queue is the transmit queue: write its front, if any.
DoWrite(queue) ==
    /\ tx_queue_' = queue
    /\ inflight' = IF opened_ /\ queue # << >>
                   THEN Append(inflight, WriteOp(generation_, Head(queue)))
                   ELSE inflight

\* The composed operation goes on with whatever the descriptor now is; on a
\* closed one write_some completes with bad_descriptor.
RunPartialWrite(h, hs) ==
    /\ h.kind = "write" /\ h.res = "some"
    /\ \/ /\ handle # Closed
          /\ inflight' = Append(inflight, [h EXCEPT !.res = "pending"])
          /\ ready' = hs
       \/ /\ handle = Closed
          /\ ready' = Append(hs, [h EXCEPT !.res = "err"])
          /\ UNCHANGED inflight
    /\ UNCHANGED <<opened_, connecting_, generation_, tx_queue_, handle,
                   link_state, resolving, accepted, wire>>

\* Mutant of RunWrite: the packet written stays at the front.
RunWriteKeeps(h, hs) ==
    /\ h.kind = "write" /\ h.res # "some"
    /\ \/ ~Current(h) /\ Ignore(hs)
       \/ Current(h) /\ h.res = "err" /\ HandleIoError(hs)
       \/ /\ Current(h) /\ h.res = "ok"
          /\ DoWrite(tx_queue_)
          /\ ready' = hs
          /\ UNCHANGED <<opened_, connecting_, generation_, handle,
                         link_state, resolving, accepted, wire>>

\* Mutant of RunWrite: the next packet is not written.
RunWriteStops(h, hs) ==
    /\ h.kind = "write" /\ h.res # "some"
    /\ \/ ~Current(h) /\ Ignore(hs)
       \/ Current(h) /\ h.res = "err" /\ HandleIoError(hs)
       \/ /\ Current(h) /\ h.res = "ok"
          /\ tx_queue_' = IF tx_queue_ = << >> THEN << >> ELSE Tail(tx_queue_)
          /\ ready' = hs
          /\ UNCHANGED <<opened_, connecting_, generation_, handle, inflight,
                         link_state, resolving, accepted, wire>>

\* on_write.
RunWrite(h, hs) ==
    /\ h.kind = "write" /\ h.res # "some"
    /\ \/ ~Current(h) /\ Ignore(hs)
       \/ Current(h) /\ h.res = "err" /\ HandleIoError(hs)
       \/ /\ Current(h) /\ h.res = "ok"
          /\ DoWrite(IF tx_queue_ = << >> THEN << >> ELSE Tail(tx_queue_))
          /\ ready' = hs
          /\ UNCHANGED <<opened_, connecting_, generation_, handle,
                         link_state, resolving, accepted, wire>>

\* Mutant of RunPost: do_write whether or not the writer is idle.
RunPostAlwaysWrites(h, hs) ==
    /\ h.kind = "post"
    /\ \/ ~opened_ /\ Ignore(hs)
       \/ /\ opened_
          /\ DoWrite(Append(tx_queue_, h.pkt))
          /\ ready' = hs
          /\ UNCHANGED <<opened_, connecting_, generation_, handle,
                         link_state, resolving, accepted, wire>>

\* The lambda write_bytes posted: it asks whether the link is up, not which
\* generation of it.
RunPost(h, hs) ==
    /\ h.kind = "post"
    /\ \/ ~opened_ /\ Ignore(hs)
       \/ /\ opened_
          /\ IF tx_queue_ = << >>
             THEN DoWrite(<<h.pkt>>)
             ELSE tx_queue_' = Append(tx_queue_, h.pkt) /\ UNCHANGED inflight
          /\ ready' = hs
          /\ UNCHANGED <<opened_, connecting_, generation_, handle,
                         link_state, resolving, accepted, wire>>

RunHandler ==
    /\ ready # << >>
    /\ LET h == Head(ready)
           hs == Tail(ready)
       IN \/ RunResolve(h, hs)
          \/ RunConnect(h, hs)
          \/ RunRead(h, hs)
          \/ RunPartialWrite(h, hs)
          \/ RunWrite(h, hs)
          \/ RunPost(h, hs)

------------------------------------------------------------------------------
\* App::run starts the link before the event loop runs, if a port is given.
Init ==
    /\ tx_queue_ = << >> /\ ready = << >> /\ wire = << >> /\ accepted = 0
    /\ \/ /\ PortKind = "none"
          /\ opened_ = FALSE /\ connecting_ = FALSE /\ generation_ = 0 /\ handle = Closed
          /\ resolving = {} /\ inflight = << >> /\ link_state = "Disconnected"
       \/ /\ PortKind = "tcp"
          /\ opened_ = FALSE /\ connecting_ = TRUE /\ generation_ = 1 /\ handle = Closed
          /\ resolving = {1} /\ inflight = << >> /\ link_state = "Disconnected"
       \/ /\ PortKind = "serial"
          /\ opened_ = TRUE /\ connecting_ = FALSE /\ generation_ = 1 /\ handle = 1
          /\ resolving = {} /\ inflight = <<ReadOp(1)>> /\ link_state = "Connected"
       \/ /\ PortKind = "serial"
          /\ opened_ = FALSE /\ connecting_ = FALSE /\ generation_ = 1 /\ handle = Closed
          /\ resolving = {} /\ inflight = << >> /\ link_state = "Error"

Resolver == \E g \in resolving : \E res \in {"ok", "err"} : Resolved(g, res)
System == \E i \in DOMAIN inflight :
              \/ \E res \in {"ok", "err"} : IoCompletes(i, res)
              \/ \E res \in {"ok", "some"} : Transmits(i, res)

Next == \/ Start
        \/ Stop
        \/ Restart
        \/ WriteBytes
        \/ Resolver
        \/ System
        \/ RunHandler

Spec == Init /\ [][Next]_vars

\* Scheduling the code justifies: io_context::run keeps running handlers, the
\* resolver and connect() time out, and the device drains what is written.
\* Nothing is assumed of reads: a device may stay silent.
Served(kind) == \E i \in DOMAIN inflight : inflight[i].kind = kind /\
                    \/ \E res \in {"ok", "err"} : IoCompletes(i, res)
                    \/ \E res \in {"ok", "some"} : Transmits(i, res)

Fairness == /\ WF_vars(RunHandler)
            /\ WF_vars(Resolver)
            /\ WF_vars(Served("connect"))
            /\ WF_vars(Served("write"))

FairSpec == Spec /\ Fairness

------------------------------------------------------------------------------
Kinds == {"resolve", "connect", "read", "write", "post"}
Results == {"pending", "ok", "some", "err"}
Ops == [kind : Kinds, gen : Nat, pkt : Nat, part : Nat, res : Results]
Parts == [sess : Nat, pkt : Nat, part : Nat, last : BOOLEAN]

\* Every variable of the link holds a value of its type.
TypeOK ==
    /\ opened_ \in BOOLEAN /\ connecting_ \in BOOLEAN
    /\ generation_ \in Nat /\ handle \in Nat /\ accepted \in Nat
    /\ tx_queue_ \in Seq(Nat)
    /\ link_state \in {"Disconnected", "Connected", "Error"}
    /\ resolving \subseteq Nat
    /\ inflight \in Seq(Ops)
    /\ ready \in Seq(Ops)
    /\ wire \in Seq(Parts)

\* The state the daemon publishes (set_link from on_state_ and on_error_) and
\* the link's own flags never disagree: CONNECTED is shown exactly while
\* packets are taken, and then the descriptor is the one this generation
\* opened; a link neither up nor coming up holds no descriptor and no pending
\* operation, whatever late completion ran last.
LinkConsistent ==
    /\ link_state = "Connected" <=> opened_
    /\ ~(opened_ /\ connecting_)
    /\ opened_ => handle = generation_
    /\ ~opened_ /\ ~connecting_ => handle = Closed /\ inflight = << >>

Outstanding(kind) ==
    Cardinality({i \in DOMAIN inflight : inflight[i].kind = kind /\ Current(inflight[i])})
  + Cardinality({i \in DOMAIN ready : ready[i].kind = kind /\ Current(ready[i])})

\* do_read_*: while the link is up exactly one read of this generation is
\* outstanding: the reader neither stops nor forks across errors, reconnects
\* and the late completions of earlier sessions.
OneReader == opened_ => Outstanding("read") = 1

\* do_write: while the link is up a write of this generation is outstanding
\* exactly when packets are queued, and it writes the front of the queue: no
\* queued packet is left without a writer (the "idle" test of write_bytes) and
\* none gets two.
OneWriter ==
    opened_ =>
      /\ Outstanding("write") = IF tx_queue_ = << >> THEN 0 ELSE 1
      /\ \A q \in {inflight, ready} : \A i \in DOMAIN q :
             q[i].kind = "write" /\ Current(q[i]) => q[i].pkt = Head(tx_queue_)

\* serial_link.hpp:27 "Packets are never written concurrently": the descriptor
\* never has two async_writes under way, of whatever session.
NeverConcurrent ==
    \A i, j \in DOMAIN inflight :
        inflight[i].kind = "write" /\ inflight[j].kind = "write" => i = j

\* serial_link.cpp:94 "invalidate all callbacks from the previous connection
\* attempt/session": the write callbacks that can still act on the link that is
\* up (it only asks opened_) were all posted in this session.
PostsCurrent ==
    opened_ => \A i \in DOMAIN ready : ready[i].kind = "post" => Current(ready[i])

\* handle_io_error: "Keep ERROR as the externally visible state": with no
\* attempt under way only a client's command (a new generation) leaves it, never
\* a late completion.
ErrorSticky ==
    [][link_state = "Error" /\ ~connecting_ /\ link_state' # "Error"
          => generation_' > generation_]_vars

\* Every connection attempt ends: connected, failed, or replaced by a command.
AttemptSettles ==
    \A g \in 1 .. MaxGen :
        (connecting_ /\ generation_ = g) ~> ~(connecting_ /\ generation_ = g)

\* A packet write_bytes took, posted or queued.
Pending(p) == \/ \E i \in DOMAIN ready : ready[i].kind = "post" /\ ready[i].pkt = p
              \/ \E i \in DOMAIN tx_queue_ : tx_queue_[i] = p

\* No accepted packet waits forever: it is written or its session ends.
PacketSettles == \A p \in 1 .. MaxPackets : Pending(p) ~> ~Pending(p)

------------------------------------------------------------------------------
(* What makes LinkConsistent and PostsCurrent inductive.                    *)

Attempt(h) == h.kind \in {"resolve", "connect"} /\ Current(h)
Transfer(h) == h.kind \in {"read", "write"} /\ Current(h)

\* No callback holds a generation that is yet to come.
GenerationsPast ==
    /\ \A g \in resolving : g <= generation_
    /\ \A i \in DOMAIN inflight : inflight[i].gen <= generation_
    /\ \A i \in DOMAIN ready : ready[i].gen <= generation_

\* Only connects, reads and writes are pending on the descriptor.
DescriptorOps ==
    \A i \in DOMAIN inflight : inflight[i].kind \in {"connect", "read", "write"}

\* The connection attempt has one thread of control: the resolver, the socket
\* or a queued handler, never two of them, and none once it is over.
OneAttempt ==
    /\ generation_ \in resolving =>
         /\ connecting_
         /\ \A i \in DOMAIN inflight : ~Attempt(inflight[i])
         /\ \A i \in DOMAIN ready : ~Attempt(ready[i])
    /\ \A i \in DOMAIN inflight : Attempt(inflight[i]) =>
         /\ connecting_
         /\ handle = generation_
         /\ \A j \in DOMAIN inflight : Attempt(inflight[j]) => i = j
         /\ \A j \in DOMAIN ready : ~Attempt(ready[j])
    /\ \A i \in DOMAIN ready : Attempt(ready[i]) =>
         /\ connecting_
         /\ ready[i].kind = "connect" => handle = generation_
         /\ \A j \in DOMAIN ready : Attempt(ready[j]) => i = j

\* Reads and writes of this generation exist only after it connected.
TransfersAfterConnect ==
    /\ \A i \in DOMAIN inflight : Transfer(inflight[i]) => ~connecting_
    /\ \A i \in DOMAIN ready : Transfer(ready[i]) => ~connecting_

\* The queue order that protects a TCP link: posts of an earlier session run
\* before the resolve handler of this one, so none is left when it connects.
PostsFirst ==
    Tcp =>
      /\ \A i, j \in DOMAIN ready :
            Attempt(ready[i]) /\ ready[j].kind = "post" =>
                j < i /\ ready[i].kind = "resolve"
      /\ \A i \in DOMAIN inflight : Attempt(inflight[i]) =>
            \A j \in DOMAIN ready : ready[j].kind # "post"
      /\ PostsCurrent

\* A link that is down holds no packet: a session starts with an empty queue.
IdleDown == ~opened_ => tx_queue_ = << >>

LinkInv == LinkConsistent /\ GenerationsPast /\ DescriptorOps /\ OneAttempt
           /\ TransfersAfterConnect /\ PostsFirst

------------------------------------------------------------------------------
(* The link implements LinkContract.                                        *)

\* The write of this generation that is under way, if any, in either sequence.
Writes == {inflight[i] : i \in {j \in DOMAIN inflight :
                                    inflight[j].kind = "write" /\ Current(inflight[j])}}
          \union {ready[i] : i \in {j \in DOMAIN ready :
                                    ready[j].kind = "write" /\ Current(ready[j])}}
FrontWritten == \E w \in Writes : w.res = "ok"

Untransmitted ==
    Len(tx_queue_) + Cardinality({i \in DOMAIN ready : ready[i].kind = "post"})
      - (IF FrontWritten THEN 1 ELSE 0)

\* The packet to transmit next, and how many parts of it were.
Upcoming == accepted + 1 - (IF opened_ THEN Untransmitted ELSE 0)
PartsSent == IF opened_ /\ ~FrontWritten /\ Writes # {}
             THEN (CHOOSE w \in Writes : TRUE).part ELSE 0

Contract == INSTANCE LinkContract WITH
    state <- link_state, busy <- connecting_, session <- generation_,
    next <- Upcoming, part <- PartsSent

\* Through every interleaving of commands, completions and late handlers the
\* link behaves as LinkContract says.
ImplementsContract == Contract!CSpec
=============================================================================
