------------------------------- MODULE Daemon -------------------------------
(***************************************************************************)
(* exn_gsd between its IPC clients and the device link: App's callbacks    *)
(* (daemon/src/app.cpp), IpcServer and IpcSession (ipc_server.cpp) and     *)
(* StateStore (state.cpp) on one event loop.  The device link appears by   *)
(* what LinkContract says of it; SerialLink is its own module.             *)
(*                                                                         *)
(* ready is the io_context's queue of handlers.  One handler runs to its   *)
(* end before the next: the read handler of a session decodes and serves   *)
(* every frame that arrived, one step each, while running names its        *)
(* session and no other handler may run.                                   *)
(***************************************************************************)
EXTENDS Integers, Sequences, FiniteSets, SequencesExt, Selections

CONSTANTS
    Clients,       \* IPC connections, each made at most once
    Requests,      \* what clients may send, a subset of AllRequests
    Ports,         \* kinds of port the daemon may be configured with, as in SerialLink
    MaxRequests,   \* bound on the requests of one client
    MaxLinkEvents  \* bound on the link's failures and packets

AllRequests == {"CONNECT", "DISCONNECT", "RECONNECT", "PING", "STATUS", "STATS",
                "SEND",         \* PacketSend of a well-formed Space Packet
                "BAD",          \* rejected: by decode_meta, by unpack_string, or unknown
                "OTHER"}        \* a frame type the session skips

ASSUME RequestsAssumption == Requests \subseteq AllRequests
ASSUME PortsAssumption == Ports \subseteq {"tcp", "serial", "none"}
ASSUME LimitsAssumption == MaxRequests \in Nat /\ MaxLinkEvents \in Nat

VARIABLES
    peer,         \* the client's end: "never" connected, "open", "closed"
    c2d,          \* requests the client wrote and the daemon has not read
    asked,        \* history: requests the client wrote
    d2c,          \* history: frames written to the client's connection
    sock,         \* IpcSession::sock_: "none" (no session yet), "open", "closed"
    pending,      \* operations pending on it, of "read" and "write"
    tx_queue_,    \* IpcSession::tx_queue_
    sent,         \* history: frames given to IpcSession::send
    sessions_,    \* IpcServer::sessions_
    ready, running, batch,
    port,         \* the kind of cfg_.serial_port
    phase,        \* the link's flags: "idle", "connecting" or "opened"
    link_state, stats,
    events,       \* failures and packets of the device link so far
    crashed       \* the process ended on undefined behaviour

clientVars == <<peer, asked>>
sessionVars == <<sock, pending, tx_queue_, d2c, c2d>>
linkVars == <<phase, link_state, events>>
vars == <<clientVars, sessionVars, sent, sessions_, ready, running, batch, port,
          linkVars, stats, crashed>>

NoClient == "none"
ASSUME ClientsAssumption == NoClient \notin Clients

\* exn::proto::Frame as the clients see it.
Frame(type, arg) == [type |-> type, arg |-> arg]
Hello == Frame("Hello", "exn_gsd")
LinkFrame(state) == Frame("LinkState", state)
States == {"Disconnected", "Connected", "Error"}
Frames == [type : {"Hello", "LinkState", "QueryResult", "Error", "PacketTx", "PacketRx"},
           arg : States \union {"exn_gsd", "PONG", "STATS", "rejected", "link down",
                                "RX INVALID", ""}]

Handlers == [kind : {"accept", "send", "written", "read"}, c : Clients, res : {"ok", "err"},
             frame : Frames, frames : Seq(Requests)]
Handler(kind, c) == [kind |-> kind, c |-> c, res |-> "ok", frame |-> Hello, frames |-> << >>]

------------------------------------------------------------------------------
(* IpcSession::send and IpcServer::broadcast.                               *)

SendPost(c, f) == [Handler("send", c) EXCEPT !.frame = f]
Posts(to, f) == [i \in DOMAIN to |-> SendPost(to[i], f)]

\* The shared_ptr count of a session: a pending operation or a queued handler
\* holds one, and so does the handler that runs.
Alive(c) == \/ pending[c] # {}
            \/ running = c
            \/ \E i \in DOMAIN ready : ready[i].c = c

\* broadcast erases the sessions whose weak_ptr has expired.
Listed == Select(sessions_, {c \in Clients : Alive(c)})

\* What a handler hands out to the sessions of to, one frame after the other; no
\* handler has more than two.
HandOut(q, to, fs) ==
    LET nth(n) == IF n \in DOMAIN fs THEN Posts(to, fs[n]) ELSE << >>
    IN /\ ready' = q \o nth(1) \o nth(2)
       /\ sent' = [c \in Clients |-> IF Contains(to, c) THEN sent[c] \o fs ELSE sent[c]]

------------------------------------------------------------------------------
(* The clients.                                                             *)

Connect(c) ==
    /\ peer[c] = "never"
    /\ peer' = [peer EXCEPT ![c] = "open"]
    /\ ready' = Append(ready, Handler("accept", c))
    /\ UNCHANGED <<asked, sessionVars, sent, sessions_, running, batch, linkVars,
                   stats, crashed>>

Request(c, r) ==
    /\ peer[c] = "open"
    /\ Len(asked[c]) < MaxRequests
    /\ asked' = [asked EXCEPT ![c] = Append(@, r)]
    /\ c2d' = [c2d EXCEPT ![c] = Append(@, r)]
    /\ UNCHANGED <<peer, sock, pending, tx_queue_, d2c, sent, sessions_, ready, running,
                   batch, linkVars, stats, crashed>>

Leave(c) ==
    /\ peer[c] = "open"
    /\ peer' = [peer EXCEPT ![c] = "closed"]
    /\ UNCHANGED <<asked, sessionVars, sent, sessions_, ready, running, batch, linkVars,
                   stats, crashed>>

------------------------------------------------------------------------------
(* Completions on a session's socket.                                       *)

Completed(c, op, h) ==
    /\ op \in pending[c]
    /\ pending' = [pending EXCEPT ![c] = @ \ {op}]
    /\ ready' = Append(ready, h)
    /\ UNCHANGED <<clientVars, sock, tx_queue_, sent, sessions_, running, batch, linkVars,
                   stats, crashed>>

\* One read may return any number of the frames that arrived.
ReadCompletes(c, n) ==
    /\ n \in 1 .. Len(c2d[c])
    /\ Completed(c, "read", [Handler("read", c) EXCEPT !.frames = SubSeq(c2d[c], 1, n)])
    /\ c2d' = [c2d EXCEPT ![c] = SubSeq(@, n + 1, Len(@))]
    /\ UNCHANGED d2c

WriteCompletes(c) ==
    /\ Completed(c, "write", Handler("written", c))
    /\ d2c' = [d2c EXCEPT ![c] = Append(@, Head(tx_queue_[c]))]
    /\ UNCHANGED c2d

\* End of file or reset, once the client has left.
IoFails(c) ==
    /\ peer[c] = "closed"
    /\ \/ Completed(c, "read", [Handler("read", c) EXCEPT !.res = "err"])
       \/ Completed(c, "write", [Handler("written", c) EXCEPT !.res = "err"])
    /\ UNCHANGED <<c2d, d2c>>

------------------------------------------------------------------------------
(* Handlers of IpcServer and IpcSession.                                    *)

Free == ~crashed /\ running = NoClient

\* Mutant of RunAccept: on_connect_ before start().
RunAcceptStateFirst(h, hs) ==
    /\ h.kind = "accept"
    /\ sessions_' = Append(sessions_, h.c)
    /\ sock' = [sock EXCEPT ![h.c] = "open"]
    /\ pending' = [pending EXCEPT ![h.c] = {"read"}]
    /\ HandOut(hs, <<h.c>>, <<LinkFrame(link_state), Hello>>)
    /\ UNCHANGED <<clientVars, c2d, d2c, tx_queue_, running, batch, linkVars, stats, crashed>>

\* do_accept: the session reads, posts Hello, and App posts the link's state.
RunAccept(h, hs) ==
    /\ h.kind = "accept"
    /\ sessions_' = Append(sessions_, h.c)
    /\ sock' = [sock EXCEPT ![h.c] = "open"]
    /\ pending' = [pending EXCEPT ![h.c] = {"read"}]
    /\ HandOut(hs, <<h.c>>, <<Hello, LinkFrame(link_state)>>)
    /\ UNCHANGED <<clientVars, c2d, d2c, tx_queue_, running, batch, linkVars, stats, crashed>>

\* do_write, once q is the session's queue.
DoWrite(c, q) ==
    /\ tx_queue_' = [tx_queue_ EXCEPT ![c] = q]
    /\ pending' = IF q # << >> /\ sock[c] = "open"
                  THEN [pending EXCEPT ![c] = @ \union {"write"}] ELSE pending

\* The lambda send() posted.
RunSend(h, hs) ==
    /\ h.kind = "send"
    /\ \/ sock[h.c] # "open" /\ UNCHANGED <<tx_queue_, pending>>
       \/ /\ sock[h.c] = "open"
          /\ IF tx_queue_[h.c] = << >>
             THEN DoWrite(h.c, <<h.frame>>)
             ELSE /\ tx_queue_' = [tx_queue_ EXCEPT ![h.c] = Append(@, h.frame)]
                  /\ UNCHANGED pending
    /\ ready' = hs
    /\ UNCHANGED <<clientVars, sock, c2d, d2c, sent, sessions_, running, batch, linkVars,
                   stats, crashed>>

\* sock_.close() and tx_queue_.clear(); what was pending ends in an error.
Close(c, hs) ==
    /\ sock' = [sock EXCEPT ![c] = "closed"]
    /\ tx_queue_' = [tx_queue_ EXCEPT ![c] = << >>]
    /\ pending' = [pending EXCEPT ![c] = {}]
    /\ ready' = hs
         \o (IF "read" \in pending[c] THEN <<[Handler("read", c) EXCEPT !.res = "err"]>> ELSE << >>)
         \o (IF "write" \in pending[c] THEN <<[Handler("written", c) EXCEPT !.res = "err"]>> ELSE << >>)

\* Mutant of RunWritten: the frame written is not popped.
RunWrittenKeeps(h, hs) ==
    /\ h.kind = "written"
    /\ \/ h.res = "err" /\ Close(h.c, hs) /\ UNCHANGED crashed
       \/ /\ h.res = "ok"
          /\ DoWrite(h.c, tx_queue_[h.c])
          /\ ready' = hs
          /\ UNCHANGED <<sock, crashed>>
    /\ UNCHANGED <<clientVars, c2d, d2c, sent, sessions_, running, batch, linkVars, stats>>

\* async_write's handler.  pop_front of an empty deque is undefined: the
\* process goes on or ends.
RunWritten(h, hs) ==
    /\ h.kind = "written"
    /\ \/ h.res = "err" /\ Close(h.c, hs) /\ UNCHANGED crashed
       \/ /\ h.res = "ok" /\ tx_queue_[h.c] # << >>
          /\ DoWrite(h.c, Tail(tx_queue_[h.c]))
          /\ ready' = hs
          /\ UNCHANGED <<sock, crashed>>
       \/ /\ h.res = "ok" /\ tx_queue_[h.c] = << >>
          /\ crashed' \in BOOLEAN
          /\ ready' = hs
          /\ UNCHANGED <<sock, tx_queue_, pending>>
    /\ UNCHANGED <<clientVars, c2d, d2c, sent, sessions_, running, batch, linkVars, stats>>

\* async_read_some's handler: an error closes, else the frames are served.
RunRead(h, hs) ==
    /\ h.kind = "read"
    /\ \/ h.res = "err" /\ Close(h.c, hs) /\ UNCHANGED <<running, batch>>
       \/ /\ h.res = "ok"
          /\ running' = h.c /\ batch' = h.frames
          /\ ready' = hs
          /\ UNCHANGED <<sock, tx_queue_, pending>>
    /\ UNCHANGED <<clientVars, c2d, d2c, sent, sessions_, linkVars, stats, crashed>>

\* Mutant of EndRead: no do_read after the last frame.
EndReadOnce ==
    /\ ~crashed /\ running # NoClient /\ batch = << >>
    /\ running' = NoClient
    /\ UNCHANGED <<clientVars, sessionVars, sent, sessions_, ready, batch, linkVars, stats,
                   crashed>>

\* do_read after the last frame: on a socket a failed write closed meanwhile it
\* fails at once.
EndRead ==
    /\ ~crashed /\ running # NoClient /\ batch = << >>
    /\ running' = NoClient
    /\ IF sock[running] = "open"
       THEN pending' = [pending EXCEPT ![running] = @ \union {"read"}] /\ UNCHANGED ready
       ELSE ready' = Append(ready, [Handler("read", running) EXCEPT !.res = "err"])
            /\ UNCHANGED pending
    /\ UNCHANGED <<clientVars, sock, tx_queue_, d2c, c2d, sent, sessions_, batch, linkVars,
                   stats, crashed>>

RunHandler ==
    /\ Free /\ ready # << >>
    /\ LET h == Head(ready)
           hs == Tail(ready)
       IN RunAccept(h, hs) \/ RunSend(h, hs) \/ RunWritten(h, hs) \/ RunRead(h, hs)

------------------------------------------------------------------------------
(* App: commands of clients.                                                *)

\* Mutant of Publish: the state is broadcast before set_link.
PublishEarly(states) ==
    /\ HandOut(ready, Listed, [i \in DOMAIN states |-> LinkFrame(link_state)])
    /\ link_state' = IF states = << >> THEN link_state ELSE Last(states)
    /\ sessions_' = IF states = << >> THEN sessions_ ELSE Listed

\* Every set_link is followed by publish_link_state: a broadcast per state.
Publish(states) ==
    /\ HandOut(ready, Listed, [i \in DOMAIN states |-> LinkFrame(states[i])])
    /\ link_state' = IF states = << >> THEN link_state ELSE Last(states)
    /\ sessions_' = IF states = << >> THEN sessions_ ELSE Listed

\* link.start(), after the states already published by the same command.
LinkStart(shown) ==
    \/ port = "tcp" /\ phase' = "connecting" /\ Publish(shown)
    \/ port # "tcp" /\ phase' = "idle" /\ Publish(Append(shown, "Error"))
    \/ port = "serial" /\ phase' = "opened" /\ Publish(Append(shown, "Connected"))

\* Mutant of Command: a link that is stopped already says nothing.
CommandQuietStop(r) ==
    /\ \/ r = "CONNECT" /\ phase = "idle" /\ LinkStart(<< >>)
       \/ /\ r = "DISCONNECT" /\ phase' = "idle"
          /\ Publish(IF phase = "idle" THEN << >> ELSE <<"Disconnected">>)
       \/ r = "RECONNECT" /\ LinkStart(<<"Disconnected">>)
    /\ UNCHANGED stats

\* Commands that change the link.
Command(r) ==
    /\ \/ r = "CONNECT" /\ phase = "idle" /\ LinkStart(<< >>)
       \/ r = "DISCONNECT" /\ phase' = "idle" /\ Publish(<<"Disconnected">>)
       \/ r = "RECONNECT" /\ LinkStart(<<"Disconnected">>)
    /\ UNCHANGED stats

\* Requests answered to their session alone; CONNECT while connecting and
\* frames of other types are answered by nothing.
Answers(r) ==
    CASE r = "PING" -> <<Frame("QueryResult", "PONG")>>
      [] r = "STATUS" -> <<LinkFrame(link_state)>>
      [] r = "STATS" -> <<Frame("QueryResult", "STATS")>>
      [] r = "BAD" -> <<Frame("Error", "rejected")>>
      [] r = "SEND" /\ phase # "opened" -> <<Frame("Error", "link down")>>
      [] r = "CONNECT" /\ phase = "opened" -> <<LinkFrame(link_state)>>
      [] OTHER -> << >>

\* Mutant of Answer: the answer is broadcast.
AnswerAll(c, r) ==
    /\ r \notin {"DISCONNECT", "RECONNECT"}
    /\ r = "CONNECT" => phase # "idle"
    /\ r = "SEND" => phase # "opened"
    /\ HandOut(ready, Listed, Answers(r))
    /\ UNCHANGED <<phase, link_state, sessions_, stats>>

Answer(c, r) ==
    /\ r \notin {"DISCONNECT", "RECONNECT"}
    /\ r = "CONNECT" => phase # "idle"
    /\ r = "SEND" => phase # "opened"
    /\ HandOut(ready, <<c>>, Answers(r))
    /\ UNCHANGED <<phase, link_state, sessions_, stats>>

\* PacketSend with the link up: write_bytes, on_tx, PacketTx to everyone.
Route(r) ==
    /\ r = "SEND" /\ phase = "opened"
    /\ stats' = [stats EXCEPT !.tx_packets = @ + 1]
    /\ HandOut(ready, Listed, <<Frame("PacketTx", "")>>)
    /\ sessions_' = Listed
    /\ UNCHANGED <<phase, link_state>>

\* on_frame, for the next frame the running read handler decoded.
OnFrame ==
    /\ ~crashed /\ running # NoClient /\ batch # << >>
    /\ LET r == Head(batch)
       IN Command(r) \/ Answer(running, r) \/ Route(r)
    /\ batch' = Tail(batch)
    /\ UNCHANGED <<clientVars, sessionVars, running, events, crashed>>

------------------------------------------------------------------------------
(* App: callbacks of the link and of the framer.                            *)

LinkReports ==
    /\ Free
    /\ UNCHANGED <<clientVars, sessionVars, running, batch, crashed>>

Counted == events < MaxLinkEvents /\ events' = events + 1

OnOpened ==
    /\ LinkReports
    /\ phase = "connecting"
    /\ phase' = "opened" /\ Publish(<<"Connected">>)
    /\ UNCHANGED <<stats, events>>

\* handle_io_error, also called again for the operations it aborted.
OnError ==
    /\ LinkReports /\ Counted
    /\ phase # "idle" \/ link_state = "Error"
    /\ phase' = "idle" /\ Publish(<<"Error">>)
    /\ UNCHANGED stats

\* The reader runs, or its last completion was queued before the link failed.
BytesArrive == phase = "opened" \/ (phase = "idle" /\ link_state = "Error")

\* Mutant of OnPacket: a packet that is not decoded is not counted as received.
OnPacketUncounted(decoded) ==
    /\ LinkReports /\ Counted
    /\ BytesArrive
    /\ stats' = IF decoded THEN [stats EXCEPT !.rx_packets = @ + 1]
                ELSE [stats EXCEPT !.decode_errors = @ + 1]
    /\ HandOut(ready, Listed,
               <<IF decoded THEN Frame("PacketRx", "") ELSE Frame("Error", "RX INVALID")>>)
    /\ sessions_' = Listed
    /\ UNCHANGED <<phase, link_state>>

\* The framer completed a packet, well formed or not.
OnPacket(decoded) ==
    /\ LinkReports /\ Counted
    /\ BytesArrive
    /\ stats' = [stats EXCEPT !.rx_packets = @ + 1,
                              !.decode_errors = IF decoded THEN @ ELSE @ + 1]
    /\ HandOut(ready, Listed,
               <<IF decoded THEN Frame("PacketRx", "") ELSE Frame("Error", "RX INVALID")>>)
    /\ sessions_' = Listed
    /\ UNCHANGED <<phase, link_state>>

------------------------------------------------------------------------------
\* App::run before the event loop: no session yet, so nobody is told.
Init ==
    /\ peer = [c \in Clients |-> "never"]
    /\ c2d = [c \in Clients |-> << >>] /\ asked = c2d /\ d2c = c2d
    /\ tx_queue_ = c2d /\ sent = c2d
    /\ sock = [c \in Clients |-> "none"]
    /\ pending = [c \in Clients |-> {}]
    /\ sessions_ = << >> /\ ready = << >> /\ running = NoClient /\ batch = << >>
    /\ port \in Ports
    /\ \/ port = "none" /\ phase = "idle" /\ link_state = "Disconnected"
       \/ port = "tcp" /\ phase = "connecting" /\ link_state = "Disconnected"
       \/ port = "serial" /\ phase = "opened" /\ link_state = "Connected"
       \/ port = "serial" /\ phase = "idle" /\ link_state = "Error"
    /\ stats = [rx_packets |-> 0, tx_packets |-> 0, decode_errors |-> 0]
    /\ events = 0 /\ crashed = FALSE

ClientNext == \E c \in Clients : \/ Connect(c)
                                 \/ Leave(c)
                                 \/ \E r \in Requests : Request(c, r)
SocketNext == \E c \in Clients : \/ \E n \in 1 .. MaxRequests : ReadCompletes(c, n)
                                 \/ WriteCompletes(c)
                                 \/ IoFails(c)
LinkNext == OnOpened \/ OnError \/ (\E d \in BOOLEAN : OnPacket(d))

DaemonNext == SocketNext \/ LinkNext \/ RunHandler \/ OnFrame \/ EndRead

Next == (ClientNext \/ DaemonNext) /\ UNCHANGED port

Spec == Init /\ [][Next]_vars

------------------------------------------------------------------------------
\* The types of all variables; a session is listed once.
Types ==
    /\ peer \in [Clients -> {"never", "open", "closed"}]
    /\ sock \in [Clients -> {"none", "open", "closed"}]
    /\ pending \in [Clients -> SUBSET {"read", "write"}]
    /\ c2d \in [Clients -> Seq(Requests)] /\ asked \in [Clients -> Seq(Requests)]
    /\ d2c \in [Clients -> Seq(Frames)] /\ tx_queue_ \in [Clients -> Seq(Frames)]
    /\ sent \in [Clients -> Seq(Frames)]
    /\ sessions_ \in Seq(Clients) /\ Distinct(sessions_)
    /\ ready \in Seq(Handlers)
    /\ running \in Clients \union {NoClient} /\ batch \in Seq(Requests)
    /\ port \in Ports /\ phase \in {"idle", "connecting", "opened"} /\ link_state \in States
    /\ stats \in [rx_packets : Nat, tx_packets : Nat, decode_errors : Nat]
    /\ events \in Nat /\ crashed \in BOOLEAN

\* Every variable of the daemon holds a value of its type, sequences with all their
\* elements; and StateStore's counters fit together: a packet that is not decoded is
\* one that was received (on_packet, on_decode_error).
TypeOK ==
    /\ Types
    /\ stats.decode_errors <= stats.rx_packets
    /\ stats.rx_packets <= events /\ events <= MaxLinkEvents

\* What is on its way to a client behind d2c.
FramesFor(q, c) == LET mine == Select(q, {h \in Handlers : h.kind = "send" /\ h.c = c})
                   IN [i \in DOMAIN mine |-> mine[i].frame]
Posted(c) == FramesFor(ready, c)
FrontWritten(c) == \E i \in DOMAIN ready :
                       ready[i].kind = "written" /\ ready[i].c = c /\ ready[i].res = "ok"
Queued(c) == IF FrontWritten(c) /\ tx_queue_[c] # << >> THEN Tail(tx_queue_[c]) ELSE tx_queue_[c]

\* IpcSession: a client's stream is what was sent to it, in that order, nothing
\* lost, repeated or overtaken; once the socket is closed, a prefix of it.
StreamInOrder ==
    \A c \in Clients :
        IF sock[c] = "open"
        THEN sent[c] = d2c[c] \o Queued(c) \o Posted(c)
        ELSE IsPrefix(d2c[c], sent[c])

\* IpcSession::do_read: on every path, errors and frames of any kind included, the
\* read of an open session is armed again, so that its client is not left waiting,
\* and never twice, so that two reads do not share tmp_; a closed session reads no
\* more.
OneRead ==
    \A c \in Clients :
        LET queued == {i \in DOMAIN ready : ready[i].kind = "read" /\ ready[i].c = c}
        IN /\ sock[c] = "open" =>
                (IF "read" \in pending[c] THEN 1 ELSE 0) + Cardinality(queued)
                    + (IF running = c THEN 1 ELSE 0) = 1
           /\ sock[c] = "closed" => "read" \notin pending[c]

\* README.md:57, gsdctl main.cpp:128: every session receives Hello and then the
\* state of the link, before any broadcast.
HelloFirst ==
    \A c \in Clients : /\ Len(d2c[c]) >= 1 => d2c[c][1] = Hello
                       /\ Len(d2c[c]) >= 2 => d2c[c][2].type = "LinkState"

LinkFrames(c) == Select(sent[c], {LinkFrame(s) : s \in States})

\* App: whatever commands, failures and connections interleave, the last link
\* state sent to a session is the state the link is in: a client that has read
\* its stream is not left with a stale one.
ViewsAgree ==
    \A c \in Clients :
        sock[c] = "open" => Last(LinkFrames(c)).arg = link_state

\* The daemon survives its clients: tests/hil_smoke.sh runs one short-lived
\* client after another against one daemon.
Survives == ~crashed
=============================================================================
