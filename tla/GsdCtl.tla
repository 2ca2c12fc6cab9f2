------------------------------- MODULE GsdCtl -------------------------------
(***************************************************************************)
(* exn_gsdctl (tools/gsdctl/main.cpp) as the client of Daemon: each client *)
(* is one run of the tool.  It reads Hello and frames up to the first link *)
(* state, writes its one request, and reads on until a frame decides its   *)
(* exit status.  It keeps no state but the frames it read, in order, so    *)
(* that what it does is a function of its stream d2c; how far it has read  *)
(* is when it acts.                                                        *)
(***************************************************************************)
EXTENDS Daemon

VARIABLE exit     \* the exit status of each run: "none" yet, "0" or "1"

ctlVars == <<vars, exit>>

\* The request table: what a run that wrote request r waits for.  raw sends a
\* packet the daemon may find malformed ("BAD").
Expected(r) ==
    CASE r \in {"PING", "STATS"} -> "QueryResult"
      [] r \in {"STATUS", "CONNECT", "DISCONNECT", "RECONNECT"} -> "LinkState"
      [] r \in {"SEND", "BAD"} -> "PacketTx"
LinkExpectation(r) ==
    CASE r \in {"CONNECT", "RECONNECT"} -> {"Connected"}
      [] r = "DISCONNECT" -> {"Disconnected"}
      [] OTHER -> {"Connected", "Disconnected"}

\* The initial link state ends the handshake: frame n of the stream s.
IsHandshake(s, n) == n > 1 /\ s[n].type = "LinkState" /\ \A i \in 2 .. n - 1 : s[i].type # "LinkState"
HandshakeDone(s) == \E n \in DOMAIN s : IsHandshake(s, n)

\* Frames that end the loop, and with which status.
Fails(r, f) == f.type = "Error" \/ (f.type = Expected(r) /\ f = LinkFrame("Error"))

\* Mutant of Succeeds: any frame of another type than Error is the answer.
SucceedsAny(r, f) == f.type # "Error" /\ f # LinkFrame("Error")

Succeeds(r, f) ==
    f.type = Expected(r) /\ (f.type = "LinkState" => f.arg \in LinkExpectation(r))

\* Frame n of the stream is read by the reply loop, and is the one that ends it.
IsReply(s, n) == \E k \in 1 .. n - 1 : IsHandshake(s, k)
Decides(r, s, n) == IsReply(s, n) /\ (Fails(r, s[n]) \/ Succeeds(r, s[n]))
Ends(r, s, n) == Decides(r, s, n) /\ \A k \in 1 .. n - 1 : ~Decides(r, s, k)
Status(r, f) == IF Fails(r, f) THEN "1" ELSE "0"

------------------------------------------------------------------------------
Starts(c) == ~crashed /\ Connect(c) /\ UNCHANGED exit

WritesRequest(c, r) ==
    /\ HandshakeDone(d2c[c]) /\ asked[c] = << >>
    /\ Request(c, r)
    /\ UNCHANGED exit

\* An unknown command, or raw without a packet in hexadecimal.
UsageError(c) ==
    /\ HandshakeDone(d2c[c]) /\ asked[c] = << >>
    /\ Leave(c)
    /\ exit' = [exit EXCEPT ![c] = "1"]

Returns(c) ==
    /\ asked[c] # << >>
    /\ Leave(c)
    /\ \E n \in DOMAIN d2c[c] :
           /\ Ends(asked[c][1], d2c[c], n)
           /\ exit' = [exit EXCEPT ![c] = Status(asked[c][1], d2c[c][n])]

\* read_some throws: the daemon is gone.
LosesDaemon(c) ==
    /\ crashed /\ Leave(c)
    /\ exit' = [exit EXCEPT ![c] = "1"]

CtlNext == \E c \in Clients : \/ Starts(c)
                              \/ \E r \in Requests : WritesRequest(c, r)
                              \/ UsageError(c)
                              \/ Returns(c)
                              \/ LosesDaemon(c)

CtlInit == Init /\ exit = [c \in Clients |-> "none"]
CtlSpec == CtlInit /\ [][(CtlNext \/ (DaemonNext /\ UNCHANGED exit)) /\ UNCHANGED port]_ctlVars

\* The event loop runs; requests reach the daemon and the kernel takes its
\* frames; an attempt to connect is settled (AttemptSettles of SerialLink); a run
\* that was started goes on.  Users and the device owe nothing.  Every behaviour
\* within the bounds comes to rest, so fairness of the whole is fairness of each.
Progress ==
    /\ \/ /\ \/ RunHandler \/ OnFrame \/ EndRead \/ OnOpened
             \/ \E c \in Clients : (\E n \in 1 .. MaxRequests : ReadCompletes(c, n))
                                  \/ WriteCompletes(c)
          /\ UNCHANGED exit
       \/ \E c \in Clients : \/ \E r \in Requests : WritesRequest(c, r)
                             \/ Returns(c)
                             \/ LosesDaemon(c)
    /\ UNCHANGED port

CtlFairSpec == CtlSpec /\ WF_ctlVars(Progress)

------------------------------------------------------------------------------
\* The daemon has read c's request and served it.
Served(c) ==
    /\ asked[c] # << >> /\ c2d[c] = << >>
    /\ running = c => batch = << >>
    /\ \A i \in DOMAIN ready : ready[i].c = c => ready[i].frames = << >>

\* main.cpp:185: ping and stats succeed only on the answer to their own request,
\* whatever other runs ask and the link broadcasts meanwhile.
QueriesServed ==
    \A c \in Clients : exit[c] = "0" /\ asked[c][1] \in {"PING", "STATS"} => Served(c)

\* main.cpp:192: any Error frame ends a run, and some are broadcast.  While the
\* device stays quiet, a run fails for a reason of its own only: it was called
\* wrongly, its own packet was looked at and rejected, or the port it waits for does
\* not open; nobody else's rejected request reaches it.
FailsOnItsOwn ==
    \A c \in Clients :
        exit[c] = "1" =>
            \/ crashed \/ events > 0
            \/ asked[c] = << >>
            \/ asked[c][1] \in {"SEND", "BAD"} /\ Served(c)
            \/ port # "tcp" /\ Expected(asked[c][1]) = "LinkState"

\* README.md:250: "gsdctl waits for the daemon response instead of exiting
\* immediately after transmitting the IPC request."
WaitsForResponse == \A c \in Clients : exit[c] = "0" => Served(c)

\* A run that waits for "Connected" after another one's DISCONNECT: its request was
\* served, nothing that was sent to it ends it, and the link stays down.
Cancelled(c) ==
    /\ asked[c] # << >> /\ asked[c][1] \in {"CONNECT", "RECONNECT"} /\ Served(c)
    /\ \E o \in Clients \ {c} : Contains(asked[o], "DISCONNECT")
    /\ ~\E n \in DOMAIN sent[c] : Ends(asked[c][1], sent[c], n)
    /\ phase = "idle" /\ link_state = "Disconnected"

\* main.cpp:185-210: no run that was started waits for ever, whatever the others ask
\* and although its port may not open; the one exception is a connect or reconnect
\* whose attempt another run's DISCONNECT cancelled, which skips "Disconnected" (line
\* 199) and waits on.
CtlReturns == \A c \in Clients : <>[](peer[c] # "open" \/ Cancelled(c))
=============================================================================
