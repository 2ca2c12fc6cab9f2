------------------------------ MODULE UiClient ------------------------------
(***************************************************************************)
(* exn_gsui without its screen: IpcClient (ui/src/ipc_client.cpp), which   *)
(* keeps a connection to the daemon, and the callbacks, timer and commands *)
(* of UiApp (ui/src/ui_app.cpp).  The callbacks run on the io thread, the  *)
(* commands on the UI thread; they share the atomic flags.                 *)
(*                                                                         *)
(* IpcClient's callbacks carry no generation: what keeps the sessions      *)
(* apart is the delay of the reconnect timer.  One second is taken to be   *)
(* longer than the handlers queued when it was armed, and what those       *)
(* queue, need to run: the timer expires when the loop is idle.            *)
(***************************************************************************)
EXTENDS Integers, Sequences, FiniteSets

CONSTANTS
    MaxTc,       \* bound on tc_sequence
    MaxCommands, \* bound on the daemon commands the operator enters
    MaxDowns,    \* bound on the daemon's stops
    MaxChanges   \* bound on the changes of the device link

ASSUME BoundsAssumption == /\ MaxTc \in Nat /\ MaxCommands \in Nat
                           /\ MaxDowns \in Nat /\ MaxChanges \in Nat

\* The counts start at 1 and do not wrap at 2^14 within the bounds.
ASSUME CountsAssumption == 1 <= MaxTc /\ MaxTc + MaxCommands < 16384

VARIABLES
    sock_,       \* "open" or "closed"
    ops,         \* operations pending on it, of "connect", "read" and "write"
    resolving,   \* an async_resolve is under way
    timer,       \* reconnect_timer_ is armed
    ready,       \* handlers queued on the io_context
    connected_, reconnect_scheduled_, tx_queue_,
    daemon_connected, device_connected, hk_enabled,
    tc_sequence, hk_armed,
    commands,    \* commands entered so far
    up,          \* the daemon runs
    alive,       \* the daemon's end of the connection is open
    line,        \* LinkState frames on their way to the client
    device,      \* the device link is CONNECTED
    downs, changes,
    received,    \* history: the sequence counts of the telecommands written
    crashed      \* the process ended on undefined behaviour

clientVars == <<sock_, ops, resolving, timer, ready, connected_, reconnect_scheduled_, tx_queue_>>
flagVars == <<daemon_connected, device_connected>>
hkVars == <<hk_enabled, tc_sequence, hk_armed, commands>>
daemonVars == <<up, alive, line, device, downs, changes>>
vars == <<clientVars, flagVars, hkVars, daemonVars, received, crashed>>

Handler(kind, res) == [kind |-> kind, res |-> res, frames |-> << >>, tc |-> 0]
Command == 0    \* a frame that is not a telecommand
Post(tc) == [Handler("post", "ok") EXCEPT !.tc = tc]

------------------------------------------------------------------------------
(* The daemon (external; Daemon is its own module).                         *)

DaemonStops ==
    /\ up /\ downs < MaxDowns
    /\ up' = FALSE /\ alive' = FALSE /\ downs' = downs + 1
    /\ UNCHANGED <<clientVars, flagVars, hkVars, line, device, changes, received, crashed>>

DaemonStarts ==
    /\ ~up /\ up' = TRUE
    /\ UNCHANGED <<clientVars, flagVars, hkVars, alive, line, device, downs, changes,
                   received, crashed>>

DeviceChanges ==
    /\ up /\ changes < MaxChanges
    /\ device' = ~device /\ changes' = changes + 1
    /\ line' = IF alive THEN Append(line, device') ELSE line
    /\ UNCHANGED <<clientVars, flagVars, hkVars, up, alive, downs, received, crashed>>

------------------------------------------------------------------------------
(* Completions, by the resolver and the operating system (external): a       *)
(* resolve and a connect fail only while the daemon is down.                *)

Quiesce == UNCHANGED <<timer, connected_, reconnect_scheduled_, flagVars, hkVars,
                       up, device, downs, changes, crashed>>

Resolved(res) ==
    /\ resolving /\ (res = "err" => ~up)
    /\ resolving' = FALSE
    /\ ready' = Append(ready, Handler("resolve", res))
    /\ Quiesce /\ UNCHANGED <<sock_, ops, tx_queue_, alive, line, received>>

Completed(o, h) ==
    /\ o \in ops
    /\ ops' = ops \ {o}
    /\ ready' = Append(ready, h)
    /\ Quiesce /\ UNCHANGED <<sock_, resolving, tx_queue_>>

\* A daemon that runs accepts, greets and sends the state of the link.
ConnectCompletes ==
    /\ Completed("connect", Handler("connect", IF up THEN "ok" ELSE "err"))
    /\ alive' = up
    /\ line' = IF up THEN <<device>> ELSE << >>
    /\ UNCHANGED received

ReadCompletes(n) ==
    /\ n \in 1 .. Len(line)
    /\ Completed("read", [Handler("read", "ok") EXCEPT !.frames = SubSeq(line, 1, n)])
    /\ line' = SubSeq(line, n + 1, Len(line))
    /\ UNCHANGED <<alive, received>>

WriteCompletes ==
    /\ tx_queue_ # << >>
    /\ Completed("write", Handler("written", "ok"))
    /\ received' = IF Head(tx_queue_) = Command THEN received
                   ELSE Append(received, Head(tx_queue_))
    /\ UNCHANGED <<alive, line>>

IoFails ==
    /\ ~alive
    /\ Completed("read", Handler("read", "err")) \/ Completed("write", Handler("written", "err"))
    /\ UNCHANGED <<alive, line, received>>

\* One second passes: see above.
TimerExpires ==
    /\ ~crashed /\ timer /\ ready = << >>
    /\ timer' = FALSE
    /\ ready' = <<Handler("timer", "ok")>>
    /\ UNCHANGED <<sock_, ops, resolving, connected_, reconnect_scheduled_, tx_queue_,
                   flagVars, hkVars, daemonVars, received, crashed>>

\* Thirty seconds pass.
HkExpires ==
    /\ ~crashed /\ hk_armed /\ tc_sequence < MaxTc
    /\ hk_armed' = FALSE
    /\ ready' = Append(ready, Handler("hk", "ok"))
    /\ UNCHANGED <<sock_, ops, resolving, timer, connected_, reconnect_scheduled_, tx_queue_,
                   flagVars, hk_enabled, tc_sequence, commands, daemonVars, received, crashed>>

------------------------------------------------------------------------------
(* IpcClient's handlers; hs is the queue behind the one that runs.          *)

\* The operations close() ends; the others have been moved to ready already.
Aborted == (IF "connect" \in ops THEN <<Handler("connect", "err")>> ELSE << >>)
           \o (IF "read" \in ops THEN <<Handler("read", "err")>> ELSE << >>)
           \o (IF "write" \in ops THEN <<Handler("written", "err")>> ELSE << >>)

CloseSocket(hs) ==
    /\ sock_' = "closed" /\ ops' = {}
    /\ ready' = hs \o Aborted
    /\ tx_queue_' = << >>
    /\ alive' = FALSE /\ line' = << >>

\* Mutant of DoConnect: reconnect_scheduled_ stays set.
DoConnectScheduled(hs) ==
    /\ CloseSocket(hs)
    /\ resolving' = TRUE
    /\ UNCHANGED <<reconnect_scheduled_, timer, connected_, flagVars>>

\* do_connect.
DoConnect(hs) ==
    /\ reconnect_scheduled_' = FALSE
    /\ CloseSocket(hs)
    /\ resolving' = TRUE
    /\ UNCHANGED <<timer, connected_, flagVars>>

\* Mutant of SetDisconnected: the state of the device link is kept.
SetDisconnectedOnly ==
    /\ connected_' = FALSE
    /\ daemon_connected' = FALSE
    /\ UNCHANGED device_connected

\* set_connected(false) and UiApp's on_connection_state.
SetDisconnected ==
    /\ connected_' = FALSE
    /\ daemon_connected' = FALSE /\ device_connected' = FALSE

\* Mutant of ScheduleReconnect: an attempt at once, besides the one scheduled.
ScheduleReconnectTwice(hs) ==
    /\ CloseSocket(hs)
    /\ SetDisconnected
    /\ reconnect_scheduled_' = TRUE /\ timer' = TRUE
    /\ resolving' = reconnect_scheduled_

\* schedule_reconnect; a resolve it cancels completes with an error.
ScheduleReconnect(hs) ==
    /\ CloseSocket(IF resolving THEN Append(hs, Handler("resolve", "err")) ELSE hs)
    /\ resolving' = FALSE
    /\ SetDisconnected
    /\ reconnect_scheduled_' = TRUE
    /\ timer' = (timer \/ ~reconnect_scheduled_)

RunTimer(h, hs) ==
    /\ h.kind = "timer"
    /\ DoConnect(hs)
    /\ UNCHANGED <<hkVars, crashed>>

RunResolve(h, hs) ==
    /\ h.kind = "resolve"
    /\ \/ h.res = "err" /\ ScheduleReconnect(hs)
       \/ /\ h.res = "ok"
          /\ sock_' = "open" /\ ops' = ops \union {"connect"}
          /\ ready' = hs
          /\ UNCHANGED <<resolving, timer, connected_, reconnect_scheduled_, tx_queue_,
                         flagVars, alive, line>>
    /\ UNCHANGED <<hkVars, crashed>>

RunConnect(h, hs) ==
    /\ h.kind = "connect"
    /\ \/ h.res = "err" /\ ScheduleReconnect(hs)
       \/ /\ h.res = "ok"
          /\ connected_' = TRUE /\ daemon_connected' = TRUE
          /\ ops' = ops \union {"read"}
          /\ ready' = hs
          /\ UNCHANGED <<sock_, resolving, timer, reconnect_scheduled_, tx_queue_,
                         device_connected, alive, line>>
    /\ UNCHANGED <<hkVars, crashed>>

\* UiApp's on_frame for the frames of one read: each LinkState sets the flag.
OnFrames(frames) == device_connected' = frames[Len(frames)]

\* do_read again: on a socket closed meanwhile it fails.
RunRead(h, hs) ==
    /\ h.kind = "read"
    /\ \/ h.res = "err" /\ ScheduleReconnect(hs)
       \/ /\ h.res = "ok"
          /\ OnFrames(h.frames)
          /\ ops' = IF sock_ = "open" THEN ops \union {"read"} ELSE ops
          /\ ready' = IF sock_ = "open" THEN hs ELSE Append(hs, Handler("read", "err"))
          /\ UNCHANGED <<sock_, resolving, timer, connected_, reconnect_scheduled_, tx_queue_,
                         daemon_connected, alive, line>>
    /\ UNCHANGED <<hkVars, crashed>>

\* do_write, once q is the queue.
DoWrite(q) ==
    /\ tx_queue_' = q
    /\ ops' = IF q # << >> /\ connected_ /\ sock_ = "open" THEN ops \union {"write"} ELSE ops

\* pop_front of an empty deque is undefined: the process goes on or ends.
RunWritten(h, hs) ==
    /\ h.kind = "written"
    /\ \/ h.res = "err" /\ ScheduleReconnect(hs) /\ UNCHANGED crashed
       \/ /\ h.res = "ok"
          /\ IF tx_queue_ # << >>
             THEN DoWrite(Tail(tx_queue_)) /\ UNCHANGED crashed
             ELSE crashed' \in BOOLEAN /\ UNCHANGED <<tx_queue_, ops>>
          /\ ready' = hs
          /\ UNCHANGED <<sock_, resolving, timer, connected_, reconnect_scheduled_, flagVars,
                         alive, line>>
    /\ UNCHANGED hkVars

\* The lambda send_frame posted.
RunPost(h, hs) ==
    /\ h.kind = "post"
    /\ IF ~connected_ \/ sock_ # "open" THEN UNCHANGED <<tx_queue_, ops>>
       ELSE IF tx_queue_ = << >> THEN DoWrite(<<h.tc>>)
       ELSE tx_queue_' = Append(tx_queue_, h.tc) /\ UNCHANGED ops
    /\ ready' = hs
    /\ UNCHANGED <<sock_, resolving, timer, connected_, reconnect_scheduled_, flagVars, hkVars,
                   alive, line, crashed>>

------------------------------------------------------------------------------
(* UiApp's telecommands.                                                    *)

\* Mutants of SendSystemHk: the sequence count is taken once; it is counted
\* before it is used.
SendSystemHkSame(hs) ==
    /\ ready' = Append(hs, Post(1))
    /\ tc_sequence' = (tc_sequence + 1) % 16384

SendSystemHkAfter(hs) ==
    /\ tc_sequence' = (tc_sequence + 1) % 16384
    /\ ready' = Append(hs, Post(tc_sequence'))

\* send_system_hk: build with tc_sequence, post the frame, count.
SendSystemHk(hs) ==
    /\ ready' = Append(hs, Post(tc_sequence))
    /\ tc_sequence' = (tc_sequence + 1) % 16384

\* hk_timer's handler; it arms the timer again.
RunHk(h, hs) ==
    /\ h.kind = "hk"
    /\ IF hk_enabled /\ daemon_connected /\ device_connected
       THEN SendSystemHk(hs) ELSE ready' = hs /\ UNCHANGED tc_sequence
    /\ hk_armed' = TRUE
    /\ UNCHANGED <<sock_, ops, resolving, timer, connected_, reconnect_scheduled_, tx_queue_,
                   flagVars, hk_enabled, commands, alive, line, crashed>>

\* send_system_hk posted by HK_REQ.
RunHkReq(h, hs) ==
    /\ h.kind = "hkreq"
    /\ SendSystemHk(hs)
    /\ UNCHANGED <<sock_, ops, resolving, timer, connected_, reconnect_scheduled_, tx_queue_,
                   flagVars, hk_enabled, hk_armed, commands, alive, line, crashed>>

RunHandler ==
    /\ ~crashed /\ ready # << >>
    /\ LET h == Head(ready)
           hs == Tail(ready)
       IN \/ RunTimer(h, hs) \/ RunResolve(h, hs) \/ RunConnect(h, hs) \/ RunRead(h, hs)
          \/ RunWritten(h, hs) \/ RunPost(h, hs) \/ RunHk(h, hs) \/ RunHkReq(h, hs)
    /\ UNCHANGED <<up, device, downs, changes, received>>

------------------------------------------------------------------------------
(* The operator's commands, on the UI thread.                               *)

HkSwitch ==
    /\ ~crashed
    /\ hk_enabled' = ~hk_enabled
    /\ UNCHANGED <<clientVars, flagVars, tc_sequence, hk_armed, commands, daemonVars,
                   received, crashed>>

Enter(h) ==
    /\ ~crashed /\ commands < MaxCommands
    /\ commands' = commands + 1
    /\ daemon_connected
    /\ ready' = Append(ready, h)
    /\ UNCHANGED <<sock_, ops, resolving, timer, connected_, reconnect_scheduled_, tx_queue_,
                   flagVars, hk_enabled, tc_sequence, hk_armed, daemonVars, received, crashed>>

\* The UI thread's test of the flags and its post are one step: the posted handler
\* tests nothing.
HkReq == device_connected /\ Enter(Handler("hkreq", "ok"))
SendCommand == Enter(Post(Command))

------------------------------------------------------------------------------
\* UiApp::run: client.start() and arm_hk() before the io thread runs.
Init ==
    /\ sock_ = "closed" /\ ops = {} /\ resolving = TRUE /\ timer = FALSE /\ ready = << >>
    /\ connected_ = FALSE /\ reconnect_scheduled_ = FALSE /\ tx_queue_ = << >>
    /\ daemon_connected = FALSE /\ device_connected = FALSE
    /\ hk_enabled = FALSE /\ tc_sequence = 1 /\ hk_armed = TRUE /\ commands = 0
    /\ up \in BOOLEAN /\ device \in BOOLEAN /\ alive = FALSE /\ line = << >>
    /\ downs = 0 /\ changes = 0 /\ received = << >> /\ crashed = FALSE

World == DaemonStops \/ DaemonStarts \/ DeviceChanges
System == \/ \E res \in {"ok", "err"} : Resolved(res)
          \/ ConnectCompletes
          \/ \E n \in 1 .. MaxChanges + 1 : ReadCompletes(n)
          \/ WriteCompletes
          \/ IoFails
Timers == TimerExpires \/ HkExpires
Operator == HkSwitch \/ HkReq \/ SendCommand

Next == World \/ System \/ Timers \/ Operator \/ RunHandler

Spec == Init /\ [][Next]_vars

\* The io thread, the resolver, connect() and the timers make progress, and the
\* end of the daemon reaches the client.  Fairness is strong for the timer of one
\* second: the one of thirty seconds keeps queueing handlers, but the loop is idle
\* again and again in between.
Fairness ==
    /\ WF_vars(RunHandler)
    /\ WF_vars(\E res \in {"ok", "err"} : Resolved(res))
    /\ WF_vars(ConnectCompletes)
    /\ SF_vars(TimerExpires)
    /\ WF_vars(IoFails)

FairSpec == Spec /\ Fairness

------------------------------------------------------------------------------
\* The handlers that the io thread runs: kind, result, the LinkState frames of a
\* read, and the sequence count of a post.
Kinds == {"timer", "resolve", "connect", "read", "written", "post", "hk", "hkreq"}
Handlers == [kind : Kinds, res : {"ok", "err"}, frames : Seq(BOOLEAN), tc : Nat]

\* A queue of handlers; a read that succeeded has brought something.
GoodRead(h) == h.kind = "read" /\ h.res = "ok"
Sound(q) == q \in Seq(Handlers) /\ \A i \in DOMAIN q : GoodRead(q[i]) => q[i].frames # << >>

ClientTypes ==
    /\ sock_ \in {"open", "closed"} /\ ops \in SUBSET {"connect", "read", "write"}
    /\ resolving \in BOOLEAN /\ timer \in BOOLEAN
    /\ connected_ \in BOOLEAN /\ reconnect_scheduled_ \in BOOLEAN
    /\ Sound(ready) /\ tx_queue_ \in Seq(Nat)

AppTypes ==
    /\ daemon_connected \in BOOLEAN /\ device_connected \in BOOLEAN
    /\ hk_enabled \in BOOLEAN /\ hk_armed \in BOOLEAN
    /\ tc_sequence \in Nat /\ commands \in Nat /\ crashed \in BOOLEAN

DaemonTypes ==
    /\ up \in BOOLEAN /\ alive \in BOOLEAN /\ device \in BOOLEAN /\ line \in Seq(BOOLEAN)
    /\ downs \in Nat /\ changes \in Nat /\ received \in Seq(Nat)

Types == ClientTypes /\ AppTypes /\ DaemonTypes

\* Every variable of the client and every element of its queues has a value of
\* its type, and tc_sequence runs ahead of all the counts that were used: of the
\* telecommands still posted, of those in tx_queue_ and of those written.
TypeOK ==
    /\ Types
    /\ tc_sequence \in 1 .. MaxTc + MaxCommands /\ commands <= MaxCommands
    /\ \A i \in DOMAIN ready : ready[i].kind = "post" => ready[i].tc < tc_sequence
    /\ \A i \in DOMAIN tx_queue_ : tx_queue_[i] < tc_sequence
    /\ \A i \in DOMAIN received : received[i] < tc_sequence

Queued(k) == Cardinality({i \in DOMAIN ready : ready[i].kind = k})
One(b) == IF b THEN 1 ELSE 0

\* do_connect and schedule_reconnect: whichever of a failing read, a failing
\* write and their aborted companions comes first, and how often, the client is
\* connected or has exactly one way back: a resolve, a connect or the timer.
OneWayBack ==
    One(connected_) + One(resolving) + One("connect" \in ops) + One(timer)
      + Queued("resolve") + Queued("connect") + Queued("timer") = 1

\* on_connection_state and on_frame: once what has arrived is handled, the UI
\* shows the device link as connected only if the daemon says so, and never for
\* a daemon that is gone, although a read of the lost session may be handled
\* after the disconnection was shown.
DeviceView ==
    ready = << >> /\ line = << >> =>
        /\ daemon_connected = connected_
        /\ ~connected_ => ~device_connected
        /\ connected_ /\ alive => device_connected = device

\* send_system_hk runs on the io thread for the timer and for HK_REQ alike: no
\* two telecommands reach the daemon with one sequence count, and they reach it
\* in the order of their counts.
TcsInOrder == \A i, j \in DOMAIN received : i < j => received[i] < received[j]

\* A client whose daemon stays up gets connected, whatever failed before: every
\* attempt that begins after that succeeds.
Reconnects == []<>(~up \/ connected_ \/ crashed)
=============================================================================
