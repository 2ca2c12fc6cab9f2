----------------------------- MODULE Simulator ------------------------------
(***************************************************************************)
(* stm32_sim (sim/src/main.cpp): the io thread that serves one daemon      *)
(* connection at a time, the dispatch task that answers telecommands and   *)
(* the transmit task, joined by two bounded queues (RingQueue implements   *)
(* BoundedFifo) and by lambdas posted back to the io thread.               *)
(*                                                                         *)
(* A telecommand is its number, its request and its acknowledgement flags; *)
(* a telemetry packet names the telecommand it answers, what it says and   *)
(* its sequence count.                                                     *)
(***************************************************************************)
EXTENDS Integers, Sequences, FiniteSets, SequencesExt, Selections

CONSTANTS
    Tcs,          \* telecommands the daemon may send: [req, acks]
    TcCapacity,   \* items g_tc_q holds, 63 in the code
    TmCapacity,   \* items g_tm_q holds, 63 in the code
    SeqLimit,     \* sequence counts are 0 .. SeqLimit - 1, 0x4000 in the code
    FirstSeq,     \* the first one, 100 in the code
    MaxTcs,       \* bound on the telecommands sent
    MaxConns      \* bound on the daemon's connections

TcSet == [req : {"HK", "SYSHK",   \* SVC_HK with SUB_HK_REQUEST, SUB_SYS_HK_REQUEST
                 "OTHER",         \* a request the simulator does not support
                 "REJECTED"},     \* parse_pus_c_tc fails, or not for APID_OBC
          acks : SUBSET {"acceptance", "start", "completion"}]

ASSUME TcsAssumption == Tcs \subseteq TcSet
ASSUME CapacityAssumption == TcCapacity \in Nat \ {0} /\ TmCapacity \in Nat \ {0}
ASSUME SeqAssumption == SeqLimit \in Nat \ {0} /\ FirstSeq \in 0 .. SeqLimit - 1
ASSUME BoundAssumption == MaxTcs \in Nat /\ MaxConns \in Nat

VARIABLES
    conns,        \* the daemon's connections: bytes not read yet, still open?
    asked,        \* history: telecommands sent
    cur,          \* the connection g_sock is, 0 before the first
    g_connected,
    op,           \* operation the session waits for: "accept", "read" or "none"
    ready,        \* handlers queued on g_io
    serving, pushing,   \* a read handler runs; packets left for on_packet
    g_tc_q, g_tm_q,
    tm_seq, replies,    \* dispatch task: next sequence count, TMs it has to push
    held, checked,      \* transmit task: the TM it popped, g_connected was true
    built,        \* history: TMs the dispatch task built
    emitted       \* history: TMs given to async_write

connVars == <<conns, asked>>
sessionVars == <<cur, g_connected, op, serving, pushing>>
dispatchVars == <<tm_seq, replies, built>>
txVars == <<held, checked>>
vars == <<connVars, sessionVars, ready, g_tc_q, g_tm_q, dispatchVars, txVars, emitted>>

None == << >>

------------------------------------------------------------------------------
(* The daemon and the operating system (external).                          *)

Connect ==
    /\ Len(conns) < MaxConns
    /\ \A i \in DOMAIN conns : ~conns[i].open
    /\ conns' = Append(conns, [line |-> << >>, open |-> TRUE])
    /\ UNCHANGED <<asked, sessionVars, ready, g_tc_q, g_tm_q, dispatchVars, txVars, emitted>>

Send(tc) ==
    /\ conns # << >> /\ Last(conns).open
    /\ Len(asked) < MaxTcs
    /\ asked' = Append(asked, tc)
    /\ conns' = [conns EXCEPT ![Len(conns)].line =
                    Append(@, [req |-> tc.req, acks |-> tc.acks, id |-> Len(asked) + 1])]
    /\ UNCHANGED <<sessionVars, ready, g_tc_q, g_tm_q, dispatchVars, txVars, emitted>>

Disconnect ==
    /\ conns # << >> /\ Last(conns).open
    /\ conns' = [conns EXCEPT ![Len(conns)].open = FALSE]
    /\ UNCHANGED <<asked, sessionVars, ready, g_tc_q, g_tm_q, dispatchVars, txVars, emitted>>

Handler(kind, res) == [kind |-> kind, res |-> res, tcs |-> << >>, tm |-> None]

Completes(h) ==
    /\ op' = "none"
    /\ ready' = Append(ready, h)
    /\ UNCHANGED <<asked, g_connected, serving, pushing, g_tc_q, g_tm_q, dispatchVars,
                   txVars, emitted>>

AcceptCompletes(res) ==
    /\ op = "accept"
    /\ cur < Len(conns)
    /\ cur' = IF res = "ok" THEN cur + 1 ELSE cur
    /\ Completes(Handler("accept", res))
    /\ UNCHANGED conns

ReadCompletes(n) ==
    /\ op = "read"
    /\ n \in 1 .. Len(conns[cur].line)
    /\ Completes([Handler("read", "ok") EXCEPT !.tcs = SubSeq(conns[cur].line, 1, n)])
    /\ conns' = [conns EXCEPT ![cur].line = SubSeq(@, n + 1, Len(@))]
    /\ UNCHANGED cur

ReadFails ==
    /\ op = "read"
    /\ ~conns[cur].open
    /\ Completes(Handler("read", "err"))
    /\ UNCHANGED <<conns, cur>>

------------------------------------------------------------------------------
(* The io thread.                                                           *)

\* start_session: a new socket waits for the next connection.
StartSession == op' = "accept"

RunAccept(h) ==
    /\ h.kind = "accept"
    /\ \/ h.res = "err" /\ StartSession /\ UNCHANGED g_connected
       \/ h.res = "ok" /\ g_connected' = TRUE /\ op' = "read"
    /\ UNCHANGED <<serving, pushing, emitted>>

\* Mutant of RunRead: the session ends without start_session.
RunReadEnds(h) ==
    /\ h.kind = "read"
    /\ \/ /\ h.res = "err"
          /\ g_connected' = FALSE
          /\ UNCHANGED <<op, serving, pushing>>
       \/ /\ h.res = "ok"
          /\ serving' = TRUE
          /\ pushing' = h.tcs
          /\ UNCHANGED <<g_connected, op>>
    /\ UNCHANGED emitted

\* The framer hands the packets to on_packet, one after the other.
RunRead(h) ==
    /\ h.kind = "read"
    /\ \/ /\ h.res = "err"
          /\ g_connected' = FALSE
          /\ StartSession
          /\ UNCHANGED <<serving, pushing>>
       \/ /\ h.res = "ok"
          /\ serving' = TRUE
          /\ pushing' = h.tcs
          /\ UNCHANGED <<g_connected, op>>
    /\ UNCHANGED emitted

\* The lambda of tm_tx_task: it writes to whatever g_sock is now.
RunSend(h) ==
    /\ h.kind = "send"
    /\ emitted' = IF g_connected THEN Append(emitted, h.tm) ELSE emitted
    /\ UNCHANGED <<g_connected, op, serving, pushing>>

RunHandler ==
    /\ ~serving /\ ready # << >>
    /\ LET h == Head(ready) IN RunAccept(h) \/ RunRead(h) \/ RunSend(h)
    /\ ready' = Tail(ready)
    /\ UNCHANGED <<connVars, cur, g_tc_q, g_tm_q, dispatchVars, txVars>>

\* on_packet: what it rejects is dropped, the rest goes to g_tc_q.push_blocking:
\* the io thread waits while the queue is full.
PushTc ==
    /\ serving /\ pushing # << >>
    /\ \/ Head(pushing).req = "REJECTED" /\ UNCHANGED g_tc_q
       \/ /\ Head(pushing).req # "REJECTED"
          /\ Len(g_tc_q) < TcCapacity
          /\ g_tc_q' = Append(g_tc_q, Head(pushing))
    /\ pushing' = Tail(pushing)
    /\ UNCHANGED <<connVars, cur, g_connected, op, serving, ready, g_tm_q, dispatchVars,
                   txVars, emitted>>

\* start_async_read again, after the last packet.
EndRead ==
    /\ serving /\ pushing = << >>
    /\ serving' = FALSE /\ op' = "read"
    /\ UNCHANGED <<connVars, cur, g_connected, pushing, ready, g_tc_q, g_tm_q,
                   dispatchVars, txVars, emitted>>

------------------------------------------------------------------------------
(* tc_dispatch_task.                                                        *)

Supported(tc) == tc.req \in {"HK", "SYSHK"}

When(cond, what) == IF cond THEN <<what>> ELSE << >>

\* Mutant of Answers: completion is acknowledged before the report.
AnswersCompleteFirst(tc) ==
    When("acceptance" \in tc.acks, IF Supported(tc) THEN "ACCEPT_OK" ELSE "ACCEPT_FAIL")
    \o When(Supported(tc) /\ "start" \in tc.acks, "START_OK")
    \o When(Supported(tc) /\ "completion" \in tc.acks, "COMPLETE_OK")
    \o When(Supported(tc), IF tc.req = "HK" THEN "HK_REPORT" ELSE "SYS_HK_REPORT")

\* What a telecommand is answered with, in this order.
Answers(tc) ==
    When("acceptance" \in tc.acks, IF Supported(tc) THEN "ACCEPT_OK" ELSE "ACCEPT_FAIL")
    \o When(Supported(tc) /\ "start" \in tc.acks, "START_OK")
    \o When(Supported(tc), IF tc.req = "HK" THEN "HK_REPORT" ELSE "SYS_HK_REPORT")
    \o When(Supported(tc) /\ "completion" \in tc.acks, "COMPLETE_OK")

\* build_tm: each answer takes a sequence count; tm_seq is masked only after the
\* last one, and those above the field are refused or cut to it by CCSDSPack.
Build(tc, refused) ==
    LET all == Len(Answers(tc))
        fit == SeqLimit - tm_seq
        kept == IF refused /\ fit < all THEN fit ELSE all
    IN [i \in 1 .. kept |->
           [tc |-> tc.id, what |-> Answers(tc)[i], seq |-> (tm_seq + i - 1) % SeqLimit]]

\* Mutant of DispatchTc: tm_seq is not masked.
DispatchTcUnmasked(refused) ==
    /\ replies = << >> /\ g_tc_q # << >>
    /\ g_tc_q' = Tail(g_tc_q)
    /\ replies' = Build(Head(g_tc_q), refused)
    /\ built' = built \o replies'
    /\ tm_seq' = tm_seq + Len(Answers(Head(g_tc_q)))
    /\ UNCHANGED <<connVars, sessionVars, ready, g_tm_q, txVars, emitted>>

DispatchTc(refused) ==
    /\ replies = << >> /\ g_tc_q # << >>
    /\ g_tc_q' = Tail(g_tc_q)
    /\ replies' = Build(Head(g_tc_q), refused)
    /\ built' = built \o replies'
    /\ tm_seq' = (tm_seq + Len(Answers(Head(g_tc_q)))) % SeqLimit
    /\ UNCHANGED <<connVars, sessionVars, ready, g_tm_q, txVars, emitted>>

\* Mutant of PushTm: try_push, its result ignored.
PushTmOrDrop ==
    /\ replies # << >>
    /\ g_tm_q' = IF Len(g_tm_q) < TmCapacity THEN Append(g_tm_q, Head(replies)) ELSE g_tm_q
    /\ replies' = Tail(replies)
    /\ UNCHANGED <<connVars, sessionVars, ready, g_tc_q, tm_seq, built, txVars, emitted>>

\* g_tm_q.push_blocking.
PushTm ==
    /\ replies # << >>
    /\ Len(g_tm_q) < TmCapacity
    /\ g_tm_q' = Append(g_tm_q, Head(replies))
    /\ replies' = Tail(replies)
    /\ UNCHANGED <<connVars, sessionVars, ready, g_tc_q, tm_seq, built, txVars, emitted>>

------------------------------------------------------------------------------
(* tm_tx_task.                                                              *)

TakeTm ==
    /\ held = None /\ g_tm_q # << >>
    /\ held' = <<Head(g_tm_q)>>
    /\ g_tm_q' = Tail(g_tm_q)
    /\ UNCHANGED <<connVars, sessionVars, ready, g_tc_q, dispatchVars, checked, emitted>>

\* Mutant of TxCheck: it waits for a connection.
TxCheckWaits ==
    /\ held # None /\ ~checked
    /\ g_connected
    /\ checked' = TRUE
    /\ UNCHANGED <<connVars, sessionVars, ready, g_tc_q, g_tm_q, dispatchVars, held, emitted>>

\* Without a connection the TM is dropped.
TxCheck ==
    /\ held # None /\ ~checked
    /\ checked' = g_connected
    /\ held' = IF g_connected THEN held ELSE None
    /\ UNCHANGED <<connVars, sessionVars, ready, g_tc_q, g_tm_q, dispatchVars, emitted>>

TxPost ==
    /\ checked
    /\ ready' = Append(ready, [Handler("send", "ok") EXCEPT !.tm = held[1]])
    /\ held' = None /\ checked' = FALSE
    /\ UNCHANGED <<connVars, sessionVars, g_tc_q, g_tm_q, dispatchVars, emitted>>

------------------------------------------------------------------------------
\* main: start_session, then the io thread and the two tasks.
Init ==
    /\ conns = << >> /\ asked = << >> /\ cur = 0
    /\ g_connected = FALSE /\ op = "accept" /\ ready = << >>
    /\ serving = FALSE /\ pushing = << >>
    /\ g_tc_q = << >> /\ g_tm_q = << >>
    /\ tm_seq = FirstSeq /\ replies = << >>
    /\ held = None /\ checked = FALSE
    /\ built = << >> /\ emitted = << >>

Daemon == Connect \/ Disconnect \/ \E tc \in Tcs : Send(tc)
System == \/ \E res \in {"ok", "err"} : AcceptCompletes(res)
          \/ \E n \in 1 .. MaxTcs : ReadCompletes(n)
          \/ ReadFails
IoThread == RunHandler \/ PushTc \/ EndRead
DispatchTask == PushTm \/ \E refused \in BOOLEAN : DispatchTc(refused)
TxTask == TakeTm \/ TxCheck \/ TxPost

Next == Daemon \/ System \/ IoThread \/ DispatchTask \/ TxTask

Spec == Init /\ [][Next]_vars

\* The three threads are scheduled again and again; nothing is assumed of the
\* daemon or of the network.
FairSpec == Spec /\ WF_vars(IoThread) /\ WF_vars(DispatchTask) /\ WF_vars(TxTask)

------------------------------------------------------------------------------
Whats == {"ACCEPT_OK", "ACCEPT_FAIL", "START_OK", "HK_REPORT", "SYS_HK_REPORT", "COMPLETE_OK"}
Tms == [tc : Nat, what : Whats, seq : 0 .. SeqLimit - 1]
Packets == [req : {"HK", "SYSHK", "OTHER", "REJECTED"},
            acks : SUBSET {"acceptance", "start", "completion"}, id : Nat]
Handlers == [kind : {"accept", "read", "send"}, res : {"ok", "err"},
             tcs : Seq(Packets), tm : Tms \union {None}]
Conns == [line : Seq(Packets), open : BOOLEAN]

\* The values of the variables; a TM that passed the test of g_connected is held.
Types ==
    /\ conns \in Seq(Conns) /\ asked \in Seq(TcSet) /\ cur \in 0 .. Len(conns)
    /\ g_connected \in BOOLEAN /\ serving \in BOOLEAN /\ checked \in BOOLEAN
    /\ op \in {"accept", "read", "none"}
    /\ ready \in Seq(Handlers) /\ pushing \in Seq(Packets)
    /\ g_tc_q \in Seq(Packets) /\ Len(g_tc_q) <= TcCapacity
    /\ g_tm_q \in Seq(Tms) /\ Len(g_tm_q) <= TmCapacity
    /\ tm_seq \in 0 .. SeqLimit - 1
    /\ replies \in Seq(Tms) /\ built \in Seq(Tms)
    /\ held \in Seq(Tms) /\ (checked => held # None)

\* The lambdas that tm_tx_task posted carry a TM.
Carries(q) == \A i \in DOMAIN q : q[i].kind = "send" => q[i].tm \in Tms

\* Every variable of the simulator and every element of its queues has a value of
\* its type: neither queue is longer than its capacity although three threads
\* push and pop, the dispatch task keeps tm_seq inside the field, the transmit
\* task holds one TM at most and whatever is posted or written is a TM.
TypeOK == Types /\ Len(held) <= 1 /\ Carries(ready) /\ emitted \in Seq(Tms)

\* The session loop (start_session, start_async_read) has exactly one thread of
\* control: an operation, its queued handler or its running one.  So a session
\* that ended is always followed by an accept, and g_connected is true exactly
\* from the accept's handler to the failed read's.
SessionLoop ==
    LET queued(k) == {i \in DOMAIN ready : ready[i].kind = k}
    IN /\ Cardinality(queued("accept")) + Cardinality(queued("read"))
            + (IF op = "none" THEN 0 ELSE 1) + (IF serving THEN 1 ELSE 0) = 1
       /\ g_connected <=> op = "read" \/ serving \/ queued("read") # {}

\* The TMs on their way from the dispatch task to the socket, oldest first.
InTransit ==
    LET posted == Select(ready, {h \in Handlers : h.kind = "send"})
    IN [i \in DOMAIN posted |-> posted[i].tm] \o held \o g_tm_q \o replies

\* push_blocking, the transmit task and the posted lambdas keep the answers in
\* the order they were built, through full queues too; none is lost or doubled
\* while the daemon stays connected, and a disconnection only leaves gaps.
RepliesConserved ==
    LET all == emitted \o InTransit
        pos == [i \in DOMAIN all |-> {j \in DOMAIN built : built[j] = all[i]}]
    IN /\ cur = 1 /\ g_connected => all = built
       /\ \A i \in DOMAIN all : pos[i] # {}
       /\ \A i, j \in DOMAIN all : i < j => \E a \in pos[i], b \in pos[j] : a < b

\* tc_dispatch_task and tm_seq: from whatever sequence count a telecommand
\* starts, wrap around included, completion is only reported after the report
\* was built, the report only after the acceptance and the start it was asked to
\* confirm, and a refused telecommand is answered by the refusal alone.
VerificationOrder ==
    \A k \in DOMAIN asked :
        LET mine == Select(built, {tm \in Tms : tm.tc = k})
            before(i) == {mine[j].what : j \in 1 .. i - 1}
            report == IF asked[k].req = "HK" THEN "HK_REPORT" ELSE "SYS_HK_REPORT"
        IN \A i \in DOMAIN mine :
             /\ mine[i].what = "COMPLETE_OK" => report \in before(i)
             /\ mine[i].what = report =>
                  /\ "acceptance" \in asked[k].acks => "ACCEPT_OK" \in before(i)
                  /\ "start" \in asked[k].acks => "START_OK" \in before(i)
             /\ mine[i].what = "ACCEPT_FAIL" => Len(mine) = 1

\* A telecommand, or an answer, is inside the simulator.
Busy == pushing # << >> \/ g_tc_q # << >> \/ InTransit # << >>

\* The io thread may wait for the dispatch task and that one for the transmit
\* task, never in a circle: the telecommands read are all dispatched and their
\* answers leave both queues, whether or not the daemon stays.
Drains == []<>~Busy
=============================================================================
