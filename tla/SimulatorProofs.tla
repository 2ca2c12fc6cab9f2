--------------------------- MODULE SimulatorProofs ---------------------------
(***************************************************************************)
(* Proofs about Simulator, for every queue capacity, sequence count field  *)
(* and number of telecommands and connections: the types, the one thread   *)
(* of control of the session loop, that the answers keep their order and   *)
(* none is lost or doubled, and which of them a telecommand may have.      *)
(***************************************************************************)
EXTENDS Simulator, SequenceLemmas

\* The handlers that run with a session.
Accepted(h) == h.kind = "read" \/ (h.kind = "accept" /\ h.res = "ok")

\* There is a current connection whenever one is read or about to be.
Session ==
    /\ op = "read" \/ serving => cur >= 1
    /\ \A i \in DOMAIN ready : Accepted(ready[i]) => cur >= 1

\* The answers to a telecommand are of these kinds.
LEMMA AnswersType ==
    ASSUME NEW tc
    PROVE  Answers(tc) \in Seq(Whats) /\ Len(Answers(tc)) \in Nat
  <1> DEFINE a == When("acceptance" \in tc.acks,
                       IF Supported(tc) THEN "ACCEPT_OK" ELSE "ACCEPT_FAIL")
             b == When(Supported(tc) /\ "start" \in tc.acks, "START_OK")
             c == When(Supported(tc), IF tc.req = "HK" THEN "HK_REPORT" ELSE "SYS_HK_REPORT")
             d == When(Supported(tc) /\ "completion" \in tc.acks, "COMPLETE_OK")
  <1>1. a \in Seq(Whats) /\ b \in Seq(Whats) /\ c \in Seq(Whats) /\ d \in Seq(Whats)
    <2>1. << >> \in Seq(Whats) /\ \A w \in Whats : <<w>> \in Seq(Whats)
      OBVIOUS
    <2> QED BY <2>1 DEF When, Whats
  <1>2. Answers(tc) = a \o b \o c \o d
    BY DEF Answers
  <1> HIDE DEF a, b, c, d
  <1>3. a \o b \o c \o d \in Seq(Whats)
    BY <1>1
  <1> QED BY <1>2, <1>3

\* The packets built for a telecommand have sequence counts below the limit.
LEMMA BuildType ==
    ASSUME Types, NEW tc \in Packets, NEW refused \in BOOLEAN
    PROVE  Build(tc, refused) \in Seq(Tms)
  <1> DEFINE all == Len(Answers(tc))
             fit == SeqLimit - tm_seq
             kept == IF refused /\ fit < all THEN fit ELSE all
  <1>1. Answers(tc) \in Seq(Whats) /\ all \in Nat
    BY AnswersType
  <1>2. fit \in Nat /\ SeqLimit \in Nat \ {0} /\ tm_seq \in Nat
    BY SeqAssumption DEF Types
  <1>3. kept \in Nat /\ kept <= all
    BY <1>1, <1>2
  <1>4. Build(tc, refused) = [i \in 1 .. kept |->
           [tc |-> tc.id, what |-> Answers(tc)[i], seq |-> (tm_seq + i - 1) % SeqLimit]]
    BY DEF Build
  <1> HIDE DEF kept, fit
  <1>5. ASSUME NEW i \in 1 .. kept
        PROVE  [tc |-> tc.id, what |-> Answers(tc)[i], seq |-> (tm_seq + i - 1) % SeqLimit] \in Tms
    <2>1. Answers(tc)[i] \in Whats
      BY <1>1, <1>3
    <2>2. (tm_seq + i - 1) % SeqLimit \in 0 .. SeqLimit - 1
      BY <1>2, <1>3
    <2>3. tc.id \in Nat
      BY DEF Packets
    <2> QED BY <2>1, <2>2, <2>3 DEF Tms, Whats
  <1> QED BY <1>3, <1>4, <1>5, IsASeq

\* The first element of a queue, and the rest.
LEMMA QueueStep ==
    ASSUME NEW S, NEW s \in Seq(S), s # << >>
    PROVE  Head(s) \in S /\ Tail(s) \in Seq(S) /\ Len(Tail(s)) = Len(s) - 1 /\ Len(s) \in Nat
           /\ \A i \in DOMAIN Tail(s) : i + 1 \in DOMAIN s /\ Tail(s)[i] = s[i + 1]
  BY HeadTailProperties, LenProperties

\* The handlers that the model queues are handlers.
LEMMA HandlerType ==
    /\ \A res \in {"ok", "err"} : Handler("accept", res) \in Handlers
    /\ Handler("read", "err") \in Handlers
    /\ \A s \in Seq(Packets) : [Handler("read", "ok") EXCEPT !.tcs = s] \in Handlers
    /\ \A tm \in Tms : [Handler("send", "ok") EXCEPT !.tm = tm] \in Handlers
  <1>1. << >> \in Seq(Packets)
    OBVIOUS
  <1> QED BY <1>1 DEF Handler, Handlers

\* A read takes whole telecommands off the connection that is served.
LEMMA ReadHandler ==
    ASSUME Types, Session, NEW n \in 1 .. MaxTcs, ReadCompletes(n)
    PROVE  /\ cur \in DOMAIN conns /\ conns[cur] \in Conns
           /\ [Handler("read", "ok") EXCEPT !.tcs = SubSeq(conns[cur].line, 1, n)] \in Handlers
           /\ SubSeq(conns[cur].line, n + 1, Len(conns[cur].line)) \in Seq(Packets)
  <1> DEFINE l == conns[cur].line
  <1>1. cur \in DOMAIN conns
    BY DEF ReadCompletes, Session, Types
  <1>2. conns[cur] \in Conns
    BY <1>1 DEF Types
  <1>3. l \in Seq(Packets) /\ Len(l) \in Nat /\ n \in 1 .. Len(l)
    BY <1>2 DEF Conns, ReadCompletes
  <1> HIDE DEF l
  <1>4. SubSeq(l, 1, n) \in Seq(Packets) /\ SubSeq(l, n + 1, Len(l)) \in Seq(Packets)
    BY <1>3, SubSeqProperties
  <1>5. [Handler("read", "ok") EXCEPT !.tcs = SubSeq(l, 1, n)] \in Handlers
    BY <1>4, HandlerType
  <1> QED BY <1>1, <1>2, <1>4, <1>5 DEF l

\* Every step keeps the types; in particular no queue grows beyond its capacity.
LEMMA TypesStep ==
    ASSUME Types, Session, [Next]_vars
    PROVE  Types'
  <1> USE DEF Types
  <1>1. CASE Connect
    BY <1>1 DEF Connect, sessionVars, dispatchVars, txVars, Conns
  <1>2. ASSUME NEW tc \in Tcs, Send(tc) PROVE Types'
    <2> DEFINE c == Len(conns)
               p == [req |-> tc.req, acks |-> tc.acks, id |-> Len(asked) + 1]
    <2>1. tc \in TcSet
      BY TcsAssumption
    <2>2. p \in Packets
      BY <2>1 DEF Packets, TcSet
    <2>3. conns # << >> /\ conns' = [conns EXCEPT ![c].line = Append(@, p)]
      BY <1>2 DEF Send
    <2>4. c \in DOMAIN conns /\ conns[c] \in Conns /\ c \in Nat
      BY <2>3
    <2> HIDE DEF p, c
    <2>5. Append(conns[c].line, p) \in Seq(Packets)
      BY <2>2, <2>4 DEF Conns
    <2>6. [conns[c] EXCEPT !.line = Append(conns[c].line, p)] \in Conns
      BY <2>4, <2>5 DEF Conns
    <2>7. conns' \in Seq(Conns) /\ Len(conns') = Len(conns)
      BY <2>3, <2>4, <2>6, ExceptSeq
    <2>8. asked' \in Seq(TcSet)
      BY <1>2, <2>1 DEF Send
    <2> QED BY <1>2, <2>7, <2>8 DEF Send, sessionVars, dispatchVars, txVars
  <1>3. CASE Disconnect
    <2> DEFINE c == [conns[Len(conns)] EXCEPT !.open = FALSE]
    <2>1. conns # << >> /\ conns' = [conns EXCEPT ![Len(conns)] = c]
      BY <1>3 DEF Disconnect
    <2>2. Len(conns) \in 1 .. Len(conns) /\ c \in Conns
      <3>1. Len(conns) \in 1 .. Len(conns) /\ conns[Len(conns)] \in Conns
        BY <2>1
      <3> QED BY <3>1 DEF Conns
    <2> HIDE DEF c
    <2>3. conns' \in Seq(Conns) /\ Len(conns') = Len(conns)
      BY <2>1, <2>2, ExceptSeq
    <2> QED BY <1>3, <2>3 DEF Disconnect, sessionVars, dispatchVars, txVars
  <1>4. ASSUME NEW res \in {"ok", "err"}, AcceptCompletes(res) PROVE Types'
    <2>1. Handler("accept", res) \in Handlers
      BY HandlerType
    <2>2. ready' \in Seq(Handlers)
      BY <1>4, <2>1 DEF AcceptCompletes, Completes
    <2>3. cur' \in 0 .. Len(conns)
      BY <1>4 DEF AcceptCompletes
    <2> QED BY <1>4, <2>2, <2>3 DEF AcceptCompletes, Completes, dispatchVars, txVars
  <1>5. ASSUME NEW n \in 1 .. MaxTcs, ReadCompletes(n) PROVE Types'
    <2> DEFINE l == conns[cur].line
               c == [conns[cur] EXCEPT !.line = SubSeq(l, n + 1, Len(l))]
               h == [Handler("read", "ok") EXCEPT !.tcs = SubSeq(l, 1, n)]
    <2>1. cur \in DOMAIN conns /\ h \in Handlers
      BY <1>5, ReadHandler
    <2>6. c \in Conns
      BY <1>5, ReadHandler DEF Conns
    <2>7. conns' = [conns EXCEPT ![cur] = c]
      BY <1>5 DEF ReadCompletes
    <2>8. ready' = Append(ready, h)
      BY <1>5 DEF ReadCompletes, Completes
    <2> HIDE DEF c, h
    <2>9. conns' \in Seq(Conns) /\ Len(conns') = Len(conns)
      BY <2>1, <2>6, <2>7, ExceptSeq
    <2>10. ready' \in Seq(Handlers)
      BY <2>1, <2>8
    <2> QED BY <1>5, <2>9, <2>10 DEF ReadCompletes, Completes, dispatchVars, txVars
  <1>6. CASE ReadFails
    <2>1. ready' \in Seq(Handlers)
      BY <1>6, HandlerType DEF ReadFails, Completes
    <2> QED BY <1>6, <2>1 DEF ReadFails, Completes, dispatchVars, txVars
  <1>7. CASE RunHandler
    <2> DEFINE h == Head(ready)
    <2>1. h \in Handlers /\ ready' \in Seq(Handlers)
      BY <1>7, QueueStep DEF RunHandler
    <2>2. h.tcs \in Seq(Packets)
      BY <2>1 DEF Handlers
    <2>3. RunAccept(h) \/ RunRead(h) \/ RunSend(h)
      BY <1>7 DEF RunHandler
    <2> HIDE DEF h
    <2>4. g_connected' \in BOOLEAN /\ serving' \in BOOLEAN /\ op' \in {"accept", "read", "none"}
          /\ pushing' \in Seq(Packets)
      BY <2>2, <2>3 DEF RunAccept, RunRead, RunSend, StartSession
    <2> QED BY <1>7, <2>1, <2>4 DEF RunHandler, connVars, dispatchVars, txVars
  <1>8. CASE PushTc
    <2>1. pushing' \in Seq(Packets) /\ Head(pushing) \in Packets
      BY <1>8, QueueStep DEF PushTc
    <2>2. g_tc_q' \in Seq(Packets) /\ Len(g_tc_q') <= TcCapacity
      <3>1. CASE UNCHANGED g_tc_q
        BY <3>1
      <3>2. CASE Len(g_tc_q) < TcCapacity /\ g_tc_q' = Append(g_tc_q, Head(pushing))
        <4> DEFINE p == Head(pushing)
        <4> HIDE DEF p
        <4>1. p \in Packets /\ g_tc_q' = Append(g_tc_q, p)
          BY <2>1, <3>2 DEF p
        <4> QED BY <3>2, <4>1, CapacityAssumption
      <3> QED BY <1>8, <3>1, <3>2 DEF PushTc
    <2> QED BY <1>8, <2>1, <2>2 DEF PushTc, connVars, dispatchVars, txVars
  <1>9. CASE EndRead
    BY <1>9 DEF EndRead, connVars, dispatchVars, txVars
  <1>10. CASE PushTm
    <2>1. replies' \in Seq(Tms) /\ Head(replies) \in Tms
      BY <1>10, QueueStep DEF PushTm
    <2>2. g_tm_q' \in Seq(Tms) /\ Len(g_tm_q') <= TmCapacity
      BY <1>10, <2>1, CapacityAssumption DEF PushTm
    <2> QED BY <1>10, <2>1, <2>2 DEF PushTm, connVars, sessionVars, txVars
  <1>11. ASSUME NEW refused \in BOOLEAN, DispatchTc(refused) PROVE Types'
    <2> DEFINE tc == Head(g_tc_q)
    <2>1. tc \in Packets /\ g_tc_q' \in Seq(Packets) /\ Len(g_tc_q') <= TcCapacity
      BY <1>11, QueueStep, CapacityAssumption DEF DispatchTc
    <2>2. replies' = Build(tc, refused) /\ built' = built \o replies'
          /\ tm_seq' = (tm_seq + Len(Answers(tc))) % SeqLimit
      BY <1>11 DEF DispatchTc
    <2> HIDE DEF tc
    <2>3. replies' \in Seq(Tms)
      BY <2>1, <2>2, BuildType
    <2>4. Len(Answers(tc)) \in Nat
      BY <2>1, AnswersType
    <2>5. tm_seq' \in 0 .. SeqLimit - 1
      BY <2>2, <2>4, SeqAssumption, SMTT(30)
    <2>6. built' \in Seq(Tms)
      BY <2>2, <2>3
    <2> QED BY <1>11, <2>1, <2>3, <2>5, <2>6 DEF DispatchTc, connVars, sessionVars, txVars
  <1>12. CASE TakeTm
    <2>1. Head(g_tm_q) \in Tms /\ g_tm_q' \in Seq(Tms) /\ Len(g_tm_q') <= TmCapacity
      BY <1>12, QueueStep, CapacityAssumption DEF TakeTm
    <2>2. held' \in Seq(Tms) /\ held' # None
      BY <1>12, <2>1 DEF TakeTm, None
    <2> QED BY <1>12, <2>1, <2>2 DEF TakeTm, connVars, sessionVars, dispatchVars
  <1>13. CASE TxCheck
    BY <1>13 DEF TxCheck, connVars, sessionVars, dispatchVars, None
  <1>14. CASE TxPost
    <2>1. held[1] \in Tms
      BY <1>14 DEF TxPost, None
    <2>2. ready' \in Seq(Handlers)
      BY <1>14, <2>1, HandlerType DEF TxPost
    <2>3. held' \in Seq(Tms)
      BY <1>14 DEF TxPost, None
    <2> QED BY <1>14, <2>2, <2>3 DEF TxPost, connVars, sessionVars, dispatchVars
  <1>15. CASE UNCHANGED vars
    BY <1>15 DEF vars, connVars, sessionVars, dispatchVars, txVars
  <1> QED
    BY <1>1, <1>2, <1>3, <1>4, <1>5, <1>6, <1>7, <1>8, <1>9, <1>10, <1>11, <1>12,
       <1>13, <1>14, <1>15
    DEF Next, Daemon, System, IoThread, DispatchTask, TxTask

\* Every step keeps Session: cur is set by the accept before anything reads.
LEMMA SessionStep ==
    ASSUME Types, Session, [Next]_vars
    PROVE  Session'
  <1> USE DEF Types, Session, Accepted
  <1>1. CASE Connect
    BY <1>1 DEF Connect, sessionVars
  <1>2. ASSUME NEW tc \in Tcs, Send(tc) PROVE Session'
    BY <1>2 DEF Send, sessionVars
  <1>3. CASE Disconnect
    BY <1>3 DEF Disconnect, sessionVars
  <1>4. ASSUME NEW res \in {"ok", "err"}, AcceptCompletes(res) PROVE Session'
    <2> DEFINE h == Handler("accept", res)
    <2>1. h.kind = "accept" /\ h.res = res /\ h \in Handlers
      BY HandlerType DEF Handler
    <2>2. ready' = Append(ready, h) /\ cur' >= cur /\ (res = "ok" => cur' >= 1)
      BY <1>4 DEF AcceptCompletes, Completes
    <2> HIDE DEF h
    <2> QED BY <1>4, <2>1, <2>2, SMTT(30) DEF AcceptCompletes, Completes
  <1>5. ASSUME NEW h \in Handlers, op = "read", Completes(h), UNCHANGED cur PROVE Session'
    BY <1>5 DEF Completes
  <1>6. ASSUME NEW n \in 1 .. MaxTcs, ReadCompletes(n) PROVE Session'
    <2> DEFINE h == [Handler("read", "ok") EXCEPT !.tcs = SubSeq(conns[cur].line, 1, n)]
    <2>4. h \in Handlers
      BY <1>6, ReadHandler
    <2>5. op = "read" /\ Completes(h) /\ UNCHANGED cur
      BY <1>6 DEF ReadCompletes
    <2> HIDE DEF h
    <2> QED BY <1>5, <2>4, <2>5
  <1>7. CASE ReadFails
    <2>1. Handler("read", "err") \in Handlers
      BY HandlerType
    <2> QED BY <1>5, <1>7, <2>1 DEF ReadFails
  <1>8. CASE RunHandler
    <2> DEFINE h == Head(ready)
    <2>1. h \in Handlers /\ \A i \in DOMAIN ready' : i + 1 \in DOMAIN ready /\ ready'[i] = ready[i + 1]
      BY <1>8, QueueStep DEF RunHandler
    <2>2. h = ready[1] /\ 1 \in DOMAIN ready
      BY <1>8 DEF RunHandler
    <2>3. (RunAccept(h) \/ RunRead(h) \/ RunSend(h)) /\ UNCHANGED cur
      BY <1>8 DEF RunHandler
    <2> HIDE DEF h
    <2>4. op' = "read" \/ serving' => cur >= 1
      BY <2>2, <2>3 DEF RunAccept, RunRead, RunSend, StartSession
    <2> QED BY <2>1, <2>3, <2>4
  <1>9. CASE PushTc
    BY <1>9 DEF PushTc
  <1>10. CASE EndRead
    BY <1>10 DEF EndRead
  <1>11. CASE PushTm
    BY <1>11 DEF PushTm, sessionVars
  <1>12. ASSUME NEW refused \in BOOLEAN, DispatchTc(refused) PROVE Session'
    BY <1>12 DEF DispatchTc, sessionVars
  <1>13. CASE TakeTm
    BY <1>13 DEF TakeTm, sessionVars
  <1>14. CASE TxCheck
    BY <1>14 DEF TxCheck, sessionVars
  <1>15. CASE TxPost
    <2> DEFINE h == [Handler("send", "ok") EXCEPT !.tm = held[1]]
    <2>1. held[1] \in Tms
      BY <1>15 DEF TxPost, None
    <2>2. h \in Handlers /\ h.kind = "send"
      BY <2>1, HandlerType DEF Handler
    <2>3. ready' = Append(ready, h)
      BY <1>15 DEF TxPost
    <2> HIDE DEF h
    <2>4. UNCHANGED <<op, serving, cur>>
      BY <1>15 DEF TxPost, sessionVars
    <2> QED BY <2>2, <2>3, <2>4
  <1>16. CASE UNCHANGED vars
    BY <1>16 DEF vars, sessionVars
  <1> QED
    BY <1>1, <1>2, <1>3, <1>4, <1>6, <1>7, <1>8, <1>9, <1>10, <1>11, <1>12,
       <1>13, <1>14, <1>15, <1>16
    DEF Next, Daemon, System, IoThread, DispatchTask, TxTask

\* Types and Session hold at the start.
LEMMA InitTypes == Init => Types /\ Session
  <1> SUFFICES ASSUME Init PROVE Types /\ Session
    OBVIOUS
  <1>1. Types
    <2>1. conns \in Seq(Conns) /\ asked \in Seq(TcSet) /\ cur \in 0 .. Len(conns)
      BY DEF Init
    <2>2. ready \in Seq(Handlers) /\ pushing \in Seq(Packets) /\ g_tc_q \in Seq(Packets)
          /\ g_tm_q \in Seq(Tms) /\ replies \in Seq(Tms) /\ built \in Seq(Tms) /\ held \in Seq(Tms)
      BY DEF Init, None
    <2>3. Len(g_tc_q) <= TcCapacity /\ Len(g_tm_q) <= TmCapacity
      BY CapacityAssumption DEF Init
    <2> QED BY <2>1, <2>2, <2>3, SeqAssumption DEF Init, Types
  <1>2. DOMAIN ready = {}
    BY DEF Init
  <1> QED BY <1>1, <1>2 DEF Init, Session

\* Types and Session hold together in every reachable state.
THEOREM TypesInductive == Spec => [](Types /\ Session)
  <1>1. Types /\ Session /\ [Next]_vars => (Types /\ Session)'
    BY TypesStep, SessionStep
  <1> QED BY <1>1, InitTypes, PTL DEF Spec

\* The handlers of kind k.
Kind(k) == {h \in Handlers : h.kind = k}

\* The threads of control of the session loop: an accept or read that is pending
\* or whose handler is queued, and a session being served.
Pending == Count(ready, Kind("accept")) + Count(ready, Kind("read"))
           + (IF op = "none" THEN 0 ELSE 1) + (IF serving THEN 1 ELSE 0)

\* There is one, and g_connected is set exactly while it belongs to a session.
LoopInv ==
    /\ Pending = 1
    /\ g_connected <=> op = "read" \/ serving \/ Count(ready, Kind("read")) # 0

\* A handler that joins the queue is one more of its kind.
LEMMA Queueing ==
    ASSUME NEW q \in Seq(Handlers), NEW h \in Handlers, NEW k
    PROVE  /\ Count(q, Kind(k)) \in Nat
           /\ Count(Append(q, h), Kind(k)) = Count(q, Kind(k)) + (IF h.kind = k THEN 1 ELSE 0)
  <1> DEFINE A == Kind(k)
  <1>1. h \in A <=> h.kind = k
    BY DEF Kind
  <1> HIDE DEF A
  <1>2. Count(q, A) \in Nat
    BY CountType
  <1>3. Count(Append(q, h), A) = Count(q, A) + In(h, A)
    BY CountAppend
  <1> QED BY <1>1, <1>2, <1>3 DEF A, In

\* A handler that is taken off the queue is one less of its kind.
LEMMA Unqueueing ==
    ASSUME NEW q \in Seq(Handlers), q # << >>, NEW k
    PROVE  /\ Count(q, Kind(k)) \in Nat /\ Count(Tail(q), Kind(k)) \in Nat
           /\ Count(q, Kind(k)) = Count(Tail(q), Kind(k)) + (IF Head(q).kind = k THEN 1 ELSE 0)
  <1> DEFINE A == Kind(k)
             t == Tail(q)
             h == Head(q)
  <1>1. h \in Handlers /\ t \in Seq(Handlers)
    BY QueueStep
  <1>2. h \in A <=> h.kind = k
    BY <1>1 DEF Kind
  <1> HIDE DEF A
  <1>3. Count(q, A) = Count(t, A) + In(h, A)
    BY CountTail
  <1> HIDE DEF t, h
  <1>4. Count(q, A) \in Nat /\ Count(t, A) \in Nat
    BY <1>1, CountType
  <1> QED BY <1>2, <1>3, <1>4 DEF A, In, t, h

\* Every step keeps LoopInv: accept, read and push hand over to one another.
LEMMA LoopStep ==
    ASSUME Types, Session, LoopInv, [Next]_vars
    PROVE  LoopInv'
  <1> DEFINE a == Count(ready, Kind("accept"))
             r == Count(ready, Kind("read"))
  <1>0. ready \in Seq(Handlers) /\ ready' \in Seq(Handlers) /\ a \in Nat /\ r \in Nat
    <2>1. ready \in Seq(Handlers) /\ ready' \in Seq(Handlers)
      BY TypesStep DEF Types
    <2> QED BY <2>1, CountType
  <1>1. /\ Pending = a + r + (IF op = "none" THEN 0 ELSE 1) + (IF serving THEN 1 ELSE 0)
        /\ Pending' = a' + r' + (IF op' = "none" THEN 0 ELSE 1) + (IF serving' THEN 1 ELSE 0)
        /\ LoopInv <=> (Pending = 1 /\ (g_connected <=> op = "read" \/ serving \/ r # 0))
        /\ LoopInv' <=> (Pending' = 1 /\ (g_connected' <=> op' = "read" \/ serving' \/ r' # 0))
    BY DEF LoopInv, Pending
  <1>2. CASE UNCHANGED <<ready, op, serving, g_connected>>
    BY <1>2 DEF LoopInv, Pending
  \* An operation completes: its handler takes its place.
  <1>3. ASSUME NEW h \in Handlers, ready' = Append(ready, h), h.kind = op, op # "none",
               op' = "none", UNCHANGED <<serving, g_connected>>
        PROVE  LoopInv'
    <2>1. /\ a' = a + (IF h.kind = "accept" THEN 1 ELSE 0)
          /\ r' = r + (IF h.kind = "read" THEN 1 ELSE 0)
      BY <1>0, <1>3, Queueing
    <2>2. op \in {"accept", "read"}
      BY <1>3 DEF Types
    <2> HIDE DEF a, r
    <2> QED BY <1>0, <1>1, <1>3, <2>1, <2>2
  <1>4. ASSUME NEW res \in {"ok", "err"}, AcceptCompletes(res) PROVE LoopInv'
    <2> DEFINE h == Handler("accept", res)
    <2>1. h \in Handlers /\ h.kind = "accept"
      BY HandlerType DEF Handler
    <2>2. op = "accept" /\ Completes(h)
      BY <1>4 DEF AcceptCompletes
    <2> HIDE DEF h
    <2> QED BY <1>3, <2>1, <2>2 DEF Completes
  <1>5. ASSUME NEW n \in 1 .. MaxTcs, ReadCompletes(n) PROVE LoopInv'
    <2> DEFINE h == [Handler("read", "ok") EXCEPT !.tcs = SubSeq(conns[cur].line, 1, n)]
    <2>1. h.kind = "read"
      BY DEF Handler
    <2>2. op = "read" /\ Completes(h)
      BY <1>5 DEF ReadCompletes
    <2>3. h \in Handlers
      BY <1>5, ReadHandler
    <2> HIDE DEF h
    <2> QED BY <1>3, <2>1, <2>2, <2>3 DEF Completes
  <1>6. CASE ReadFails
    <2> DEFINE h == Handler("read", "err")
    <2>1. h \in Handlers /\ h.kind = "read"
      BY HandlerType DEF Handler
    <2>2. op = "read" /\ Completes(h)
      BY <1>6 DEF ReadFails
    <2> HIDE DEF h
    <2> QED BY <1>3, <2>1, <2>2 DEF Completes
  <1>7. CASE RunHandler
    <2> DEFINE h == Head(ready)
    <2>1. ready # << >> /\ ready' = Tail(ready) /\ ~serving
          /\ (RunAccept(h) \/ RunRead(h) \/ RunSend(h))
      BY <1>7 DEF RunHandler
    <2>2. /\ h.kind = "accept" => a' = a - 1 /\ r' = r
          /\ h.kind = "read" => a' = a /\ r' = r - 1
          /\ h.kind = "send" => a' = a /\ r' = r
          /\ a' \in Nat /\ r' \in Nat
      BY <1>0, <2>1, Unqueueing
    <2> HIDE DEF a, r, h
    <2>0. /\ a \in Nat /\ r \in Nat /\ a' \in Nat /\ r' \in Nat /\ ~serving
          /\ op = "none" => a + r = 1
          /\ op # "none" => a + r = 0
          /\ g_connected <=> op = "read" \/ r # 0
      <3>1. ~serving
        BY <2>1, Zenon
      <3> QED BY <1>0, <1>1, <2>2, <3>1
    <2>3. CASE RunAccept(h)
      <3>1. /\ h.kind = "accept" /\ serving' = serving /\ op' \in {"accept", "read"}
            /\ \/ op' = "accept" /\ g_connected' = g_connected
               \/ op' = "read" /\ g_connected' = TRUE
        BY <2>3 DEF RunAccept, StartSession
      <3>2. a' = a - 1 /\ r' = r
        BY <2>2, <3>1
      <3>3. a' = 0 /\ r' = 0 /\ r = 0 /\ op = "none"
        BY <2>0, <3>2
      <3> QED BY <1>1, <2>1, <3>1, <3>3
    <2>4. CASE RunRead(h)
      <3>1. /\ h.kind = "read"
            /\ \/ g_connected' = FALSE /\ op' = "accept" /\ serving' = serving
               \/ serving' = TRUE /\ op' = op /\ g_connected' = g_connected
        BY <2>4 DEF RunRead, StartSession
      <3>2. a' = a /\ r' = r - 1
        BY <2>2, <3>1
      <3>3. a' = 0 /\ r' = 0 /\ r # 0 /\ op = "none"
        BY <2>0, <3>2
      <3> QED BY <1>1, <2>1, <3>1, <3>3
    <2>5. CASE RunSend(h)
      <3>1. h.kind = "send" /\ UNCHANGED <<g_connected, op, serving>>
        BY <2>5 DEF RunSend
      <3>2. a' = a /\ r' = r
        BY <2>2, <3>1
      <3> QED BY <1>1, <3>1, <3>2
    <2> QED BY <2>1, <2>3, <2>4, <2>5
  <1>8. CASE EndRead
    <2>1. a' = a /\ r' = r
      BY <1>8 DEF EndRead
    <2> HIDE DEF a, r
    <2> QED BY <1>0, <1>1, <1>8, <2>1 DEF EndRead
  <1>9. CASE TxPost
    <2> DEFINE h == [Handler("send", "ok") EXCEPT !.tm = held[1]]
    <2>1. held[1] \in Tms
      BY <1>9 DEF TxPost, Types, None
    <2>2. h \in Handlers /\ h.kind = "send"
      BY <2>1, HandlerType DEF Handler
    <2>3. ready' = Append(ready, h) /\ UNCHANGED <<op, serving, g_connected>>
      BY <1>9 DEF TxPost, sessionVars
    <2> HIDE DEF h
    <2>4. a' = a /\ r' = r
      BY <1>0, <2>2, <2>3, Queueing
    <2> HIDE DEF a, r
    <2> QED BY <1>0, <1>1, <2>3, <2>4
  <1>10. CASE Connect \/ Disconnect \/ \E tc \in Tcs : Send(tc)
    BY <1>2, <1>10 DEF Connect, Disconnect, Send, sessionVars
  <1>11. CASE PushTc
    BY <1>2, <1>11 DEF PushTc
  <1>12. CASE PushTm \/ \E refused \in BOOLEAN : DispatchTc(refused)
    BY <1>2, <1>12 DEF PushTm, DispatchTc, sessionVars
  <1>13. CASE TakeTm \/ TxCheck
    BY <1>2, <1>13 DEF TakeTm, TxCheck, sessionVars
  <1>14. CASE UNCHANGED vars
    BY <1>2, <1>14 DEF vars, sessionVars
  <1> HIDE DEF a, r
  <1> QED
    BY <1>4, <1>5, <1>6, <1>7, <1>8, <1>9, <1>10, <1>11, <1>12, <1>13, <1>14
    DEF Next, Daemon, System, IoThread, DispatchTask, TxTask

\* LoopInv holds at the start: main calls start_session once.
LEMMA LoopAtStart == Init => LoopInv
  <1> SUFFICES ASSUME Init PROVE LoopInv
    OBVIOUS
  <1>1. Count(ready, Kind("accept")) = 0 /\ Count(ready, Kind("read")) = 0
    BY CountEmpty, Zenon DEF Init
  <1> QED BY <1>1 DEF Init, LoopInv, Pending

\* The inductive invariant of the session loop.
THEOREM LoopInductive == Spec => [](Types /\ Session /\ LoopInv)
  <1>1. Types /\ Session /\ LoopInv /\ [Next]_vars => (Types /\ Session /\ LoopInv)'
    BY TypesStep, SessionStep, LoopStep
  <1> QED BY <1>1, InitTypes, LoopAtStart, PTL DEF Spec

\* The session loop never forks and never ends: there is always one accept, one
\* read or one session being served, and g_connected says which, although the
\* io thread, the dispatch task and the transmit task interleave freely.
THEOREM OneThreadOfControl == Spec => []SessionLoop
  <1>1. Types /\ LoopInv => SessionLoop
    <2> SUFFICES ASSUME Types, LoopInv PROVE SessionLoop
      OBVIOUS
    <2> DEFINE queued(k) == {i \in DOMAIN ready : ready[i].kind = k}
    <2>1. ASSUME NEW k PROVE /\ queued(k) = Where(ready, Kind(k))
                             /\ queued(k) = {} <=> Count(ready, Kind(k)) = 0
      <3>1. ready \in Seq(Handlers)
        BY DEF Types
      <3>2. \A i \in DOMAIN ready : ready[i] \in Kind(k) <=> ready[i].kind = k
        BY <3>1 DEF Kind
      <3>3. Count(ready, Kind(k)) = 0 <=> \A i \in DOMAIN ready : ready[i] \notin Kind(k)
        BY <3>1, CountType
      <3> QED BY <3>2, <3>3 DEF Where
    <2>2. Cardinality(queued("accept")) = Count(ready, Kind("accept"))
      BY <2>1 DEF Count
    <2>3. Cardinality(queued("read")) = Count(ready, Kind("read"))
      BY <2>1 DEF Count
    <2>4. queued("read") # {} <=> Count(ready, Kind("read")) # 0
      BY <2>1
    <2> HIDE DEF queued
    <2>5. /\ Cardinality(queued("accept")) + Cardinality(queued("read"))
               + (IF op = "none" THEN 0 ELSE 1) + (IF serving THEN 1 ELSE 0) = 1
          /\ g_connected <=> op = "read" \/ serving \/ queued("read") # {}
      BY <2>2, <2>3, <2>4 DEF LoopInv, Pending
    <2> QED BY <2>5 DEF SessionLoop, queued
  <1> QED BY <1>1, LoopInductive, PTL

------------------------------------------------------------------------------
(* The answers on their way to the daemon.                                  *)

\* The lambdas that the transmit task posted, and the TMs they hold.
Sends == {h \in Handlers : h.kind = "send"}
TmsIn(p) == [i \in DOMAIN p |-> p[i].tm]
Posted(q) == TmsIn(Select(q, Sends))

\* The TMs given to async_write and those on their way, oldest first.
OnTheWay == emitted \o Posted(ready) \o held \o g_tm_q \o replies

\* No connection was accepted yet, or the first one's handler did not run yet.
FirstAccept == \E i \in DOMAIN ready : ready[i].kind = "accept" /\ ready[i].res = "ok"
Fresh == cur = 0 \/ (cur = 1 /\ FirstAccept)

\* What the tasks and the queues owe the daemon: until the first session nothing
\* is built, in the first session nothing is lost, and then only gaps appear.
Delivery ==
    /\ emitted \in Seq(Tms) /\ Len(held) <= 1 /\ Carries(ready)
    /\ Fresh => built = << >> /\ g_tc_q = << >> /\ pushing = << >>
    /\ cur = 1 /\ g_connected => OnTheWay = built
    /\ Embeds(OnTheWay, built)

\* Nothing changes on the way when the first of r goes to the end of g.
Moved(x, g, r) == (x \o Append(g, Head(r))) \o Tail(r) = (x \o g) \o r

\* A reply joins the transmit queue.
LEMMA MovePush ==
    ASSUME NEW S, NEW x \in Seq(S), NEW g \in Seq(S), NEW r \in Seq(S), r # << >>
    PROVE  Moved(x, g, r)
  <1> DEFINE h == Head(r)
             t == Tail(r)
  <1>1. h \in S /\ t \in Seq(S) /\ r = <<h>> \o t
    BY HeadTailProperties
  <1> HIDE DEF h, t
  <1>2. x \o Append(g, h) = (x \o g) \o <<h>>
    BY <1>1
  <1>3. x \o g \in Seq(S) /\ <<h>> \in Seq(S)
    BY <1>1
  <1> DEFINE y == x \o g
             u == <<h>>
  <1> HIDE DEF y, u
  <1>4. (y \o u) \o t = y \o (u \o t)
    <2>1. y \in Seq(S) /\ u \in Seq(S) /\ t \in Seq(S)
      BY <1>1, <1>3 DEF y, u
    <2> QED BY <2>1, SMTT(30)
  <1> QED BY <1>1, <1>2, <1>4 DEF y, u, h, t, Moved

\* The transmit task takes the next TM.
LEMMA MoveTake ==
    ASSUME NEW S, NEW x \in Seq(S), NEW g \in Seq(S), g # << >>
    PROVE  (x \o <<Head(g)>>) \o Tail(g) = (x \o << >>) \o g
  <1> DEFINE h == Head(g)
             t == Tail(g)
  <1>1. h \in S /\ t \in Seq(S) /\ g = <<h>> \o t
    BY HeadTailProperties
  <1> HIDE DEF h, t
  <1>2. (x \o <<h>>) \o t = x \o (<<h>> \o t)
    BY <1>1
  <1>3. x \o << >> = x
    OBVIOUS
  <1> QED BY <1>1, <1>2, <1>3 DEF h, t

\* The transmit task posts the TM it holds.
LEMMA MovePost ==
    ASSUME NEW S, NEW e \in Seq(S), NEW p \in Seq(S), NEW t \in S
    PROVE  (e \o Append(p, t)) \o << >> = (e \o p) \o <<t>>
  OBVIOUS

\* The io thread gives the oldest TM to async_write.
LEMMA MoveSend ==
    ASSUME NEW S, NEW e \in Seq(S), NEW p \in Seq(S), NEW t \in S
    PROVE  Append(e, t) \o p = e \o (<<t>> \o p)
  OBVIOUS

\* The transmit task holds one TM.
LEMMA HoldsOne ==
    ASSUME NEW S, NEW s \in Seq(S), s # << >>, Len(s) <= 1
    PROVE  s[1] \in S /\ s = <<s[1]>>
  <1>1. Len(s) \in Nat \ {0} /\ DOMAIN s = 1 .. Len(s)
    BY EmptySeq, LenProperties
  <1>2. Len(s) = 1 /\ 1 \in DOMAIN s
    BY <1>1
  <1> QED BY <1>2

\* The TMs of the posted lambdas.
LEMMA PostedType ==
    ASSUME NEW q \in Seq(Handlers), Carries(q)
    PROVE  Posted(q) \in Seq(Tms)
  <1> DEFINE v == Select(q, Sends)
  <1>1. v \in Seq(Handlers) /\ v \in Seq(Sends)
    BY SelectType
  <1>2. ASSUME NEW i \in DOMAIN v PROVE v[i].tm \in Tms
    <2>1. i \in 1 .. Len(v)
      BY <1>1, LenProperties
    <2>2. \E j \in DOMAIN q : q[j] = v[i]
      <3>1. \A s \in Seq(Handlers) : \A x :
                (\E k \in DOMAIN Select(s, Sends) : Select(s, Sends)[k] = x)
                  <=> x \in Sends /\ \E k \in DOMAIN s : s[k] = x
        BY SelectRange
      <3>2. \A x : (\E k \in DOMAIN v : v[k] = x) <=> x \in Sends /\ \E k \in DOMAIN q : q[k] = x
        BY <3>1, Zenon
      <3> HIDE DEF v
      <3> QED BY <3>2
    <2>3. v[i] \in Sends
      BY <1>1
    <2> HIDE DEF v
    <2>4. v[i].kind = "send"
      BY <2>3 DEF Sends
    <2> QED BY <2>2, <2>4, LenProperties DEF Carries
  <1> HIDE DEF v
  <1>3. DOMAIN v = 1 .. Len(v) /\ Len(v) \in Nat
    BY <1>1, LenProperties
  <1>4. TmsIn(v) \in Seq(Tms)
    BY <1>2, <1>3, IsASeq DEF TmsIn
  <1> QED BY <1>4 DEF Posted, v

\* A handler joins the queue.
LEMMA PostedAppend ==
    ASSUME NEW q \in Seq(Handlers), NEW h \in Handlers
    PROVE  Posted(Append(q, h)) = IF h.kind = "send" THEN Append(Posted(q), h.tm) ELSE Posted(q)
  <1> DEFINE v == Select(q, Sends)
  <1>1. Select(Append(q, h), Sends) = IF h \in Sends THEN Append(v, h) ELSE v
    BY SelectAppend
  <1>2. h \in Sends <=> h.kind = "send"
    BY DEF Sends
  <1>3. v \in Seq(Handlers)
    BY SelectType
  <1> HIDE DEF v
  <1>4. TmsIn(Append(v, h)) = Append(TmsIn(v), h.tm)
    <2> DEFINE n == Len(v)
               a == Append(v, h)
               b == TmsIn(v)
    <2>1. n \in Nat /\ DOMAIN v = 1 .. n /\ DOMAIN a = 1 .. n + 1 /\ a[n + 1] = h
          /\ \A i \in 1 .. n : a[i] = v[i]
      BY <1>3, LenProperties, AppendProperties
    <2>2. b = [i \in 1 .. n |-> v[i].tm] /\ TmsIn(a) = [i \in 1 .. n + 1 |-> a[i].tm]
      BY <2>1 DEF TmsIn
    <2> HIDE DEF n, a
    <2>3. b \in Seq({v[i].tm : i \in 1 .. n}) /\ Len(b) = n
      BY <2>1, <2>2, IsASeq
    <2> HIDE DEF b
    <2>4. Append(b, h.tm) = [i \in 1 .. n + 1 |-> IF i <= n THEN b[i] ELSE h.tm]
      BY <2>1, <2>3
    <2>5. ASSUME NEW i \in 1 .. n + 1 PROVE a[i].tm = IF i <= n THEN b[i] ELSE h.tm
      BY <2>1, <2>2
    <2> QED BY <2>2, <2>4, <2>5 DEF a, b
  <1> QED BY <1>1, <1>2, <1>4 DEF Posted, v

\* The io thread takes the oldest handler.
LEMMA PostedTail ==
    ASSUME NEW q \in Seq(Handlers), q # << >>
    PROVE  Posted(q) = (IF Head(q).kind = "send" THEN <<Head(q).tm>> ELSE << >>) \o Posted(Tail(q))
  <1> DEFINE v == Select(Tail(q), Sends)
             h == Head(q)
  <1>0. h \in Handlers /\ Tail(q) \in Seq(Handlers)
    BY QueueStep
  <1>1. Select(q, Sends) = (IF h \in Sends THEN <<h>> ELSE << >>) \o v
    BY SelectTail
  <1>2. h \in Sends <=> h.kind = "send"
    BY <1>0 DEF Sends
  <1>3. v \in Seq(Handlers)
    BY <1>0, SelectType
  <1> HIDE DEF v, h
  <1> DEFINE T == {v[i].tm : i \in DOMAIN v}
  <1>4. DOMAIN v = 1 .. Len(v) /\ Len(v) \in Nat /\ TmsIn(v) \in Seq(T) /\ Len(TmsIn(v)) = Len(v)
    <2>1. DOMAIN v = 1 .. Len(v) /\ Len(v) \in Nat
      BY <1>3, LenProperties
    <2> QED BY <2>1, IsASeq DEF TmsIn
  <1>5. << >> \o TmsIn(v) = TmsIn(v) /\ << >> \o v = v
    BY <1>3, <1>4
  <1>6. TmsIn(<<h>> \o v) = <<h.tm>> \o TmsIn(v)
    <2> DEFINE n == Len(v)
               a == <<h>> \o v
               b == TmsIn(v)
               c == <<h.tm>> \o b
    <2>1. <<h>> \in Seq(Handlers) /\ Len(<<h>>) = 1 /\ <<h>>[1] = h
      BY <1>0
    <2>2. DOMAIN a = 1 .. n + 1 /\ a[1] = h /\ \A i \in 1 .. n : a[1 + i] = v[i]
      BY <1>3, <1>4, <2>1, ConcatElements
    <2>3. <<h.tm>> \in Seq(T \union {h.tm}) /\ Len(<<h.tm>>) = 1 /\ <<h.tm>>[1] = h.tm
      OBVIOUS
    <2>4. b \in Seq(T \union {h.tm}) /\ Len(b) = n
      BY <1>4
    <2>5. DOMAIN c = 1 .. n + 1 /\ c[1] = h.tm /\ \A i \in 1 .. n : c[1 + i] = b[i]
      <3> HIDE DEF b, T
      <3> QED BY <1>4, <2>3, <2>4, ConcatElements
    <2>6. c \in Seq(T \union {h.tm})
      <3> HIDE DEF b, T
      <3> QED BY <2>3, <2>4, ConcatElements
    <2>7. \A i \in 1 .. n : b[i] = v[i].tm
      BY <1>4 DEF TmsIn
    <2>8. TmsIn(a) = [i \in 1 .. n + 1 |-> a[i].tm] /\ c = [i \in 1 .. n + 1 |-> c[i]]
      BY <2>2, <2>5, <2>6 DEF TmsIn
    <2> HIDE DEF a, b, c, n
    <2>9. ASSUME NEW i \in 1 .. n + 1 PROVE a[i].tm = c[i]
      <3>0. n \in Nat
        BY <1>4 DEF n
      <3>1. CASE i = 1
        BY <2>2, <2>5, <3>1
      <3>2. CASE i # 1
        <4>1. PICK j \in 1 .. n : i = 1 + j
          <5>1. i - 1 \in 1 .. n /\ i = 1 + (i - 1)
            BY <3>0, <3>2
          <5> QED BY <5>1
        <4> QED BY <2>2, <2>5, <2>7, <4>1
      <3> QED BY <3>1, <3>2
    <2> QED BY <2>8, <2>9 DEF a, b, c
  <1> QED BY <1>1, <1>2, <1>5, <1>6 DEF Posted, v, h

\* Three queues, one behind the other.
Behind(x, y, z) == (x \o y) \o z = x \o (y \o z)

\* They may be put together in any order.
LEMMA Associates ==
    ASSUME NEW S, NEW x \in Seq(S), NEW y \in Seq(S), NEW z \in Seq(S)
    PROVE  Behind(x, y, z)
  <1>1. (x \o y) \o z = x \o (y \o z)
    OBVIOUS
  <1> QED BY <1>1 DEF Behind

\* Queues one behind the other, however they are put together.
Regrouped(e, p, u, g, r) ==
    /\ e \o p \o u \o g \o r = e \o (p \o u \o g \o r)
    /\ e \o p \o u \o g \o r = (e \o p) \o u \o (g \o r)
    /\ e \o p \o << >> \o g \o r = (e \o p) \o (g \o r)

\* Concatenation is associative.
LEMMA WayAssoc ==
    ASSUME NEW S, NEW e \in Seq(S), NEW p \in Seq(S), NEW u \in Seq(S), NEW g \in Seq(S),
           NEW r \in Seq(S)
    PROVE  Regrouped(e, p, u, g, r)
  <1> DEFINE C(x, y) == x \o y
  <1>1. ASSUME NEW x \in Seq(S), NEW y \in Seq(S), NEW z \in Seq(S)
        PROVE  C(x, y) \in Seq(S) /\ C(C(x, y), z) = C(x, C(y, z)) /\ C(x, << >>) = x
    <2>1. x \o y \in Seq(S)
      OBVIOUS
    <2>2. (x \o y) \o z = x \o (y \o z)
      <3>1. Behind(x, y, z)
        BY Associates, Zenon
      <3> QED BY <3>1, Zenon DEF Behind
    <2>3. x \o << >> = x
      OBVIOUS
    <2> QED BY <2>1, <2>2, <2>3, Zenon
  <1>2. << >> \in Seq(S)
    OBVIOUS
  <1> HIDE DEF C
  <1>3. C(C(C(C(e, p), u), g), r) = C(e, C(C(C(p, u), g), r))
    BY <1>1
  <1>4. C(e, p) \in Seq(S)
    BY <1>1
  <1>6. C(C(C(C(e, p), u), g), r) = C(C(C(e, p), u), C(g, r))
    BY <1>1, <1>4
  <1>7. C(C(C(C(e, p), << >>), g), r) = C(C(e, p), C(g, r))
    BY <1>1, <1>4
  <1> QED BY <1>3, <1>6, <1>7, Zenon DEF C, Regrouped

\* What a step does to the answers on their way: nothing, or a new telecommand's
\* answers join them, or some are dropped for want of a connection.
Kept == OnTheWay' = OnTheWay /\ UNCHANGED built
Joined == \E r \in Seq(Tms) : OnTheWay' = OnTheWay \o r /\ built' = built \o r
                              /\ UNCHANGED <<cur, g_connected>>
Dropped == /\ \E a, u, b \in Seq(Tms) : OnTheWay = a \o u \o b /\ OnTheWay' = a \o b
           /\ ~g_connected /\ UNCHANGED <<built, g_connected>>

\* The parts of OnTheWay are sequences of TMs.
LEMMA WayTypes ==
    ASSUME Types, Delivery
    PROVE  /\ emitted \in Seq(Tms) /\ Posted(ready) \in Seq(Tms) /\ held \in Seq(Tms)
           /\ g_tm_q \in Seq(Tms) /\ replies \in Seq(Tms) /\ built \in Seq(Tms)
           /\ OnTheWay \in Seq(Tms)
  <1>1. /\ emitted \in Seq(Tms) /\ held \in Seq(Tms) /\ g_tm_q \in Seq(Tms)
        /\ replies \in Seq(Tms) /\ built \in Seq(Tms) /\ Posted(ready) \in Seq(Tms)
    BY PostedType DEF Types, Delivery
  <1>2. emitted \o Posted(ready) \o held \o g_tm_q \o replies \in Seq(Tms)
    <2> DEFINE p == Posted(ready)
    <2>1. p \in Seq(Tms)
      BY <1>1
    <2> HIDE DEF p
    <2>2. emitted \o p \in Seq(Tms)
      BY <1>1, <2>1
    <2>3. emitted \o p \o held \in Seq(Tms)
      BY <1>1, <2>2
    <2>4. emitted \o p \o held \o g_tm_q \in Seq(Tms)
      BY <1>1, <2>3
    <2>5. emitted \o p \o held \o g_tm_q \o replies \in Seq(Tms)
      BY <1>1, <2>4
    <2> QED BY <2>5 DEF p
  <1> QED BY <1>1, <1>2 DEF OnTheWay

\* An operation that completes queues no lambda.
LEMMA CompletesKeeps ==
    ASSUME Types, NEW h \in Handlers, h.kind # "send", Completes(h)
    PROVE  Kept
  <1>1. ready \in Seq(Handlers) /\ ready' = Append(ready, h)
    BY DEF Types, Completes
  <1>2. Posted(ready') = Posted(ready)
    BY <1>1, PostedAppend
  <1>3. UNCHANGED <<emitted, held, g_tm_q, replies, built>>
    BY DEF Completes, txVars, dispatchVars
  <1>4. Posted(ready)' = Posted(ready')
    BY DEF Posted, TmsIn
  <1> QED BY <1>2, <1>3, <1>4 DEF Kept, OnTheWay

\* The io thread runs a handler: a lambda's TM is written or dropped.
LEMMA RunTransit ==
    ASSUME Types, Delivery, RunHandler
    PROVE  Kept \/ Dropped
  <1> DEFINE h == Head(ready)
             p == Posted(Tail(ready))
             e == emitted
             u == held
             g == g_tm_q
             r == replies
  <1>1. ready \in Seq(Handlers) /\ ready # << >> /\ ready' = Tail(ready)
        /\ (RunAccept(h) \/ RunRead(h) \/ RunSend(h))
    BY DEF Types, RunHandler
  <1>2. Posted(ready) = (IF h.kind = "send" THEN <<h.tm>> ELSE << >>) \o p
    BY <1>1, PostedTail
  <1>3. UNCHANGED <<held, g_tm_q, replies, built>>
    BY DEF RunHandler, txVars, dispatchVars
  <1>4. Posted(ready)' = p
    BY <1>1 DEF Posted, TmsIn
  <1>5. /\ Tail(ready) \in Seq(Handlers)
        /\ \A i \in DOMAIN Tail(ready) : i + 1 \in DOMAIN ready /\ Tail(ready)[i] = ready[i + 1]
    BY <1>1, QueueStep
  <1>6. Carries(Tail(ready))
    BY <1>5 DEF Carries, Delivery
  <1>7. p \in Seq(Tms)
    BY <1>5, <1>6, PostedType
  <1>8. h.kind = "send" => h.tm \in Tms
    <2>1. 1 \in DOMAIN ready /\ h = ready[1]
      BY <1>1
    <2> QED BY <2>1 DEF Delivery, Carries
  <1>9. e \in Seq(Tms) /\ u \in Seq(Tms) /\ g \in Seq(Tms) /\ r \in Seq(Tms)
    BY WayTypes
  <1>10. OnTheWay' = emitted' \o p \o u \o g \o r
    BY <1>3, <1>4 DEF OnTheWay
  <1>11. OnTheWay = e \o Posted(ready) \o u \o g \o r
    BY DEF OnTheWay
  <1> HIDE DEF p, h
  <1>12. CASE RunAccept(h) \/ RunRead(h)
    <2>1. h.kind # "send" /\ emitted' = e
      BY <1>12 DEF RunAccept, RunRead
    <2>2. Posted(ready) = << >> \o p
      BY <1>2, <2>1
    <2>3. << >> \o p = p
      BY <1>7
    <2> QED BY <1>3, <1>10, <1>11, <2>1, <2>2, <2>3 DEF Kept
  <1>13. CASE RunSend(h) /\ g_connected
    <2>1. h.kind = "send" /\ emitted' = Append(e, h.tm)
      BY <1>13 DEF RunSend
    <2>2. Append(e, h.tm) \o p = e \o (<<h.tm>> \o p)
      BY <1>7, <1>8, <1>9, <2>1, MoveSend, SMTT(30)
    <2>3. Posted(ready) = <<h.tm>> \o p
      BY <1>2, <2>1
    <2> QED BY <1>3, <1>10, <1>11, <2>1, <2>2, <2>3 DEF Kept
  <1>14. CASE RunSend(h) /\ ~g_connected
    <2>1. h.kind = "send" /\ emitted' = e /\ UNCHANGED g_connected
      BY <1>14 DEF RunSend
    <2>2. Posted(ready) = <<h.tm>> \o p
      BY <1>2, <2>1
    <2> DEFINE o == <<h.tm>>
               b == p \o u \o g \o r
    <2>3. o \in Seq(Tms) /\ b \in Seq(Tms)
      <3>1. p \o u \in Seq(Tms)
        BY <1>7, <1>9
      <3>2. p \o u \o g \in Seq(Tms)
        BY <3>1, <1>9
      <3> QED BY <1>8, <1>9, <2>1, <3>2
    <2> HIDE DEF o
    <2>4. ASSUME NEW x \in Seq(Tms) PROVE x \o p \o u \o g \o r = x \o b
      <3> HIDE DEF e, u, g, r
      <3>1. Regrouped(x, p, u, g, r)
        BY <1>7, <1>9, <2>4, WayAssoc, Zenon
      <3> QED BY <3>1, Zenon DEF Regrouped
    <2>5. e \o o \in Seq(Tms) /\ e \o (o \o p) = e \o o \o p
      <3> HIDE DEF e
      <3>1. e \o o \in Seq(Tms)
        BY <1>9, <2>3
      <3>2. (e \o o) \o p = e \o (o \o p)
        BY <1>7, <1>9, <2>3, SMTT(30)
      <3> QED BY <3>1, <3>2, Zenon
    <2> HIDE DEF b
    <2>6. OnTheWay = e \o o \o b /\ OnTheWay' = e \o b
      <3> HIDE DEF e, u, g, r
      <3>1. OnTheWay = e \o (o \o p) \o u \o g \o r
        BY <1>11, <2>2, Zenon DEF o
      <3>2. OnTheWay = e \o o \o b
        BY <2>4, <2>5, <3>1, Zenon
      <3>3. OnTheWay' = e \o p \o u \o g \o r
        BY <1>10, <2>1, Zenon
      <3> QED BY <1>9, <2>4, <3>2, <3>3, Zenon
    <2> QED BY <1>3, <1>9, <1>14, <2>1, <2>3, <2>6 DEF Dropped
  <1> QED BY <1>1, <1>12, <1>13, <1>14

\* What every step does to the answers on their way.
LEMMA TransitStep ==
    ASSUME Types, Session, Delivery, [Next]_vars
    PROVE  Kept \/ Joined \/ Dropped
  <1> DEFINE e == emitted
             p == Posted(ready)
             u == held
             g == g_tm_q
             r == replies
  <1>1. e \in Seq(Tms) /\ p \in Seq(Tms) /\ u \in Seq(Tms) /\ g \in Seq(Tms) /\ r \in Seq(Tms)
        /\ OnTheWay \in Seq(Tms)
    BY WayTypes
  <1>2. OnTheWay = e \o p \o u \o g \o r /\ OnTheWay' = e' \o p' \o u' \o g' \o r'
    BY DEF OnTheWay
  <1>3. (UNCHANGED ready) => p' = p
    BY DEF Posted, TmsIn
  <1>x. e \o p \in Seq(Tms) /\ (e \o p) \o u \in Seq(Tms) /\ ((e \o p) \o u) \o g \in Seq(Tms)
    <2> HIDE DEF e, p, u, g, r
    <2>1. e \o p \in Seq(Tms)
      BY <1>1
    <2>2. (e \o p) \o u \in Seq(Tms)
      BY <1>1, <2>1
    <2>3. ((e \o p) \o u) \o g \in Seq(Tms)
      BY <1>1, <2>2
    <2> QED BY <2>1, <2>2, <2>3, Zenon
  <1>4. CASE UNCHANGED <<emitted, ready, held, g_tm_q, replies, built>>
    BY <1>2, <1>3, <1>4 DEF Kept
  <1>5. CASE Connect \/ Disconnect \/ \E tc \in Tcs : Send(tc)
    BY <1>4, <1>5 DEF Connect, Disconnect, Send, dispatchVars, txVars
  <1>6. ASSUME NEW res \in {"ok", "err"}, AcceptCompletes(res) PROVE Kept
    <2> DEFINE h == Handler("accept", res)
    <2>1. h \in Handlers /\ h.kind # "send" /\ Completes(h)
      BY <1>6, HandlerType DEF Handler, AcceptCompletes
    <2> HIDE DEF h
    <2> QED BY <2>1, CompletesKeeps
  <1>7. ASSUME NEW n \in 1 .. MaxTcs, ReadCompletes(n) PROVE Kept
    <2> DEFINE h == [Handler("read", "ok") EXCEPT !.tcs = SubSeq(conns[cur].line, 1, n)]
    <2>1. h.kind # "send" /\ Completes(h)
      BY <1>7 DEF Handler, ReadCompletes
    <2>2. h \in Handlers
      BY <1>7, ReadHandler
    <2> HIDE DEF h
    <2> QED BY <2>1, <2>2, CompletesKeeps
  <1>8. CASE ReadFails
    <2> DEFINE h == Handler("read", "err")
    <2>1. h \in Handlers /\ h.kind # "send" /\ Completes(h)
      BY <1>8, HandlerType DEF Handler, ReadFails
    <2> HIDE DEF h
    <2> QED BY <2>1, CompletesKeeps
  <1>9. CASE RunHandler
    BY <1>9, RunTransit
  <1>10. CASE PushTc \/ EndRead
    BY <1>4, <1>10 DEF PushTc, EndRead, dispatchVars, txVars
  <1>11. CASE PushTm
    <2>1. r # << >> /\ g' = Append(g, Head(r)) /\ r' = Tail(r) /\ e' = e /\ p' = p /\ u' = u
          /\ UNCHANGED built
      BY <1>3, <1>11 DEF PushTm, txVars
    <2> HIDE DEF e, p, u, g, r
    <2> DEFINE x == (e \o p) \o u
    <2>2. x \in Seq(Tms)
      BY <1>x
    <2> HIDE DEF x
    <2>3. Moved(x, g, r)
      BY <1>1, <2>1, <2>2, MovePush, Zenon
    <2> QED BY <1>2, <2>1, <2>3, Zenon DEF Kept, x, Moved
  <1>12. ASSUME NEW refused \in BOOLEAN, DispatchTc(refused) PROVE Joined
    <2> DEFINE b == Build(Head(g_tc_q), refused)
    <2>1. r = << >> /\ r' = b /\ e' = e /\ p' = p /\ u' = u /\ g' = g
          /\ built' = built \o b /\ UNCHANGED <<cur, g_connected>>
      BY <1>3, <1>12 DEF DispatchTc, txVars, sessionVars
    <2>2. b \in Seq(Tms)
      <3>1. Head(g_tc_q) \in Packets
        BY <1>12, QueueStep DEF DispatchTc, Types
      <3> QED BY <3>1, BuildType
    <2> HIDE DEF e, p, u, g, r, b
    <2> DEFINE x == ((e \o p) \o u) \o g
    <2>3. x \in Seq(Tms)
      BY <1>x
    <2> HIDE DEF x
    <2>4. x \o << >> = x
      BY <2>3
    <2>5. OnTheWay = x \o << >> /\ OnTheWay' = x \o b
      BY <1>2, <2>1, Zenon DEF x
    <2>6. OnTheWay' = OnTheWay \o b
      BY <2>4, <2>5, Zenon
    <2> QED BY <2>1, <2>2, <2>6, Zenon DEF Joined
  <1>13. CASE TakeTm
    <2>1. g # << >> /\ u = << >> /\ u' = <<Head(g)>> /\ g' = Tail(g) /\ e' = e /\ p' = p /\ r' = r
          /\ UNCHANGED built
      BY <1>3, <1>13 DEF TakeTm, dispatchVars, None
    <2> HIDE DEF e, p, u, g, r
    <2> DEFINE x == e \o p
    <2>2. x \in Seq(Tms)
      BY <1>x
    <2> HIDE DEF x
    <2>3. (x \o <<Head(g)>>) \o Tail(g) = (x \o << >>) \o g
      BY <1>1, <2>1, <2>2, MoveTake
    <2> QED BY <1>2, <2>1, <2>3, Zenon DEF Kept, x
  <1>14. CASE TxCheck /\ g_connected
    BY <1>4, <1>14 DEF TxCheck, dispatchVars
  <1>15. CASE TxCheck /\ ~g_connected
    <2>1. u' = << >> /\ g' = g /\ e' = e /\ p' = p /\ r' = r
          /\ UNCHANGED built /\ UNCHANGED g_connected /\ ~g_connected
      BY <1>3, <1>15 DEF TxCheck, dispatchVars, sessionVars, None
    <2> HIDE DEF e, p, u, g, r
    <2> DEFINE x == e \o p
               b == g \o r
    <2>2. Regrouped(e, p, u, g, r)
      BY <1>1, WayAssoc, Zenon
    <2>3. b \in Seq(Tms) /\ x \in Seq(Tms)
      BY <1>1, <1>x
    <2>4. OnTheWay = x \o u \o b /\ OnTheWay' = x \o b
      BY <1>2, <2>1, <2>2, Zenon DEF Regrouped
    <2> HIDE DEF x, b
    <2>5. \E a, v, c \in Seq(Tms) : OnTheWay = a \o v \o c /\ OnTheWay' = a \o c
      BY <1>1, <2>3, <2>4, Zenon
    <2> QED BY <2>1, <2>5, Zenon DEF Dropped
  <1>16. CASE TxPost
    <2> DEFINE t == held[1]
               h == [Handler("send", "ok") EXCEPT !.tm = t]
    <2>0. held # << >> /\ held \in Seq(Tms) /\ Len(held) <= 1
      BY <1>16 DEF TxPost, Types, Delivery, None
    <2>1. t \in Tms /\ u = <<t>>
      <3>2. held[1] \in Tms /\ held = <<held[1]>>
        BY <2>0, HoldsOne
      <3> QED BY <3>2
    <2>2. h \in Handlers /\ h.kind = "send" /\ h.tm = t
      BY <2>1, HandlerType DEF Handler
    <2>3. ready' = Append(ready, h) /\ ready \in Seq(Handlers)
      BY <1>16 DEF TxPost, Types
    <2>4. Posted(ready') = Append(p, t)
      BY <2>2, <2>3, PostedAppend
    <2>5. u' = << >> /\ g' = g /\ e' = e /\ r' = r /\ UNCHANGED built
      BY <1>16 DEF TxPost, dispatchVars, None
    <2>6. p' = Append(p, t)
      BY <2>4 DEF Posted, TmsIn
    <2> HIDE DEF e, p, u, g, r, h, t
    <2>7. (e \o Append(p, t)) \o << >> = (e \o p) \o <<t>>
      BY <1>1, <2>1, MovePost
    <2> QED BY <1>2, <2>1, <2>5, <2>6, <2>7, Zenon DEF Kept
  <1>17. CASE UNCHANGED vars
    BY <1>4, <1>17 DEF vars, dispatchVars, txVars
  <1> QED
    BY <1>5, <1>6, <1>7, <1>8, <1>9, <1>10, <1>11, <1>12, <1>13, <1>14, <1>15, <1>16, <1>17
    DEF Next, Daemon, System, IoThread, DispatchTask, TxTask

\* TMs, the one that is held and the lambdas have their types.
LEMMA CarriesStep ==
    ASSUME Types, Session, Delivery, [Next]_vars
    PROVE  emitted' \in Seq(Tms) /\ Len(held') <= 1 /\ Carries(ready')
  <1>0. emitted \in Seq(Tms) /\ Len(held) <= 1 /\ Carries(ready) /\ ready \in Seq(Handlers)
    BY DEF Delivery, Types
  <1>1. CASE UNCHANGED <<emitted, held, ready>>
    BY <1>0, <1>1
  <1>2. ASSUME NEW h \in Handlers, h.kind = "send" => h.tm \in Tms, ready' = Append(ready, h)
        PROVE  Carries(ready')
    BY <1>0, <1>2 DEF Carries
  <1>3. ASSUME NEW h \in Handlers, h.kind # "send", Completes(h)
        PROVE  emitted' \in Seq(Tms) /\ Len(held') <= 1 /\ Carries(ready')
    BY <1>0, <1>2, <1>3 DEF Completes, txVars
  <1>4. CASE Connect \/ Disconnect \/ \E tc \in Tcs : Send(tc)
    BY <1>1, <1>4 DEF Connect, Disconnect, Send, txVars
  <1>5. ASSUME NEW res \in {"ok", "err"}, AcceptCompletes(res)
        PROVE  emitted' \in Seq(Tms) /\ Len(held') <= 1 /\ Carries(ready')
    <2> DEFINE h == Handler("accept", res)
    <2>1. h \in Handlers /\ h.kind # "send" /\ Completes(h)
      BY <1>5, HandlerType DEF Handler, AcceptCompletes
    <2> HIDE DEF h
    <2> QED BY <1>3, <2>1
  <1>6. ASSUME NEW n \in 1 .. MaxTcs, ReadCompletes(n)
        PROVE  emitted' \in Seq(Tms) /\ Len(held') <= 1 /\ Carries(ready')
    <2> DEFINE h == [Handler("read", "ok") EXCEPT !.tcs = SubSeq(conns[cur].line, 1, n)]
    <2>1. h.kind # "send" /\ Completes(h)
      BY <1>6 DEF Handler, ReadCompletes
    <2>2. h \in Handlers
      BY <1>6, ReadHandler
    <2> HIDE DEF h
    <2> QED BY <1>3, <2>1, <2>2
  <1>7. CASE ReadFails
    <2> DEFINE h == Handler("read", "err")
    <2>1. h \in Handlers /\ h.kind # "send" /\ Completes(h)
      BY <1>7, HandlerType DEF Handler, ReadFails
    <2> HIDE DEF h
    <2> QED BY <1>3, <2>1
  <1>8. CASE RunHandler
    <2> DEFINE h == Head(ready)
    <2>1. h \in Handlers /\ \A i \in DOMAIN ready' : i + 1 \in DOMAIN ready /\ ready'[i] = ready[i + 1]
      BY <1>0, <1>8, QueueStep DEF RunHandler
    <2>2. h = ready[1] /\ 1 \in DOMAIN ready
      BY <1>0, <1>8 DEF RunHandler
    <2>3. (RunAccept(h) \/ RunRead(h) \/ RunSend(h)) /\ UNCHANGED held
      BY <1>8 DEF RunHandler, txVars
    <2>4. h.kind = "send" => h.tm \in Tms
      BY <1>0, <2>2 DEF Carries
    <2> HIDE DEF h
    <2>5. emitted' \in Seq(Tms)
      <3>1. CASE UNCHANGED emitted
        BY <1>0, <3>1
      <3>2. CASE h.kind = "send" /\ emitted' = Append(emitted, h.tm)
        BY <1>0, <2>4, <3>2
      <3> QED BY <2>3, <3>1, <3>2 DEF RunAccept, RunRead, RunSend
    <2>6. Carries(ready')
      BY <1>0, <2>1 DEF Carries
    <2> QED BY <1>0, <2>3, <2>5, <2>6
  <1>9. CASE PushTc \/ EndRead
    BY <1>1, <1>9 DEF PushTc, EndRead, txVars
  <1>10. CASE PushTm \/ \E refused \in BOOLEAN : DispatchTc(refused)
    BY <1>1, <1>10 DEF PushTm, DispatchTc, txVars
  <1>11. CASE TakeTm
    <2>1. held' = <<Head(g_tm_q)>> /\ UNCHANGED <<emitted, ready>>
      BY <1>11 DEF TakeTm
    <2>2. Len(held') = 1
      BY <2>1
    <2> QED BY <1>0, <2>1, <2>2
  <1>12. CASE TxCheck
    BY <1>0, <1>12 DEF TxCheck, None
  <1>13. CASE TxPost
    <2> DEFINE h == [Handler("send", "ok") EXCEPT !.tm = held[1]]
    <2>1. held[1] \in Tms
      BY <1>13 DEF TxPost, Types, None
    <2>2. h \in Handlers /\ h.tm \in Tms
      BY <2>1, HandlerType DEF Handler
    <2>3. ready' = Append(ready, h) /\ held' = << >> /\ UNCHANGED emitted
      BY <1>13 DEF TxPost, None
    <2> HIDE DEF h
    <2>4. Carries(ready')
      BY <1>2, <2>2, <2>3
    <2>5. Len(held') <= 1
      BY <2>3
    <2> QED BY <1>0, <2>3, <2>4, <2>5
  <1>14. CASE UNCHANGED vars
    BY <1>1, <1>14 DEF vars, txVars
  <1> QED
    BY <1>4, <1>5, <1>6, <1>7, <1>8, <1>9, <1>10, <1>11, <1>12, <1>13, <1>14
    DEF Next, Daemon, System, IoThread, DispatchTask, TxTask

\* The handlers of the session loop are alone in the queue.
LEMMA Alone ==
    ASSUME Types, LoopInv, NEW i \in DOMAIN ready, ready[i].kind = "accept"
    PROVE  \A j \in DOMAIN ready : ready[j].kind # "read"
  <1> SUFFICES ASSUME NEW j \in DOMAIN ready, ready[j].kind = "read" PROVE FALSE
    OBVIOUS
  <1> DEFINE a == Count(ready, Kind("accept"))
             r == Count(ready, Kind("read"))
  <1>1. ready \in Seq(Handlers)
    BY DEF Types
  <1>2. ready[i] \in Kind("accept") /\ ready[j] \in Kind("read")
    BY <1>1 DEF Kind
  <1>3. a \in Nat /\ r \in Nat /\ a # 0 /\ r # 0
    BY <1>1, <1>2, CountType
  <1>4. a + r + (IF op = "none" THEN 0 ELSE 1) + (IF serving THEN 1 ELSE 0) = 1
    BY DEF LoopInv, Pending
  <1> HIDE DEF a, r
  <1> QED BY <1>3, <1>4

\* Nothing happens before the first session but the accept.
LEMMA FreshStep ==
    ASSUME Types, Session, LoopInv, Delivery, [Next]_vars, Fresh'
    PROVE  Fresh /\ UNCHANGED <<built, g_tc_q, pushing>>
  <1>0. ready \in Seq(Handlers)
        /\ (Fresh => built = << >> /\ g_tc_q = << >> /\ pushing = << >>)
    BY DEF Delivery, Types
  <1>1. CASE UNCHANGED <<ready, cur>>
    <2>1. Fresh
      BY <1>1 DEF Fresh, FirstAccept
    <2>2. built = << >> /\ g_tc_q = << >> /\ pushing = << >>
      BY <1>0, <2>1
    <2>3. UNCHANGED <<built, g_tc_q, pushing>> \/ PushTc \/ \E refused \in BOOLEAN : DispatchTc(refused)
                                             \/ RunHandler
      BY DEF Next, Daemon, System, IoThread, DispatchTask, TxTask, Connect, Disconnect, Send,
             AcceptCompletes, ReadCompletes, ReadFails, Completes, EndRead, PushTm, TakeTm, TxCheck,
             TxPost, vars, sessionVars, dispatchVars
    <2>4. ~PushTc /\ ~\E refused \in BOOLEAN : DispatchTc(refused)
      BY <2>2 DEF PushTc, DispatchTc
    <2>5. ~RunHandler
      <3> SUFFICES ASSUME RunHandler PROVE FALSE
        OBVIOUS
      <3>1. ready # << >> /\ ready' = Tail(ready)
        BY DEF RunHandler
      <3>2. Len(Tail(ready)) = Len(ready) - 1 /\ Len(ready) \in Nat
        BY <1>0, <3>1, QueueStep
      <3> QED BY <1>1, <3>1, <3>2
    <2> QED BY <2>1, <2>3, <2>4, <2>5
  <1>2. ASSUME NEW h \in Handlers, ready' = Append(ready, h), UNCHANGED cur,
               h.kind # "accept" \/ h.res # "ok"
        PROVE  Fresh
    BY <1>0, <1>2 DEF Fresh, FirstAccept
  <1>3. ASSUME NEW res \in {"ok", "err"}, AcceptCompletes(res)
        PROVE  Fresh /\ UNCHANGED <<built, g_tc_q, pushing>>
    <2> DEFINE h == Handler("accept", res)
    <2>1. h \in Handlers /\ h.res = res /\ Completes(h)
      BY <1>3, HandlerType DEF Handler, AcceptCompletes
    <2> HIDE DEF h
    <2>2. ready' = Append(ready, h) /\ UNCHANGED <<built, g_tc_q, pushing>>
      BY <2>1 DEF Completes, dispatchVars
    <2>3. CASE res = "ok"
      <3>1. cur \in Nat
        <4>1. Len(conns) \in Nat /\ cur \in 0 .. Len(conns)
          BY DEF Types
        <4> QED BY <4>1
      <3>2. cur' = cur + 1
        BY <1>3, <2>3 DEF AcceptCompletes
      <3>3. cur' = 0 \/ cur' = 1
        BY DEF Fresh
      <3>4. cur = 0
        BY <3>1, <3>2, <3>3
      <3> QED BY <2>2, <3>4 DEF Fresh
    <2>4. CASE res = "err"
      BY <1>2, <1>3, <2>1, <2>2, <2>4 DEF AcceptCompletes
    <2> QED BY <2>2, <2>3, <2>4
  <1>4. ASSUME NEW h \in Handlers, h.kind = "read", Completes(h), UNCHANGED cur
        PROVE  Fresh /\ UNCHANGED <<built, g_tc_q, pushing>>
    BY <1>2, <1>4 DEF Completes, dispatchVars
  <1>5. ASSUME NEW n \in 1 .. MaxTcs, ReadCompletes(n)
        PROVE  Fresh /\ UNCHANGED <<built, g_tc_q, pushing>>
    <2> DEFINE h == [Handler("read", "ok") EXCEPT !.tcs = SubSeq(conns[cur].line, 1, n)]
    <2>1. h.kind = "read" /\ Completes(h) /\ UNCHANGED cur
      BY <1>5 DEF Handler, ReadCompletes
    <2>2. h \in Handlers
      BY <1>5, ReadHandler
    <2> HIDE DEF h
    <2> QED BY <1>4, <2>1, <2>2
  <1>6. CASE ReadFails
    <2> DEFINE h == Handler("read", "err")
    <2>1. h \in Handlers /\ h.kind = "read" /\ Completes(h) /\ UNCHANGED cur
      BY <1>6, HandlerType DEF Handler, ReadFails
    <2> HIDE DEF h
    <2> QED BY <1>4, <2>1
  <1>7. CASE RunHandler
    <2> DEFINE h == Head(ready)
    <2>1. \A i \in DOMAIN ready' : i + 1 \in DOMAIN ready /\ ready'[i] = ready[i + 1]
      BY <1>0, <1>7, QueueStep DEF RunHandler
    <2>2. h = ready[1] /\ 1 \in DOMAIN ready
      BY <1>0, <1>7 DEF RunHandler
    <2>3. (RunAccept(h) \/ RunRead(h) \/ RunSend(h)) /\ UNCHANGED <<cur, built, g_tc_q>>
      BY <1>7 DEF RunHandler, dispatchVars
    <2> HIDE DEF h
    <2>4. Fresh
      BY <2>1, <2>3 DEF Fresh, FirstAccept
    <2>5. h.kind # "read"
      <3> SUFFICES ASSUME h.kind = "read" PROVE FALSE
        OBVIOUS
      <3>1. cur >= 1
        BY <2>2 DEF Session, Accepted
      <3>2. FirstAccept
        BY <2>4, <3>1 DEF Fresh
      <3> QED BY <2>2, <3>2, Alone DEF FirstAccept
    <2>6. UNCHANGED pushing
      BY <2>3, <2>5 DEF RunAccept, RunRead, RunSend
    <2> QED BY <2>3, <2>4, <2>6
  <1>8. CASE TxPost
    <2> DEFINE h == [Handler("send", "ok") EXCEPT !.tm = held[1]]
    <2>1. held[1] \in Tms
      BY <1>8 DEF TxPost, Types, None
    <2>2. h \in Handlers /\ h.kind = "send"
      BY <2>1, HandlerType DEF Handler
    <2>3. ready' = Append(ready, h) /\ UNCHANGED <<cur, built, g_tc_q, pushing>>
      BY <1>8 DEF TxPost, sessionVars, dispatchVars
    <2> HIDE DEF h
    <2> QED BY <1>2, <2>2, <2>3
  <1>9. CASE Connect \/ Disconnect \/ \E tc \in Tcs : Send(tc)
    BY <1>1, <1>9 DEF Connect, Disconnect, Send, sessionVars
  <1>10. CASE PushTc \/ EndRead \/ PushTm \/ (\E refused \in BOOLEAN : DispatchTc(refused))
              \/ TakeTm \/ TxCheck \/ UNCHANGED vars
    BY <1>1, <1>10 DEF PushTc, EndRead, PushTm, DispatchTc, TakeTm, TxCheck, vars, sessionVars
  <1> QED
    BY <1>3, <1>5, <1>6, <1>7, <1>8, <1>9, <1>10
    DEF Next, Daemon, System, IoThread, DispatchTask, TxTask

\* The first session begins with its accept.
LEMMA ConnStep ==
    ASSUME Types, Session, LoopInv, [Next]_vars, g_connected', cur' = 1
    PROVE  (g_connected /\ cur = 1) \/ (Fresh /\ cur = 1)
  <1>1. CASE UNCHANGED <<cur, g_connected>>
    BY <1>1
  <1>2. ASSUME NEW res \in {"ok", "err"}, AcceptCompletes(res) PROVE FALSE
    <2>1. op = "accept" /\ UNCHANGED g_connected
      BY <1>2 DEF AcceptCompletes, Completes
    <2>2. Count(ready, Kind("read")) \in Nat /\ Count(ready, Kind("accept")) \in Nat
      BY CountType DEF Types
    <2>3. ~serving /\ Count(ready, Kind("read")) = 0
      BY <2>1, <2>2 DEF LoopInv, Pending
    <2>4. ~g_connected
      BY <2>1, <2>3 DEF LoopInv
    <2> QED BY <2>1, <2>4
  <1>3. CASE RunHandler
    <2> DEFINE h == Head(ready)
    <2>1. h = ready[1] /\ 1 \in DOMAIN ready
      BY <1>3 DEF RunHandler, Types
    <2>2. (RunAccept(h) \/ RunRead(h) \/ RunSend(h)) /\ UNCHANGED cur
      BY <1>3 DEF RunHandler
    <2> HIDE DEF h
    <2>3. CASE UNCHANGED g_connected
      BY <2>2, <2>3
    <2>4. CASE h.kind = "accept" /\ h.res = "ok"
      BY <2>1, <2>2, <2>4 DEF Fresh, FirstAccept
    <2> QED BY <2>2, <2>3, <2>4 DEF RunAccept, RunRead, RunSend
  <1>4. CASE ReadFails \/ \E n \in 1 .. MaxTcs : ReadCompletes(n)
    BY <1>1, <1>4 DEF ReadFails, ReadCompletes, Completes
  <1>5. CASE Connect \/ Disconnect \/ \E tc \in Tcs : Send(tc)
    BY <1>1, <1>5 DEF Connect, Disconnect, Send, sessionVars
  <1>6. CASE PushTc \/ EndRead \/ PushTm \/ (\E refused \in BOOLEAN : DispatchTc(refused))
              \/ TakeTm \/ TxCheck \/ TxPost \/ UNCHANGED vars
    BY <1>1, <1>6 DEF PushTc, EndRead, PushTm, DispatchTc, TakeTm, TxCheck, TxPost, vars, sessionVars
  <1> QED
    BY <1>2, <1>3, <1>4, <1>5, <1>6
    DEF Next, Daemon, System, IoThread, DispatchTask, TxTask

\* Every step keeps Delivery.
LEMMA DeliveryStep ==
    ASSUME Types, Session, LoopInv, Delivery, [Next]_vars
    PROVE  Delivery'
  <1>1. emitted' \in Seq(Tms) /\ Len(held') <= 1 /\ Carries(ready')
    BY CarriesStep
  <1>2. Fresh' => built' = << >> /\ g_tc_q' = << >> /\ pushing' = << >>
    <2>1. Fresh => built = << >> /\ g_tc_q = << >> /\ pushing = << >>
      BY DEF Delivery
    <2> QED BY <2>1, FreshStep
  <1>3. Kept \/ Joined \/ Dropped
    BY TransitStep
  <1>4. OnTheWay \in Seq(Tms) /\ built \in Seq(Tms)
    BY WayTypes
  <1>5. Embeds(OnTheWay, built) /\ (cur = 1 /\ g_connected => OnTheWay = built)
    BY DEF Delivery
  <1>6. Fresh => OnTheWay = built
    <2> SUFFICES ASSUME Fresh PROVE OnTheWay = built
      OBVIOUS
    <2> DEFINE w == OnTheWay
    <2>1. built = << >>
      BY DEF Delivery
    <2>2. \E f \in [DOMAIN w -> DOMAIN built] : TRUE
      BY <1>5 DEF Embeds
    <2> HIDE DEF w
    <2>3. DOMAIN w = {}
      <3>1. DOMAIN built = {}
        BY <2>1
      <3>2. PICK f \in [DOMAIN w -> {}] : TRUE
        BY <2>2, <3>1, Zenon
      <3>3. \A x \in DOMAIN w : f[x] \in {}
        BY <3>2, Zenon
      <3> QED BY <3>3
    <2>4. w \in Seq(Tms)
      BY <1>4 DEF w
    <2>5. w = << >>
      BY <2>3, <2>4
    <2> QED BY <2>1, <2>5 DEF w
  <1>7. Embeds(OnTheWay', built')
    <2>1. CASE Kept
      BY <1>5, <2>1 DEF Kept
    <2>2. CASE Joined
      <3>1. PICK r \in Seq(Tms) : OnTheWay' = OnTheWay \o r /\ built' = built \o r
        BY <2>2 DEF Joined
      <3>2. Embeds(OnTheWay \o r, built \o r)
        BY <1>4, <1>5, EmbedsConcat, Zenon
      <3> QED BY <3>1, <3>2, Zenon
    <2>3. CASE Dropped
      <3>1. PICK a, u, b \in Seq(Tms) : OnTheWay = a \o u \o b /\ OnTheWay' = a \o b
        BY <2>3 DEF Dropped
      <3>2. built' = built
        BY <2>3 DEF Dropped
      <3>3. Embeds(a \o u \o b, built)
        BY <1>5, <3>1, Zenon
      <3>4. Embeds(a \o b, built)
        BY <1>4, <3>3, EmbedsDrop, Zenon
      <3> QED BY <3>1, <3>2, <3>4, Zenon
    <2> QED BY <1>3, <2>1, <2>2, <2>3
  <1>8. cur' = 1 /\ g_connected' => OnTheWay' = built'
    <2> SUFFICES ASSUME cur' = 1, g_connected' PROVE OnTheWay' = built'
      OBVIOUS
    <2>1. OnTheWay = built
      BY <1>5, <1>6, ConnStep, Zenon
    <2>2. CASE Kept
      BY <2>1, <2>2 DEF Kept
    <2>3. CASE Joined
      BY <2>1, <2>3 DEF Joined
    <2>4. CASE Dropped
      BY <2>4 DEF Dropped
    <2> QED BY <1>3, <2>2, <2>3, <2>4
  <1> QED BY <1>1, <1>2, <1>7, <1>8 DEF Delivery, Carries, Embeds

\* The inductive invariant of the answers' way.
THEOREM DeliveryInductive == Spec => [](Types /\ Session /\ LoopInv /\ Delivery)
  <1>1. Init => Delivery
    <2> SUFFICES ASSUME Init PROVE Delivery
      OBVIOUS
    <2>1. emitted = << >> /\ held = << >> /\ ready = << >> /\ g_tm_q = << >> /\ replies = << >>
          /\ built = << >> /\ g_tc_q = << >> /\ pushing = << >> /\ ~g_connected
      BY DEF Init, None
    <2>2. emitted \in Seq(Tms) /\ Len(held) <= 1 /\ Carries(ready)
      BY <2>1 DEF Carries
    <2>3. OnTheWay = << >>
      <3>1. Select(ready, Sends) = << >>
        BY <2>1, SelectEmpty, Zenon
      <3>2. TmsIn(<< >>) = << >>
        BY DEF TmsIn
      <3>3. Posted(ready) = << >>
        BY <3>1, <3>2, Zenon DEF Posted
      <3> QED BY <2>1, <3>3 DEF OnTheWay
    <2>4. Embeds(<< >>, << >>)
      <3> DEFINE z == << >>
                 f == [i \in DOMAIN z |-> i]
      <3>1. f \in [DOMAIN z -> DOMAIN z] /\ DOMAIN z = {}
        OBVIOUS
      <3> HIDE DEF z, f
      <3>2. Embeds(z, z)
        BY <3>1 DEF Embeds
      <3> QED BY <3>2 DEF z
    <2> QED BY <2>1, <2>2, <2>3, <2>4 DEF Delivery
  <1>2. Types /\ Session /\ LoopInv /\ Delivery /\ [Next]_vars
          => (Types /\ Session /\ LoopInv /\ Delivery)'
    BY TypesStep, SessionStep, LoopStep, DeliveryStep
  <1>3. Init => Types /\ Session
    BY InitTypes
  <1>4. Init => LoopInv
    BY LoopAtStart
  <1> QED BY <1>1, <1>2, <1>3, <1>4, PTL DEF Spec

\* Every variable of the simulator and every element of its queues keeps its type
\* on the way through the three threads: the queues their capacities, tm_seq its
\* field, and the transmit task never posts a TM it does not hold.
THEOREM TypeCorrect == Spec => []TypeOK
  <1>1. Types /\ Delivery => TypeOK
    BY DEF Delivery, TypeOK
  <1> QED BY <1>1, DeliveryInductive, PTL

\* Answers keep the order in which the dispatch task built them, through two
\* bounded queues, a task that holds one and lambdas posted to the io thread; in
\* the first session none is lost, and a disconnection only leaves gaps.
THEOREM AnswersConserved == Spec => []RepliesConserved
  <1>1. Types /\ Delivery => RepliesConserved
    <2> SUFFICES ASSUME Types, Delivery PROVE RepliesConserved
      OBVIOUS
    <2> DEFINE all == emitted \o InTransit
               pos == [i \in DOMAIN all |-> {j \in DOMAIN built : built[j] = all[i]}]
    <2>1. InTransit = Posted(ready) \o held \o g_tm_q \o replies
      BY DEF InTransit, Posted, TmsIn, Sends
    <2>2. all = OnTheWay
      <3> DEFINE p == Posted(ready)
      <3>1. emitted \in Seq(Tms) /\ p \in Seq(Tms) /\ held \in Seq(Tms) /\ g_tm_q \in Seq(Tms)
            /\ replies \in Seq(Tms)
        BY WayTypes
      <3> HIDE DEF p
      <3>2. Regrouped(emitted, p, held, g_tm_q, replies)
        BY <3>1, WayAssoc, Zenon
      <3>3. emitted \o p \o held \o g_tm_q \o replies = emitted \o (p \o held \o g_tm_q \o replies)
        BY <3>2, Zenon DEF Regrouped
      <3> QED BY <2>1, <3>3, Zenon DEF OnTheWay, p
    <2>3. cur = 1 /\ g_connected => all = built
      BY <2>2 DEF Delivery
    <2>4. Embeds(all, built)
      BY <2>2 DEF Delivery
    <2>5. all \in Seq(Tms) /\ built \in Seq(Tms)
      BY <2>2, WayTypes
    <2> HIDE DEF all
    <2>6. DOMAIN all \subseteq Nat /\ DOMAIN built \subseteq Nat
      BY <2>5
    <2>7. PICK f \in [DOMAIN all -> DOMAIN built] :
              /\ \A i \in DOMAIN all : built[f[i]] = all[i]
              /\ \A i, j \in DOMAIN all : i < j => f[i] < f[j]
      BY <2>4, Zenon DEF Embeds
    <2>8. \A i \in DOMAIN all : f[i] \in pos[i]
      BY <2>7
    <2> HIDE DEF pos
    <2>9. \A i \in DOMAIN all : pos[i] # {}
      BY <2>8
    <2>10. \A i, j \in DOMAIN all : i < j => \E a \in pos[i], b \in pos[j] : a < b
      BY <2>7, <2>8, Zenon
    <2> QED BY <2>3, <2>9, <2>10, Zenon DEF RepliesConserved, all, pos
  <1> QED BY <1>1, DeliveryInductive, PTL

------------------------------------------------------------------------------
(* The numbers of the telecommands on their way to the dispatch task.       *)

\* Telecommands in the order they were sent, and all of s before all of t.
Inc(s) == \A i, j \in DOMAIN s : i < j => s[i].id < s[j].id
Before(s, t) == \A i \in DOMAIN s : \A j \in DOMAIN t : s[i].id < t[j].id

\* They are telecommands that were sent, as they were sent.
Genuine(s, sent) ==
    \A i \in DOMAIN s : s[i].id \in DOMAIN sent
                        /\ s[i].req = sent[s[i].id].req /\ s[i].acks = sent[s[i].id].acks

\* None of them, nor any sent before the ones answered, is answered yet.
Unanswered(s, tms) == \A b \in DOMAIN tms : \A i \in DOMAIN s : tms[b].tc < s[i].id

Good(s, sent, tms) == Inc(s) /\ Genuine(s, sent) /\ Unanswered(s, tms)

\* The queue, the rest of a read, a read that is queued and an unread line.
Chain(g, p, t, l, sent, tms) ==
    /\ Good(g, sent, tms) /\ Good(p, sent, tms) /\ Good(t, sent, tms) /\ Good(l, sent, tms)
    /\ Before(g, p) /\ Before(g, t) /\ Before(g, l)
    /\ Before(p, t) /\ Before(p, l) /\ Before(t, l)

Reads == {<< >>} \union {ready[i].tcs : i \in DOMAIN ready}
Lines == {<< >>} \union {conns[j].line : j \in {i \in DOMAIN conns : i >= cur}}

\* No telecommand is at two places, and none overtakes another.
Numbers ==
    /\ \A t \in Reads : \A l \in Lines : Chain(g_tc_q, pushing, t, l, asked, built)
    /\ \A i, j \in DOMAIN conns : cur <= i /\ i < j => Before(conns[i].line, conns[j].line)
    /\ \A i \in DOMAIN ready : ready[i].kind # "read" => ready[i].tcs = << >>
    /\ \A b \in DOMAIN built : built[b].tc \in DOMAIN asked

\* The TMs that answer telecommand k, and the answers it should get, as far as
\* they go.
Of(k) == {tm \in Tms : tm.tc = k}
Begins(m, ans) == Len(m) <= Len(ans) /\ \A i \in DOMAIN m : m[i].what = ans[i]

Verified == \A k \in DOMAIN asked : Begins(Select(built, Of(k)), Answers(asked[k]))

\* Every element of two queues is an element of one of them.
LEMMA ConcatParts ==
    ASSUME NEW S, NEW a \in Seq(S), NEW b \in Seq(S)
    PROVE  /\ \A i \in DOMAIN (a \o b) :
                \/ i \in DOMAIN a /\ (a \o b)[i] = a[i]
                \/ \E k \in DOMAIN b : i = Len(a) + k /\ (a \o b)[i] = b[k]
           /\ \A i \in DOMAIN a : i \in DOMAIN (a \o b) /\ (a \o b)[i] = a[i]
           /\ \A k \in DOMAIN b : Len(a) + k \in DOMAIN (a \o b) /\ (a \o b)[Len(a) + k] = b[k]
  <1> DEFINE m == Len(a)
             n == Len(b)
             c == a \o b
  <1>1. /\ m \in Nat /\ n \in Nat /\ DOMAIN a = 1 .. m /\ DOMAIN b = 1 .. n
        /\ DOMAIN c = 1 .. m + n
        /\ \A i \in 1 .. m : c[i] = a[i]
        /\ \A i \in 1 .. n : c[m + i] = b[i]
    BY ConcatElements
  <1> HIDE DEF m, n, c
  <1>2. ASSUME NEW i \in 1 .. m + n
        PROVE  (i \in 1 .. m /\ c[i] = a[i]) \/ \E k \in 1 .. n : i = m + k /\ c[i] = b[k]
    <2>1. CASE i <= m
      BY <1>1, <2>1
    <2>2. CASE ~(i <= m)
      <3>1. i - m \in 1 .. n /\ i = m + (i - m)
        BY <1>1, <2>2
      <3>2. PICK k \in 1 .. n : i = m + k
        BY <3>1
      <3> QED BY <1>1, <3>2
    <2> QED BY <2>1, <2>2
  <1>3. \A i \in 1 .. m : i \in 1 .. m + n
    BY <1>1
  <1>4. \A k \in 1 .. n : m + k \in 1 .. m + n
    BY <1>1
  <1>5. /\ \A i \in DOMAIN c : \/ i \in DOMAIN a /\ c[i] = a[i]
                               \/ \E k \in DOMAIN b : i = m + k /\ c[i] = b[k]
        /\ \A i \in DOMAIN a : i \in DOMAIN c /\ c[i] = a[i]
        /\ \A k \in DOMAIN b : m + k \in DOMAIN c /\ c[m + k] = b[k]
    BY <1>1, <1>2, <1>3, <1>4
  <1> QED BY <1>5 DEF m, c

\* Before, of queues behind one another.
LEMMA BeforeConcat ==
    ASSUME NEW a \in Seq(Packets), NEW b \in Seq(Packets), NEW c \in Seq(Packets)
    PROVE  /\ Before(a \o b, c) <=> Before(a, c) /\ Before(b, c)
           /\ Before(c, a \o b) <=> Before(c, a) /\ Before(c, b)
  <1> DEFINE d == a \o b
             m == Len(a)
  <1>1. /\ \A i \in DOMAIN d : \/ i \in DOMAIN a /\ d[i] = a[i]
                               \/ \E k \in DOMAIN b : i = m + k /\ d[i] = b[k]
        /\ \A i \in DOMAIN a : i \in DOMAIN d /\ d[i] = a[i]
        /\ \A k \in DOMAIN b : m + k \in DOMAIN d /\ d[m + k] = b[k]
    BY ConcatParts
  <1> HIDE DEF d, m
  <1>2. Before(d, c) <=> Before(a, c) /\ Before(b, c)
    BY <1>1, Zenon DEF Before
  <1>3. Before(c, d) <=> Before(c, a) /\ Before(c, b)
    BY <1>1, Zenon DEF Before
  <1> QED BY <1>2, <1>3 DEF d

\* Good, of queues behind one another.
LEMMA GoodConcat ==
    ASSUME NEW a \in Seq(Packets), NEW b \in Seq(Packets), NEW sent, NEW tms
    PROVE  Good(a \o b, sent, tms) <=> Good(a, sent, tms) /\ Good(b, sent, tms) /\ Before(a, b)
  <1> DEFINE d == a \o b
             m == Len(a)
  <1>0. m \in Nat /\ DOMAIN a = 1 .. m /\ DOMAIN b \subseteq Nat \ {0} /\ DOMAIN d \subseteq Nat
    BY ConcatElements
  <1>1. /\ \A i \in DOMAIN d : \/ i \in DOMAIN a /\ d[i] = a[i]
                               \/ \E k \in DOMAIN b : i = m + k /\ d[i] = b[k]
        /\ \A i \in DOMAIN a : i \in DOMAIN d /\ d[i] = a[i]
        /\ \A k \in DOMAIN b : m + k \in DOMAIN d /\ d[m + k] = b[k]
    BY ConcatParts
  <1> HIDE DEF d, m
  <1>2. Genuine(d, sent) <=> Genuine(a, sent) /\ Genuine(b, sent)
    <2> DEFINE G(x) == x.id \in DOMAIN sent /\ x.req = sent[x.id].req /\ x.acks = sent[x.id].acks
    <2>1. \A s : Genuine(s, sent) <=> \A i \in DOMAIN s : G(s[i])
      BY Zenon DEF Genuine
    <2> HIDE DEF G
    <2>2. (\A i \in DOMAIN d : G(d[i])) <=> (\A i \in DOMAIN a : G(a[i])) /\ (\A i \in DOMAIN b : G(b[i]))
      BY <1>1, Zenon
    <2> QED BY <2>1, <2>2, Zenon
  <1>3. Unanswered(d, tms) <=> Unanswered(a, tms) /\ Unanswered(b, tms)
    BY <1>1, Zenon DEF Unanswered
  <1>4. ASSUME Inc(d) PROVE Inc(a) /\ Inc(b) /\ Before(a, b)
    <2>1. Inc(a)
      BY <1>1, <1>4, Zenon DEF Inc
    <2>2. ASSUME NEW i \in DOMAIN b, NEW j \in DOMAIN b, i < j PROVE b[i].id < b[j].id
      <3>1. m + i < m + j
        BY <1>0, <2>2
      <3> QED BY <1>1, <1>4, <3>1, Zenon DEF Inc
    <2>3. ASSUME NEW i \in DOMAIN a, NEW j \in DOMAIN b PROVE a[i].id < b[j].id
      <3>1. i < m + j
        BY <1>0
      <3> QED BY <1>1, <1>4, <3>1, Zenon DEF Inc
    <2> QED BY <2>1, <2>2, <2>3, Zenon DEF Inc, Before
  <1>5. ASSUME Inc(a), Inc(b), Before(a, b) PROVE Inc(d)
    <2> SUFFICES ASSUME NEW i \in DOMAIN d, NEW j \in DOMAIN d, i < j PROVE d[i].id < d[j].id
      BY Zenon DEF Inc
    <2>1. CASE i \in DOMAIN a /\ j \in DOMAIN a
      BY <1>1, <1>5, <2>1, Zenon DEF Inc
    <2>2. CASE i \in DOMAIN a /\ \E k \in DOMAIN b : j = m + k /\ d[j] = b[k]
      BY <1>1, <1>5, <2>2, Zenon DEF Before
    <2>3. CASE (\E k \in DOMAIN b : i = m + k) /\ j \in DOMAIN a
      BY <1>0, <2>3
    <2>4. CASE (\E k \in DOMAIN b : i = m + k /\ d[i] = b[k]) /\ \E k \in DOMAIN b : j = m + k /\ d[j] = b[k]
      <3>1. PICK k \in DOMAIN b : i = m + k /\ d[i] = b[k]
        BY <2>4
      <3>2. PICK n \in DOMAIN b : j = m + n /\ d[j] = b[n]
        BY <2>4
      <3>3. k < n
        BY <1>0, <3>1, <3>2
      <3> QED BY <1>5, <3>1, <3>2, <3>3, Zenon DEF Inc
    <2> QED BY <1>1, <2>1, <2>2, <2>3, <2>4, Zenon
  <1>6. Inc(d) <=> Inc(a) /\ Inc(b) /\ Before(a, b)
    BY <1>4, <1>5
  <1>7. Good(d, sent, tms) <=> Good(a, sent, tms) /\ Good(b, sent, tms) /\ Before(a, b)
    BY <1>2, <1>3, <1>6, Zenon DEF Good
  <1> QED BY <1>7 DEF d

\* The order of the pipeline, as it is moved along or shortened.
LEMMA ChainMoves ==
    ASSUME NEW g \in Seq(Packets), NEW u \in Seq(Packets), NEW p \in Seq(Packets),
           NEW t \in Seq(Packets), NEW l \in Seq(Packets), NEW sent, NEW tms
    PROVE  /\ Chain(g, u \o p, t, l, sent, tms) => Chain(g \o u, p, t, l, sent, tms)
           /\ Chain(g, u \o p, t, l, sent, tms) => Chain(g, p, t, l, sent, tms)
           /\ Chain(g, p, << >>, u \o l, sent, tms) => Chain(g, p, u, l, sent, tms)
           /\ Chain(g, p, t, u \o l, sent, tms) => Chain(g, p, t, l, sent, tms)
           /\ Chain(g, p, t, u \o l, sent, tms) => Chain(g, p, t, u, sent, tms)
           /\ Chain(g, p, t, l, sent, tms) => Chain(g, t, << >>, l, sent, tms)
  <1> DEFINE G(s) == Good(s, sent, tms)
  <1>1. ASSUME NEW a \in Seq(Packets), NEW b \in Seq(Packets), NEW c \in Seq(Packets)
        PROVE  /\ Before(a \o b, c) <=> Before(a, c) /\ Before(b, c)
               /\ Before(c, a \o b) <=> Before(c, a) /\ Before(c, b)
               /\ G(a \o b) <=> G(a) /\ G(b) /\ Before(a, b)
    BY <1>1, BeforeConcat, GoodConcat
  <1>2. \A s : Before(s, << >>) /\ Before(<< >>, s)
    BY DEF Before
  <1>3. G(<< >>)
    BY DEF Good, Inc, Genuine, Unanswered
  <1>4. \A x, y, z, w : Chain(x, y, z, w, sent, tms) <=>
            /\ G(x) /\ G(y) /\ G(z) /\ G(w)
            /\ Before(x, y) /\ Before(x, z) /\ Before(x, w)
            /\ Before(y, z) /\ Before(y, w) /\ Before(z, w)
    BY Zenon DEF Chain
  <1> HIDE DEF G
  <1> DEFINE C(x, y, z, w) == Chain(x, y, z, w, sent, tms)
  <1>5. C(g, u \o p, t, l) => C(g \o u, p, t, l)
    BY <1>1, <1>4
  <1>6. C(g, u \o p, t, l) => C(g, p, t, l)
    BY <1>1, <1>4
  <1>7. C(g, p, << >>, u \o l) => C(g, p, u, l)
    BY <1>1, <1>4
  <1>8. C(g, p, t, u \o l) => C(g, p, t, l)
    BY <1>1, <1>4
  <1>9. C(g, p, t, u \o l) => C(g, p, t, u)
    BY <1>1, <1>4
  <1>10. C(g, p, t, l) => C(g, t, << >>, l)
    BY <1>2, <1>3, <1>4
  <1> QED BY <1>5, <1>6, <1>7, <1>8, <1>9, <1>10

\* The daemon sends one more: it comes after all the others.
LEMMA ChainSend ==
    ASSUME NEW sent \in Seq(TcSet), NEW tc \in TcSet, NEW tms \in Seq(Tms),
           \A b \in DOMAIN tms : tms[b].tc \in DOMAIN sent,
           NEW g \in Seq(Packets), NEW p \in Seq(Packets), NEW t \in Seq(Packets),
           NEW l \in Seq(Packets), Chain(g, p, t, l, sent, tms),
           NEW x \in Packets, x.req = tc.req, x.acks = tc.acks, x.id = Len(sent) + 1
    PROVE  /\ Chain(g, p, t, l, Append(sent, tc), tms)
           /\ Chain(g, p, t, Append(l, x), Append(sent, tc), tms)
           /\ \A s \in Seq(Packets) : Good(s, sent, tms) => Before(s, <<x>>)
  <1> DEFINE a == Append(sent, tc)
             n == Len(sent)
             o == <<x>>
  <1>1. n \in Nat /\ DOMAIN sent = 1 .. n /\ DOMAIN a = 1 .. n + 1 /\ a[n + 1] = tc
        /\ \A i \in 1 .. n : a[i] = sent[i]
    BY AppendProperties, LenProperties
  <1>2. o \in Seq(Packets) /\ DOMAIN o = {1} /\ o[1] = x
    OBVIOUS
  <1>3. x.id = n + 1
    OBVIOUS
  <1> HIDE DEF a, n, o
  <1>4. ASSUME NEW s \in Seq(Packets), Good(s, sent, tms)
        PROVE  Good(s, a, tms) /\ Before(s, o)
    <2>1. \A i \in DOMAIN s : /\ s[i].id \in 1 .. n
                              /\ s[i].req = sent[s[i].id].req /\ s[i].acks = sent[s[i].id].acks
      BY <1>1, <1>4 DEF Good, Genuine
    <2>2. \A i \in DOMAIN s : /\ s[i].id \in DOMAIN a
                              /\ s[i].req = a[s[i].id].req /\ s[i].acks = a[s[i].id].acks
      BY <1>1, <2>1
    <2>3. \A i \in DOMAIN s : s[i].id < x.id
      BY <1>1, <1>3, <2>1
    <2>4. Genuine(s, a)
      BY <2>2, Zenon DEF Genuine
    <2>5. Before(s, o)
      BY <1>2, <2>3 DEF Before
    <2> QED BY <1>4, <2>4, <2>5, Zenon DEF Good
  <1>5. Good(o, a, tms)
    <2>1. Inc(o)
      BY <1>2 DEF Inc
    <2>2. Genuine(o, a)
      BY <1>1, <1>2, <1>3 DEF Genuine
    <2>3. Unanswered(o, tms)
      BY <1>1, <1>2, <1>3 DEF Unanswered
    <2> QED BY <2>1, <2>2, <2>3, Zenon DEF Good
  <1>6. /\ Good(g, sent, tms) /\ Good(p, sent, tms) /\ Good(t, sent, tms) /\ Good(l, sent, tms)
        /\ Before(g, p) /\ Before(g, t) /\ Before(g, l)
        /\ Before(p, t) /\ Before(p, l) /\ Before(t, l)
    BY DEF Chain
  <1>7. /\ Good(g, a, tms) /\ Good(p, a, tms) /\ Good(t, a, tms) /\ Good(l, a, tms)
        /\ Before(g, o) /\ Before(p, o) /\ Before(t, o) /\ Before(l, o)
    BY <1>4, <1>6
  <1>8. Good(l \o o, a, tms)
    BY <1>2, <1>5, <1>7, GoodConcat, Zenon
  <1>9. Before(g, l \o o) /\ Before(p, l \o o) /\ Before(t, l \o o)
    BY <1>2, <1>6, <1>7, BeforeConcat, Zenon
  <1>10. Append(l, x) = l \o o
    BY DEF o
  <1>11. Chain(g, p, t, l, a, tms)
    BY <1>6, <1>7, Zenon DEF Chain
  <1>12. Chain(g, p, t, l \o o, a, tms)
    BY <1>6, <1>7, <1>8, <1>9, Zenon DEF Chain
  <1> QED BY <1>4, <1>10, <1>11, <1>12 DEF a, o

\* The dispatch task answers the oldest: the others come after it.
LEMMA ChainDispatch ==
    ASSUME NEW sent, NEW tms \in Seq(Tms), NEW b \in Seq(Tms), NEW h \in Packets,
           \A i \in DOMAIN b : b[i].tc = h.id,
           NEW g \in Seq(Packets), NEW p \in Seq(Packets), NEW t \in Seq(Packets),
           NEW l \in Seq(Packets), Chain(<<h>> \o g, p, t, l, sent, tms)
    PROVE  Chain(g, p, t, l, sent, tms \o b)
  <1> DEFINE o == <<h>>
             d == tms \o b
  <1>1. o \in Seq(Packets) /\ DOMAIN o = {1} /\ o[1] = h
    OBVIOUS
  <1>2. \A i \in DOMAIN d : \/ i \in DOMAIN tms /\ d[i] = tms[i]
                            \/ \E k \in DOMAIN b : i = Len(tms) + k /\ d[i] = b[k]
    BY ConcatParts
  <1>3. Chain(o \o g, p, t, l, sent, tms)
    OBVIOUS
  <1> HIDE DEF o, d
  <1>4. ASSUME NEW s \in Seq(Packets), Good(s, sent, tms), Before(o, s)
        PROVE  Good(s, sent, d)
    <2>1. \A i \in DOMAIN s : h.id < s[i].id
      BY <1>1, <1>4 DEF Before
    <2>2. \A i \in DOMAIN b : \A j \in DOMAIN s : b[i].tc < s[j].id
      BY <2>1
    <2>3. Unanswered(s, d)
      <3>1. Unanswered(s, tms)
        BY <1>4 DEF Good
      <3> QED BY <1>2, <2>2, <3>1, Zenon DEF Unanswered
    <2> QED BY <1>4, <2>3, Zenon DEF Good
  <1>5. /\ Good(o \o g, sent, tms) /\ Good(p, sent, tms) /\ Good(t, sent, tms) /\ Good(l, sent, tms)
        /\ Before(o \o g, p) /\ Before(o \o g, t) /\ Before(o \o g, l)
        /\ Before(p, t) /\ Before(p, l) /\ Before(t, l)
    BY <1>3, Zenon DEF Chain
  <1>6. Good(g, sent, tms) /\ Before(o, g)
    BY <1>1, <1>5, GoodConcat, Zenon
  <1>7. /\ Before(o, p) /\ Before(o, t) /\ Before(o, l)
        /\ Before(g, p) /\ Before(g, t) /\ Before(g, l)
    BY <1>1, <1>5, BeforeConcat, Zenon
  <1>8. Good(g, sent, d) /\ Good(p, sent, d) /\ Good(t, sent, d) /\ Good(l, sent, d)
    BY <1>4, <1>5, <1>6, <1>7
  <1>9. Chain(g, p, t, l, sent, d)
    BY <1>5, <1>7, <1>8, Zenon DEF Chain
  <1> QED BY <1>9 DEF d

\* Reads and lines are sequences of telecommands.
LEMMA ReadTypes ==
    ASSUME Types
    PROVE  Reads \subseteq Seq(Packets) /\ Lines \subseteq Seq(Packets)
  <1>1. \A i \in DOMAIN ready : ready[i] \in Handlers
    BY DEF Types
  <1>2. \A i \in DOMAIN ready : ready[i].tcs \in Seq(Packets)
    BY <1>1 DEF Handlers
  <1>3. \A i \in DOMAIN conns : conns[i] \in Conns
    BY DEF Types
  <1>4. \A i \in DOMAIN conns : conns[i].line \in Seq(Packets)
    BY <1>3 DEF Conns
  <1>5. << >> \in Seq(Packets)
    OBVIOUS
  <1> QED BY <1>2, <1>4, <1>5 DEF Reads, Lines

\* The reads of a queue that grows or shrinks.
LEMMA ReadsStep ==
    ASSUME Types
    PROVE  /\ \A h \in Handlers : ready' = Append(ready, h) => Reads' \subseteq Reads \union {h.tcs}
           /\ ready # << >> /\ ready' = Tail(ready) => Reads' \subseteq Reads
           /\ ready' = ready => Reads' = Reads
  <1>0. ready \in Seq(Handlers)
    BY DEF Types
  <1>1. ASSUME NEW h \in Handlers, ready' = Append(ready, h) PROVE Reads' \subseteq Reads \union {h.tcs}
    <2>1. \A i \in DOMAIN ready' : ready'[i] = h \/ (i \in DOMAIN ready /\ ready'[i] = ready[i])
      BY <1>0, <1>1
    <2> QED BY <2>1 DEF Reads
  <1>2. ASSUME ready # << >>, ready' = Tail(ready) PROVE Reads' \subseteq Reads
    <2>1. \A i \in DOMAIN ready' : i + 1 \in DOMAIN ready /\ ready'[i] = ready[i + 1]
      BY <1>0, <1>2, QueueStep
    <2> QED BY <2>1 DEF Reads
  <1> QED BY <1>1, <1>2 DEF Reads

\* Every answer that build_tm makes names its telecommand.
LEMMA BuildOf ==
    ASSUME NEW tc, NEW refused
    PROVE  \A i \in DOMAIN Build(tc, refused) : Build(tc, refused)[i].tc = tc.id
  BY DEF Build

\* A line that grows or shrinks leaves the others alone.
LEMMA LineUpdate ==
    ASSUME Types, NEW c \in DOMAIN conns, NEW s,
           conns' = [conns EXCEPT ![c].line = s]
    PROVE  DOMAIN conns' = DOMAIN conns
           /\ \A j \in DOMAIN conns : conns'[j].line = IF j = c THEN s ELSE conns[j].line
  <1>1. \A j \in DOMAIN conns : conns[j] \in Conns
    BY DEF Types
  <1> QED BY <1>1 DEF Conns

\* A read takes the first n telecommands off the line.
LEMMA LineSplit ==
    ASSUME NEW S, NEW l \in Seq(S), NEW n \in 1 .. Len(l)
    PROVE  /\ SubSeq(l, 1, n) \in Seq(S) /\ SubSeq(l, n + 1, Len(l)) \in Seq(S)
           /\ l = SubSeq(l, 1, n) \o SubSeq(l, n + 1, Len(l))
  <1> DEFINE m == Len(l)
             a == SubSeq(l, 1, n)
             b == SubSeq(l, n + 1, m)
  <1>1. m \in Nat /\ n \in 1 .. m /\ DOMAIN l = 1 .. m
    BY LenProperties
  <1>2. a \in Seq(S) /\ Len(a) = n /\ \A i \in 1 .. n : a[i] = l[i]
    BY <1>1, SubSeqProperties
  <1>3. b \in Seq(S) /\ Len(b) = m - n /\ \A i \in 1 .. m - n : b[i] = l[n + i]
    <2>1. n + 1 \in Int /\ m \in Int /\ \A i \in n + 1 .. m : l[i] \in S
      BY <1>1
    <2> HIDE DEF m
    <2>2. /\ b \in Seq(S) /\ Len(b) = (IF n + 1 <= m THEN m - (n + 1) + 1 ELSE 0)
          /\ \A i \in 1 .. m - (n + 1) + 1 : b[i] = l[(n + 1) + i - 1]
      BY <2>1, SubSeqProperties, SMTT(30)
    <2> HIDE DEF b
    <2>3. m - (n + 1) + 1 = m - n /\ \A i \in 1 .. m - n : (n + 1) + i - 1 = n + i
      BY <1>1
    <2>4. Len(b) = m - n
      BY <1>1, <2>2
    <2> QED BY <2>2, <2>3, <2>4, Zenon
  <1> DEFINE c == a \o b
  <1> HIDE DEF a, b, m
  <1>4. /\ c \in Seq(S) /\ Len(c) = n + (m - n)
        /\ \A i \in 1 .. n : c[i] = a[i]
        /\ \A i \in 1 .. m - n : c[n + i] = b[i]
    <2>1. a \in Seq(S) /\ b \in Seq(S)
      BY <1>2, <1>3
    <2>2. /\ a \o b \in Seq(S) /\ Len(a \o b) = Len(a) + Len(b)
          /\ \A i \in 1 .. Len(a) : (a \o b)[i] = a[i]
          /\ \A i \in 1 .. Len(b) : (a \o b)[Len(a) + i] = b[i]
      BY <2>1, ConcatElements
    <2>3. Len(a) = n /\ Len(b) = m - n
      BY <1>2, <1>3
    <2> QED BY <2>2, <2>3, Zenon
  <1> HIDE DEF c
  <1>5. ASSUME NEW i \in 1 .. m PROVE c[i] = l[i]
    <2>1. CASE i <= n
      BY <1>1, <1>2, <1>4, <2>1
    <2>2. CASE ~(i <= n)
      <3>1. i - n \in 1 .. m - n /\ i = n + (i - n)
        BY <1>1, <2>2
      <3>2. PICK k \in 1 .. m - n : i = n + k
        BY <3>1
      <3> QED BY <1>3, <1>4, <3>2
    <2> QED BY <2>1, <2>2
  <1>6. Len(c) = m
    BY <1>1, <1>4
  <1>7. c = l
    BY <1>1, <1>4, <1>5, <1>6, SeqEqual DEF m
  <1> QED BY <1>2, <1>3, <1>7 DEF a, b, c, m

\* Sending: the new telecommand joins the line of the last connection.
LEMMA ChainAtSend ==
    ASSUME Types, Numbers, NEW tc \in Tcs, Send(tc)
    PROVE  /\ \A t \in Reads' : \A l \in Lines' : Chain(g_tc_q', pushing', t, l, asked', built')
           /\ \A i, j \in DOMAIN conns' : cur' <= i /\ i < j => Before(conns'[i].line, conns'[j].line)
           /\ \A b \in DOMAIN built' : built'[b].tc \in DOMAIN asked'
  <1> DEFINE c == Len(conns)
             x == [req |-> tc.req, acks |-> tc.acks, id |-> Len(asked) + 1]
             a == Append(asked, tc)
  <1>1. /\ conns # << >> /\ conns' = [conns EXCEPT ![c].line = Append(conns[c].line, x)]
        /\ asked' = a
        /\ UNCHANGED <<g_tc_q, pushing, built, ready, cur>>
    BY DEF Send, sessionVars, dispatchVars
  <1>2. c \in DOMAIN conns /\ c \in Nat /\ DOMAIN conns = 1 .. c /\ cur \in Nat /\ cur <= c
    BY <1>1 DEF Types
  <1>3. tc \in TcSet /\ asked \in Seq(TcSet) /\ Len(asked) \in Nat /\ built \in Seq(Tms)
        /\ g_tc_q \in Seq(Packets) /\ pushing \in Seq(Packets)
    BY TcsAssumption DEF Types
  <1>4. x \in Packets /\ x.req = tc.req /\ x.acks = tc.acks /\ x.id = Len(asked) + 1
    BY <1>3 DEF Packets, TcSet
  <1>5. DOMAIN conns' = DOMAIN conns
        /\ \A j \in DOMAIN conns :
              conns'[j].line = IF j = c THEN Append(conns[c].line, x) ELSE conns[j].line
    <2> DEFINE s == Append(conns[c].line, x)
    <2>1. conns' = [conns EXCEPT ![c].line = s]
      BY <1>1
    <2> HIDE DEF s
    <2> QED BY <1>2, <2>1, LineUpdate DEF s
  <1>6. Reads' = Reads /\ Reads \subseteq Seq(Packets) /\ Lines \subseteq Seq(Packets)
        /\ << >> \in Reads
    BY <1>1, ReadTypes, ReadsStep DEF Reads
  <1>7. \A b \in DOMAIN built : built[b].tc \in DOMAIN asked
    BY DEF Numbers
  <1> HIDE DEF x, c
  <1>8. conns[c].line \in Lines
    BY <1>2 DEF Lines
  <1>9. Lines' \subseteq Lines \union {Append(conns[c].line, x)}
    BY <1>1, <1>5 DEF Lines
  <1>10. ASSUME NEW t \in Reads, NEW l \in Lines
         PROVE  /\ Chain(g_tc_q, pushing, t, l, a, built)
                /\ Chain(g_tc_q, pushing, t, Append(l, x), a, built)
                /\ \A s \in Seq(Packets) : Good(s, asked, built) => Before(s, <<x>>)
    <2>1. Chain(g_tc_q, pushing, t, l, asked, built)
      BY <1>10 DEF Numbers
    <2>2. t \in Seq(Packets) /\ l \in Seq(Packets)
      BY <1>6
    <2> HIDE DEF a
    <2> QED BY <1>3, <1>4, <1>7, <2>1, <2>2, ChainSend DEF a
  <1>11. \A t \in Reads' : \A l \in Lines' : Chain(g_tc_q', pushing', t, l, asked', built')
    <2> SUFFICES ASSUME NEW t \in Reads, NEW l \in Lines'
                 PROVE  Chain(g_tc_q, pushing, t, l, a, built)
      BY <1>1, <1>6
    <2> QED BY <1>8, <1>9, <1>10
  <1>12. ASSUME NEW i \in DOMAIN conns, NEW j \in DOMAIN conns, cur <= i, i < j
         PROVE  Before(conns'[i].line, conns'[j].line)
    <2>1. Before(conns[i].line, conns[j].line)
      BY <1>12 DEF Numbers
    <2>2. i # c /\ conns'[i].line = conns[i].line
      BY <1>2, <1>5, <1>12
    <2>3. CASE j # c
      BY <1>5, <2>1, <2>2, <2>3
    <2>4. CASE j = c
      <3> DEFINE y == conns[i].line
                 l == conns[j].line
      <3>1. y \in Lines /\ l \in Lines
        BY <1>12, <1>2 DEF Lines
      <3>2. y \in Seq(Packets) /\ l \in Seq(Packets)
        BY <1>6, <3>1
      <3>3. Good(y, asked, built)
        <4>1. Chain(g_tc_q, pushing, << >>, y, asked, built)
          BY <1>6, <3>1, Zenon DEF Numbers
        <4> QED BY <4>1, Zenon DEF Chain
      <3>4. Before(y, <<x>>)
        BY <1>6, <1>10, <3>1, <3>2, <3>3, Zenon
      <3>5. <<x>> \in Seq(Packets)
        BY <1>4
      <3> HIDE DEF y, l
      <3>6. Before(y, l)
        BY <2>1 DEF y, l
      <3>7. Before(y, l \o <<x>>)
        BY <3>2, <3>4, <3>5, <3>6, BeforeConcat, Zenon
      <3>8. Append(l, x) = l \o <<x>>
        BY <1>4, <3>2
      <3> QED BY <1>5, <2>2, <2>4, <3>7, <3>8 DEF y, l
    <2> QED BY <2>3, <2>4
  <1>13. \A b \in DOMAIN built : built[b].tc \in DOMAIN a
    BY <1>3, <1>7
  <1> QED BY <1>1, <1>5, <1>11, <1>12, <1>13

\* Reading: the first telecommands of the line become a queued handler's.
LEMMA ChainAtRead ==
    ASSUME Types, Session, Numbers, NEW n \in 1 .. MaxTcs, ReadCompletes(n)
    PROVE  /\ \A t \in Reads' : \A l \in Lines' : Chain(g_tc_q', pushing', t, l, asked', built')
           /\ \A i, j \in DOMAIN conns' : cur' <= i /\ i < j => Before(conns'[i].line, conns'[j].line)
  <1> DEFINE k == conns[cur].line
             x == SubSeq(k, 1, n)
             y == SubSeq(k, n + 1, Len(k))
             h == [Handler("read", "ok") EXCEPT !.tcs = x]
  <1>1. cur \in DOMAIN conns /\ h \in Handlers
    BY ReadHandler
  <1>2. /\ ready' = Append(ready, h) /\ n \in 1 .. Len(k)
        /\ conns' = [conns EXCEPT ![cur].line = y]
        /\ UNCHANGED <<g_tc_q, pushing, asked, built, cur>>
    BY DEF ReadCompletes, Completes, dispatchVars
  <1>3. h.tcs = x
    BY DEF Handler
  <1>4. k \in Lines
    BY <1>1 DEF Lines, Types
  <1>5. Reads \subseteq Seq(Packets) /\ Lines \subseteq Seq(Packets) /\ << >> \in Reads /\ << >> \in Lines
    BY ReadTypes DEF Reads, Lines
  <1>6. k \in Seq(Packets) /\ g_tc_q \in Seq(Packets) /\ pushing \in Seq(Packets)
    BY <1>4, <1>5 DEF Types
  <1> HIDE DEF h
  <1>7. Reads' \subseteq Reads \union {x}
    BY <1>1, <1>2, <1>3, ReadsStep
  <1>8. DOMAIN conns' = DOMAIN conns
        /\ \A j \in DOMAIN conns : conns'[j].line = IF j = cur THEN y ELSE conns[j].line
    <2> HIDE DEF y
    <2> QED BY <1>1, <1>2, LineUpdate
  <1> HIDE DEF k
  <1>9. x \in Seq(Packets) /\ y \in Seq(Packets) /\ k = x \o y
    BY <1>2, <1>6, LineSplit
  <1> HIDE DEF x, y
  <1> DEFINE C(t, l) == Chain(g_tc_q, pushing, t, l, asked, built)
  <1>10. \A t \in Reads : \A l \in Lines : C(t, l)
    BY DEF Numbers
  <1>11. ASSUME NEW t \in Reads PROVE C(t, y)
    <2>1. Chain(g_tc_q, pushing, t, x \o y, asked, built) /\ t \in Seq(Packets)
      BY <1>4, <1>5, <1>9, <1>10
    <2> QED BY <1>6, <1>9, <2>1, ChainMoves, Zenon
  <1>12. C(x, y)
    <2>1. Chain(g_tc_q, pushing, << >>, x \o y, asked, built)
      BY <1>4, <1>5, <1>9, <1>10
    <2> QED BY <1>6, <1>9, <2>1, ChainMoves, Zenon
  <1>13. C(x, << >>)
    <2>0. << >> \in Seq(Packets) /\ x \o << >> = x
      BY <1>9
    <2>1. Chain(g_tc_q, pushing, << >>, x \o y, asked, built)
      BY <1>4, <1>5, <1>9, <1>10
    <2>2. Chain(g_tc_q, pushing, << >>, x, asked, built)
      BY <1>6, <1>9, <2>0, <2>1, ChainMoves, Zenon
    <2>3. Chain(g_tc_q, pushing, << >>, x \o << >>, asked, built)
      BY <2>0, <2>2, Zenon
    <2> QED BY <1>6, <1>9, <2>0, <2>3, ChainMoves, Zenon
  <1>14. ASSUME NEW j \in DOMAIN conns, cur < j PROVE C(x, conns[j].line) /\ Before(y, conns[j].line)
    <2> DEFINE l == conns[j].line
    <2>1. l \in Lines
      <3>1. j >= cur
        BY <1>1, <1>14 DEF Types
      <3> QED BY <3>1 DEF Lines
    <2>2. l \in Seq(Packets) /\ << >> \in Seq(Packets)
      BY <1>5, <2>1
    <2>3. Before(k, l)
      <3>1. cur <= cur /\ cur < j
        BY <1>1, <1>14 DEF Types
      <3> QED BY <1>1, <3>1, Zenon DEF Numbers, k
    <2> HIDE DEF l
    <2>4. Before(x, l) /\ Before(y, l)
      BY <1>9, <2>2, <2>3, BeforeConcat, Zenon
    <2>5. C(<< >>, l)
      BY <1>5, <1>10, <2>1, Zenon
    <2>6. C(x, l)
      BY <1>13, <2>4, <2>5, Zenon DEF Chain
    <2> QED BY <2>4, <2>6 DEF l
  <1>15. ASSUME NEW t \in Reads', NEW l \in Lines'
         PROVE  C(t, l)
    <2>1. l \in Lines \/ l = y
      BY <1>2, <1>8 DEF Lines
    <2>2. l = << >> \/ l = y \/ \E j \in DOMAIN conns : cur < j /\ l = conns[j].line
      <3>1. l = << >> \/ \E j \in DOMAIN conns : j >= cur /\ l = conns'[j].line
        BY <1>2, <1>8 DEF Lines
      <3>2. ASSUME NEW j \in DOMAIN conns, j >= cur PROVE j = cur \/ cur < j
        <4>1. j \in Nat /\ cur \in Nat
          BY <1>1 DEF Types
        <4> QED BY <3>2, <4>1
      <3>3. ASSUME NEW j \in DOMAIN conns, cur < j PROVE j # cur
        <4>1. j \in Nat /\ cur \in Nat
          BY <1>1 DEF Types
        <4> QED BY <3>3, <4>1
      <3> QED BY <1>8, <3>1, <3>2, <3>3
    <2>3. CASE t \in Reads
      BY <1>10, <1>11, <2>1, <2>3
    <2>4. CASE t = x
      BY <1>12, <1>13, <1>14, <2>2, <2>4
    <2> QED BY <1>7, <2>3, <2>4
  <1>16. ASSUME NEW i \in DOMAIN conns, NEW j \in DOMAIN conns, cur <= i, i < j
         PROVE  Before(conns'[i].line, conns'[j].line)
    <2>0. i \in Nat /\ j \in Nat /\ cur \in Nat
      BY <1>1, SMTT(30) DEF Types
    <2>1. Before(conns[i].line, conns[j].line)
      BY <1>16 DEF Numbers
    <2>2. j # cur /\ cur < j
      BY <1>16, <2>0
    <2>3. CASE i = cur
      BY <1>8, <1>14, <2>2, <2>3
    <2>4. CASE i # cur
      BY <1>8, <2>1, <2>2, <2>4
    <2> QED BY <2>3, <2>4
  <1> QED BY <1>2, <1>8, <1>15, <1>16

\* Serving: a read's telecommands are handed to on_packet.
LEMMA ChainAtRun ==
    ASSUME Types, LoopInv, Numbers, RunHandler
    PROVE  \A t \in Reads' : \A l \in Lines' : Chain(g_tc_q', pushing', t, l, asked', built')
  <1> DEFINE h == Head(ready)
             C(p, t, l) == Chain(g_tc_q, p, t, l, asked, built)
  <1>1. /\ ready # << >> /\ ready' = Tail(ready) /\ (RunAccept(h) \/ RunRead(h) \/ RunSend(h))
        /\ UNCHANGED <<conns, cur, g_tc_q, asked, built>>
    BY DEF RunHandler, connVars, dispatchVars
  <1>2. Reads' \subseteq Reads /\ Lines' = Lines
    BY <1>1, ReadsStep DEF Lines
  <1>3. \A t \in Reads : \A l \in Lines : C(pushing, t, l)
    BY DEF Numbers
  <1>4. CASE UNCHANGED pushing
    BY <1>1, <1>2, <1>3, <1>4
  <1>5. CASE RunRead(h) /\ pushing' = h.tcs
    <2>1. ready \in Seq(Handlers)
      BY DEF Types
    <2>2. h \in Handlers /\ Tail(ready) \in Seq(Handlers) /\ h = ready[1] /\ 1 \in DOMAIN ready
          /\ \A i \in DOMAIN Tail(ready) : i + 1 \in DOMAIN ready /\ Tail(ready)[i] = ready[i + 1]
      BY <1>1, <2>1, QueueStep
    <2>3. h.tcs \in Reads
      BY <2>2 DEF Reads
    <2>4. ASSUME NEW t \in Reads' PROVE t = << >>
      <3> DEFINE r == Count(ready, Kind("read"))
                 a == Count(ready, Kind("accept"))
                 q == Count(Tail(ready), Kind("read"))
      <3>1. r \in Nat /\ q \in Nat /\ r = q + (IF h.kind = "read" THEN 1 ELSE 0)
        BY <1>1, <2>1, Unqueueing
      <3>2. h.kind = "read"
        BY <1>5 DEF RunRead
      <3>3. a \in Nat
        BY <2>1, CountType
      <3>4. a + r + (IF op = "none" THEN 0 ELSE 1) + (IF serving THEN 1 ELSE 0) = 1
        BY DEF LoopInv, Pending
      <3> HIDE DEF a, r, q
      <3>5. q = 0
        BY <3>1, <3>2, <3>3, <3>4
      <3>6. \A i \in DOMAIN Tail(ready) : Tail(ready)[i] \notin Kind("read")
        BY <2>2, <3>5, CountType DEF q
      <3>7. \A i \in DOMAIN Tail(ready) : Tail(ready)[i] \in Handlers
        BY <2>2
      <3>8. \A i \in DOMAIN Tail(ready) : Tail(ready)[i].kind # "read"
        BY <3>6, <3>7 DEF Kind
      <3>9. \A i \in DOMAIN Tail(ready) : Tail(ready)[i].tcs = << >>
        BY <2>2, <3>8 DEF Numbers
      <3> QED BY <1>1, <3>9 DEF Reads
    <2>5. ASSUME NEW l \in Lines PROVE C(h.tcs, << >>, l)
      <3> DEFINE u == h.tcs
      <3>1. C(pushing, u, l) /\ u \in Seq(Packets) /\ l \in Seq(Packets)
        BY <1>3, <2>3, <2>5, ReadTypes
      <3>2. g_tc_q \in Seq(Packets) /\ pushing \in Seq(Packets) /\ << >> \in Seq(Packets)
        BY DEF Types
      <3> HIDE DEF u
      <3>3. C(u, << >>, l)
        BY <3>1, <3>2, ChainMoves, Zenon
      <3> QED BY <3>3 DEF u
    <2> QED BY <1>1, <1>2, <1>5, <2>4, <2>5
  <1> QED BY <1>1, <1>4, <1>5 DEF RunAccept, RunRead, RunSend

\* on_packet: the first telecommand goes to g_tc_q, or is rejected.
LEMMA ChainAtPush ==
    ASSUME Types, Numbers, PushTc
    PROVE  \A t \in Reads' : \A l \in Lines' : Chain(g_tc_q', pushing', t, l, asked', built')
  <1> DEFINE h == Head(pushing)
             o == <<h>>
             q == Tail(pushing)
             g == g_tc_q
  <1>1. /\ pushing # << >> /\ pushing' = q /\ (g_tc_q' = g \/ g_tc_q' = Append(g, h))
        /\ UNCHANGED <<conns, cur, ready, asked, built>>
    BY DEF PushTc, connVars, dispatchVars
  <1>2. Reads' = Reads /\ Lines' = Lines
    BY <1>1, ReadsStep DEF Lines
  <1>3. h \in Packets /\ q \in Seq(Packets) /\ pushing = o \o q /\ g \in Seq(Packets)
    BY <1>1, HeadTailProperties DEF Types
  <1>4. o \in Seq(Packets) /\ Append(g, h) = g \o o
    BY <1>3
  <1>5. ASSUME NEW t \in Reads, NEW l \in Lines
        PROVE  Chain(g, q, t, l, asked, built) /\ Chain(g \o o, q, t, l, asked, built)
    <2>0. t \in Seq(Packets) /\ l \in Seq(Packets)
      BY <1>5, ReadTypes
    <2>1. Chain(g, pushing, t, l, asked, built)
      BY <1>5 DEF Numbers
    <2> HIDE DEF o, q, g, h
    <2>2. Chain(g, o \o q, t, l, asked, built)
      BY <1>3, <2>1, Zenon
    <2> QED BY <1>3, <1>4, <2>0, <2>2, ChainMoves, Zenon
  <1> HIDE DEF o, q, g, h
  <1> QED BY <1>1, <1>2, <1>4, <1>5

\* tc_dispatch_task: the oldest telecommand is answered.
LEMMA ChainAtDispatch ==
    ASSUME Types, Numbers, NEW refused \in BOOLEAN, DispatchTc(refused)
    PROVE  /\ \A t \in Reads' : \A l \in Lines' : Chain(g_tc_q', pushing', t, l, asked', built')
           /\ \A b \in DOMAIN built' : built'[b].tc \in DOMAIN asked'
  <1> DEFINE h == Head(g_tc_q)
             o == <<h>>
             q == Tail(g_tc_q)
             m == Build(h, refused)
  <1>1. /\ g_tc_q # << >> /\ g_tc_q' = q /\ built' = built \o m
        /\ UNCHANGED <<conns, cur, ready, asked, pushing>>
    BY DEF DispatchTc, connVars, sessionVars
  <1>2. Reads' = Reads /\ Lines' = Lines
    BY <1>1, ReadsStep DEF Lines
  <1>3. h \in Packets /\ q \in Seq(Packets) /\ g_tc_q = o \o q
    BY <1>1, HeadTailProperties DEF Types
  <1>4. m \in Seq(Tms) /\ \A i \in DOMAIN m : m[i].tc = h.id
    BY <1>3, BuildType, BuildOf
  <1>5. built \in Seq(Tms) /\ pushing \in Seq(Packets)
    BY DEF Types
  <1> HIDE DEF h, q, m
  <1>6. ASSUME NEW t \in Reads, NEW l \in Lines
        PROVE  Chain(q, pushing, t, l, asked, built \o m)
    <2>0. t \in Seq(Packets) /\ l \in Seq(Packets)
      BY <1>6, ReadTypes
    <2>1. Chain(g_tc_q, pushing, t, l, asked, built)
      BY <1>6 DEF Numbers
    <2>2. Chain(<<h>> \o q, pushing, t, l, asked, built)
      BY <1>3, <2>1, Zenon
    <2> QED BY <1>3, <1>4, <1>5, <2>0, <2>2, ChainDispatch
  <1>7. h.id \in DOMAIN asked
    <2>1. << >> \in Reads /\ << >> \in Lines
      BY DEF Reads, Lines
    <2>2. Chain(g_tc_q, pushing, << >>, << >>, asked, built)
      BY <2>1, Zenon DEF Numbers
    <2>3. Genuine(g_tc_q, asked)
      BY <2>2, Zenon DEF Chain, Good
    <2>4. 1 \in DOMAIN g_tc_q /\ g_tc_q[1] = h
      BY <1>1 DEF h, Types
    <2> QED BY <2>3, <2>4 DEF Genuine
  <1>8. ASSUME NEW b \in DOMAIN (built \o m) PROVE (built \o m)[b].tc \in DOMAIN asked
    <2>1. \/ b \in DOMAIN built /\ (built \o m)[b] = built[b]
          \/ \E k \in DOMAIN m : b = Len(built) + k /\ (built \o m)[b] = m[k]
      BY <1>4, <1>5, <1>8, ConcatParts
    <2>2. \A i \in DOMAIN built : built[i].tc \in DOMAIN asked
      BY DEF Numbers
    <2> DEFINE d == built \o m
    <2> HIDE DEF d
    <2>3. (b \in DOMAIN built /\ d[b] = built[b]) \/ \E k \in DOMAIN m : d[b] = m[k]
      BY <2>1 DEF d
    <2>4. d[b].tc \in DOMAIN asked
      BY <1>4, <1>7, <2>2, <2>3
    <2> QED BY <2>4 DEF d
  <1> QED BY <1>1, <1>2, <1>6, <1>8

\* Every step keeps Numbers.
LEMMA NumbersStep ==
    ASSUME Types, Session, LoopInv, Numbers, [Next]_vars
    PROVE  Numbers'
  <1> DEFINE A == \A t \in Reads' : \A l \in Lines' : Chain(g_tc_q', pushing', t, l, asked', built')
             B == \A i, j \in DOMAIN conns' : cur' <= i /\ i < j => Before(conns'[i].line, conns'[j].line)
             C == \A i \in DOMAIN ready' : ready'[i].kind # "read" => ready'[i].tcs = << >>
             D == \A b \in DOMAIN built' : built'[b].tc \in DOMAIN asked'
  <1>0. /\ ready \in Seq(Handlers) /\ conns \in Seq(Conns) /\ cur \in Nat
        /\ \A t \in Reads : \A l \in Lines : Chain(g_tc_q, pushing, t, l, asked, built)
        /\ \A i, j \in DOMAIN conns : cur <= i /\ i < j => Before(conns[i].line, conns[j].line)
        /\ \A i \in DOMAIN ready : ready[i].kind # "read" => ready[i].tcs = << >>
        /\ \A b \in DOMAIN built : built[b].tc \in DOMAIN asked
    BY DEF Numbers, Types
  <1>1. A /\ B /\ C /\ D => Numbers'
    BY DEF Numbers, Chain, Good, Before, Inc, Genuine, Unanswered
  <1> HIDE DEF A, B, C, D
  <1>2. ASSUME Reads' \subseteq Reads, Lines' \subseteq Lines,
               UNCHANGED <<g_tc_q, pushing, asked, built>>
        PROVE  A
    BY <1>0, <1>2 DEF A
  <1>3. ASSUME UNCHANGED <<asked, built>> PROVE D
    BY <1>0, <1>3 DEF D
  <1>4. ASSUME UNCHANGED <<conns, cur>> PROVE B /\ Lines' = Lines
    BY <1>0, <1>4 DEF B, Lines
  <1>5. ASSUME UNCHANGED ready PROVE C /\ Reads' = Reads
    BY <1>0, <1>5 DEF C, Reads
  <1>6. ASSUME NEW h \in Handlers, h.kind = "read" \/ h.tcs = << >>, ready' = Append(ready, h)
        PROVE  C /\ (h.tcs = << >> => Reads' \subseteq Reads)
    <2>1. C
      BY <1>0, <1>6 DEF C
    <2>2. Reads' \subseteq Reads \union {h.tcs} /\ << >> \in Reads
      BY <1>6, ReadsStep DEF Reads
    <2> QED BY <2>1, <2>2
  <1>7. CASE UNCHANGED <<conns, asked, built, cur, ready, g_tc_q, pushing>>
    BY <1>1, <1>2, <1>3, <1>4, <1>5, <1>7
  <1>8. CASE Connect
    <2>1. /\ conns' = Append(conns, [line |-> << >>, open |-> TRUE])
          /\ UNCHANGED <<asked, built, cur, ready, g_tc_q, pushing>>
      BY <1>8 DEF Connect, sessionVars, dispatchVars
    <2>2. \A j \in DOMAIN conns' :
              conns'[j].line = << >> \/ (j \in DOMAIN conns /\ conns'[j].line = conns[j].line)
      BY <1>0, <2>1
    <2>3. Lines' \subseteq Lines
      BY <2>1, <2>2 DEF Lines
    <2>4. B
      <3>1. \A s : Before(s, << >>) /\ Before(<< >>, s)
        BY DEF Before
      <3> QED BY <1>0, <2>1, <2>2, <3>1 DEF B
    <2> QED BY <1>1, <1>2, <1>3, <1>5, <2>1, <2>3, <2>4
  <1>9. CASE Disconnect
    <2>1. /\ conns # << >> /\ conns' = [conns EXCEPT ![Len(conns)].open = FALSE]
          /\ UNCHANGED <<asked, built, cur, ready, g_tc_q, pushing>>
      BY <1>9 DEF Disconnect, sessionVars, dispatchVars
    <2>2. \A j \in DOMAIN conns : conns[j] \in Conns
      BY <1>0
    <2>3. DOMAIN conns' = DOMAIN conns /\ \A j \in DOMAIN conns : conns'[j].line = conns[j].line
      BY <1>0, <2>1, <2>2 DEF Conns
    <2>4. Lines' \subseteq Lines
      BY <2>1, <2>3 DEF Lines
    <2>5. B
      BY <1>0, <2>1, <2>3 DEF B
    <2> QED BY <1>1, <1>2, <1>3, <1>5, <2>1, <2>4, <2>5
  <1>10. ASSUME NEW tc \in Tcs, Send(tc) PROVE Numbers'
    <2>1. UNCHANGED ready
      BY <1>10 DEF Send
    <2>2. A /\ B /\ D
      BY <1>10, ChainAtSend DEF A, B, D
    <2> QED BY <1>1, <1>5, <2>1, <2>2
  <1>11. ASSUME NEW res \in {"ok", "err"}, AcceptCompletes(res) PROVE Numbers'
    <2> DEFINE h == Handler("accept", res)
    <2>1. h \in Handlers /\ h.tcs = << >> /\ ready' = Append(ready, h)
      BY <1>11, HandlerType DEF Handler, AcceptCompletes, Completes
    <2>2. (cur' = cur \/ cur' = cur + 1) /\ UNCHANGED <<conns, g_tc_q, pushing, asked, built>>
      BY <1>11 DEF AcceptCompletes, Completes, dispatchVars
    <2> HIDE DEF h
    <2>3. \A j \in DOMAIN conns : j >= cur' => j >= cur
      <3>1. DOMAIN conns \subseteq Nat
        BY <1>0
      <3> QED BY <1>0, <2>2, <3>1
    <2>4. Lines' \subseteq Lines
      BY <2>2, <2>3 DEF Lines
    <2>5. \A j \in DOMAIN conns : cur' <= j => cur <= j
      <3>1. DOMAIN conns \subseteq Nat
        BY <1>0
      <3> QED BY <1>0, <2>2, <3>1
    <2>6. B
      BY <1>0, <2>2, <2>5 DEF B
    <2> QED BY <1>1, <1>2, <1>3, <1>6, <2>1, <2>2, <2>4, <2>6
  <1>12. ASSUME NEW n \in 1 .. MaxTcs, ReadCompletes(n) PROVE Numbers'
    <2> DEFINE h == [Handler("read", "ok") EXCEPT !.tcs = SubSeq(conns[cur].line, 1, n)]
    <2>1. h.kind = "read" /\ ready' = Append(ready, h) /\ UNCHANGED <<asked, built>>
      BY <1>12 DEF Handler, ReadCompletes, Completes, dispatchVars
    <2>2. h \in Handlers
      BY <1>12, ReadHandler
    <2> HIDE DEF h
    <2>3. A /\ B
      BY <1>12, ChainAtRead DEF A, B
    <2> QED BY <1>1, <1>3, <1>6, <2>1, <2>2, <2>3
  <1>13. CASE ReadFails
    <2> DEFINE h == Handler("read", "err")
    <2>1. h \in Handlers /\ h.tcs = << >> /\ ready' = Append(ready, h)
          /\ UNCHANGED <<conns, cur, g_tc_q, pushing, asked, built>>
      BY <1>13, HandlerType DEF Handler, ReadFails, Completes, dispatchVars
    <2> HIDE DEF h
    <2> QED BY <1>1, <1>2, <1>3, <1>4, <1>6, <2>1
  <1>14. CASE RunHandler
    <2>1. ready # << >> /\ ready' = Tail(ready) /\ UNCHANGED <<conns, cur, asked, built>>
      BY <1>14 DEF RunHandler, connVars, dispatchVars
    <2>2. \A i \in DOMAIN ready' : i + 1 \in DOMAIN ready /\ ready'[i] = ready[i + 1]
      BY <1>0, <2>1, QueueStep
    <2>3. C
      BY <1>0, <2>2 DEF C
    <2>4. A
      BY <1>14, ChainAtRun DEF A
    <2> QED BY <1>1, <1>3, <1>4, <2>1, <2>3, <2>4
  <1>15. CASE PushTc
    <2>1. UNCHANGED <<conns, cur, asked, built, ready>>
      BY <1>15 DEF PushTc, connVars, dispatchVars
    <2>2. A
      BY <1>15, ChainAtPush DEF A
    <2> QED BY <1>1, <1>3, <1>4, <1>5, <2>1, <2>2
  <1>16. ASSUME NEW refused \in BOOLEAN, DispatchTc(refused) PROVE Numbers'
    <2>1. UNCHANGED <<conns, cur, ready>>
      BY <1>16 DEF DispatchTc, connVars, sessionVars
    <2>2. A /\ D
      BY <1>16, ChainAtDispatch DEF A, D
    <2> QED BY <1>1, <1>4, <1>5, <2>1, <2>2
  <1>17. CASE TxPost
    <2> DEFINE h == [Handler("send", "ok") EXCEPT !.tm = held[1]]
    <2>1. held[1] \in Tms
      BY <1>17 DEF TxPost, Types, None
    <2>2. h \in Handlers /\ h.tcs = << >>
      BY <2>1, HandlerType DEF Handler
    <2>3. ready' = Append(ready, h) /\ UNCHANGED <<conns, cur, g_tc_q, pushing, asked, built>>
      BY <1>17 DEF TxPost, connVars, sessionVars, dispatchVars
    <2> HIDE DEF h
    <2> QED BY <1>1, <1>2, <1>3, <1>4, <1>6, <2>2, <2>3
  <1>18. CASE EndRead \/ PushTm \/ TakeTm \/ TxCheck \/ UNCHANGED vars
    BY <1>7, <1>18 DEF EndRead, PushTm, TakeTm, TxCheck, vars, connVars, sessionVars, dispatchVars
  <1> QED
    BY <1>8, <1>9, <1>10, <1>11, <1>12, <1>13, <1>14, <1>15, <1>16, <1>17, <1>18
    DEF Next, Daemon, System, IoThread, DispatchTask, TxTask

\* Nothing is selected where nothing fits.
LEMMA SelectNone ==
    ASSUME NEW S, NEW s \in Seq(S), NEW A, \A i \in DOMAIN s : s[i] \notin A
    PROVE  Select(s, A) = << >>
  <1> DEFINE v == Select(s, A)
  <1>1. v \in Seq(S)
    BY SelectType
  <1>2. ASSUME NEW x PROVE (\E i \in DOMAIN v : v[i] = x) <=> x \in A /\ \E i \in DOMAIN s : s[i] = x
    <2>1. v = Select(s, A)
      OBVIOUS
    <2> HIDE DEF v
    <2> QED BY <2>1, SelectRange
  <1> HIDE DEF v
  <1>3. DOMAIN v = {}
    BY <1>2
  <1>4. v = << >>
    BY <1>1, <1>3
  <1> QED BY <1>4 DEF v

\* A TM of the dispatch task answers one telecommand.
LEMMA NoneOf ==
    ASSUME NEW s \in Seq(Tms), NEW k, \A i \in DOMAIN s : s[i].tc # k
    PROVE  Select(s, Of(k)) = << >>
  <1>1. \A i \in DOMAIN s : s[i] \notin Of(k)
    BY DEF Of
  <1> QED BY <1>1, SelectNone

\* No answer at all is a beginning.
LEMMA BeginsEmpty ==
    ASSUME NEW tc
    PROVE  Begins(<< >>, Answers(tc))
  <1>1. Len(Answers(tc)) \in Nat
    BY AnswersType
  <1> QED BY <1>1 DEF Begins

\* Every step keeps Verified: a telecommand is dispatched once.
LEMMA VerifiedStep ==
    ASSUME Types, Session, LoopInv, Numbers, Verified, [Next]_vars
    PROVE  Verified'
  <1>0. built \in Seq(Tms) /\ asked \in Seq(TcSet)
    BY DEF Types
  <1>1. CASE UNCHANGED <<asked, built>>
    BY <1>1 DEF Verified
  <1>2. ASSUME NEW tc \in Tcs, Send(tc) PROVE Verified'
    <2>1. asked' = Append(asked, tc) /\ UNCHANGED built
      BY <1>2 DEF Send, dispatchVars
    <2>2. tc \in TcSet
      BY TcsAssumption
    <2>3. Len(asked) \in Nat /\ DOMAIN asked = 1 .. Len(asked) /\ DOMAIN asked' = 1 .. Len(asked) + 1
          /\ \A k \in DOMAIN asked : asked'[k] = asked[k]
      BY <1>0, <2>1, <2>2, AppendProperties, LenProperties
    <2> SUFFICES ASSUME NEW k \in DOMAIN asked'
                 PROVE  Begins(Select(built, Of(k)), Answers(asked'[k]))
      BY <2>1, Zenon DEF Verified
    <2>4. CASE k \in DOMAIN asked
      BY <2>3, <2>4 DEF Verified
    <2>5. CASE k \notin DOMAIN asked
      <3>1. \A i \in DOMAIN built : built[i].tc \in DOMAIN asked
        BY DEF Numbers
      <3>2. Select(built, Of(k)) = << >>
        BY <1>0, <2>5, <3>1, NoneOf
      <3> QED BY <3>2, BeginsEmpty
    <2> QED BY <2>4, <2>5
  <1>3. ASSUME NEW refused \in BOOLEAN, DispatchTc(refused) PROVE Verified'
    <2> DEFINE h == Head(g_tc_q)
               m == Build(h, refused)
    <2>1. g_tc_q # << >> /\ built' = built \o m /\ UNCHANGED asked
      BY <1>3 DEF DispatchTc, connVars
    <2>2. h \in Packets /\ 1 \in DOMAIN g_tc_q /\ g_tc_q[1] = h
      BY <2>1, QueueStep DEF Types
    <2>3. m \in Seq(Tms) /\ \A i \in DOMAIN m : m[i].tc = h.id
      BY <2>2, BuildType, BuildOf
    <2>4. Genuine(g_tc_q, asked) /\ Unanswered(g_tc_q, built)
      <3>1. << >> \in Reads /\ << >> \in Lines
        BY DEF Reads, Lines
      <3>2. Chain(g_tc_q, pushing, << >>, << >>, asked, built)
        BY <3>1, Zenon DEF Numbers
      <3> QED BY <3>2, Zenon DEF Chain, Good
    <2>5. h.id \in DOMAIN asked /\ h.req = asked[h.id].req /\ h.acks = asked[h.id].acks
      BY <2>2, <2>4 DEF Genuine
    <2>6. \A b \in DOMAIN built : built[b].tc < h.id
      BY <2>2, <2>4 DEF Unanswered
    <2>7. Begins(m, Answers(h))
      <3> DEFINE all == Len(Answers(h))
                 fit == SeqLimit - tm_seq
                 kept == IF refused /\ fit < all THEN fit ELSE all
      <3>1. all \in Nat
        BY AnswersType
      <3>2. fit \in Nat
        BY SeqAssumption DEF Types
      <3>3. kept \in Nat /\ kept <= all
        BY <3>1, <3>2
      <3>4. m = [i \in 1 .. kept |->
               [tc |-> h.id, what |-> Answers(h)[i], seq |-> (tm_seq + i - 1) % SeqLimit]]
        BY DEF Build
      <3> HIDE DEF kept, fit, m
      <3>5. DOMAIN m = 1 .. kept /\ \A i \in 1 .. kept : m[i].what = Answers(h)[i]
        BY <3>4
      <3>6. Len(m) = kept
        BY <2>3, <3>3, <3>5
      <3> QED BY <3>3, <3>5, <3>6 DEF Begins
    <2>8. Answers(h) = Answers(asked[h.id])
      BY <2>5 DEF Answers, Supported
    <2> HIDE DEF h, m
    <2> SUFFICES ASSUME NEW k \in DOMAIN asked
                 PROVE  Begins(Select(built \o m, Of(k)), Answers(asked[k]))
      BY <2>1, Zenon DEF Verified
    <2>9. Select(built \o m, Of(k)) = Select(built, Of(k)) \o Select(m, Of(k))
      BY <1>0, <2>3, SelectConcat
    <2>10. Select(built, Of(k)) \in Seq(Tms)
      BY <1>0, SelectType
    <2>11. CASE k = h.id
      <3>1. \A b \in DOMAIN built : built[b].tc # k
        <4>1. h.id \in Nat
          BY <2>2 DEF Packets
        <4> QED BY <2>6, <2>11, <4>1
      <3>2. Select(built, Of(k)) = << >>
        BY <1>0, <3>1, NoneOf
      <3>3. m \in Seq(Of(k))
        <4>1. \A i \in DOMAIN m : m[i] \in Of(k)
          BY <2>3, <2>11 DEF Of
        <4>2. Len(m) \in Nat /\ m = [i \in 1 .. Len(m) |-> m[i]] /\ DOMAIN m = 1 .. Len(m)
          BY <2>3
        <4> QED BY <4>1, <4>2, IsASeq
      <3>4. Select(m, Of(k)) = m
        BY <3>3, SelectAll
      <3>5. << >> \o m = m
        BY <2>3
      <3> QED BY <2>7, <2>8, <2>9, <2>11, <3>2, <3>4, <3>5, Zenon
    <2>12. CASE k # h.id
      <3>1. Select(m, Of(k)) = << >>
        BY <2>3, <2>12, NoneOf
      <3> DEFINE v == Select(built, Of(k))
      <3>2. Begins(v, Answers(asked[k]))
        BY DEF Verified
      <3> HIDE DEF v
      <3>3. v \o << >> = v
        BY <2>10 DEF v
      <3> QED BY <2>9, <3>1, <3>2, <3>3, Zenon DEF v
    <2> QED BY <2>11, <2>12
  <1>4. CASE Connect \/ Disconnect \/ (\E res \in {"ok", "err"} : AcceptCompletes(res)) \/ ReadFails
             \/ (\E n \in 1 .. MaxTcs : ReadCompletes(n))
    BY <1>1, <1>4 DEF Connect, Disconnect, AcceptCompletes, ReadFails, ReadCompletes, Completes,
                     dispatchVars
  <1>5. CASE RunHandler \/ PushTc \/ EndRead \/ PushTm \/ TakeTm \/ TxCheck \/ TxPost \/ UNCHANGED vars
    BY <1>1, <1>5 DEF RunHandler, PushTc, EndRead, PushTm, TakeTm, TxCheck, TxPost, vars, connVars,
                     dispatchVars
  <1> QED
    BY <1>2, <1>3, <1>4, <1>5 DEF Next, Daemon, System, IoThread, DispatchTask, TxTask

\* The answers to a telecommand come in the order that VerificationOrder asks for.
InOrder(ans, tc) ==
    LET report == IF tc.req = "HK" THEN "HK_REPORT" ELSE "SYS_HK_REPORT"
        earlier(i, w) == \E j \in 1 .. i - 1 : ans[j] = w
    IN \A i \in DOMAIN ans :
         /\ ans[i] = "COMPLETE_OK" => earlier(i, report)
         /\ ans[i] = report => /\ "acceptance" \in tc.acks => earlier(i, "ACCEPT_OK")
                               /\ "start" \in tc.acks => earlier(i, "START_OK")
         /\ ans[i] = "ACCEPT_FAIL" => Len(ans) <= 1

\* A telecommand that is not supported gets one answer at most.
LEMMA RefusedInOrder ==
    ASSUME NEW tc, ~Supported(tc)
    PROVE  InOrder(Answers(tc), tc)
  <1> DEFINE a == When("acceptance" \in tc.acks, "ACCEPT_FAIL")
  <1>1. Answers(tc) = a \o << >> \o << >> \o << >>
    BY DEF Answers, When
  <1>2. a \in Seq({"ACCEPT_FAIL"}) /\ Len(a) <= 1
    <2>1. << >> \in Seq({"ACCEPT_FAIL"}) /\ Len(<< >>) <= 1
      OBVIOUS
    <2>2. <<"ACCEPT_FAIL">> \in Seq({"ACCEPT_FAIL"}) /\ Len(<<"ACCEPT_FAIL">>) <= 1
      OBVIOUS
    <2> QED BY <2>1, <2>2 DEF When
  <1> HIDE DEF a
  <1>3. a \o << >> = a
    BY <1>2
  <1>4. Answers(tc) = a
    BY <1>1, <1>3, Zenon
  <1>5. \A i \in DOMAIN a : a[i] = "ACCEPT_FAIL"
    BY <1>2
  <1>6. InOrder(a, tc)
    BY <1>2, <1>5 DEF InOrder
  <1> QED BY <1>4, <1>6

\* One that is supported gets them all, in order.
LEMMA SupportedInOrder ==
    ASSUME NEW tc, Supported(tc)
    PROVE  InOrder(Answers(tc), tc)
  <1> DEFINE w == IF tc.req = "HK" THEN "HK_REPORT" ELSE "SYS_HK_REPORT"
             a == When("acceptance" \in tc.acks, "ACCEPT_OK")
             b == When("start" \in tc.acks, "START_OK")
             c == <<w>>
             d == When("completion" \in tc.acks, "COMPLETE_OK")
             x == a \o b
             y == x \o c
             z == y \o d
  <1>1. Answers(tc) = z
    BY DEF Answers, When
  <1>2. w \in {"HK_REPORT", "SYS_HK_REPORT"}
    OBVIOUS
  <1>3. /\ a \in Seq(Whats) /\ \A i \in DOMAIN a : a[i] = "ACCEPT_OK"
        /\ "acceptance" \in tc.acks => 1 \in DOMAIN a
    <2>1. << >> \in Seq(Whats) /\ <<"ACCEPT_OK">> \in Seq(Whats)
      BY DEF Whats
    <2> QED BY <2>1 DEF When
  <1>4. /\ b \in Seq(Whats) /\ \A i \in DOMAIN b : b[i] = "START_OK"
        /\ "start" \in tc.acks => 1 \in DOMAIN b
    <2>1. << >> \in Seq(Whats) /\ <<"START_OK">> \in Seq(Whats)
      BY DEF Whats
    <2> QED BY <2>1 DEF When
  <1>5. c \in Seq(Whats) /\ DOMAIN c = {1} /\ c[1] = w
    <2> HIDE DEF w
    <2>1. w \in Whats
      BY <1>2 DEF Whats
    <2> QED BY <2>1
  <1>6. d \in Seq(Whats) /\ \A i \in DOMAIN d : d[i] = "COMPLETE_OK"
    <2>1. << >> \in Seq(Whats) /\ <<"COMPLETE_OK">> \in Seq(Whats)
      BY DEF Whats
    <2> QED BY <2>1 DEF When
  <1> HIDE DEF a, b, c, d, w
  <1>7. x \in Seq(Whats) /\ Len(x) = Len(a) + Len(b) /\ Len(a) \in Nat /\ Len(b) \in Nat
        /\ DOMAIN a = 1 .. Len(a) /\ DOMAIN b = 1 .. Len(b)
    BY <1>3, <1>4, ConcatElements
  <1>8. /\ \A i \in DOMAIN x : x[i] = "ACCEPT_OK" \/ x[i] = "START_OK"
        /\ "acceptance" \in tc.acks => 1 \in DOMAIN x /\ x[1] = "ACCEPT_OK"
        /\ "start" \in tc.acks => Len(a) + 1 \in DOMAIN x /\ x[Len(a) + 1] = "START_OK"
    <2>1. /\ \A i \in DOMAIN x : \/ i \in DOMAIN a /\ x[i] = a[i]
                                 \/ \E k \in DOMAIN b : i = Len(a) + k /\ x[i] = b[k]
          /\ \A i \in DOMAIN a : i \in DOMAIN x /\ x[i] = a[i]
          /\ \A k \in DOMAIN b : Len(a) + k \in DOMAIN x /\ x[Len(a) + k] = b[k]
      BY <1>3, <1>4, ConcatParts
    <2> HIDE DEF x
    <2> QED BY <1>3, <1>4, <2>1
  <1> HIDE DEF x
  <1>9. y \in Seq(Whats) /\ Len(y) = Len(x) + 1 /\ Len(x) \in Nat /\ DOMAIN x = 1 .. Len(x)
    <2>1. Len(c) = 1
      BY <1>5
    <2>2. x \o c \in Seq(Whats) /\ Len(x \o c) = Len(x) + Len(c) /\ Len(x) \in Nat
          /\ DOMAIN x = 1 .. Len(x)
      BY <1>5, <1>7, ConcatElements
    <2> QED BY <2>1, <2>2
  <1>10. /\ \A i \in DOMAIN y : (i \in DOMAIN x /\ y[i] = x[i]) \/ (i = Len(x) + 1 /\ y[i] = w)
         /\ \A i \in DOMAIN x : i \in DOMAIN y /\ y[i] = x[i]
         /\ Len(x) + 1 \in DOMAIN y /\ y[Len(x) + 1] = w
    <2>1. /\ \A i \in DOMAIN y : \/ i \in DOMAIN x /\ y[i] = x[i]
                                 \/ \E k \in DOMAIN c : i = Len(x) + k /\ y[i] = c[k]
          /\ \A i \in DOMAIN x : i \in DOMAIN y /\ y[i] = x[i]
          /\ \A k \in DOMAIN c : Len(x) + k \in DOMAIN y /\ y[Len(x) + k] = c[k]
      BY <1>5, <1>7, ConcatParts, ZenonT(60)
    <2> HIDE DEF y
    <2> QED BY <1>5, <2>1
  <1> HIDE DEF y
  <1>11. DOMAIN y = 1 .. Len(y) /\ Len(y) \in Nat /\ z \in Seq(Whats) /\ DOMAIN d \subseteq Nat \ {0}
    <2>1. z \in Seq(Whats)
      BY <1>6, <1>9
    <2>2. DOMAIN y = 1 .. Len(y) /\ Len(y) \in Nat
      BY <1>9, LenProperties
    <2>3. DOMAIN d \subseteq Nat \ {0}
      BY <1>6
    <2> QED BY <2>1, <2>2, <2>3
  <1>12. /\ \A i \in DOMAIN z : \/ i \in DOMAIN y /\ z[i] = y[i]
                                \/ \E k \in DOMAIN d : i = Len(y) + k /\ z[i] = d[k]
         /\ \A i \in DOMAIN y : i \in DOMAIN z /\ z[i] = y[i]
    <2>1. y \in Seq(Whats) /\ d \in Seq(Whats)
      BY <1>6, <1>9, Zenon
    <2>2. /\ \A i \in DOMAIN (y \o d) : \/ i \in DOMAIN y /\ (y \o d)[i] = y[i]
                                        \/ \E k \in DOMAIN d : i = Len(y) + k /\ (y \o d)[i] = d[k]
          /\ \A i \in DOMAIN y : i \in DOMAIN (y \o d) /\ (y \o d)[i] = y[i]
      BY <2>1, ConcatParts, SMTT(30)
    <2> QED BY <2>2, Zenon
  <1> HIDE DEF z
  <1>13. \A i \in DOMAIN x : i \in DOMAIN z /\ z[i] = x[i]
    BY <1>10, <1>12
  <1>14. Len(x) + 1 \in DOMAIN z /\ z[Len(x) + 1] = w
    BY <1>10, <1>12
  <1>15. ASSUME NEW i \in DOMAIN z
         PROVE  \/ i \in DOMAIN x /\ (z[i] = "ACCEPT_OK" \/ z[i] = "START_OK")
                \/ i = Len(x) + 1 /\ z[i] = w
                \/ i > Len(x) + 1 /\ z[i] = "COMPLETE_OK"
    <2>1. CASE i \in DOMAIN y /\ z[i] = y[i]
      BY <1>8, <1>10, <2>1
    <2>2. CASE \E k \in DOMAIN d : i = Len(y) + k /\ z[i] = d[k]
      <3>1. PICK k \in DOMAIN d : i = Len(y) + k /\ z[i] = d[k]
        BY <2>2
      <3>2. k \in Nat \ {0} /\ d[k] = "COMPLETE_OK"
        BY <1>6, <1>11
      <3>3. i > Len(x) + 1
        BY <1>9, <3>1, <3>2
      <3> QED BY <3>1, <3>2, <3>3
    <2> QED BY <1>12, <2>1, <2>2
  <1>16. ASSUME NEW i \in DOMAIN z, z[i] = "COMPLETE_OK" PROVE \E j \in 1 .. i - 1 : z[j] = w
    <2>1. i > Len(x) + 1
      BY <1>2, <1>15, <1>16
    <2>2. i \in Nat
      BY <1>11
    <2>3. Len(x) + 1 \in 1 .. i - 1
      BY <1>9, <2>1, <2>2
    <2> QED BY <1>14, <2>3
  <1>17. ASSUME NEW i \in DOMAIN z, z[i] = w
         PROVE  /\ "acceptance" \in tc.acks => \E j \in 1 .. i - 1 : z[j] = "ACCEPT_OK"
                /\ "start" \in tc.acks => \E j \in 1 .. i - 1 : z[j] = "START_OK"
    <2>1. i = Len(x) + 1
      BY <1>2, <1>15, <1>17
    <2>2. \A j \in DOMAIN x : j \in 1 .. i - 1
      BY <1>9, <2>1
    <2> QED BY <1>8, <1>13, <2>2
  <1>18. \A i \in DOMAIN z : z[i] # "ACCEPT_FAIL"
    BY <1>2, <1>15
  <1>19. InOrder(z, tc)
    BY <1>16, <1>17, <1>18 DEF InOrder, w
  <1> QED BY <1>1, <1>19

\* The invariant of the answers' order.
THEOREM VerifiedInductive == Spec => [](Types /\ Session /\ LoopInv /\ Numbers /\ Verified)
  <1>1. Init => Numbers /\ Verified
    <2> SUFFICES ASSUME Init PROVE Numbers /\ Verified
      OBVIOUS
    <2>1. conns = << >> /\ ready = << >> /\ g_tc_q = << >> /\ pushing = << >> /\ asked = << >>
          /\ built = << >>
      BY DEF Init
    <2>2. Reads = {<< >>} /\ Lines = {<< >>}
      BY <2>1 DEF Reads, Lines
    <2>3. Chain(<< >>, << >>, << >>, << >>, asked, built)
      BY DEF Chain, Good, Before, Inc, Genuine, Unanswered
    <2>4. Numbers
      BY <2>1, <2>2, <2>3 DEF Numbers
    <2>5. Verified
      BY <2>1 DEF Verified
    <2> QED BY <2>4, <2>5
  <1>2. Types /\ Session /\ LoopInv /\ Numbers /\ Verified /\ [Next]_vars
          => (Types /\ Session /\ LoopInv /\ Numbers /\ Verified)'
    BY TypesStep, SessionStep, LoopStep, NumbersStep, VerifiedStep
  <1> QED BY <1>1, <1>2, InitTypes, LoopAtStart, PTL DEF Spec

\* Whatever sequence count it starts from and however telecommands are queued,
\* every telecommand is answered once: accepted and started before its report,
\* completed after it, and if it is refused, by the refusal alone.
THEOREM AnswersVerify == Spec => []VerificationOrder
  <1>1. Types /\ Verified => VerificationOrder
    <2> SUFFICES ASSUME Types, Verified, NEW k \in DOMAIN asked
                 PROVE  LET mine == Select(built, {tm \in Tms : tm.tc = k})
                            before(i) == {mine[j].what : j \in 1 .. i - 1}
                            report == IF asked[k].req = "HK" THEN "HK_REPORT" ELSE "SYS_HK_REPORT"
                        IN \A i \in DOMAIN mine :
                             /\ mine[i].what = "COMPLETE_OK" => report \in before(i)
                             /\ mine[i].what = report =>
                                  /\ "acceptance" \in asked[k].acks => "ACCEPT_OK" \in before(i)
                                  /\ "start" \in asked[k].acks => "START_OK" \in before(i)
                             /\ mine[i].what = "ACCEPT_FAIL" => Len(mine) = 1
      BY Zenon DEF VerificationOrder
    <2> DEFINE mine == Select(built, {tm \in Tms : tm.tc = k})
               before(i) == {mine[j].what : j \in 1 .. i - 1}
               report == IF asked[k].req = "HK" THEN "HK_REPORT" ELSE "SYS_HK_REPORT"
               ans == Answers(asked[k])
               tc == asked[k]
    <2>1. mine \in Seq(Tms)
      BY SelectType DEF Types
    <2>2. Len(mine) <= Len(ans) /\ \A i \in DOMAIN mine : mine[i].what = ans[i]
      BY Zenon DEF Verified, Of, Begins
    <2>3. InOrder(ans, tc)
      BY RefusedInOrder, SupportedInOrder, Zenon
    <2>4. ans \in Seq(Whats) /\ Len(ans) \in Nat
      BY AnswersType
    <2> HIDE DEF mine, ans, tc
    <2>5. Len(mine) \in Nat /\ DOMAIN mine = 1 .. Len(mine) /\ DOMAIN ans = 1 .. Len(ans)
      BY <2>1, <2>4, LenProperties
    <2>6. \A i \in DOMAIN mine : i \in DOMAIN ans
      BY <2>2, <2>4, <2>5
    <2>7. ASSUME NEW i \in DOMAIN mine, NEW w, \E j \in 1 .. i - 1 : ans[j] = w
          PROVE  w \in before(i)
      <3>1. PICK j \in 1 .. i - 1 : ans[j] = w
        BY <2>7
      <3>2. j \in DOMAIN mine
        BY <2>5, <2>7
      <3> QED BY <2>2, <3>1, <3>2
    <2> HIDE DEF before
    <2>8. ASSUME NEW i \in DOMAIN mine
          PROVE  /\ mine[i].what = "COMPLETE_OK" => report \in before(i)
                 /\ mine[i].what = report =>
                      /\ "acceptance" \in tc.acks => "ACCEPT_OK" \in before(i)
                      /\ "start" \in tc.acks => "START_OK" \in before(i)
                 /\ mine[i].what = "ACCEPT_FAIL" => Len(mine) = 1
      <3>1. i \in DOMAIN ans /\ mine[i].what = ans[i]
        BY <2>2, <2>6
      <3>2. ans[i] = "COMPLETE_OK" => \E j \in 1 .. i - 1 : ans[j] = report
        BY <2>3, <3>1 DEF InOrder, tc
      <3>3. ans[i] = report =>
                /\ "acceptance" \in tc.acks => \E j \in 1 .. i - 1 : ans[j] = "ACCEPT_OK"
                /\ "start" \in tc.acks => \E j \in 1 .. i - 1 : ans[j] = "START_OK"
        BY <2>3, <3>1 DEF InOrder, tc
      <3>4. ans[i] = "ACCEPT_FAIL" => Len(ans) <= 1
        BY <2>3, <3>1 DEF InOrder
      <3>5. Len(mine) >= 1
        BY <2>5
      <3>6. ans[i] = "ACCEPT_FAIL" => Len(mine) = 1
        BY <2>2, <2>4, <2>5, <3>4, <3>5
      <3> HIDE DEF report
      <3>7. mine[i].what = "COMPLETE_OK" => report \in before(i)
        BY <2>7, <3>1, <3>2
      <3>8. mine[i].what = report =>
                /\ "acceptance" \in tc.acks => "ACCEPT_OK" \in before(i)
                /\ "start" \in tc.acks => "START_OK" \in before(i)
        BY <2>7, <3>1, <3>3
      <3> QED BY <3>1, <3>6, <3>7, <3>8
    <2> QED BY <2>8 DEF mine, before, tc
  <1> QED BY <1>1, VerifiedInductive, PTL

==============================================================================
