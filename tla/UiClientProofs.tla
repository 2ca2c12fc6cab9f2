--------------------------- MODULE UiClientProofs ----------------------------
(***************************************************************************)
(* Proofs about UiClient, for any number of commands, of stops of the      *)
(* daemon and of changes of the device link, as long as the sequence count *)
(* of the telecommands does not wrap (CountsAssumption): the types, the    *)
(* one way back to the daemon, what the UI shows of the device, and the    *)
(* order of the telecommands.                                              *)
(***************************************************************************)
EXTENDS UiClient, SequenceLemmas

\* Reads that failed.
BadRead(h) == h.kind = "read" /\ h.res = "err"

\* How many handlers of kind k are queued in q.
Kind(k) == {h \in Handlers : h.kind = k}
N(q, k) == Count(q, Kind(k))

\* The sequence count is within its bounds, with the telecommands that queued
\* handlers will still build.
Counts ==
    /\ tc_sequence >= 1 /\ commands <= MaxCommands
    /\ N(ready, "hkreq") <= commands
    /\ One(hk_armed) + N(ready, "hk") = 1
    /\ tc_sequence + N(ready, "hkreq") + N(ready, "hk") <= MaxTc + commands

\* What the client does next: OneWayBack.
Ways == One(connected_) + One(resolving) + One("connect" \in ops) + One(timer)
          + N(ready, "resolve") + N(ready, "connect") + N(ready, "timer")

\* A client without connection has nothing pending on its socket but a connect,
\* and nothing queued of the connection before it, unless the timer still runs.
\* With one it reads, and writes exactly while frames wait.
Way ==
    /\ Ways = 1
    /\ reconnect_scheduled_ <=> timer \/ N(ready, "timer") # 0
    /\ ~connected_ => ops \subseteq {"connect"} /\ tx_queue_ = << >>
    /\ connected_ \/ "connect" \in ops \/ N(ready, "connect") # 0 => sock_ = "open"
    /\ timer => sock_ = "closed"
    /\ ~connected_ /\ ~timer => N(ready, "read") = 0 /\ N(ready, "written") = 0
    /\ connected_ => One("read" \in ops) + N(ready, "read") = 1
    /\ connected_ => One("write" \in ops) + N(ready, "written") = One(tx_queue_ # << >>)

\* The last LinkState of a read.
LastOf(f) == f[Len(f)]
\* A queue with a failed read, without a good one, with good ones that all end in d.
Bad(q) == \E i \in DOMAIN q : BadRead(q[i])
NoGood(q) == \A i \in DOMAIN q : ~GoodRead(q[i])
Fresh(q, d) == \A i \in DOMAIN q : GoodRead(q[i]) => LastOf(q[i].frames) = d

\* What the UI shows of the device, or will show once it has handled what has
\* arrived.
View ==
    /\ daemon_connected = connected_
    /\ ~connected_ /\ device_connected => Bad(ready)
    /\ alive /\ line # << >> => LastOf(line) = device
    /\ alive /\ line = << >> =>
         connected_ /\ Fresh(ready, device) /\ (NoGood(ready) => device_connected = device)

\* The telecommands posted in q: in the order of their counts, above x, below y.
IsTc(h) == h.kind = "post" /\ h.tc # Command
InOrder(q) == \A i, j \in DOMAIN q : i < j /\ IsTc(q[i]) /\ IsTc(q[j]) => q[i].tc < q[j].tc
Above(q, x) == \A i \in DOMAIN q : IsTc(q[i]) => x < q[i].tc
Below(q, y) == \A i \in DOMAIN q : IsTc(q[i]) => q[i].tc < y

\* The front of the transmit queue is still there when it was written already.
Written(q) == \E i \in DOMAIN q : q[i].kind = "written" /\ q[i].res = "ok"

\* Telecommands written (c), in the transmit queue (t), posted (in q) and to come
\* (from y): each part in order, and each below the next.
Ordered(q, t, c, y) ==
    /\ InOrder(q) /\ Below(q, y)
    /\ \A i, j \in DOMAIN c : i < j => c[i] < c[j]
    /\ \A i \in DOMAIN c : c[i] < y /\ Above(q, c[i])
    /\ \A i, j \in DOMAIN t : i < j /\ t[i] # Command /\ t[j] # Command => t[i] < t[j]
    /\ \A j \in DOMAIN t : t[j] # Command => t[j] < y /\ Above(q, t[j])
    /\ \A i \in DOMAIN c : \A j \in DOMAIN t :
          (Written(q) => j # 1) /\ t[j] # Command => c[i] < t[j]

\* TcsInOrder and what keeps it.
Order == Ordered(ready, tx_queue_, received, tc_sequence)

------------------------------------------------------------------------------
(* The event loop's queue.                                                  *)

\* The handlers that the model queues are handlers.
LEMMA HandlerType ==
    /\ \A k \in Kinds : \A res \in {"ok", "err"} :
          /\ Handler(k, res) \in Handlers
          /\ Handler(k, res).kind = k /\ Handler(k, res).res = res /\ Handler(k, res).frames = << >>
    /\ \A s \in Seq(BOOLEAN) : LET h == [Handler("read", "ok") EXCEPT !.frames = s]
                               IN h \in Handlers /\ h.kind = "read" /\ h.res = "ok" /\ h.frames = s
    /\ \A n \in Nat : Post(n) \in Handlers /\ Post(n).kind = "post" /\ Post(n).tc = n
  <1>1. << >> \in Seq(BOOLEAN)
    OBVIOUS
  <1> QED BY <1>1 DEF Handler, Handlers, Kinds, Post

\* A handler that joins the queue, by kind and by position.
Joined(q, h, r) ==
    /\ r \in Seq(Handlers) /\ Len(r) = Len(q) + 1 /\ r[Len(q) + 1] = h
    /\ \A i \in 1 .. Len(q) : r[i] = q[i]
    /\ \A k : N(q, k) \in Nat /\ N(r, k) = N(q, k) + One(h.kind = k)

\* asio queues a completed handler at the back.
LEMMA Joins ==
    ASSUME NEW q \in Seq(Handlers), NEW h \in Handlers
    PROVE  Joined(q, h, Append(q, h))
  <1> DEFINE r == Append(q, h)
  <1>1. r \in Seq(Handlers) /\ Len(r) = Len(q) + 1 /\ r[Len(q) + 1] = h /\ \A i \in 1 .. Len(q) : r[i] = q[i]
    OBVIOUS
  <1>2. ASSUME NEW k PROVE N(q, k) \in Nat /\ N(r, k) = N(q, k) + One(h.kind = k)
    <2>1. h \in Kind(k) <=> h.kind = k
      BY DEF Kind
    <2>2. Count(q, Kind(k)) \in Nat
      BY CountType
    <2>3. Count(Append(q, h), Kind(k)) = Count(q, Kind(k)) + In(h, Kind(k))
      BY CountAppend
    <2> QED BY <2>1, <2>2, <2>3 DEF N, In, One
  <1> HIDE DEF r
  <1> QED BY <1>1, <1>2 DEF Joined, r

\* The handler h at the front of the queue, and the rest.
Taken(q, h, r) ==
    /\ h \in Handlers /\ r \in Seq(Handlers) /\ Len(q) = Len(r) + 1 /\ q[1] = h
    /\ \A i \in 1 .. Len(r) : r[i] = q[i + 1]
    /\ \A k : N(q, k) \in Nat /\ N(r, k) \in Nat /\ N(q, k) = N(r, k) + One(h.kind = k)

\* The io thread takes the handler at the front.
LEMMA Takes ==
    ASSUME NEW q \in Seq(Handlers), q # << >>
    PROVE  Taken(q, Head(q), Tail(q))
  <1> DEFINE r == Tail(q)
             h == Head(q)
  <1>1. h \in Handlers /\ r \in Seq(Handlers) /\ Len(q) = Len(r) + 1 /\ q[1] = h
        /\ \A i \in 1 .. Len(r) : r[i] = q[i + 1]
    BY HeadTailProperties, LenProperties
  <1>2. ASSUME NEW k PROVE N(q, k) \in Nat /\ N(r, k) \in Nat /\ N(q, k) = N(r, k) + One(h.kind = k)
    <2>1. h \in Kind(k) <=> h.kind = k
      BY <1>1 DEF Kind
    <2>3. Count(q, Kind(k)) = Count(Tail(q), Kind(k)) + In(Head(q), Kind(k))
      BY CountTail
    <2> HIDE DEF r, h
    <2>2. Count(q, Kind(k)) \in Nat /\ Count(r, Kind(k)) \in Nat
      BY <1>1, CountType
    <2> QED BY <2>1, <2>2, <2>3 DEF N, In, One, r, h
  <1> HIDE DEF r, h
  <1> QED BY <1>1, <1>2 DEF Taken, r, h

\* No handler of a kind, by count and by position.
LEMMA Nowhere ==
    ASSUME NEW q \in Seq(Handlers), NEW k
    PROVE  /\ N(q, k) \in Nat
           /\ N(q, k) = 0 <=> \A i \in DOMAIN q : q[i].kind # k
  <1>1. \A i \in DOMAIN q : q[i] \in Kind(k) <=> q[i].kind = k
    BY DEF Kind
  <1>2. Count(q, Kind(k)) \in Nat /\ (Count(q, Kind(k)) = 0 <=> \A i \in DOMAIN q : q[i] \notin Kind(k))
    BY CountType
  <1> QED BY <1>1, <1>2 DEF N

\* The queue with the aborted operations behind it.
Closed(q, r) ==
    /\ r \in Seq(Handlers) /\ Len(q) \in Nat /\ Len(r) \in Nat /\ Len(r) >= Len(q)
    /\ \A i \in 1 .. Len(q) : r[i] = q[i]
    /\ \A i \in 1 .. Len(r) : i > Len(q) => r[i].res = "err" /\ r[i].kind \in {"connect", "read", "written"}
    /\ \A k : k \notin {"connect", "read", "written"} => N(r, k) = N(q, k)
    /\ \A k : N(q, k) \in Nat /\ N(r, k) \in Nat /\ N(r, k) >= N(q, k)
    /\ "connect" \notin ops => N(r, "connect") = N(q, "connect")

\* The aborted operations: failures of what was pending on the socket.
LEMMA AbortedType ==
    /\ Aborted \in Seq(Handlers)
    /\ \A i \in DOMAIN Aborted : /\ Aborted[i].res = "err"
                                 /\ Aborted[i].kind \in {"connect", "read", "written"}
                                 /\ Aborted[i].kind = "connect" => "connect" \in ops
  <1> DEFINE a == IF "connect" \in ops THEN <<Handler("connect", "err")>> ELSE << >>
             b == IF "read" \in ops THEN <<Handler("read", "err")>> ELSE << >>
             c == IF "write" \in ops THEN <<Handler("written", "err")>> ELSE << >>
             Good == {h \in Handlers : /\ h.res = "err" /\ h.kind \in {"connect", "read", "written"}
                                       /\ h.kind = "connect" => "connect" \in ops}
  <1>1. /\ "connect" \in ops => Handler("connect", "err") \in Good
        /\ Handler("read", "err") \in Good /\ Handler("written", "err") \in Good
    BY HandlerType DEF Kinds
  <1> HIDE DEF Good
  <1>2. a \in Seq(Good) /\ b \in Seq(Good) /\ c \in Seq(Good)
    BY <1>1
  <1>3. Aborted = a \o b \o c
    BY DEF Aborted
  <1> HIDE DEF a, b, c
  <1>4. Aborted \in Seq(Good)
    BY <1>2, <1>3
  <1>5. Good \subseteq Handlers
    BY DEF Good
  <1> QED BY <1>4, <1>5 DEF Good

\* close() queues the failures of what was pending behind the others.
LEMMA Closes ==
    ASSUME NEW q \in Seq(Handlers)
    PROVE  Closed(q, q \o Aborted)
  <1> DEFINE ab == Aborted
             r == q \o ab
  <1>1. ab \in Seq(Handlers)
    BY AbortedType
  <1>2. \A i \in DOMAIN ab : ab[i].res = "err" /\ ab[i].kind \in {"connect", "read", "written"}
                             /\ (ab[i].kind = "connect" => "connect" \in ops)
    BY AbortedType
  <1> HIDE DEF ab
  <1>3. r \in Seq(Handlers) /\ Len(r) = Len(q) + Len(ab) /\ Len(q) \in Nat /\ Len(ab) \in Nat
        /\ (\A i \in 1 .. Len(q) : r[i] = q[i])
        /\ (\A i \in 1 .. Len(r) : i > Len(q) => i - Len(q) \in DOMAIN ab /\ r[i] = ab[i - Len(q)])
    BY <1>1
  <1>4. ASSUME NEW k
        PROVE  N(q, k) \in Nat /\ N(r, k) \in Nat /\ N(ab, k) \in Nat /\ N(r, k) = N(q, k) + N(ab, k)
    <2>1. Count(r, Kind(k)) = Count(q, Kind(k)) + Count(ab, Kind(k))
      BY <1>1, CountConcat
    <2>2. Count(q, Kind(k)) \in Nat /\ Count(ab, Kind(k)) \in Nat
      BY <1>1, CountType
    <2> QED BY <2>1, <2>2 DEF N
  <1>5. ASSUME NEW k, k \notin {"connect", "read", "written"} PROVE N(ab, k) = 0
    BY <1>1, <1>2, <1>5, Nowhere
  <1>6. "connect" \notin ops => N(ab, "connect") = 0
    BY <1>1, <1>2, Nowhere
  <1> HIDE DEF r
  <1>7. \A i \in 1 .. Len(r) : i > Len(q) => r[i].res = "err" /\ r[i].kind \in {"connect", "read", "written"}
    BY <1>2, <1>3
  <1>8. \A k : N(q, k) \in Nat /\ N(r, k) \in Nat /\ N(r, k) >= N(q, k)
    BY <1>4
  <1>9. \A k : k \notin {"connect", "read", "written"} => N(r, k) = N(q, k)
    BY <1>4, <1>5
  <1>10. "connect" \notin ops => N(r, "connect") = N(q, "connect")
    BY <1>4, <1>6
  <1>11. Len(r) \in Nat /\ Len(r) >= Len(q)
    BY <1>3
  <1>12. Closed(q, r)
    BY <1>3, <1>7, <1>8, <1>9, <1>10, <1>11 DEF Closed
  <1> QED BY <1>12 DEF r, ab

\* Joining, leaving and closing keep a queue sound.
LEMMA SoundJoined ==
    ASSUME NEW q, NEW h, NEW r, Sound(q), Joined(q, h, r), GoodRead(h) => h.frames # << >>
    PROVE  Sound(r)
  <1>1. q \in Seq(Handlers) /\ r \in Seq(Handlers) /\ Len(r) = Len(q) + 1 /\ Len(q) \in Nat
    BY DEF Sound, Joined
  <1>2. ASSUME NEW i \in DOMAIN r, GoodRead(r[i]) PROVE r[i].frames # << >>
    <2>1. CASE i = Len(q) + 1
      BY <1>2, <2>1 DEF Joined
    <2>2. CASE i # Len(q) + 1
      BY <1>1, <1>2, <2>2 DEF Joined, Sound
    <2> QED BY <2>1, <2>2
  <1> QED BY <1>1, <1>2 DEF Sound

\* What leaves a sound queue is sound, and so is the rest.
LEMMA SoundTaken ==
    ASSUME NEW q, NEW h, NEW r, Sound(q), Taken(q, h, r)
    PROVE  Sound(r) /\ h \in Handlers /\ (GoodRead(h) => h.frames # << >>)
  <1>1. q \in Seq(Handlers) /\ r \in Seq(Handlers) /\ Len(q) = Len(r) + 1 /\ Len(r) \in Nat
    BY DEF Sound, Taken
  <1>2. ASSUME NEW i \in DOMAIN r, GoodRead(r[i]) PROVE r[i].frames # << >>
    <2>1. i + 1 \in DOMAIN q /\ r[i] = q[i + 1]
      BY <1>1 DEF Taken
    <2> QED BY <1>2, <2>1 DEF Sound
  <1>3. 1 \in DOMAIN q /\ q[1] = h
    BY <1>1 DEF Taken
  <1> QED BY <1>1, <1>2, <1>3 DEF Sound, Taken

\* The queue with failed operations behind it, and nothing else new.
Extended(q, r) ==
    /\ r \in Seq(Handlers) /\ Len(q) \in Nat /\ Len(r) \in Nat /\ Len(r) >= Len(q)
    /\ \A i \in 1 .. Len(q) : r[i] = q[i]
    /\ \A i \in 1 .. Len(r) :
          i > Len(q) => r[i].res = "err" /\ r[i].kind \in {"resolve", "connect", "read", "written"}

\* Failed operations behind a sound queue leave it sound.
LEMMA SoundExtended ==
    ASSUME NEW q, NEW r, Sound(q), Extended(q, r)
    PROVE  Sound(r)
  <1>1. q \in Seq(Handlers) /\ r \in Seq(Handlers) /\ Len(q) \in Nat
    BY DEF Sound, Extended
  <1>2. ASSUME NEW i \in DOMAIN r, GoodRead(r[i]) PROVE r[i].frames # << >>
    <2>1. CASE i > Len(q)
      BY <1>1, <1>2, <2>1 DEF Extended, GoodRead
    <2>2. CASE ~(i > Len(q))
      BY <1>1, <1>2, <2>2 DEF Extended, Sound
    <2> QED BY <2>1, <2>2
  <1> QED BY <1>1, <1>2 DEF Sound

\* The counts of the queue after a socket was closed.
Kept(q, r) ==
    /\ \A k : N(q, k) \in Nat /\ N(r, k) \in Nat
    /\ \A k : k \notin {"resolve", "connect", "read", "written"} => N(r, k) = N(q, k)
    /\ "connect" \notin ops => N(r, "connect") = N(q, "connect")

\* schedule_reconnect closes the socket and cancels a resolve.
LEMMA Schedules ==
    ASSUME NEW hs, Sound(hs), ScheduleReconnect(hs)
    PROVE  /\ Extended(hs, ready') /\ Kept(hs, ready') /\ Sound(ready')
           /\ N(ready', "resolve") = N(hs, "resolve") + One(resolving)
  <1> DEFINE h == Handler("resolve", "err")
             q == IF resolving THEN Append(hs, h) ELSE hs
  <1>1. hs \in Seq(Handlers)
    BY DEF Sound
  <1>2. h \in Handlers /\ h.kind = "resolve" /\ h.res = "err"
    BY HandlerType DEF Kinds
  <1> HIDE DEF h
  <1>3. resolving => Joined(hs, h, q)
    BY <1>1, <1>2, Joins
  <1>4. q \in Seq(Handlers)
    BY <1>1, <1>2
  <1>5. ready' = q \o Aborted
    BY DEF ScheduleReconnect, CloseSocket, h
  <1> HIDE DEF q
  <1>6. Closed(q, ready')
    BY <1>4, <1>5, Closes
  <1>7. ~resolving => q = hs
    BY DEF q
  <1>8. Extended(hs, ready')
    <2>1. CASE resolving
      <3>1. Len(q) = Len(hs) + 1 /\ q[Len(hs) + 1] = h /\ (\A i \in 1 .. Len(hs) : q[i] = hs[i]) /\ Len(hs) \in Nat
        BY <1>1, <1>3, <2>1 DEF Joined
      <3>2. ready' \in Seq(Handlers) /\ Len(ready') \in Nat /\ Len(ready') >= Len(q)
            /\ (\A i \in 1 .. Len(q) : ready'[i] = q[i])
            /\ \A i \in 1 .. Len(ready') :
                  i > Len(q) => ready'[i].res = "err" /\ ready'[i].kind \in {"connect", "read", "written"}
        BY <1>6 DEF Closed
      <3>3. \A i \in 1 .. Len(hs) : ready'[i] = hs[i]
        BY <3>1, <3>2
      <3>4. ASSUME NEW i \in 1 .. Len(ready'), i > Len(hs)
            PROVE  ready'[i].res = "err" /\ ready'[i].kind \in {"resolve", "connect", "read", "written"}
        <4>1. CASE i = Len(hs) + 1
          BY <1>2, <3>1, <3>2, <4>1
        <4>2. CASE i # Len(hs) + 1
          BY <3>1, <3>2, <3>4, <4>2
        <4> QED BY <4>1, <4>2
      <3> QED BY <3>1, <3>2, <3>3, <3>4 DEF Extended
    <2>2. CASE ~resolving
      BY <1>6, <1>7, <2>2 DEF Extended, Closed
    <2> QED BY <2>1, <2>2
  <1>9. \A k : N(hs, k) \in Nat /\ N(q, k) = N(hs, k) + One(k = "resolve" /\ resolving)
    <2>1. CASE resolving
      BY <1>2, <1>3, <2>1 DEF Joined, One
    <2>2. CASE ~resolving
      BY <1>6, <1>7, <2>2 DEF Closed, One
    <2> QED BY <2>1, <2>2
  <1>10. Kept(hs, ready')
    <2>1. \A k : N(hs, k) \in Nat /\ N(ready', k) \in Nat
      BY <1>6, <1>9 DEF Closed
    <2>2. \A k : k # "resolve" => N(q, k) = N(hs, k)
      BY <1>9 DEF One
    <2>3. \A k : k \notin {"resolve", "connect", "read", "written"} => N(ready', k) = N(hs, k)
      BY <1>6, <2>2 DEF Closed
    <2>4. "connect" \notin ops => N(ready', "connect") = N(hs, "connect")
      BY <1>6, <2>2 DEF Closed
    <2> QED BY <2>1, <2>3, <2>4 DEF Kept
  <1>11. N(ready', "resolve") = N(hs, "resolve") + One(resolving)
    BY <1>6, <1>9 DEF Closed, One
  <1> QED BY <1>8, <1>10, <1>11, SoundExtended

\* do_connect closes the socket.
LEMMA Reopens ==
    ASSUME NEW hs, Sound(hs), CloseSocket(hs)
    PROVE  /\ Extended(hs, ready') /\ Kept(hs, ready') /\ Sound(ready')
           /\ N(ready', "resolve") = N(hs, "resolve")
  <1>1. Closed(hs, ready')
    BY Closes DEF Sound, CloseSocket
  <1>2. Extended(hs, ready')
    BY <1>1 DEF Extended, Closed
  <1>3. Kept(hs, ready') /\ N(ready', "resolve") = N(hs, "resolve")
    BY <1>1 DEF Kept, Closed
  <1> QED BY <1>2, <1>3, SoundExtended

\* The handler h runs, with hs the queue behind it.
Runs(h, hs) ==
    /\ RunTimer(h, hs) \/ RunResolve(h, hs) \/ RunConnect(h, hs) \/ RunRead(h, hs)
       \/ RunWritten(h, hs) \/ RunPost(h, hs) \/ RunHk(h, hs) \/ RunHkReq(h, hs)
    /\ UNCHANGED <<up, device, downs, changes, received>>

\* The handler h has left the queue, and hs is behind it.
Taking(h, hs) == Taken(ready, h, hs) /\ Sound(hs) /\ (GoodRead(h) => h.frames # << >>)

\* RunHandler: the front of the queue runs, whichever of the eight handlers it is.
LEMMA Handles ==
    ASSUME Types, RunHandler
    PROVE  \E h, hs : Taking(h, hs) /\ Runs(h, hs)
  <1> DEFINE h == Head(ready)
             hs == Tail(ready)
  <1>1. Sound(ready) /\ ready \in Seq(Handlers) /\ ready # << >>
    BY DEF Types, ClientTypes, AppTypes, DaemonTypes, Sound, RunHandler
  <1>2. Taken(ready, h, hs)
    BY <1>1, Takes
  <1>3. Runs(h, hs)
    BY DEF Runs, RunHandler
  <1> HIDE DEF h, hs
  <1>4. Taking(h, hs)
    BY <1>1, <1>2, SoundTaken DEF Taking
  <1> QED BY <1>3, <1>4

\* A completed operation or an entered command joins the queue.
LEMMA SoundAppend ==
    ASSUME NEW q, Sound(q), NEW h \in Handlers, GoodRead(h) => h.frames # << >>
    PROVE  Sound(Append(q, h)) /\ Joined(q, h, Append(q, h))
  <1>1. Joined(q, h, Append(q, h))
    BY Joins DEF Sound
  <1> QED BY <1>1, SoundJoined

------------------------------------------------------------------------------
(* The types.                                                               *)

\* The first n elements of a sequence, and what is left of it.
LEMMA Cut ==
    ASSUME NEW S, NEW s \in Seq(S), NEW n \in 1 .. Len(s)
    PROVE  /\ SubSeq(s, 1, n) \in Seq(S) /\ SubSeq(s, 1, n) # << >>
           /\ Len(SubSeq(s, 1, n)) = n /\ SubSeq(s, 1, n)[n] = s[n]
           /\ SubSeq(s, n + 1, Len(s)) \in Seq(S)
  <1> DEFINE a == SubSeq(s, 1, n)
  <1>1. a \in Seq(S) /\ Len(a) = n /\ a[n] = s[n]
    BY SubSeqProperties
  <1>2. SubSeq(s, n + 1, Len(s)) \in Seq(S)
    BY SubSeqProperties
  <1>3. a # << >>
    <2>1. a = << >> <=> Len(a) = 0
      BY <1>1, EmptySeq
    <2> QED BY <1>1, <2>1
  <1> QED BY <1>1, <1>2, <1>3

\* What a read leaves on the line: nothing, or a sequence with the same last frame.
LEMMA Rest ==
    ASSUME NEW S, NEW s \in Seq(S), NEW n \in 1 .. Len(s)
    PROVE  /\ SubSeq(s, n + 1, Len(s)) = << >> <=> n = Len(s)
           /\ SubSeq(s, n + 1, Len(s)) # << >> =>
                SubSeq(s, n + 1, Len(s))[Len(SubSeq(s, n + 1, Len(s)))] = s[Len(s)]
  <1> DEFINE b == SubSeq(s, n + 1, Len(s))
  <1>0. Len(s) \in Nat /\ n \in Nat /\ n <= Len(s) /\ n >= 1
    OBVIOUS
  <1>2. b \in Seq(S)
    BY SubSeqProperties
  <1>3. Len(b) = Len(s) - n
    BY <1>0, SubSeqProperties
  <1>4. \A i \in 1 .. Len(b) : b[i] = s[n + i]
    BY <1>0, <1>3, SubSeqProperties
  <1> HIDE DEF b
  <1>5. ASSUME n < Len(s) PROVE b[Len(b)] = s[Len(s)]
    <2>1. Len(b) \in 1 .. Len(b) /\ n + Len(b) = Len(s)
      BY <1>0, <1>3, <1>5
    <2> QED BY <1>4, <2>1
  <1>6. b = << >> <=> n = Len(s)
    <2>1. b = << >> <=> Len(b) = 0
      BY <1>2, EmptySeq
    <2> HIDE <1>2
    <2> QED BY <1>0, <1>3, <2>1
  <1>7. b # << >> => n < Len(s)
    BY <1>0, <1>6
  <1> QED BY <1>5, <1>6, <1>7, Zenon DEF b

\* Every step of the UI, of the daemon and of the operator keeps the types.
LEMMA TypesStep ==
    ASSUME Types, [Next]_vars
    PROVE  Types'
  <1>0. << >> \in Seq(BOOLEAN) /\ << >> \in Seq(Nat) /\ {} \in SUBSET {"connect", "read", "write"}
    OBVIOUS
  <1>1. CASE World
    <2>1. CASE DaemonStops \/ DaemonStarts
      <3>1. /\ up' \in BOOLEAN /\ alive' \in {alive, FALSE} /\ downs' \in {downs, downs + 1}
            /\ UNCHANGED <<clientVars, flagVars, hkVars, line, device, changes, received, crashed>>
        BY <2>1, Zenon DEF DaemonStops, DaemonStarts
      <3>2. ClientTypes'
        BY <3>1 DEF Types, ClientTypes, clientVars, flagVars, hkVars, Sound, GoodRead
      <3>3. AppTypes'
        BY <3>1 DEF Types, AppTypes, clientVars, flagVars, hkVars, Sound, GoodRead
      <3>4. DaemonTypes'
        <4>1. up' \in BOOLEAN /\ device' \in BOOLEAN /\ line' \in Seq(BOOLEAN) /\ received' \in Seq(Nat)
              /\ changes' \in Nat
          BY <3>1 DEF Types, DaemonTypes
        <4>2. alive' \in BOOLEAN
          BY <3>1, Zenon DEF Types, DaemonTypes
        <4>3. downs' \in Nat
          BY <3>1 DEF Types, DaemonTypes
        <4> QED BY <4>1, <4>2, <4>3, Zenon DEF DaemonTypes
      <3> QED BY <3>2, <3>3, <3>4 DEF Types
    <2>2. CASE DeviceChanges
      <3>1. device' \in BOOLEAN /\ line \in Seq(BOOLEAN)
        BY <2>2 DEF DeviceChanges, Types, ClientTypes, AppTypes, DaemonTypes
      <3>2. line' = Append(line, device') \/ line' = line
        BY <2>2 DEF DeviceChanges
      <3>3. line' \in Seq(BOOLEAN)
        BY <3>1, <3>2
      <3> QED BY <2>2, <3>1, <3>3 DEF DeviceChanges, Types, ClientTypes, AppTypes, DaemonTypes, clientVars, flagVars, hkVars, Sound, GoodRead
    <2> QED BY <1>1, <2>1, <2>2 DEF World
  <1>2. CASE UNCHANGED vars
    BY <1>2 DEF vars, Types, ClientTypes, AppTypes, DaemonTypes, clientVars, flagVars, hkVars, daemonVars, Sound, GoodRead
  <1>3. ASSUME NEW o, NEW h \in Handlers, GoodRead(h) => h.frames # << >>, Completed(o, h),
               alive' \in BOOLEAN, line' \in Seq(BOOLEAN), received' \in Seq(Nat)
        PROVE  Types'
    <2>1. Sound(ready')
      BY <1>3, SoundAppend DEF Completed, Types, ClientTypes, AppTypes, DaemonTypes
    <2> QED BY <1>3, <2>1 DEF Completed, Quiesce, Types, ClientTypes, AppTypes, DaemonTypes, flagVars, hkVars
  <1>4. CASE System
    <2>1. ASSUME NEW res \in {"ok", "err"}, Resolved(res) PROVE Types'
      <3>1. Sound(ready')
        BY <2>1, SoundAppend, HandlerType DEF Resolved, Types, ClientTypes, AppTypes, DaemonTypes, Kinds, GoodRead
      <3>2. resolving' = FALSE /\ Quiesce /\ UNCHANGED <<sock_, ops, tx_queue_, alive, line, received>>
        BY <2>1, Zenon DEF Resolved
      <3>3. ClientTypes'
        BY <3>1, <3>2 DEF Types, ClientTypes, Quiesce, flagVars, hkVars
      <3>4. AppTypes'
        BY <3>1, <3>2 DEF Types, AppTypes, Quiesce, flagVars, hkVars
      <3>5. DaemonTypes'
        BY <3>1, <3>2 DEF Types, DaemonTypes, Quiesce, flagVars, hkVars
      <3> QED BY <3>3, <3>4, <3>5 DEF Types
    <2>2. CASE ConnectCompletes
      <3> DEFINE res == IF up THEN "ok" ELSE "err"
                 h == Handler("connect", res)
      <3>1. h \in Handlers /\ h.kind = "connect"
        BY HandlerType DEF Kinds
      <3>2. Completed("connect", h) /\ alive' = up /\ line' = (IF up THEN <<device>> ELSE << >>) /\ UNCHANGED received
        BY <2>2 DEF ConnectCompletes
      <3> HIDE DEF h
      <3>3. alive' \in BOOLEAN /\ line' \in Seq(BOOLEAN) /\ received' \in Seq(Nat)
        <4>1. up \in BOOLEAN /\ device \in BOOLEAN /\ received \in Seq(Nat)
          BY DEF Types, ClientTypes, AppTypes, DaemonTypes
        <4>2. <<device>> \in Seq(BOOLEAN) /\ << >> \in Seq(BOOLEAN)
          BY <4>1
        <4> QED BY <3>2, <4>1, <4>2, Zenon
      <3> QED BY <1>3, <3>1, <3>2, <3>3 DEF GoodRead
    <2>3. ASSUME NEW n \in 1 .. MaxChanges + 1, ReadCompletes(n) PROVE Types'
      <3> DEFINE s == SubSeq(line, 1, n)
                 h == [Handler("read", "ok") EXCEPT !.frames = s]
      <3>1. n \in 1 .. Len(line)
        BY <2>3 DEF ReadCompletes
      <3>2. s \in Seq(BOOLEAN) /\ s # << >> /\ SubSeq(line, n + 1, Len(line)) \in Seq(BOOLEAN)
        <4>1. line \in Seq(BOOLEAN)
          BY DEF Types, ClientTypes, AppTypes, DaemonTypes
        <4> QED BY <3>1, <4>1, Cut
      <3>3. Completed("read", h) /\ line' = SubSeq(line, n + 1, Len(line)) /\ UNCHANGED <<alive, received>>
        BY <2>3 DEF ReadCompletes
      <3> HIDE DEF s
      <3>4. h \in Handlers /\ h.frames # << >>
        BY <3>2, HandlerType
      <3> HIDE DEF h
      <3>5. alive' \in BOOLEAN /\ line' \in Seq(BOOLEAN) /\ received' \in Seq(Nat)
        BY <3>2, <3>3 DEF Types, ClientTypes, AppTypes, DaemonTypes
      <3> QED BY <1>3, <3>3, <3>4, <3>5
    <2>4. CASE WriteCompletes
      <3>1. received' \in Seq(Nat)
        BY <2>4 DEF WriteCompletes, Types, ClientTypes, AppTypes, DaemonTypes
      <3>2. Handler("written", "ok") \in Handlers /\ ~GoodRead(Handler("written", "ok"))
        BY HandlerType DEF Kinds, GoodRead
      <3>3. Completed("write", Handler("written", "ok")) /\ UNCHANGED <<alive, line>>
        BY <2>4 DEF WriteCompletes
      <3>4. alive' \in BOOLEAN /\ line' \in Seq(BOOLEAN)
        BY <3>3 DEF Types, ClientTypes, AppTypes, DaemonTypes
      <3> QED BY <1>3, <3>1, <3>2, <3>3, <3>4
    <2>5. CASE IoFails
      <3>1. /\ Handler("read", "err") \in Handlers /\ ~GoodRead(Handler("read", "err"))
            /\ Handler("written", "err") \in Handlers /\ ~GoodRead(Handler("written", "err"))
        BY HandlerType DEF Kinds, GoodRead
      <3>2. alive' \in BOOLEAN /\ line' \in Seq(BOOLEAN) /\ received' \in Seq(Nat)
        BY <2>5 DEF IoFails, Types, ClientTypes, AppTypes, DaemonTypes
      <3>3. Completed("read", Handler("read", "err")) \/ Completed("write", Handler("written", "err"))
        BY <2>5 DEF IoFails
      <3> QED BY <1>3, <3>1, <3>2, <3>3
    <2> QED BY <1>4, <2>1, <2>2, <2>3, <2>4, <2>5 DEF System
  <1>5. CASE Timers
    <2>1. CASE TimerExpires
      <3>1. << >> \in Seq(Handlers) /\ Sound(<< >>) /\ <<Handler("timer", "ok")>> = Append(<< >>, Handler("timer", "ok"))
        BY DEF Sound
      <3>2. Handler("timer", "ok") \in Handlers /\ ~GoodRead(Handler("timer", "ok"))
        BY HandlerType DEF Kinds, GoodRead
      <3>3. Sound(Append(<< >>, Handler("timer", "ok")))
        BY <3>1, <3>2, SoundAppend
      <3>4. Sound(ready')
        BY <2>1, <3>1, <3>3, Zenon DEF TimerExpires
      <3> QED BY <2>1, <3>4, ZenonT(60) DEF TimerExpires, Types, ClientTypes, AppTypes, DaemonTypes, flagVars, hkVars, daemonVars
    <2>2. CASE HkExpires
      <3>1. Sound(ready')
        BY <2>2, SoundAppend, HandlerType DEF HkExpires, Kinds, GoodRead, Types, ClientTypes, AppTypes, DaemonTypes
      <3> QED BY <2>2, <3>1, ZenonT(60) DEF HkExpires, Types, ClientTypes, AppTypes, DaemonTypes, flagVars, daemonVars
    <2> QED BY <1>5, <2>1, <2>2 DEF Timers
  <1>6. CASE Operator
    <2>1. CASE HkSwitch
      BY <2>1 DEF HkSwitch, Types, ClientTypes, AppTypes, DaemonTypes, clientVars, flagVars, daemonVars, Sound, GoodRead
    <2>2. ASSUME NEW h \in Handlers, ~GoodRead(h), Enter(h) PROVE Types'
      <3>1. Sound(ready')
        BY <2>2, SoundAppend DEF Enter, Types, ClientTypes, AppTypes, DaemonTypes
      <3> QED BY <2>2, <3>1 DEF Enter, Types, ClientTypes, AppTypes, DaemonTypes, flagVars, daemonVars
    <2>3. /\ Handler("hkreq", "ok") \in Handlers /\ ~GoodRead(Handler("hkreq", "ok"))
          /\ Post(Command) \in Handlers /\ ~GoodRead(Post(Command))
      BY HandlerType DEF Kinds, GoodRead, Command
    <2> QED BY <1>6, <2>1, <2>2, <2>3 DEF Operator, HkReq, SendCommand
  <1>7. CASE RunHandler
    <2>1. PICK h, hs : Taking(h, hs) /\ Runs(h, hs)
      BY <1>7, Handles
    <2>2. Sound(hs) /\ h \in Handlers
      BY <2>1 DEF Taking, Taken
    <2>3. up' \in BOOLEAN /\ device' \in BOOLEAN /\ downs' \in Nat /\ changes' \in Nat /\ received' \in Seq(Nat)
      BY <2>1 DEF Runs, Types, ClientTypes, AppTypes, DaemonTypes
    <2>4. ASSUME ScheduleReconnect(hs), UNCHANGED hkVars, crashed' \in BOOLEAN PROVE Types'
      <3>1. Sound(ready')
        BY <2>2, <2>4, Schedules
      <3>2. timer' \in BOOLEAN
        BY <2>4 DEF ScheduleReconnect
      <3>3. /\ sock_' = "closed" /\ ops' = {} /\ tx_queue_' = << >> /\ alive' = FALSE /\ line' = << >>
            /\ resolving' = FALSE /\ connected_' = FALSE /\ daemon_connected' = FALSE
            /\ device_connected' = FALSE /\ reconnect_scheduled_' = TRUE
        BY <2>4, Zenon DEF ScheduleReconnect, CloseSocket, SetDisconnected
      <3>4. ClientTypes'
        BY <1>0, <3>1, <3>2, <3>3, Zenon DEF ClientTypes
      <3>5. AppTypes'
        BY <2>3, <2>4, <3>1, <3>2, <3>3 DEF Types, AppTypes, hkVars
      <3>6. DaemonTypes'
        BY <1>0, <2>3, <3>3, Zenon DEF DaemonTypes
      <3> QED BY <3>4, <3>5, <3>6 DEF Types
    <2>5. CASE RunTimer(h, hs)
      <3>1. CloseSocket(hs)
        BY <2>5 DEF RunTimer, DoConnect
      <3>2. Sound(ready')
        BY <2>2, <3>1, Reopens
      <3>3. /\ sock_' = "closed" /\ ops' = {} /\ tx_queue_' = << >> /\ alive' = FALSE /\ line' = << >>
            /\ resolving' = TRUE /\ reconnect_scheduled_' = FALSE
            /\ UNCHANGED <<timer, connected_, flagVars, hkVars, crashed>>
        BY <2>5 DEF RunTimer, DoConnect, CloseSocket
      <3>4. ClientTypes'
        <4>1. timer' \in BOOLEAN /\ connected_' \in BOOLEAN
          BY <3>3 DEF Types, ClientTypes
        <4> QED BY <1>0, <3>2, <3>3, <4>1, Zenon DEF ClientTypes
      <3>5. AppTypes'
        BY <2>3, <3>2, <3>3 DEF Types, AppTypes, hkVars, flagVars
      <3>6. DaemonTypes'
        BY <1>0, <2>3, <3>3, Zenon DEF DaemonTypes
      <3> QED BY <3>4, <3>5, <3>6 DEF Types
    <2>6. CASE RunResolve(h, hs)
      <3>1. CASE h.res = "err"
        BY <2>4, <2>6, <3>1 DEF RunResolve, Types, AppTypes
      <3>2. CASE h.res = "ok"
        <4>1. ClientTypes'
          BY <2>2, <2>3, <2>6, <3>2 DEF Types, ClientTypes, RunResolve, hkVars, flagVars
        <4>2. AppTypes'
          BY <2>2, <2>3, <2>6, <3>2 DEF Types, AppTypes, RunResolve, hkVars, flagVars
        <4>3. DaemonTypes'
          BY <2>2, <2>3, <2>6, <3>2 DEF Types, DaemonTypes, RunResolve, hkVars, flagVars
        <4> QED BY <4>1, <4>2, <4>3 DEF Types
      <3> QED BY <2>6, <3>1, <3>2 DEF RunResolve
    <2>7. CASE RunConnect(h, hs)
      <3>1. CASE h.res = "err"
        BY <2>4, <2>7, <3>1 DEF RunConnect, Types, AppTypes
      <3>2. CASE h.res = "ok"
        <4>1. ClientTypes'
          BY <2>2, <2>3, <2>7, <3>2 DEF Types, ClientTypes, RunConnect, hkVars, flagVars
        <4>2. AppTypes'
          BY <2>2, <2>3, <2>7, <3>2 DEF Types, AppTypes, RunConnect, hkVars, flagVars
        <4>3. DaemonTypes'
          BY <2>2, <2>3, <2>7, <3>2 DEF Types, DaemonTypes, RunConnect, hkVars, flagVars
        <4> QED BY <4>1, <4>2, <4>3 DEF Types
      <3> QED BY <2>7, <3>1, <3>2 DEF RunConnect
    <2>8. CASE RunRead(h, hs)
      <3>1. Handler("read", "err") \in Handlers /\ ~GoodRead(Handler("read", "err"))
        BY HandlerType DEF Kinds, GoodRead
      <3>2. Sound(Append(hs, Handler("read", "err")))
        BY <2>2, <3>1, SoundAppend
      <3>3. ASSUME h.res = "ok", h.kind = "read" PROVE h.frames[Len(h.frames)] \in BOOLEAN
        <4>1. h.frames \in Seq(BOOLEAN) /\ h.frames # << >>
          BY <2>1, <2>2, <3>3 DEF Taking, GoodRead, Handlers
        <4> QED BY <4>1
      <3>4. CASE h.res = "err"
        BY <2>4, <2>8, <3>4 DEF RunRead, Types, AppTypes
      <3>5. CASE h.res = "ok"
        <4>0. device_connected' \in BOOLEAN
          BY <2>8, <3>3, <3>5 DEF RunRead, OnFrames
        <4>1. ClientTypes'
          BY <2>2, <2>3, <2>8, <3>2, <3>5, <4>0 DEF Types, ClientTypes, RunRead, hkVars
        <4>2. AppTypes'
          BY <2>2, <2>3, <2>8, <3>2, <3>5, <4>0 DEF Types, AppTypes, RunRead, hkVars
        <4>3. DaemonTypes'
          BY <2>2, <2>3, <2>8, <3>2, <3>5, <4>0 DEF Types, DaemonTypes, RunRead, hkVars
        <4> QED BY <4>1, <4>2, <4>3 DEF Types
      <3> QED BY <2>8, <3>4, <3>5 DEF RunRead
    <2>9. CASE RunWritten(h, hs)
      <3>1. tx_queue_ # << >> => Tail(tx_queue_) \in Seq(Nat)
        BY DEF Types, ClientTypes, AppTypes, DaemonTypes
      <3>2. CASE h.res = "err"
        BY <2>4, <2>9, <3>2 DEF RunWritten, Types, AppTypes
      <3>3. CASE h.res = "ok"
        <4>1. ClientTypes'
          BY <2>2, <2>3, <2>9, <3>1, <3>3 DEF Types, ClientTypes, RunWritten, DoWrite, hkVars, flagVars
        <4>2. AppTypes'
          BY <2>2, <2>3, <2>9, <3>1, <3>3 DEF Types, AppTypes, RunWritten, DoWrite, hkVars, flagVars
        <4>3. DaemonTypes'
          BY <2>2, <2>3, <2>9, <3>1, <3>3 DEF Types, DaemonTypes, RunWritten, DoWrite, hkVars, flagVars
        <4> QED BY <4>1, <4>2, <4>3 DEF Types
      <3> QED BY <2>9, <3>2, <3>3 DEF RunWritten
    <2>10. CASE RunPost(h, hs)
      <3>1. h.tc \in Nat
        BY <2>2 DEF Handlers
      <3>2. Append(tx_queue_, h.tc) \in Seq(Nat) /\ <<h.tc>> \in Seq(Nat)
        BY <3>1 DEF Types, ClientTypes, AppTypes, DaemonTypes
      <3>3. ClientTypes'
        BY <2>2, <2>3, <2>10, <3>2 DEF Types, ClientTypes, RunPost, DoWrite, hkVars, flagVars
      <3>4. AppTypes'
        BY <2>2, <2>3, <2>10, <3>2 DEF Types, AppTypes, RunPost, DoWrite, hkVars, flagVars
      <3>5. DaemonTypes'
        BY <2>2, <2>3, <2>10, <3>2 DEF Types, DaemonTypes, RunPost, DoWrite, hkVars, flagVars
      <3> QED BY <3>3, <3>4, <3>5 DEF Types
    <2>11. ASSUME SendSystemHk(hs) PROVE Sound(ready') /\ tc_sequence' \in Nat
      <3>1. Post(tc_sequence) \in Handlers /\ ~GoodRead(Post(tc_sequence))
        BY HandlerType DEF GoodRead, Types, ClientTypes, AppTypes, DaemonTypes
      <3>2. tc_sequence' \in Nat
        BY <2>11 DEF SendSystemHk, Types, ClientTypes, AppTypes, DaemonTypes
      <3> QED BY <2>2, <2>11, <3>1, <3>2, SoundAppend DEF SendSystemHk
    <2>12. CASE RunHk(h, hs)
      <3>1. Sound(ready') /\ tc_sequence' \in Nat
        BY <2>2, <2>11, <2>12 DEF RunHk, Types, ClientTypes, AppTypes, DaemonTypes
      <3>2. ClientTypes'
        BY <2>3, <2>12, <3>1 DEF RunHk, Types, ClientTypes, flagVars
      <3>3. AppTypes'
        BY <2>3, <2>12, <3>1 DEF RunHk, Types, AppTypes, flagVars
      <3>4. DaemonTypes'
        BY <2>3, <2>12, <3>1 DEF RunHk, Types, DaemonTypes, flagVars
      <3> QED BY <3>2, <3>3, <3>4 DEF Types
    <2>13. CASE RunHkReq(h, hs)
      <3>1. ClientTypes'
        BY <2>3, <2>11, <2>13 DEF Types, ClientTypes, RunHkReq, flagVars
      <3>2. AppTypes'
        BY <2>3, <2>11, <2>13 DEF Types, AppTypes, RunHkReq, flagVars
      <3>3. DaemonTypes'
        BY <2>3, <2>11, <2>13 DEF Types, DaemonTypes, RunHkReq, flagVars
      <3> QED BY <3>1, <3>2, <3>3 DEF Types
    <2> QED BY <2>1, <2>5, <2>6, <2>7, <2>8, <2>9, <2>10, <2>12, <2>13 DEF Runs
  <1> QED BY <1>1, <1>2, <1>4, <1>5, <1>6, <1>7 DEF Next

------------------------------------------------------------------------------
(* What joins the queue, by action.                                         *)

\* A handler of kind k with result res joins the queue.
Queues(k, res) ==
    \E h \in Handlers : Joined(ready, h, ready') /\ h.kind = k /\ h.res = res

\* The steps that queue a handler, by its kind and result.
LEMMA Queueing ==
    ASSUME Types
    PROVE  /\ \A k \in Kinds : \A res \in {"ok", "err"} :
                 ready' = Append(ready, Handler(k, res)) => Queues(k, res)
           /\ \A n : ReadCompletes(n) => Queues("read", "ok")
           /\ TimerExpires => Queues("timer", "ok")
           /\ SendCommand => Queues("post", "ok")
  <1>0. ready \in Seq(Handlers) /\ line \in Seq(BOOLEAN)
    BY DEF Types, ClientTypes, DaemonTypes, Sound
  <1>1. ASSUME NEW k \in Kinds, NEW res \in {"ok", "err"}, ready' = Append(ready, Handler(k, res))
        PROVE  Queues(k, res)
    <2>1. Handler(k, res) \in Handlers /\ Handler(k, res).kind = k /\ Handler(k, res).res = res
      BY HandlerType
    <2>2. Joined(ready, Handler(k, res), ready')
      BY <1>0, <1>1, <2>1, Joins
    <2> QED BY <2>1, <2>2 DEF Queues
  <1>2. ASSUME NEW n, ReadCompletes(n) PROVE Queues("read", "ok")
    <2> DEFINE s == SubSeq(line, 1, n)
               h == [Handler("read", "ok") EXCEPT !.frames = s]
    <2>1. n \in 1 .. Len(line) /\ ready' = Append(ready, h)
      BY <1>2 DEF ReadCompletes, Completed
    <2>2. s \in Seq(BOOLEAN)
      BY <1>0, <2>1, Cut
    <2> HIDE DEF s
    <2>3. h \in Handlers /\ h.kind = "read" /\ h.res = "ok"
      BY <2>2, HandlerType
    <2> HIDE DEF h
    <2>4. Joined(ready, h, ready')
      BY <1>0, <2>1, <2>3, Joins
    <2> QED BY <2>3, <2>4 DEF Queues
  <1>3. ASSUME TimerExpires PROVE Queues("timer", "ok")
    <2>1. ready' = Append(ready, Handler("timer", "ok"))
      BY <1>3 DEF TimerExpires
    <2> QED BY <1>1, <2>1 DEF Kinds
  <1>4. ASSUME SendCommand PROVE Queues("post", "ok")
    <2>1. Post(0) \in Handlers /\ Post(0).kind = "post" /\ Post(0).res = "ok"
      BY HandlerType DEF Post, Handler
    <2>2. ready' = Append(ready, Post(0))
      BY <1>4 DEF SendCommand, Enter, Command
    <2>3. Joined(ready, Post(0), ready')
      BY <1>0, <2>1, <2>2, Joins
    <2> QED BY <2>1, <2>3 DEF Queues
  <1> QED BY <1>1, <1>2, <1>3, <1>4

\* The counts of the queue before and after a handler joined it.
LEMMA QueuesCounts ==
    ASSUME NEW j, NEW res, Queues(j, res)
    PROVE  \A k : N(ready, k) \in Nat /\ N(ready', k) = N(ready, k) + One(j = k)
  BY DEF Queues, Joined

\* Completions: which handler joins the queue, and what else changes.
LEMMA Completions ==
    ASSUME Types, System
    PROVE  \/ \E res \in {"ok", "err"} : Resolved(res) /\ Queues("resolve", res)
           \/ ConnectCompletes /\ \E res \in {"ok", "err"} : Queues("connect", res)
           \/ \E n \in 1 .. Len(line) : ReadCompletes(n) /\ Queues("read", "ok")
           \/ WriteCompletes /\ Queues("written", "ok")
           \/ IoFails /\ "read" \in ops /\ ops' = ops \ {"read"} /\ Queues("read", "err")
           \/ IoFails /\ "write" \in ops /\ ops' = ops \ {"write"} /\ Queues("written", "err")
  <1>1. \A k \in Kinds : \A res \in {"ok", "err"} :
           ready' = Append(ready, Handler(k, res)) => Queues(k, res)
    BY Queueing
  <1>2. ASSUME NEW res \in {"ok", "err"}, Resolved(res) PROVE Queues("resolve", res)
    BY <1>1, <1>2 DEF Resolved, Kinds
  <1>3. ASSUME ConnectCompletes PROVE \E res \in {"ok", "err"} : Queues("connect", res)
    <2>1. \E res \in {"ok", "err"} : ready' = Append(ready, Handler("connect", res))
      BY <1>3 DEF ConnectCompletes, Completed
    <2> QED BY <1>1, <2>1 DEF Kinds
  <1>4. ASSUME NEW n, ReadCompletes(n) PROVE n \in 1 .. Len(line) /\ Queues("read", "ok")
    BY <1>4, Queueing DEF ReadCompletes
  <1>5. ASSUME WriteCompletes PROVE Queues("written", "ok")
    BY <1>1, <1>5 DEF WriteCompletes, Completed, Kinds
  <1>6. ASSUME IoFails
        PROVE  \/ "read" \in ops /\ ops' = ops \ {"read"} /\ Queues("read", "err")
               \/ "write" \in ops /\ ops' = ops \ {"write"} /\ Queues("written", "err")
    BY <1>1, <1>6 DEF IoFails, Completed, Kinds
  <1> QED BY <1>2, <1>3, <1>4, <1>5, <1>6 DEF System

------------------------------------------------------------------------------
(* The sequence count.                                                      *)

\* The sequence count stays within its bounds: every queued request for a
\* telecommand, and the timer of 30 seconds, is paid for before it counts.
LEMMA CountsStep ==
    ASSUME Types, Counts, [Next]_vars
    PROVE  Counts'
  <1>0. \A k : N(ready, k) \in Nat
    <2>1. ready \in Seq(Handlers)
      BY DEF Types, ClientTypes, Sound
    <2> QED BY <2>1, Nowhere
  <1>1. tc_sequence \in Nat /\ commands \in Nat /\ MaxTc \in Nat /\ MaxCommands \in Nat
    BY BoundsAssumption DEF Types, AppTypes
  <1>2. ASSUME UNCHANGED <<ready, hk_armed, tc_sequence, commands>> PROVE Counts'
    BY <1>2 DEF Counts
  <1>3. CASE World \/ HkSwitch \/ UNCHANGED vars
    BY <1>2, <1>3 DEF World, DaemonStops, DaemonStarts, DeviceChanges, HkSwitch, vars, clientVars, hkVars
  <1>4. ASSUME NEW k, NEW res, Queues(k, res), k \notin {"hk", "hkreq"}, UNCHANGED <<hk_armed, tc_sequence>>,
               commands' \in {commands, commands + 1}, commands' <= MaxCommands
        PROVE  Counts'
    <2>1. N(ready', "hk") = N(ready, "hk") /\ N(ready', "hkreq") = N(ready, "hkreq")
      BY <1>0, <1>4, QueuesCounts DEF One
    <2> QED BY <1>0, <1>1, <1>4, <2>1 DEF Counts
  <1>5. CASE System
    <2>1. UNCHANGED <<hk_armed, tc_sequence, commands>>
      BY <1>5 DEF System, Resolved, ConnectCompletes, ReadCompletes, WriteCompletes, IoFails, Completed, Quiesce, hkVars
    <2>2. commands' \in {commands, commands + 1} /\ commands' <= MaxCommands
      BY <2>1 DEF Counts
    <2> QED BY <1>4, <1>5, <2>1, <2>2, Completions
  <1>6. CASE TimerExpires
    <2>1. UNCHANGED <<hk_armed, tc_sequence, commands>>
      BY <1>6 DEF TimerExpires, hkVars
    <2>2. commands' \in {commands, commands + 1} /\ commands' <= MaxCommands
      BY <2>1 DEF Counts
    <2> QED BY <1>4, <1>6, <2>1, <2>2, Queueing
  <1>7. CASE HkExpires
    <2>1. Queues("hk", "ok")
      BY <1>7, Queueing DEF HkExpires, Kinds
    <2>2. N(ready', "hk") = N(ready, "hk") + 1 /\ N(ready', "hkreq") = N(ready, "hkreq")
      BY <2>1, <1>0, QueuesCounts DEF One
    <2>3. hk_armed /\ hk_armed' = FALSE /\ tc_sequence < MaxTc /\ UNCHANGED <<tc_sequence, commands>>
      BY <1>7 DEF HkExpires
    <2> QED BY <1>0, <1>1, <2>2, <2>3 DEF Counts, One
  <1>8. CASE HkReq
    <2>1. Queues("hkreq", "ok")
      BY <1>8, Queueing DEF HkReq, Enter, Kinds
    <2>2. N(ready', "hk") = N(ready, "hk") /\ N(ready', "hkreq") = N(ready, "hkreq") + 1
      BY <2>1, <1>0, QueuesCounts DEF One
    <2>3. commands < MaxCommands /\ commands' = commands + 1 /\ UNCHANGED <<tc_sequence, hk_armed>>
      BY <1>8 DEF HkReq, Enter
    <2> QED BY <1>0, <1>1, <2>2, <2>3 DEF Counts, One
  <1>9. CASE SendCommand
    <2>1. commands < MaxCommands /\ commands' = commands + 1 /\ UNCHANGED <<tc_sequence, hk_armed>>
      BY <1>9 DEF SendCommand, Enter
    <2> QED BY <1>1, <1>4, <1>9, <2>1, Queueing
  <1>10. CASE RunHandler
    <2>1. PICK h, hs : Taking(h, hs) /\ Runs(h, hs)
      BY <1>10, Handles
    <2>2. \A k : N(hs, k) \in Nat /\ N(ready, k) = N(hs, k) + One(h.kind = k)
      BY <2>1 DEF Taking, Taken
    <2>3. Sound(hs)
      BY <2>1 DEF Taking
    <2>4. ASSUME N(ready', "hk") = N(hs, "hk"), N(ready', "hkreq") = N(hs, "hkreq"), h.kind \notin {"hk", "hkreq"},
                 UNCHANGED hkVars
          PROVE  Counts'
      <3>1. N(ready', "hk") = N(ready, "hk") /\ N(ready', "hkreq") = N(ready, "hkreq")
        BY <2>2, <2>4 DEF One
      <3> QED BY <1>0, <1>1, <2>4, <3>1 DEF Counts, hkVars
    <2>5. ASSUME ScheduleReconnect(hs) PROVE N(ready', "hk") = N(hs, "hk") /\ N(ready', "hkreq") = N(hs, "hkreq")
      BY <2>3, <2>5, Schedules DEF Kept
    <2>6. CASE RunTimer(h, hs)
      <3>1. CloseSocket(hs) /\ h.kind = "timer" /\ UNCHANGED hkVars
        BY <2>6 DEF RunTimer, DoConnect
      <3>2. N(ready', "hk") = N(hs, "hk") /\ N(ready', "hkreq") = N(hs, "hkreq")
        BY <2>3, <3>1, Reopens DEF Kept
      <3> QED BY <2>4, <3>1, <3>2
    <2>7. CASE RunResolve(h, hs) \/ RunConnect(h, hs) \/ RunWritten(h, hs) \/ RunPost(h, hs)
      <3>1. h.kind \notin {"hk", "hkreq"} /\ UNCHANGED hkVars /\ (ScheduleReconnect(hs) \/ ready' = hs)
        BY <2>7 DEF RunResolve, RunConnect, RunWritten, RunPost
      <3> QED BY <2>4, <2>5, <3>1
    <2>8. CASE RunRead(h, hs)
      <3>1. /\ h.kind \notin {"hk", "hkreq"} /\ UNCHANGED hkVars
            /\ ScheduleReconnect(hs) \/ ready' = hs \/ ready' = Append(hs, Handler("read", "err"))
        BY <2>8 DEF RunRead
      <3>2. Handler("read", "err") \in Handlers /\ Handler("read", "err").kind = "read"
        BY HandlerType DEF Kinds
      <3>3. Joined(hs, Handler("read", "err"), Append(hs, Handler("read", "err")))
        BY <2>3, <3>2, Joins DEF Sound
      <3>4. ASSUME NEW r, r = Append(hs, Handler("read", "err"))
            PROVE  N(r, "hk") = N(hs, "hk") /\ N(r, "hkreq") = N(hs, "hkreq")
        BY <3>2, <3>3, <3>4 DEF Joined, One
      <3> QED BY <2>4, <2>5, <3>1, <3>4
    <2>9. ASSUME SendSystemHk(hs)
          PROVE  N(ready', "hk") = N(hs, "hk") /\ N(ready', "hkreq") = N(hs, "hkreq")
      <3>1. Post(tc_sequence) \in Handlers /\ Post(tc_sequence).kind = "post"
        BY <1>1, HandlerType
      <3>2. Joined(hs, Post(tc_sequence), ready')
        BY <2>3, <2>9, <3>1, Joins DEF Sound, SendSystemHk
      <3> QED BY <3>1, <3>2 DEF Joined, One
    <2>10. ASSUME SendSystemHk(hs), h.kind \in {"hk", "hkreq"} PROVE tc_sequence' = tc_sequence + 1
      <3>1. N(ready, "hkreq") + N(ready, "hk") >= 1
        BY <2>2, <2>10 DEF One
      <3>2. tc_sequence + 1 < 16384
        BY <1>0, <1>1, <3>1, CountsAssumption DEF Counts
      <3> QED BY <1>1, <2>10, <3>2 DEF SendSystemHk
    <2>11. CASE RunHk(h, hs)
      <3>1. h.kind = "hk" /\ hk_armed' = TRUE /\ UNCHANGED commands
        BY <2>11 DEF RunHk
      <3>2. N(ready', "hk") = N(hs, "hk") /\ N(ready', "hkreq") = N(hs, "hkreq")
            /\ tc_sequence' \in {tc_sequence, tc_sequence + 1}
        BY <2>9, <2>10, <2>11 DEF RunHk
      <3>3. N(ready, "hk") = N(hs, "hk") + 1 /\ N(ready, "hkreq") = N(hs, "hkreq") /\ N(hs, "hk") \in Nat
        BY <2>2, <3>1 DEF One
      <3> QED BY <1>0, <1>1, <3>1, <3>2, <3>3 DEF Counts, One
    <2>12. CASE RunHkReq(h, hs)
      <3>1. h.kind = "hkreq" /\ SendSystemHk(hs) /\ UNCHANGED <<commands, hk_armed>>
        BY <2>12 DEF RunHkReq
      <3>2. N(ready, "hk") = N(hs, "hk") /\ N(ready, "hkreq") = N(hs, "hkreq") + 1 /\ N(hs, "hkreq") \in Nat
        BY <2>2, <3>1 DEF One
      <3> QED BY <1>0, <1>1, <2>9, <2>10, <3>1, <3>2 DEF Counts, One
    <2> QED BY <2>1, <2>6, <2>7, <2>8, <2>11, <2>12 DEF Runs
  <1> QED BY <1>3, <1>5, <1>6, <1>7, <1>8, <1>9, <1>10 DEF Next, Timers, Operator

------------------------------------------------------------------------------
(* The way back.                                                            *)

\* Way, as a set of numbers: what SMT needs to know of the queue.
LEMMA WayFacts ==
    ASSUME Types, Way
    PROVE  /\ \A k : N(ready, k) \in Nat
           /\ connected_ => ~resolving /\ "connect" \notin ops /\ ~timer /\ N(ready, "resolve") = 0
                            /\ N(ready, "connect") = 0 /\ N(ready, "timer") = 0
           /\ resolving => ~connected_ /\ "connect" \notin ops /\ ~timer /\ N(ready, "resolve") = 0
                           /\ N(ready, "connect") = 0 /\ N(ready, "timer") = 0
           /\ "connect" \in ops => ~connected_ /\ ~resolving /\ ~timer /\ N(ready, "resolve") = 0
                                   /\ N(ready, "connect") = 0 /\ N(ready, "timer") = 0
           /\ timer => ~connected_ /\ ~resolving /\ "connect" \notin ops /\ N(ready, "resolve") = 0
                       /\ N(ready, "connect") = 0 /\ N(ready, "timer") = 0
           /\ \A k \in {"resolve", "connect", "timer"} : N(ready, k) # 0 =>
                 /\ ~connected_ /\ ~resolving /\ "connect" \notin ops /\ ~timer /\ N(ready, k) = 1
                 /\ \A j \in {"resolve", "connect", "timer"} : j # k => N(ready, j) = 0
           /\ N(ready, "read") # 0 \/ N(ready, "written") # 0 => connected_ \/ timer
  <1>1. \A k : N(ready, k) \in Nat
    <2>1. ready \in Seq(Handlers)
      BY DEF Types, ClientTypes, Sound
    <2> QED BY <2>1, Nowhere
  <1>2. /\ One(connected_) + One(resolving) + One("connect" \in ops) + One(timer)
             + N(ready, "resolve") + N(ready, "connect") + N(ready, "timer") = 1
        /\ ~connected_ /\ ~timer => N(ready, "read") = 0 /\ N(ready, "written") = 0
    BY DEF Way, Ways
  <1>3. /\ N(ready, "resolve") \in Nat /\ N(ready, "connect") \in Nat /\ N(ready, "timer") \in Nat
    BY <1>1
  <1> QED BY <1>1, <1>2, <1>3 DEF One

\* schedule_reconnect, by a handler that ran: the timer is the only way back.
LEMMA WaySchedules ==
    ASSUME Types, Way, NEW h, NEW hs, Taken(ready, h, hs), Sound(hs), ScheduleReconnect(hs),
           h.kind \in {"resolve", "connect", "read", "written"}
    PROVE  Way'
  <1>1. \A k : N(hs, k) \in Nat /\ N(ready, k) = N(hs, k) + One(h.kind = k)
    BY DEF Taken
  <1>2. N(ready, h.kind) # 0
    BY <1>1 DEF One
  <1>3. ~resolving /\ "connect" \notin ops /\ (timer \/ N(ready, "timer") = 0)
    BY <1>2, WayFacts
  <1>4. N(hs, "resolve") = 0 /\ N(hs, "connect") = 0 /\ N(hs, "timer") = 0
    <2>1. CASE h.kind \in {"read", "written"}
      <3>1. N(ready, "resolve") = 0 /\ N(ready, "connect") = 0 /\ N(ready, "timer") = 0
        BY <1>2, <2>1, WayFacts
      <3> QED BY <1>1, <2>1, <3>1 DEF One
    <2>2. CASE h.kind = "resolve"
      <3>1. N(ready, "resolve") = 1 /\ N(ready, "connect") = 0 /\ N(ready, "timer") = 0
        BY <1>2, <2>2, WayFacts
      <3> QED BY <1>1, <2>2, <3>1 DEF One
    <2>3. CASE h.kind = "connect"
      <3>1. N(ready, "resolve") = 0 /\ N(ready, "connect") = 1 /\ N(ready, "timer") = 0
        BY <1>2, <2>3, WayFacts
      <3> QED BY <1>1, <2>3, <3>1 DEF One
    <2> QED BY <2>1, <2>2, <2>3
  <1>5. N(ready', "resolve") = 0 /\ N(ready', "connect") = 0 /\ N(ready', "timer") = 0
    <2>1. Kept(hs, ready') /\ N(ready', "resolve") = N(hs, "resolve") + One(resolving)
      BY Schedules
    <2> QED BY <1>3, <1>4, <2>1 DEF Kept, One
  <1>6. timer \/ ~reconnect_scheduled_
    <2>1. N(ready, "timer") = 0
      BY <1>1, <1>4 DEF One
    <2> QED BY <2>1 DEF Way
  <1>7. /\ sock_' = "closed" /\ ops' = {} /\ tx_queue_' = << >>
        /\ resolving' = FALSE /\ connected_' = FALSE /\ reconnect_scheduled_' = TRUE
    BY Zenon DEF ScheduleReconnect, CloseSocket, SetDisconnected
  <1>8. timer'
    BY <1>6 DEF ScheduleReconnect
  <1>9. Ways' = 1
    BY <1>5, <1>7, <1>8 DEF Ways, One
  <1> QED BY <1>5, <1>7, <1>8, <1>9 DEF Way

\* Every step keeps the one way back: what a handler uses up it replaces, and
\* what schedule_reconnect ends it replaces by the timer.
LEMMA WayStep ==
    ASSUME Types, Way, [Next]_vars
    PROVE  Way'
  <1>0. \A k : N(ready, k) \in Nat
    BY WayFacts
  <1>1. ASSUME UNCHANGED clientVars PROVE Way'
    BY <1>1 DEF Way, Ways, clientVars
  <1>2. CASE World \/ HkSwitch \/ UNCHANGED vars
    BY <1>1, <1>2 DEF World, DaemonStops, DaemonStarts, DeviceChanges, HkSwitch, vars
  <1>3. ASSUME NEW k, NEW res, Queues(k, res), k \in {"hk", "hkreq", "post"},
               UNCHANGED <<sock_, ops, resolving, timer, connected_, reconnect_scheduled_, tx_queue_>>
        PROVE  Way'
    <2>1. \A j \in {"resolve", "connect", "timer", "read", "written"} : N(ready', j) = N(ready, j)
      BY <1>0, <1>3, QueuesCounts DEF One
    <2> QED BY <1>3, <2>1 DEF Way, Ways
  <1>4. CASE HkExpires \/ HkReq \/ SendCommand
    <2>1. UNCHANGED <<sock_, ops, resolving, timer, connected_, reconnect_scheduled_, tx_queue_>>
      BY <1>4 DEF HkExpires, HkReq, SendCommand, Enter
    <2>2. Queues("hk", "ok") \/ Queues("hkreq", "ok") \/ Queues("post", "ok")
      BY <1>4, Queueing DEF HkExpires, HkReq, Enter, Kinds
    <2> QED BY <1>3, <2>1, <2>2
  <1>5. CASE TimerExpires
    <2>1. Queues("timer", "ok")
      BY <1>5, Queueing
    <2>2. /\ N(ready', "timer") = N(ready, "timer") + 1
          /\ \A j \in {"resolve", "connect", "read", "written"} : N(ready', j) = N(ready, j)
      BY <1>0, <2>1, QueuesCounts DEF One
    <2>3. timer /\ timer' = FALSE /\ ready = << >>
          /\ UNCHANGED <<sock_, ops, resolving, connected_, reconnect_scheduled_, tx_queue_>>
      BY <1>5 DEF TimerExpires
    <2>4. \A k : N(ready, k) = 0
      <3>1. \A i \in DOMAIN ready : FALSE
        BY <2>3
      <3>2. ready \in Seq(Handlers)
        BY DEF Types, ClientTypes, Sound
      <3> QED BY <3>1, <3>2, Nowhere
    <2>5. ~connected_ /\ ~resolving /\ "connect" \notin ops
      BY <2>3, WayFacts
    <2>6. Ways' = 1
      BY <2>2, <2>3, <2>4, <2>5 DEF Ways, One
    <2> QED BY <2>2, <2>3, <2>4, <2>5, <2>6 DEF Way
  <1>6. CASE System
    <2>1. UNCHANGED <<sock_, timer, connected_, reconnect_scheduled_, tx_queue_>>
      BY <1>6 DEF System, Resolved, ConnectCompletes, ReadCompletes, WriteCompletes, IoFails, Completed, Quiesce
    <2>2. ASSUME NEW res, Resolved(res), Queues("resolve", res) PROVE Way'
      <3>1. /\ N(ready', "resolve") = N(ready, "resolve") + 1
            /\ \A j \in {"timer", "connect", "read", "written"} : N(ready', j) = N(ready, j)
        BY <1>0, <2>2, QueuesCounts DEF One
      <3>2. resolving /\ resolving' = FALSE /\ UNCHANGED ops
        BY <2>2 DEF Resolved
      <3>3. Ways' = Ways
        BY <1>0, <2>1, <3>1, <3>2 DEF Ways, One
      <3> QED BY <2>1, <3>1, <3>2, <3>3 DEF Way
    <2>3. ASSUME NEW res, ConnectCompletes, Queues("connect", res) PROVE Way'
      <3>1. /\ N(ready', "connect") = N(ready, "connect") + 1
            /\ \A j \in {"timer", "resolve", "read", "written"} : N(ready', j) = N(ready, j)
        BY <1>0, <2>3, QueuesCounts DEF One
      <3>2. "connect" \in ops /\ ops' = ops \ {"connect"} /\ UNCHANGED resolving
        BY <2>3 DEF ConnectCompletes, Completed
      <3>3. Ways' = Ways
        BY <1>0, <2>1, <3>1, <3>2 DEF Ways, One
      <3> QED BY <2>1, <3>1, <3>2, <3>3 DEF Way, One
    <2>4. ASSUME NEW res, Queues("read", res), "read" \in ops, ops' = ops \ {"read"}, UNCHANGED resolving
          PROVE  Way'
      <3>1. /\ N(ready', "read") = N(ready, "read") + 1
            /\ \A j \in {"timer", "resolve", "connect", "written"} : N(ready', j) = N(ready, j)
        BY <1>0, <2>4, QueuesCounts DEF One
      <3>2. connected_
        BY <2>4 DEF Way
      <3>3. Ways' = Ways
        BY <1>0, <2>1, <2>4, <3>1 DEF Ways, One
      <3> QED BY <1>0, <2>1, <2>4, <3>1, <3>2, <3>3 DEF Way, One
    <2>5. ASSUME NEW res, Queues("written", res), "write" \in ops, ops' = ops \ {"write"}, UNCHANGED resolving
          PROVE  Way'
      <3>1. /\ N(ready', "written") = N(ready, "written") + 1
            /\ \A j \in {"timer", "resolve", "connect", "read"} : N(ready', j) = N(ready, j)
        BY <1>0, <2>5, QueuesCounts DEF One
      <3>2. connected_
        BY <2>5 DEF Way
      <3>3. Ways' = Ways
        BY <1>0, <2>1, <2>5, <3>1 DEF Ways, One
      <3> QED BY <1>0, <2>1, <2>5, <3>1, <3>2, <3>3 DEF Way, One
    <2>6. ASSUME NEW n, ReadCompletes(n) PROVE "read" \in ops /\ ops' = ops \ {"read"} /\ UNCHANGED resolving
      BY <2>6 DEF ReadCompletes, Completed
    <2>7. ASSUME WriteCompletes PROVE "write" \in ops /\ ops' = ops \ {"write"} /\ UNCHANGED resolving
      BY <2>7 DEF WriteCompletes, Completed
    <2>8. ASSUME IoFails PROVE UNCHANGED resolving
      BY <2>8 DEF IoFails, Completed
    <2> QED BY <1>6, <2>2, <2>3, <2>4, <2>5, <2>6, <2>7, <2>8, Completions
  <1>7. CASE RunHandler
    <2>1. PICK h, hs : Taking(h, hs) /\ Runs(h, hs)
      BY <1>7, Handles
    <2>2. Taken(ready, h, hs) /\ Sound(hs)
      BY <2>1 DEF Taking
    <2>3. \A k : N(hs, k) \in Nat /\ N(ready, k) = N(hs, k) + One(h.kind = k)
      BY <2>2 DEF Taken
    <2>4. CASE RunTimer(h, hs)
      <3>1. CloseSocket(hs) /\ h.kind = "timer"
        BY <2>4 DEF RunTimer, DoConnect
      <3>2. N(ready, "timer") # 0
        BY <2>3, <3>1 DEF One
      <3>3. /\ ~connected_ /\ ~resolving /\ "connect" \notin ops /\ ~timer /\ N(ready, "timer") = 1
            /\ N(ready, "resolve") = 0 /\ N(ready, "connect") = 0
        BY <3>2, WayFacts
      <3>4. N(ready', "timer") = 0 /\ N(ready', "resolve") = 0 /\ N(ready', "connect") = 0
        <4>1. Kept(hs, ready') /\ N(ready', "resolve") = N(hs, "resolve")
          BY <2>2, <3>1, Reopens
        <4>2. N(hs, "timer") = 0 /\ N(hs, "resolve") = 0 /\ N(hs, "connect") = 0
          BY <2>3, <3>1, <3>3 DEF One
        <4> QED BY <3>3, <4>1, <4>2 DEF Kept
      <3>5. N(ready', "read") = 0 /\ N(ready', "written") = 0
        <4>1. ops = {} \/ ops = {"connect"}
          BY <3>3 DEF Way
        <4>2. ops = {}
          BY <3>3, <4>1
        <4>3. ready' = hs \o << >>
          BY <3>1, <4>2 DEF CloseSocket, Aborted
        <4>4. ready' = hs
          BY <2>2, <4>3 DEF Sound
        <4>5. N(ready, "read") = 0 /\ N(ready, "written") = 0
          BY <3>3 DEF Way
        <4> QED BY <2>3, <3>1, <4>4, <4>5 DEF One
      <3>6. /\ sock_' = "closed" /\ ops' = {} /\ tx_queue_' = << >>
            /\ resolving' = TRUE /\ reconnect_scheduled_' = FALSE /\ timer' = timer /\ connected_' = connected_
        BY <2>4, Zenon DEF RunTimer, DoConnect, CloseSocket
      <3>7. Ways' = 1
        BY <3>3, <3>4, <3>6 DEF Ways, One
      <3> QED BY <3>3, <3>4, <3>5, <3>6, <3>7 DEF Way
    <2>5. ASSUME ScheduleReconnect(hs), h.kind \in {"resolve", "connect", "read", "written"} PROVE Way'
      BY <2>2, <2>5, WaySchedules
    <2>6. CASE RunResolve(h, hs)
      <3>1. CASE h.res = "err"
        BY <2>5, <2>6, <3>1 DEF RunResolve
      <3>2. CASE h.res = "ok"
        <4>1. /\ h.kind = "resolve" /\ sock_' = "open" /\ ops' = ops \union {"connect"} /\ ready' = hs
              /\ UNCHANGED <<resolving, timer, connected_, reconnect_scheduled_, tx_queue_>>
          BY <2>6, <3>2 DEF RunResolve
        <4>2. N(ready, "resolve") # 0
          BY <2>3, <4>1 DEF One
        <4>3. /\ ~connected_ /\ ~resolving /\ "connect" \notin ops /\ ~timer /\ N(ready, "resolve") = 1
              /\ N(ready, "timer") = 0 /\ N(ready, "connect") = 0
          BY <4>2, WayFacts
        <4>4. /\ N(ready', "resolve") = 0
              /\ \A k \in {"connect", "timer", "read", "written"} : N(ready', k) = N(ready, k)
          BY <2>3, <4>1, <4>3 DEF One
        <4>5. Ways' = 1
          BY <4>1, <4>3, <4>4 DEF Ways, One
        <4> QED BY <4>1, <4>3, <4>4, <4>5 DEF Way
      <3> QED BY <2>6, <3>1, <3>2 DEF RunResolve
    <2>7. CASE RunConnect(h, hs)
      <3>1. CASE h.res = "err"
        BY <2>5, <2>7, <3>1 DEF RunConnect
      <3>2. CASE h.res = "ok"
        <4>1. /\ h.kind = "connect" /\ connected_' = TRUE /\ ops' = ops \union {"read"} /\ ready' = hs
              /\ UNCHANGED <<sock_, resolving, timer, reconnect_scheduled_, tx_queue_>>
          BY <2>7, <3>2 DEF RunConnect
        <4>2. N(ready, "connect") # 0
          BY <2>3, <4>1 DEF One
        <4>3. /\ ~connected_ /\ ~resolving /\ "connect" \notin ops /\ ~timer /\ N(ready, "connect") = 1
              /\ N(ready, "timer") = 0 /\ N(ready, "resolve") = 0
          BY <4>2, WayFacts
        <4>4. /\ N(ready', "connect") = 0
              /\ \A k \in {"resolve", "timer", "read", "written"} : N(ready', k) = N(ready, k)
          BY <2>3, <4>1, <4>3 DEF One
        <4>5. Ways' = 1
          BY <4>1, <4>3, <4>4 DEF Ways, One
        <4>6. /\ sock_ = "open" /\ N(ready, "read") = 0 /\ N(ready, "written") = 0 /\ tx_queue_ = << >>
              /\ "write" \notin ops
          BY <4>2, <4>3 DEF Way
        <4> QED BY <4>1, <4>3, <4>4, <4>5, <4>6 DEF Way, One
      <3> QED BY <2>7, <3>1, <3>2 DEF RunConnect
    <2>8. CASE RunRead(h, hs)
      <3>1. CASE h.res = "err"
        BY <2>5, <2>8, <3>1 DEF RunRead
      <3>2. CASE h.res = "ok"
        <4>1. /\ h.kind = "read"
              /\ UNCHANGED <<sock_, resolving, timer, connected_, reconnect_scheduled_, tx_queue_>>
          BY <2>8, <3>2 DEF RunRead
        <4>2. N(ready, "read") # 0
          BY <2>3, <4>1 DEF One
        <4>3. connected_ \/ timer
          BY <4>2, WayFacts
        <4>4. CASE connected_
          <5>1. sock_ = "open"
            BY <4>4 DEF Way
          <5>2. ops' = ops \union {"read"} /\ ready' = hs
            BY <2>8, <3>2, <5>1 DEF RunRead
          <5>3. /\ N(ready, "read") = N(ready', "read") + 1
                /\ \A k \in {"resolve", "connect", "timer", "written"} : N(ready', k) = N(ready, k)
            BY <2>3, <4>1, <5>2 DEF One
          <5>4. "read" \notin ops /\ N(ready', "read") = 0
            BY <2>3, <4>4, <5>2, <5>3 DEF Way, One
          <5>5. Ways' = Ways
            BY <4>1, <5>2, <5>3 DEF Ways
          <5> QED BY <4>1, <4>4, <5>1, <5>2, <5>3, <5>4, <5>5 DEF Way, One
        <4>5. CASE timer
          <5>1. sock_ = "closed" /\ ~connected_
            BY <4>5, WayFacts DEF Way
          <5>2. UNCHANGED ops /\ ready' = Append(hs, Handler("read", "err"))
            BY <2>8, <3>2, <5>1 DEF RunRead
          <5>3. Handler("read", "err") \in Handlers /\ Handler("read", "err").kind = "read"
            BY HandlerType DEF Kinds
          <5>4. Joined(hs, Handler("read", "err"), ready')
            BY <2>2, <5>2, <5>3, Joins DEF Sound
          <5>5. \A k : N(ready', k) = N(ready, k)
            BY <2>3, <4>1, <5>3, <5>4 DEF Joined
          <5>6. Ways' = Ways
            BY <4>1, <5>2, <5>5 DEF Ways
          <5> QED BY <4>1, <4>5, <5>1, <5>2, <5>5, <5>6 DEF Way
        <4> QED BY <4>3, <4>4, <4>5
      <3> QED BY <2>8, <3>1, <3>2 DEF RunRead
    <2>9. CASE RunWritten(h, hs)
      <3>1. CASE h.res = "err"
        BY <2>5, <2>9, <3>1 DEF RunWritten
      <3>2. CASE h.res = "ok"
        <4>1. /\ h.kind = "written" /\ ready' = hs
              /\ UNCHANGED <<sock_, resolving, timer, connected_, reconnect_scheduled_>>
          BY <2>9, <3>2 DEF RunWritten
        <4>2. N(ready, "written") # 0
          BY <2>3, <4>1 DEF One
        <4>3. connected_ \/ timer
          BY <4>2, WayFacts
        <4>4. /\ N(ready, "written") = N(ready', "written") + 1
              /\ \A k \in {"resolve", "connect", "timer", "read"} : N(ready', k) = N(ready, k)
          BY <2>3, <4>1 DEF One
        <4>5. CASE connected_
          <5>1. /\ sock_ = "open" /\ tx_queue_ # << >> /\ "write" \notin ops /\ N(ready', "written") = 0
            BY <1>0, <2>3, <4>1, <4>2, <4>4, <4>5 DEF Way, One
          <5>2. /\ tx_queue_' = Tail(tx_queue_)
                /\ ops' = IF Tail(tx_queue_) # << >> THEN ops \union {"write"} ELSE ops
            BY <2>9, <3>2, <4>5, <5>1 DEF RunWritten, DoWrite
          <5>3. Ways' = Ways
            BY <4>1, <4>4, <5>2 DEF Ways
          <5> QED BY <4>1, <4>4, <4>5, <5>1, <5>2, <5>3 DEF Way, One
        <4>6. CASE timer
          <5>1. ~connected_ /\ tx_queue_ = << >>
            BY <4>6, WayFacts DEF Way
          <5>2. UNCHANGED <<tx_queue_, ops>>
            BY <2>9, <3>2, <5>1 DEF RunWritten
          <5>3. Ways' = Ways
            BY <4>1, <4>4, <5>2 DEF Ways
          <5> QED BY <4>1, <4>4, <4>6, <5>1, <5>2, <5>3 DEF Way
        <4> QED BY <4>3, <4>5, <4>6
      <3> QED BY <2>9, <3>1, <3>2 DEF RunWritten
    <2>10. CASE RunPost(h, hs)
      <3>1. /\ h.kind = "post" /\ ready' = hs
            /\ UNCHANGED <<sock_, resolving, timer, connected_, reconnect_scheduled_>>
        BY <2>10 DEF RunPost
      <3>2. \A k \in {"resolve", "connect", "timer", "read", "written"} : N(ready', k) = N(ready, k)
        BY <2>3, <3>1 DEF One
      <3>3. CASE connected_ /\ sock_ = "open"
        <4>1. CASE tx_queue_ = << >>
          <5>1. tx_queue_' = <<h.tc>> /\ ops' = ops \union {"write"}
            BY <2>10, <3>3, <4>1 DEF RunPost, DoWrite
          <5>2. "write" \notin ops /\ N(ready, "written") = 0 /\ tx_queue_' # << >>
            BY <1>0, <3>3, <4>1, <5>1 DEF Way, One
          <5>3. Ways' = Ways
            BY <3>1, <3>2, <5>1 DEF Ways
          <5> QED BY <3>1, <3>2, <3>3, <5>1, <5>2, <5>3 DEF Way, One
        <4>2. CASE tx_queue_ # << >>
          <5>1. tx_queue_' = Append(tx_queue_, h.tc) /\ UNCHANGED ops
            BY <2>10, <3>3, <4>2 DEF RunPost
          <5>2. tx_queue_' # << >>
            <6>1. tx_queue_ \in Seq(Nat) /\ h.tc \in Nat
              BY <2>2 DEF Types, ClientTypes, Taken, Handlers
            <6> QED BY <5>1, <6>1
          <5>3. Ways' = Ways
            BY <3>1, <3>2, <5>1 DEF Ways
          <5> QED BY <3>1, <3>2, <3>3, <4>2, <5>1, <5>2, <5>3 DEF Way
        <4> QED BY <4>1, <4>2
      <3>4. CASE ~connected_ \/ sock_ # "open"
        <4>1. UNCHANGED <<tx_queue_, ops>>
          BY <2>10, <3>4 DEF RunPost
        <4>2. Ways' = Ways
          BY <3>1, <3>2, <4>1 DEF Ways
        <4> QED BY <3>1, <3>2, <4>1, <4>2 DEF Way
      <3> QED BY <3>3, <3>4
    <2>11. CASE RunHk(h, hs) \/ RunHkReq(h, hs)
      <3>1. /\ h.kind \in {"hk", "hkreq"} /\ (ready' = hs \/ ready' = Append(hs, Post(tc_sequence)))
            /\ UNCHANGED <<sock_, ops, resolving, timer, connected_, reconnect_scheduled_, tx_queue_>>
        BY <2>11 DEF RunHk, RunHkReq, SendSystemHk
      <3>2. \A k \in {"resolve", "connect", "timer", "read", "written"} : N(ready', k) = N(ready, k)
        <4>1. Post(tc_sequence) \in Handlers /\ Post(tc_sequence).kind = "post"
          BY HandlerType DEF Types, AppTypes
        <4>2. Joined(hs, Post(tc_sequence), Append(hs, Post(tc_sequence)))
          BY <2>2, <4>1, Joins DEF Sound
        <4>3. \A k \in {"resolve", "connect", "timer", "read", "written"} : N(ready', k) = N(hs, k)
          <5> DEFINE r == Append(hs, Post(tc_sequence))
          <5>1. \A k \in {"resolve", "connect", "timer", "read", "written"} : N(r, k) = N(hs, k)
            <6> HIDE DEF r
            <6> QED BY <2>3, <4>1, <4>2 DEF Joined, One, r
          <5>2. ready' = hs \/ ready' = r
            BY <3>1
          <5> HIDE DEF r
          <5> QED BY <5>1, <5>2
        <4> QED BY <2>3, <3>1, <4>3 DEF One
      <3>3. Ways' = Ways
        BY <3>1, <3>2 DEF Ways
      <3> QED BY <3>1, <3>2, <3>3 DEF Way
    <2> QED BY <2>1, <2>4, <2>6, <2>7, <2>8, <2>9, <2>10, <2>11 DEF Runs
  <1> QED BY <1>2, <1>4, <1>5, <1>6, <1>7 DEF Next, Timers, Operator

------------------------------------------------------------------------------
(* What the UI shows.                                                       *)

\* A queue that brings the same news of the device.
Alike(q, r) == /\ Bad(q) => Bad(r)
               /\ NoGood(r) => NoGood(q)
               /\ \A d : Fresh(q, d) => Fresh(r, d)

\* A handler that joins the queue, and what the queue tells of the device.
LEMMA JoinedAlike ==
    ASSUME NEW q \in Seq(Handlers), NEW h, NEW r, Joined(q, h, r)
    PROVE  /\ ~GoodRead(h) => Alike(q, r)
           /\ BadRead(h) => Bad(r)
           /\ GoodRead(h) => ~NoGood(r)
           /\ \A d : Fresh(q, d) /\ (GoodRead(h) => LastOf(h.frames) = d) => Fresh(r, d)
           /\ Bad(q) => Bad(r)
  <1>1. /\ r \in Seq(Handlers) /\ Len(q) \in Nat /\ Len(r) = Len(q) + 1 /\ r[Len(q) + 1] = h
        /\ \A i \in 1 .. Len(q) : r[i] = q[i]
    BY DEF Joined
  <1>2. DOMAIN q = 1 .. Len(q) /\ DOMAIN r = 1 .. Len(q) + 1
    BY <1>1
  <1>3. \A i \in DOMAIN r : r[i] = h \/ (i \in DOMAIN q /\ r[i] = q[i])
    BY <1>1, <1>2
  <1>4. \A i \in DOMAIN q : i \in DOMAIN r /\ r[i] = q[i]
    BY <1>1, <1>2
  <1>5. Len(q) + 1 \in DOMAIN r /\ r[Len(q) + 1] = h
    BY <1>1, <1>2
  <1>6. Bad(q) => Bad(r)
    BY <1>4 DEF Bad
  <1>7. BadRead(h) => Bad(r)
    BY <1>5 DEF Bad
  <1>8. GoodRead(h) => ~NoGood(r)
    BY <1>5 DEF NoGood
  <1>9. \A d : Fresh(q, d) /\ (GoodRead(h) => LastOf(h.frames) = d) => Fresh(r, d)
    BY <1>3 DEF Fresh
  <1>10. NoGood(r) => NoGood(q)
    BY <1>4 DEF NoGood
  <1> QED BY <1>6, <1>7, <1>8, <1>9, <1>10, Zenon DEF Alike

\* The handler that runs, and what the queue behind it tells of the device.
LEMMA TakenAlike ==
    ASSUME NEW q \in Seq(Handlers), NEW h, NEW r, Taken(q, h, r)
    PROVE  /\ h.kind # "read" => Alike(q, r)
           /\ \A d : Fresh(q, d) => Fresh(r, d) /\ (GoodRead(h) => LastOf(h.frames) = d)
  <1>1. /\ r \in Seq(Handlers) /\ Len(r) \in Nat /\ Len(q) = Len(r) + 1 /\ q[1] = h
        /\ \A i \in 1 .. Len(r) : r[i] = q[i + 1]
    BY DEF Taken
  <1>2. DOMAIN r = 1 .. Len(r) /\ DOMAIN q = 1 .. Len(r) + 1
    BY <1>1
  <1>3. \A i \in DOMAIN r : i + 1 \in DOMAIN q /\ r[i] = q[i + 1]
    BY <1>1, <1>2
  <1>4. ASSUME NEW i \in DOMAIN q, q[i] # h PROVE i - 1 \in DOMAIN r /\ r[i - 1] = q[i]
    BY <1>1, <1>2, <1>4
  <1>5. 1 \in DOMAIN q /\ q[1] = h
    BY <1>1, <1>2
  <1>6. \A d : Fresh(q, d) => Fresh(r, d) /\ (GoodRead(h) => LastOf(h.frames) = d)
    BY <1>3, <1>5 DEF Fresh
  <1>7. h.kind # "read" /\ Bad(q) => Bad(r)
    BY <1>4 DEF Bad, BadRead
  <1>8. h.kind # "read" /\ NoGood(r) => NoGood(q)
    BY <1>4 DEF NoGood, GoodRead
  <1> QED BY <1>6, <1>7, <1>8, Zenon DEF Alike

\* A step that changes neither the flags nor the daemon keeps View if the queue
\* brings the same news.
LEMMA ViewKept ==
    ASSUME View, UNCHANGED <<daemon_connected, device_connected, connected_, alive, line, device>>,
           Alike(ready, ready')
    PROVE  View'
  <1>1. /\ daemon_connected' = daemon_connected /\ device_connected' = device_connected
        /\ connected_' = connected_ /\ alive' = alive /\ line' = line /\ device' = device
    OBVIOUS
  <1>6. /\ daemon_connected' <=> daemon_connected
        /\ device_connected' <=> device_connected
        /\ connected_' <=> connected_
        /\ alive' <=> alive
    BY <1>1
  <1>2. /\ Bad(ready) => Bad(ready')
        /\ NoGood(ready') => NoGood(ready)
        /\ Fresh(ready, device) => Fresh(ready', device)
    BY DEF Alike
  <1>3. (daemon_connected = connected_)' /\ (~connected_ /\ device_connected => Bad(ready))'
    <2>1. daemon_connected = connected_ /\ (~connected_ /\ device_connected => Bad(ready))
      BY DEF View
    <2>2. daemon_connected' = connected_'
      BY <1>1, <2>1
    <2> QED BY <1>6, <1>2, <2>1, <2>2, Zenon
  <1>4. (alive /\ line # << >> => LastOf(line) = device)'
    <2>1. alive /\ line # << >> => LastOf(line) = device
      BY DEF View
    <2> QED BY <1>1, <1>6, <2>1, Zenon
  <1>5. ASSUME alive', line' = << >>
        PROVE  connected_' /\ Fresh(ready', device') /\ (NoGood(ready') => device_connected' = device')
    <2>1. connected_ /\ Fresh(ready, device) /\ (NoGood(ready) => device_connected = device)
      BY <1>1, <1>6, <1>5, Zenon DEF View
    <2> QED BY <1>1, <1>6, <1>2, <2>1, Zenon
  <1> QED BY <1>3, <1>4, <1>5, Zenon DEF View

\* Every step keeps what the UI shows, or will show, of the device.
LEMMA ViewStep ==
    ASSUME Types, Way, View, [Next]_vars
    PROVE  View'
  <1>0. ready \in Seq(Handlers) /\ Alike(ready, ready)
    BY DEF Types, ClientTypes, Sound, Alike
  <1>1. ASSUME UNCHANGED <<ready, daemon_connected, device_connected, connected_, alive, line, device>> PROVE View'
    BY <1>0, <1>1, ViewKept
  <1>2. CASE HkSwitch \/ UNCHANGED vars \/ DaemonStarts
    BY <1>1, <1>2 DEF HkSwitch, vars, clientVars, flagVars, daemonVars, DaemonStarts
  <1>3. CASE DaemonStops
    <2>1. ~alive' /\ UNCHANGED <<ready, daemon_connected, device_connected, connected_>>
      BY <1>3 DEF DaemonStops, clientVars, flagVars
    <2> QED BY <2>1, Zenon DEF View
  <1>4. CASE DeviceChanges
    <2>1. UNCHANGED <<ready, daemon_connected, device_connected, connected_, alive>>
      BY <1>4 DEF DeviceChanges, clientVars, flagVars
    <2>2. alive => line' # << >> /\ LastOf(line') = device'
      <3>1. line \in Seq(BOOLEAN) /\ device' \in BOOLEAN
        BY <1>4 DEF Types, DaemonTypes, DeviceChanges
      <3>2. alive => line' = Append(line, device')
        BY <1>4 DEF DeviceChanges
      <3>3. ASSUME NEW d \in BOOLEAN PROVE Append(line, d) # << >> /\ LastOf(Append(line, d)) = d
        BY <3>1 DEF LastOf
      <3> QED BY <3>1, <3>2, <3>3, Zenon
    <2> QED BY <2>1, <2>2, Zenon DEF View
  <1>5. ASSUME NEW k, NEW res, Queues(k, res), k # "read" \/ res # "ok",
               UNCHANGED <<daemon_connected, device_connected, connected_, alive, line, device>>
        PROVE  View'
    <2>1. Alike(ready, ready')
      BY <1>0, <1>5, JoinedAlike DEF Queues, GoodRead
    <2> QED BY <1>5, <2>1, ViewKept
  <1>6. CASE HkExpires \/ HkReq \/ SendCommand \/ TimerExpires
    <2>1. UNCHANGED <<daemon_connected, device_connected, connected_, alive, line, device>>
      BY <1>6 DEF HkExpires, HkReq, SendCommand, Enter, TimerExpires, flagVars, daemonVars
    <2>2. Queues("hk", "ok") \/ Queues("hkreq", "ok") \/ Queues("post", "ok") \/ Queues("timer", "ok")
      BY <1>6, Queueing DEF HkExpires, HkReq, Enter, Kinds
    <2> QED BY <1>5, <2>1, <2>2
  <1>7. CASE System
    <2>1. UNCHANGED <<daemon_connected, device_connected, connected_, device>>
      BY <1>7 DEF System, Resolved, ConnectCompletes, ReadCompletes, WriteCompletes, IoFails, Completed, Quiesce, flagVars
    <2>2. ASSUME NEW res, Resolved(res), Queues("resolve", res) PROVE View'
      <3>1. UNCHANGED <<alive, line>>
        BY <2>2 DEF Resolved
      <3> QED BY <1>5, <2>1, <2>2, <3>1
    <2>3. ASSUME WriteCompletes, Queues("written", "ok") PROVE View'
      <3>1. UNCHANGED <<alive, line>>
        BY <2>3 DEF WriteCompletes
      <3> QED BY <1>5, <2>1, <2>3, <3>1
    <2>4. ASSUME IoFails, Queues("read", "err") \/ Queues("written", "err") PROVE View'
      <3>1. UNCHANGED <<alive, line>>
        BY <2>4 DEF IoFails
      <3> QED BY <1>5, <2>1, <2>4, <3>1
    <2>5. ASSUME NEW res, ConnectCompletes, Queues("connect", res) PROVE View'
      <3>1. alive' = up /\ line' = IF up THEN <<device>> ELSE << >>
        BY <2>5 DEF ConnectCompletes
      <3>2. <<device>> # << >> /\ LastOf(<<device>>) = device
        BY DEF LastOf
      <3>3. alive' => line' # << >> /\ LastOf(line') = device
        BY <3>1, <3>2, Zenon
      <3>4. Bad(ready) => Bad(ready')
        BY <1>0, <2>5, JoinedAlike DEF Queues
      <3>5. /\ daemon_connected' = daemon_connected /\ device_connected' = device_connected
            /\ connected_' = connected_ /\ device' = device
        BY <2>1
      <3> QED BY <3>3, <3>4, <3>5, Zenon DEF View
    <2>6. ASSUME NEW n \in 1 .. Len(line), ReadCompletes(n) PROVE View'
      <3> DEFINE s == SubSeq(line, 1, n)
                 l == SubSeq(line, n + 1, Len(line))
                 h == [Handler("read", "ok") EXCEPT !.frames = s]
      <3>0. line \in Seq(BOOLEAN) /\ line # << >>
        BY DEF Types, DaemonTypes
      <3>1. "read" \in ops /\ ready' = Append(ready, h) /\ line' = l /\ UNCHANGED alive
        BY <2>6 DEF ReadCompletes, Completed
      <3>2. /\ s \in Seq(BOOLEAN) /\ Len(s) = n /\ s[n] = line[n]
            /\ l = << >> <=> n = Len(line)
            /\ l # << >> => l[Len(l)] = line[Len(line)]
        <4> HIDE DEF s, l
        <4>2. s \in Seq(BOOLEAN) /\ Len(s) = n
          BY <3>0, Cut DEF s
        <4>3. s[n] = line[n]
          BY <3>0, Cut DEF s
        <4>4. l = << >> <=> n = Len(line)
          BY <3>0, Rest DEF l
        <4>5. l # << >> => l[Len(l)] = line[Len(line)]
          BY <3>0, Rest DEF l
        <4> QED BY <4>2, <4>3, <4>4, <4>5, Zenon
      <3> HIDE DEF s, l
      <3>3. h \in Handlers /\ h.kind = "read" /\ h.res = "ok" /\ h.frames = s
        BY <3>2, HandlerType
      <3> HIDE DEF h
      <3>4. Joined(ready, h, ready')
        BY <1>0, <3>1, <3>3, Joins
      <3>5. connected_
        BY <3>1 DEF Way
      <3>6. N(ready, "read") = 0
        BY <3>1, <3>5, WayFacts DEF Way, One
      <3>7. \A d : Fresh(ready, d)
        BY <1>0, <3>6, Nowhere DEF Fresh, GoodRead
      <3>8. ~NoGood(ready')
        BY <1>0, <3>3, <3>4, JoinedAlike DEF GoodRead
      <3>9. l = << >> => LastOf(h.frames) = LastOf(line)
        BY <3>2, <3>3 DEF LastOf
      <3>10. \A d : LastOf(h.frames) = d => Fresh(ready', d)
        BY <1>0, <3>4, <3>7, JoinedAlike
      <3>11. l # << >> => LastOf(l) = LastOf(line)
        BY <3>2 DEF LastOf
      <3>12. /\ daemon_connected' = daemon_connected /\ device_connected' = device_connected
             /\ connected_' = connected_ /\ device' = device /\ alive' = alive /\ line' = l
        BY <2>1, <3>1
      <3>13. alive => LastOf(line) = device
        BY <3>0 DEF View
      <3>14. daemon_connected = connected_
        BY DEF View
      <3>15. alive' /\ line' = << >> => Fresh(ready', device')
        BY <3>9, <3>10, <3>12, <3>13, Zenon
      <3>16. alive' /\ line' # << >> => LastOf(line') = device'
        BY <3>11, <3>12, <3>13, Zenon
      <3> QED BY <3>5, <3>8, <3>12, <3>14, <3>15, <3>16, Zenon DEF View
    <2> QED BY <1>7, <2>2, <2>3, <2>4, <2>5, <2>6, Completions
  <1>8. CASE RunHandler
    <2>1. PICK h, hs : Taking(h, hs) /\ Runs(h, hs)
      BY <1>8, Handles
    <2>2. Taken(ready, h, hs) /\ Sound(hs) /\ hs \in Seq(Handlers)
      BY <2>1 DEF Taking, Sound
    <2>3. device' = device
      BY <2>1 DEF Runs
    <2>4. /\ h.kind # "read" => Alike(ready, hs)
          /\ \A d : Fresh(ready, d) => Fresh(hs, d) /\ (GoodRead(h) => LastOf(h.frames) = d)
      BY <1>0, <2>2, TakenAlike
    <2>5. ASSUME ScheduleReconnect(hs) PROVE View'
      <3>1. daemon_connected' = FALSE /\ device_connected' = FALSE /\ connected_' = FALSE /\ alive' = FALSE
        BY <2>5, Zenon DEF ScheduleReconnect, CloseSocket, SetDisconnected
      <3> QED BY <3>1, Zenon DEF View
    <2>6. CASE RunTimer(h, hs)
      <3>1. /\ h.kind = "timer" /\ daemon_connected' = daemon_connected /\ device_connected' = device_connected
            /\ connected_' = connected_ /\ alive' = FALSE
        BY <2>6 DEF RunTimer, DoConnect, CloseSocket, flagVars
      <3>2. N(ready, "timer") # 0
        BY <2>2, <3>1 DEF Taken, One
      <3>3. ~connected_ /\ ~timer
        BY <3>2, WayFacts
      <3>4. N(ready, "read") = 0
        BY <3>3 DEF Way
      <3>5. ~Bad(ready)
        BY <1>0, <3>4, Nowhere DEF Bad, BadRead
      <3> QED BY <3>1, <3>3, <3>5, Zenon DEF View
    <2>7. ASSUME h.kind # "read", ready' = hs \/ ready' = Append(hs, Post(tc_sequence)),
                 UNCHANGED <<daemon_connected, device_connected, connected_, alive, line>>
          PROVE  View'
      <3>1. Post(tc_sequence) \in Handlers /\ ~GoodRead(Post(tc_sequence))
        BY HandlerType DEF Types, AppTypes, GoodRead
      <3>2. Joined(hs, Post(tc_sequence), Append(hs, Post(tc_sequence)))
        BY <2>2, <3>1, Joins
      <3>3. Alike(hs, Append(hs, Post(tc_sequence)))
        BY <2>2, <3>1, <3>2, JoinedAlike
      <3>4. Alike(ready, ready')
        BY <2>4, <2>7, <3>3, Zenon DEF Alike
      <3> QED BY <2>3, <2>7, <3>4, ViewKept
    <2>8. CASE RunResolve(h, hs)
      <3>1. CASE h.res = "err"
        BY <2>5, <2>8, <3>1 DEF RunResolve
      <3>2. CASE h.res = "ok"
        <4>1. /\ h.kind # "read" /\ ready' = hs
              /\ UNCHANGED <<daemon_connected, device_connected, connected_, alive, line>>
          BY <2>8, <3>2 DEF RunResolve, flagVars
        <4> QED BY <2>7, <4>1
      <3> QED BY <2>8, <3>1, <3>2 DEF RunResolve
    <2>9. CASE RunConnect(h, hs)
      <3>1. CASE h.res = "err"
        BY <2>5, <2>9, <3>1 DEF RunConnect
      <3>2. CASE h.res = "ok"
        <4>1. /\ h.kind = "connect" /\ connected_' = TRUE /\ daemon_connected' = TRUE
              /\ line' = line /\ alive' = alive
          BY <2>9, <3>2 DEF RunConnect
        <4>2. N(ready, "connect") # 0
          BY <2>2, <4>1 DEF Taken, One
        <4>3. ~connected_
          BY <4>2, WayFacts
        <4> QED BY <2>3, <4>1, <4>3, Zenon DEF View
      <3> QED BY <2>9, <3>1, <3>2 DEF RunConnect
    <2>10. CASE RunRead(h, hs)
      <3>1. CASE h.res = "err"
        BY <2>5, <2>10, <3>1 DEF RunRead
      <3>2. CASE h.res = "ok"
        <4>1. /\ GoodRead(h) /\ device_connected' = LastOf(h.frames)
              /\ daemon_connected' = daemon_connected /\ connected_' = connected_
              /\ alive' = alive /\ line' = line
          BY <2>10, <3>2 DEF RunRead, OnFrames, GoodRead, LastOf
        <4>2. CASE connected_
          <5>1. sock_ = "open"
            BY <4>2 DEF Way
          <5>2. ready' = hs
            BY <2>10, <3>2, <5>1 DEF RunRead
          <5>3. Fresh(ready, device) => Fresh(ready', device) /\ LastOf(h.frames) = device
            BY <2>4, <4>1, <5>2
          <5> QED BY <2>3, <4>1, <4>2, <5>3, Zenon DEF View
        <4>3. CASE ~connected_
          <5>1. N(ready, "read") # 0
            BY <2>2, <4>1 DEF Taken, One, GoodRead
          <5>2. timer
            BY <4>3, <5>1, WayFacts
          <5>3. sock_ = "closed"
            BY <5>2 DEF Way
          <5>4. ready' = Append(hs, Handler("read", "err"))
            BY <2>10, <3>2, <5>3 DEF RunRead
          <5>5. Handler("read", "err") \in Handlers /\ BadRead(Handler("read", "err"))
            BY HandlerType DEF Kinds, BadRead
          <5>6. Joined(hs, Handler("read", "err"), ready')
            BY <2>2, <5>4, <5>5, Joins
          <5>7. Bad(ready')
            BY <2>2, <5>5, <5>6, JoinedAlike
          <5> QED BY <2>3, <4>1, <4>3, <5>7, Zenon DEF View
        <4> QED BY <4>2, <4>3
      <3> QED BY <2>10, <3>1, <3>2 DEF RunRead
    <2>11. CASE RunWritten(h, hs)
      <3>1. CASE h.res = "err"
        BY <2>5, <2>11, <3>1 DEF RunWritten
      <3>2. CASE h.res = "ok"
        <4>1. /\ h.kind # "read" /\ ready' = hs
              /\ UNCHANGED <<daemon_connected, device_connected, connected_, alive, line>>
          BY <2>11, <3>2 DEF RunWritten, flagVars
        <4> QED BY <2>7, <4>1
      <3> QED BY <2>11, <3>1, <3>2 DEF RunWritten
    <2>12. CASE RunPost(h, hs) \/ RunHk(h, hs) \/ RunHkReq(h, hs)
      <3>1. /\ h.kind # "read" /\ (ready' = hs \/ ready' = Append(hs, Post(tc_sequence)))
            /\ UNCHANGED <<daemon_connected, device_connected, connected_, alive, line>>
        BY <2>12 DEF RunPost, RunHk, RunHkReq, SendSystemHk, flagVars
      <3> QED BY <2>7, <3>1
    <2> QED BY <2>1, <2>6, <2>8, <2>9, <2>10, <2>11, <2>12 DEF Runs
  <1> QED BY <1>2, <1>3, <1>4, <1>6, <1>7, <1>8 DEF Next, World, Timers, Operator

------------------------------------------------------------------------------
(* The order of the telecommands.                                           *)

\* r holds telecommands of q only, in the order of q.
Thins(q, r) == /\ InOrder(q) => InOrder(r)
               /\ \A x : (Above(q, x) => Above(r, x)) /\ (Below(q, x) => Below(r, x))

\* Thins is transitive.
LEMMA ThinsTwice ==
    ASSUME NEW q, NEW r, NEW s, Thins(q, r), Thins(r, s)
    PROVE  Thins(q, s)
  BY Zenon DEF Thins

\* A handler that joins the queue, and the telecommands posted in it.
LEMMA JoinedOrder ==
    ASSUME NEW q \in Seq(Handlers), NEW h, NEW r, Joined(q, h, r)
    PROVE  /\ ~IsTc(h) => Thins(q, r)
           /\ Written(q) => Written(r)
           /\ h.kind = "written" /\ h.res = "ok" => Written(r)
           /\ InOrder(q) /\ Below(q, h.tc) => InOrder(r)
           /\ \A x : Above(q, x) /\ x < h.tc => Above(r, x)
           /\ \A y : Below(q, y) /\ h.tc < y => Below(r, y)
  <1>1. /\ r \in Seq(Handlers) /\ Len(q) \in Nat /\ Len(r) = Len(q) + 1 /\ r[Len(q) + 1] = h
        /\ \A i \in 1 .. Len(q) : r[i] = q[i]
    BY DEF Joined
  <1>2. DOMAIN q = 1 .. Len(q) /\ DOMAIN r = 1 .. Len(q) + 1
    BY <1>1
  <1>3. \A i \in DOMAIN r : (i = Len(q) + 1 /\ r[i] = h) \/ (i \in DOMAIN q /\ i < Len(q) + 1 /\ r[i] = q[i])
    BY <1>1, <1>2
  <1>4. \A i \in DOMAIN q : i \in DOMAIN r /\ r[i] = q[i]
    BY <1>1, <1>2
  <1>5. Len(q) + 1 \in DOMAIN r
    BY <1>1, <1>2
  <1>6. Written(q) => Written(r)
    BY <1>4 DEF Written
  <1>7. h.kind = "written" /\ h.res = "ok" => Written(r)
    BY <1>1, <1>5 DEF Written
  <1>8. ASSUME InOrder(q), Below(q, h.tc) \/ ~IsTc(h) PROVE InOrder(r)
    <2> SUFFICES ASSUME NEW i \in DOMAIN r, NEW j \in DOMAIN r, i < j, IsTc(r[i]), IsTc(r[j])
                 PROVE  r[i].tc < r[j].tc
      BY DEF InOrder
    <2>1. i \in DOMAIN q /\ r[i] = q[i]
      BY <1>1, <1>2, <1>3
    <2>2. CASE j \in DOMAIN q /\ r[j] = q[j]
      BY <1>8, <2>1, <2>2 DEF InOrder
    <2>3. CASE r[j] = h
      BY <1>8, <2>1, <2>3 DEF Below
    <2> QED BY <1>3, <2>2, <2>3
  <1>9. \A x : Above(q, x) /\ (x < h.tc \/ ~IsTc(h)) => Above(r, x)
    BY <1>3 DEF Above
  <1>10. \A y : Below(q, y) /\ (h.tc < y \/ ~IsTc(h)) => Below(r, y)
    BY <1>3 DEF Below
  <1>11. ~IsTc(h) => Thins(q, r)
    BY <1>8, <1>9, <1>10, Zenon DEF Thins
  <1> QED BY <1>6, <1>7, <1>8, <1>9, <1>10, <1>11

\* The handler that runs, and the telecommands posted behind it.
LEMMA TakenOrder ==
    ASSUME NEW q \in Seq(Handlers), NEW h, NEW r, Taken(q, h, r)
    PROVE  /\ Thins(q, r)
           /\ h.kind # "written" /\ Written(q) => Written(r)
           /\ IsTc(h) /\ InOrder(q) => Above(r, h.tc)
           /\ \A x : IsTc(h) /\ Above(q, x) => x < h.tc
           /\ \A y : IsTc(h) /\ Below(q, y) => h.tc < y
  <1>1. /\ r \in Seq(Handlers) /\ Len(r) \in Nat /\ Len(q) = Len(r) + 1 /\ q[1] = h
        /\ \A i \in 1 .. Len(r) : r[i] = q[i + 1]
    BY DEF Taken
  <1>2. DOMAIN r = 1 .. Len(r) /\ DOMAIN q = 1 .. Len(r) + 1
    BY <1>1
  <1>3. \A i \in DOMAIN r : i \in Int /\ i + 1 \in DOMAIN q /\ 1 < i + 1 /\ r[i] = q[i + 1]
    BY <1>1, <1>2
  <1>4. ASSUME NEW i \in DOMAIN q, q[i] # h PROVE i - 1 \in DOMAIN r /\ r[i - 1] = q[i]
    BY <1>1, <1>2, <1>4
  <1>5. 1 \in DOMAIN q /\ q[1] = h
    BY <1>1, <1>2
  <1>6. InOrder(q) => InOrder(r)
    <2> SUFFICES ASSUME InOrder(q), NEW i \in DOMAIN r, NEW j \in DOMAIN r, i < j, IsTc(r[i]), IsTc(r[j])
                 PROVE  r[i].tc < r[j].tc
      BY DEF InOrder
    <2>1. i + 1 < j + 1
      BY <1>3
    <2> QED BY <1>3, <2>1 DEF InOrder
  <1>7. \A x : (Above(q, x) => Above(r, x)) /\ (Below(q, x) => Below(r, x))
    BY <1>3 DEF Above, Below
  <1>8. Thins(q, r)
    BY <1>6, <1>7, Zenon DEF Thins
  <1>9. h.kind # "written" /\ Written(q) => Written(r)
    BY <1>4 DEF Written
  <1>10. IsTc(h) /\ InOrder(q) => Above(r, h.tc)
    BY <1>3, <1>5 DEF InOrder, Above
  <1>11. \A x : IsTc(h) /\ Above(q, x) => x < h.tc
    BY <1>5 DEF Above
  <1>12. \A y : IsTc(h) /\ Below(q, y) => h.tc < y
    BY <1>5 DEF Below
  <1> QED BY <1>8, <1>9, <1>10, <1>11, <1>12

\* Aborted operations bring no telecommand.
LEMMA ExtendedOrder ==
    ASSUME NEW q \in Seq(Handlers), NEW r, Extended(q, r)
    PROVE  Thins(q, r)
  <1>1. \A i \in DOMAIN r : i \in Int /\ (IsTc(r[i]) => i \in DOMAIN q /\ r[i] = q[i])
    <2>1. \A i \in DOMAIN r : i \in 1 .. Len(r)
      BY DEF Extended
    <2>2. \A i \in 1 .. Len(r) : i > Len(q) \/ (i \in DOMAIN q /\ r[i] = q[i])
      BY DEF Extended
    <2>3. \A i \in 1 .. Len(r) : i > Len(q) => ~IsTc(r[i])
      BY DEF Extended, IsTc
    <2> QED BY <2>1, <2>2, <2>3
  <1>2. InOrder(q) => InOrder(r)
    BY <1>1 DEF InOrder
  <1>3. \A x : (Above(q, x) => Above(r, x)) /\ (Below(q, x) => Below(r, x))
    BY <1>1 DEF Above, Below
  <1> QED BY <1>2, <1>3, Zenon DEF Thins

\* A queue of handlers that loses telecommands, or a transmit queue that is
\* cleared, leaves the rest in order.
LEMMA OrderedThin ==
    ASSUME NEW q, NEW r, NEW t, NEW c, NEW y, Ordered(q, t, c, y), Thins(q, r)
    PROVE  /\ (Written(q) => Written(r)) => Ordered(r, t, c, y)
           /\ Ordered(r, << >>, c, y)
  <1>1. InOrder(r) /\ Below(r, y)
    BY DEF Ordered, Thins
  <1>2. \A x : Above(q, x) => Above(r, x)
    BY DEF Thins
  <1>3. /\ \A i, j \in DOMAIN c : i < j => c[i] < c[j]
        /\ \A i \in DOMAIN c : c[i] < y /\ Above(r, c[i])
    BY <1>2 DEF Ordered
  <1>4. /\ \A i, j \in DOMAIN t : i < j /\ t[i] # Command /\ t[j] # Command => t[i] < t[j]
        /\ \A j \in DOMAIN t : t[j] # Command => t[j] < y /\ Above(r, t[j])
    BY <1>2 DEF Ordered
  <1>5. ASSUME Written(q) => Written(r)
        PROVE  \A i \in DOMAIN c : \A j \in DOMAIN t :
                  (Written(r) => j # 1) /\ t[j] # Command => c[i] < t[j]
    BY <1>5 DEF Ordered
  <1>6. DOMAIN << >> = {}
    OBVIOUS
  <1>7. Ordered(r, << >>, c, y)
    BY <1>1, <1>3, <1>6 DEF Ordered
  <1> QED BY <1>1, <1>3, <1>4, <1>5, <1>7 DEF Ordered

\* A completed write: the front of the transmit queue has reached the daemon.
LEMMA OrderedWrite ==
    ASSUME NEW q \in Seq(Handlers), NEW r, NEW t \in Seq(Nat), NEW c \in Seq(Nat), NEW y \in Nat,
           Ordered(q, t, c, y), Thins(q, r), Written(r), ~Written(q), t # << >>, t[1] # Command
    PROVE  Ordered(r, t, Append(c, t[1]), y)
  <1> DEFINE d == Append(c, t[1])
  <1>1. 1 \in DOMAIN t /\ t[1] \in Nat
    BY EmptySeq
  <1>2. /\ DOMAIN d = 1 .. Len(c) + 1 /\ DOMAIN c = 1 .. Len(c) /\ Len(c) \in Nat /\ d[Len(c) + 1] = t[1]
        /\ \A i \in 1 .. Len(c) : d[i] = c[i]
    BY <1>1
  <1> HIDE DEF d
  <1>3. \A i \in DOMAIN d : \/ i = Len(c) + 1 /\ d[i] = t[1]
                            \/ i \in DOMAIN c /\ i < Len(c) + 1 /\ d[i] = c[i]
    BY <1>2, SMTT(30)
  <1>4. Ordered(r, << >>, c, y)
    BY OrderedThin
  <1>5. \A x : Above(q, x) => Above(r, x)
    BY DEF Thins
  <1>6. \A i \in DOMAIN c : c[i] < t[1]
    BY <1>1 DEF Ordered
  <1>7. t[1] < y /\ Above(r, t[1])
    BY <1>1, <1>5 DEF Ordered
  <1>8. ASSUME NEW i \in DOMAIN d, NEW j \in DOMAIN d, i < j PROVE d[i] < d[j]
    <2>1. i \in DOMAIN c /\ d[i] = c[i]
      BY <1>2, <1>8
    <2>2. CASE d[j] = t[1]
      BY <1>6, <2>1, <2>2
    <2>3. CASE j \in DOMAIN c /\ d[j] = c[j]
      BY <1>4, <1>8, <2>1, <2>3 DEF Ordered
    <2> QED BY <1>3, <2>2, <2>3
  <1>9. ASSUME NEW i \in DOMAIN d PROVE d[i] < y /\ Above(r, d[i])
    <2>1. CASE d[i] = t[1]
      BY <1>7, <2>1
    <2>2. CASE i \in DOMAIN c /\ d[i] = c[i]
      BY <1>4, <2>2 DEF Ordered
    <2> QED BY <1>3, <2>1, <2>2
  <1>10. \A j \in DOMAIN t : t[j] # Command => t[j] < y /\ Above(r, t[j])
    BY <1>5 DEF Ordered
  <1>11. ASSUME NEW i \in DOMAIN d, NEW j \in DOMAIN t, j # 1, t[j] # Command PROVE d[i] < t[j]
    <2>1. CASE d[i] = t[1]
      <3>1. 1 < j
        BY <1>11
      <3> QED BY <1>1, <1>11, <2>1, <3>1 DEF Ordered
    <2>2. CASE i \in DOMAIN c /\ d[i] = c[i]
      BY <1>11, <2>2 DEF Ordered
    <2> QED BY <1>3, <2>1, <2>2
  <1>12. InOrder(r) /\ Below(r, y)
    BY DEF Ordered, Thins
  <1>13. \A i, j \in DOMAIN t : i < j /\ t[i] # Command /\ t[j] # Command => t[i] < t[j]
    BY DEF Ordered
  <1>14. Ordered(r, t, d, y)
    BY <1>8, <1>9, <1>10, <1>11, <1>12, <1>13 DEF Ordered
  <1> QED BY <1>14 DEF d

\* The handler of a write takes the front off the transmit queue.
LEMMA OrderedPop ==
    ASSUME NEW q, NEW r, NEW t \in Seq(Nat), NEW c, NEW y,
           Ordered(q, t, c, y), Thins(q, r), t # << >>
    PROVE  Ordered(r, Tail(t), c, y)
  <1> DEFINE u == Tail(t)
  <1>1. \A i \in DOMAIN u : i \in Int /\ i + 1 \in DOMAIN t /\ i + 1 # 1 /\ u[i] = t[i + 1]
    BY EmptySeq, HeadTailProperties
  <1> HIDE DEF u
  <1>2. Ordered(r, << >>, c, y)
    BY OrderedThin
  <1>3. \A x : Above(q, x) => Above(r, x)
    BY DEF Thins
  <1>4. ASSUME NEW i \in DOMAIN u, NEW j \in DOMAIN u, i < j, u[i] # Command, u[j] # Command PROVE u[i] < u[j]
    <2>1. i + 1 < j + 1
      BY <1>1, <1>4
    <2> QED BY <1>1, <1>4, <2>1 DEF Ordered
  <1>5. \A j \in DOMAIN u : u[j] # Command => u[j] < y /\ Above(r, u[j])
    BY <1>1, <1>3 DEF Ordered
  <1>6. \A i \in DOMAIN c : \A j \in DOMAIN u : u[j] # Command => c[i] < u[j]
    BY <1>1 DEF Ordered
  <1>7. Ordered(r, u, c, y)
    BY <1>2, <1>4, <1>5, <1>6 DEF Ordered
  <1> QED BY <1>7 DEF u

\* A posted frame runs: it goes to the back of the transmit queue.
LEMMA OrderedPush ==
    ASSUME NEW q \in Seq(Handlers), NEW h, NEW r, NEW t \in Seq(Nat), NEW c, NEW y,
           Ordered(q, t, c, y), Taken(q, h, r), h.kind = "post"
    PROVE  Ordered(r, Append(t, h.tc), c, y)
  <1> DEFINE u == Append(t, h.tc)
  <1>0. h.tc \in Nat
    BY DEF Taken, Handlers
  <1>1. Len(t) \in Nat /\ DOMAIN t = 1 .. Len(t)
        /\ \A j \in DOMAIN u : \/ j = Len(t) + 1 /\ u[j] = h.tc
                               \/ j \in DOMAIN t /\ u[j] = t[j]
    BY <1>0
  <1> HIDE DEF u
  <1>2. Thins(q, r) /\ (Written(q) => Written(r))
    BY TakenOrder
  <1>3. Ordered(r, t, c, y)
    BY <1>2, OrderedThin
  <1>4. h.tc # Command => IsTc(h)
    BY DEF IsTc
  <1>5. h.tc # Command => h.tc < y /\ Above(r, h.tc)
    BY <1>4, TakenOrder DEF Ordered
  <1>6. ASSUME h.tc # Command, NEW j \in DOMAIN t, t[j] # Command PROVE t[j] < h.tc
    BY <1>4, <1>6, TakenOrder DEF Ordered
  <1>7. ASSUME h.tc # Command, NEW i \in DOMAIN c PROVE c[i] < h.tc
    BY <1>4, <1>7, TakenOrder DEF Ordered
  <1>8. ASSUME NEW i \in DOMAIN u, NEW j \in DOMAIN u, i < j, u[i] # Command, u[j] # Command PROVE u[i] < u[j]
    <2>0. DOMAIN u = 1 .. Len(t) + 1
      BY <1>0 DEF u
    <2>1. i \in DOMAIN t /\ u[i] = t[i]
      BY <1>1, <1>8, <2>0
    <2>2. CASE u[j] = h.tc
      BY <1>6, <1>8, <2>1, <2>2
    <2>3. CASE j \in DOMAIN t /\ u[j] = t[j]
      BY <1>3, <1>8, <2>1, <2>3 DEF Ordered
    <2> QED BY <1>1, <2>2, <2>3
  <1>9. ASSUME NEW j \in DOMAIN u, u[j] # Command PROVE u[j] < y /\ Above(r, u[j])
    <2>1. CASE u[j] = h.tc
      BY <1>5, <1>9, <2>1
    <2>2. CASE j \in DOMAIN t /\ u[j] = t[j]
      BY <1>3, <1>9, <2>2 DEF Ordered
    <2> QED BY <1>1, <2>1, <2>2
  <1>10. ASSUME NEW i \in DOMAIN c, NEW j \in DOMAIN u, Written(r) => j # 1, u[j] # Command
         PROVE  c[i] < u[j]
    <2>1. CASE u[j] = h.tc
      BY <1>7, <1>10, <2>1
    <2>2. CASE j \in DOMAIN t /\ u[j] = t[j]
      BY <1>3, <1>10, <2>2 DEF Ordered
    <2> QED BY <1>1, <2>1, <2>2
  <1>11. Ordered(r, u, c, y)
    BY <1>3, <1>8, <1>9, <1>10 DEF Ordered
  <1> QED BY <1>11 DEF u

\* send_system_hk posts a telecommand with the next count.
LEMMA OrderedPost ==
    ASSUME NEW q \in Seq(Handlers), NEW h, NEW r, NEW t \in Seq(Nat), NEW c \in Seq(Nat), NEW y \in Nat,
           Ordered(q, t, c, y), Joined(q, h, r), h.tc = y
    PROVE  Ordered(r, t, c, y + 1)
  <1>1. InOrder(q) /\ Below(q, y)
    BY DEF Ordered
  <1>2. \A x : Above(q, x) /\ x < y => Above(r, x)
    BY JoinedOrder
  <1>3. InOrder(r)
    BY <1>1, JoinedOrder
  <1>4. Below(r, y + 1)
    <2>1. Below(q, y + 1)
      <3>1. ASSUME NEW i \in DOMAIN q PROVE q[i].tc \in Nat
        <4>1. q[i] \in Handlers
          OBVIOUS
        <4> QED BY <4>1 DEF Handlers
      <3> QED BY <1>1, <3>1 DEF Below
    <2> QED BY <2>1, JoinedOrder
  <1>5. (Written(q) => Written(r))
    BY JoinedOrder
  <1>6. \A i \in DOMAIN c : c[i] < y + 1 /\ Above(r, c[i])
    BY <1>2 DEF Ordered
  <1>7. \A j \in DOMAIN t : t[j] # Command => t[j] < y + 1 /\ Above(r, t[j])
    BY <1>2 DEF Ordered
  <1>8. \A i \in DOMAIN c : \A j \in DOMAIN t : (Written(r) => j # 1) /\ t[j] # Command => c[i] < t[j]
    BY <1>5 DEF Ordered
  <1> QED BY <1>3, <1>4, <1>6, <1>7, <1>8 DEF Ordered

\* Every step keeps the telecommands in order: only send_system_hk makes one, a
\* completed write finds no other completion of a write queued, and a lost
\* connection clears the transmit queue.
LEMMA OrderStep ==
    ASSUME Types, Counts, Way, Order, [Next]_vars
    PROVE  Order'
  <1>0. /\ ready \in Seq(Handlers) /\ tx_queue_ \in Seq(Nat) /\ received \in Seq(Nat) /\ tc_sequence \in Nat
        /\ Ordered(ready, tx_queue_, received, tc_sequence)
    BY DEF Types, ClientTypes, AppTypes, DaemonTypes, Sound, Order
  <1>1. ASSUME UNCHANGED <<ready, tx_queue_, received, tc_sequence>> PROVE Order'
    BY <1>0, <1>1 DEF Order
  <1>2. CASE World \/ HkSwitch \/ UNCHANGED vars
    BY <1>1, <1>2 DEF World, DaemonStops, DaemonStarts, DeviceChanges, HkSwitch, vars, clientVars, hkVars
  <1>3. ASSUME Thins(ready, ready'), Written(ready) => Written(ready'),
               UNCHANGED <<tx_queue_, received, tc_sequence>>
        PROVE  Order'
    BY <1>0, <1>3, OrderedThin DEF Order
  <1>4. ASSUME Thins(ready, ready'), tx_queue_' = << >>, UNCHANGED <<received, tc_sequence>>
        PROVE  Order'
    BY <1>0, <1>4, OrderedThin DEF Order
  <1>5. ASSUME NEW k, NEW res, Queues(k, res), k # "post", UNCHANGED <<tx_queue_, received, tc_sequence>>
        PROVE  Order'
    <2>1. PICK h \in Handlers : Joined(ready, h, ready') /\ h.kind = k
      BY <1>5 DEF Queues
    <2>2. ~IsTc(h)
      BY <1>5, <2>1 DEF IsTc
    <2>3. Thins(ready, ready') /\ (Written(ready) => Written(ready'))
      BY <1>0, <2>1, <2>2, JoinedOrder
    <2> QED BY <1>3, <1>5, <2>3
  <1>6. CASE HkExpires \/ HkReq \/ TimerExpires
    <2>1. UNCHANGED <<tx_queue_, received, tc_sequence>>
      BY <1>6 DEF HkExpires, HkReq, Enter, TimerExpires, hkVars
    <2>2. Queues("hk", "ok") \/ Queues("hkreq", "ok") \/ Queues("timer", "ok")
      BY <1>6, Queueing DEF HkExpires, HkReq, Enter, Kinds
    <2> QED BY <1>5, <2>1, <2>2
  <1>7. CASE SendCommand
    <2>1. Post(Command) \in Handlers /\ ~IsTc(Post(Command))
      BY HandlerType DEF Command, IsTc
    <2>2. ready' = Append(ready, Post(Command)) /\ UNCHANGED <<tx_queue_, received, tc_sequence>>
      BY <1>7 DEF SendCommand, Enter
    <2>3. Joined(ready, Post(Command), ready')
      BY <1>0, <2>1, <2>2, Joins
    <2>4. Thins(ready, ready') /\ (Written(ready) => Written(ready'))
      BY <1>0, <2>1, <2>3, JoinedOrder
    <2> QED BY <1>3, <2>2, <2>4
  <1>8. CASE System
    <2>1. UNCHANGED <<tx_queue_, tc_sequence>>
      BY <1>8 DEF System, Resolved, ConnectCompletes, ReadCompletes, WriteCompletes, IoFails, Completed, Quiesce, hkVars
    <2>2. ASSUME WriteCompletes, Queues("written", "ok") PROVE Order'
      <3>1. /\ tx_queue_ # << >> /\ "write" \in ops
            /\ received' = IF Head(tx_queue_) = Command THEN received ELSE Append(received, Head(tx_queue_))
        BY <2>2 DEF WriteCompletes, Completed
      <3>2. CASE Head(tx_queue_) = Command
        BY <1>5, <2>1, <2>2, <3>1, <3>2
      <3>3. CASE Head(tx_queue_) # Command
        <4>1. connected_
          BY <3>1 DEF Way
        <4>2. N(ready, "written") = 0
          BY <3>1, <4>1, WayFacts DEF Way, One
        <4>3. ~Written(ready)
          BY <1>0, <4>2, Nowhere DEF Written
        <4>4. PICK h \in Handlers : Joined(ready, h, ready') /\ h.kind = "written" /\ h.res = "ok"
          BY <2>2 DEF Queues
        <4>5. Thins(ready, ready') /\ Written(ready')
          BY <1>0, <4>4, JoinedOrder DEF IsTc
        <4>6. Head(tx_queue_) = tx_queue_[1]
          BY <1>0, <3>1, HeadTailProperties
        <4>7. Ordered(ready', tx_queue_, Append(received, tx_queue_[1]), tc_sequence)
          BY <1>0, <3>1, <3>3, <4>3, <4>5, <4>6, OrderedWrite
        <4> QED BY <2>1, <3>1, <3>3, <4>6, <4>7 DEF Order
      <3> QED BY <3>2, <3>3
    <2>3. CASE ~WriteCompletes
      <3>1. UNCHANGED received
        BY <1>8, <2>3 DEF System, Resolved, ConnectCompletes, ReadCompletes, IoFails
      <3>2. \E k, res : Queues(k, res) /\ k # "post"
        BY <1>8, <2>3, Completions
      <3> QED BY <1>5, <2>1, <3>1, <3>2
    <2>4. WriteCompletes => Queues("written", "ok")
      BY Queueing DEF WriteCompletes, Completed, Kinds
    <2> QED BY <2>2, <2>3, <2>4
  <1>9. CASE RunHandler
    <2>1. PICK h, hs : Taking(h, hs) /\ Runs(h, hs)
      BY <1>9, Handles
    <2>2. Taken(ready, h, hs) /\ Sound(hs) /\ hs \in Seq(Handlers)
      BY <2>1 DEF Taking, Sound
    <2>3. received' = received
      BY <2>1 DEF Runs
    <2>4. Thins(ready, hs) /\ (h.kind # "written" => (Written(ready) => Written(hs)))
      BY <1>0, <2>2, TakenOrder
    <2>5. ASSUME ScheduleReconnect(hs), UNCHANGED tc_sequence PROVE Order'
      <3>1. Extended(hs, ready') /\ tx_queue_' = << >>
        BY <2>2, <2>5, Schedules DEF ScheduleReconnect, CloseSocket
      <3>2. Thins(ready, ready')
        BY <2>2, <2>4, <3>1, ExtendedOrder, ThinsTwice
      <3> QED BY <1>4, <2>3, <2>5, <3>1, <3>2
    <2>6. CASE RunTimer(h, hs)
      <3>1. CloseSocket(hs) /\ tx_queue_' = << >> /\ UNCHANGED tc_sequence
        BY <2>6 DEF RunTimer, DoConnect, CloseSocket, hkVars
      <3>2. Thins(ready, ready')
        BY <2>2, <2>4, <3>1, Reopens, ExtendedOrder, ThinsTwice
      <3> QED BY <1>4, <2>3, <3>1, <3>2
    <2>7. ASSUME h.kind # "written", ready' = hs, UNCHANGED <<tx_queue_, tc_sequence>> PROVE Order'
      BY <1>3, <2>3, <2>4, <2>7
    <2>8. CASE RunResolve(h, hs) \/ RunConnect(h, hs)
      <3>1. h.kind # "written" /\ UNCHANGED tc_sequence
        BY <2>8 DEF RunResolve, RunConnect, hkVars
      <3>2. ScheduleReconnect(hs) \/ (ready' = hs /\ UNCHANGED tx_queue_)
        BY <2>8 DEF RunResolve, RunConnect
      <3> QED BY <2>5, <2>7, <3>1, <3>2
    <2>9. CASE RunRead(h, hs)
      <3>1. h.kind # "written" /\ UNCHANGED tc_sequence
        BY <2>9 DEF RunRead, hkVars
      <3>2. \/ ScheduleReconnect(hs)
            \/ ready' = hs /\ UNCHANGED tx_queue_
            \/ ready' = Append(hs, Handler("read", "err")) /\ UNCHANGED tx_queue_
        BY <2>9 DEF RunRead
      <3>3. ASSUME ready' = Append(hs, Handler("read", "err")), UNCHANGED tx_queue_ PROVE Order'
        <4>1. Handler("read", "err") \in Handlers /\ ~IsTc(Handler("read", "err"))
          BY HandlerType DEF Kinds, IsTc
        <4>2. Joined(hs, Handler("read", "err"), ready')
          BY <2>2, <3>3, <4>1, Joins
        <4>3. Thins(hs, ready') /\ (Written(hs) => Written(ready'))
          BY <2>2, <4>1, <4>2, JoinedOrder
        <4>4. Thins(ready, ready')
          BY <2>4, <4>3, ThinsTwice
        <4> QED BY <1>3, <2>3, <2>4, <3>1, <3>3, <4>3, <4>4
      <3> QED BY <2>5, <2>7, <3>1, <3>2, <3>3
    <2>10. CASE RunWritten(h, hs)
      <3>1. UNCHANGED tc_sequence
        BY <2>10 DEF RunWritten, hkVars
      <3>2. \/ ScheduleReconnect(hs)
            \/ ready' = hs /\ tx_queue_ # << >> /\ tx_queue_' = Tail(tx_queue_)
            \/ ready' = hs /\ tx_queue_' = << >>
        BY <2>10 DEF RunWritten, DoWrite
      <3>3. ASSUME ready' = hs, tx_queue_ # << >>, tx_queue_' = Tail(tx_queue_) PROVE Order'
        <4>1. Ordered(hs, Tail(tx_queue_), received, tc_sequence)
          BY <1>0, <2>4, <3>3, OrderedPop
        <4> QED BY <2>3, <3>1, <3>3, <4>1 DEF Order
      <3> QED BY <1>4, <2>3, <2>4, <2>5, <3>1, <3>2, <3>3
    <2>11. CASE RunPost(h, hs)
      <3>1. h.kind = "post" /\ ready' = hs /\ UNCHANGED tc_sequence
        BY <2>11 DEF RunPost, hkVars
      <3>2. Append(<< >>, h.tc) = <<h.tc>>
        OBVIOUS
      <3>3. UNCHANGED tx_queue_ \/ tx_queue_' = Append(tx_queue_, h.tc)
        BY <2>11, <3>2 DEF RunPost, DoWrite
      <3>4. Ordered(hs, Append(tx_queue_, h.tc), received, tc_sequence)
        BY <1>0, <2>2, <3>1, OrderedPush
      <3> QED BY <2>3, <2>7, <3>1, <3>3, <3>4 DEF Order
    <2>12. ASSUME SendSystemHk(hs), h.kind \in {"hk", "hkreq"}, UNCHANGED tx_queue_ PROVE Order'
      <3>1. Post(tc_sequence) \in Handlers /\ Post(tc_sequence).tc = tc_sequence
        BY <1>0, HandlerType
      <3>2. Joined(hs, Post(tc_sequence), ready')
        BY <2>2, <2>12, <3>1, Joins DEF SendSystemHk
      <3>3. Ordered(hs, tx_queue_, received, tc_sequence)
        BY <1>0, <2>4, <2>12, OrderedThin
      <3>4. Ordered(ready', tx_queue_, received, tc_sequence + 1)
        BY <1>0, <2>2, <3>1, <3>2, <3>3, OrderedPost
      <3>5. tc_sequence' = tc_sequence + 1
        <4>1. \A k : N(hs, k) \in Nat /\ N(ready, k) \in Nat /\ N(ready, k) = N(hs, k) + One(h.kind = k)
          BY <2>2 DEF Taken
        <4>2. N(ready, "hkreq") + N(ready, "hk") >= 1
          BY <2>12, <4>1 DEF One
        <4>3. MaxTc \in Nat /\ MaxCommands \in Nat /\ commands \in Nat
          BY BoundsAssumption DEF Types, AppTypes
        <4>4. N(ready, "hkreq") \in Nat /\ N(ready, "hk") \in Nat
          BY <4>1
        <4>5. tc_sequence + 1 < 16384
          BY <1>0, <4>2, <4>3, <4>4, CountsAssumption DEF Counts
        <4>6. tc_sequence \in Nat
          BY <1>0
        <4>7. tc_sequence' = (tc_sequence + 1) % 16384
          BY <2>12 DEF SendSystemHk
        <4> QED BY <4>5, <4>6, <4>7
      <3> QED BY <2>3, <2>12, <3>4, <3>5 DEF Order
    <2>13. CASE RunHk(h, hs) \/ RunHkReq(h, hs)
      <3>1. h.kind \in {"hk", "hkreq"} /\ UNCHANGED tx_queue_
            /\ (SendSystemHk(hs) \/ (ready' = hs /\ UNCHANGED tc_sequence))
        BY <2>13 DEF RunHk, RunHkReq
      <3> QED BY <2>7, <2>12, <3>1
    <2> QED BY <2>1, <2>6, <2>8, <2>9, <2>10, <2>11, <2>13 DEF Runs
  <1> QED BY <1>2, <1>6, <1>7, <1>8, <1>9 DEF Next, Timers, Operator

------------------------------------------------------------------------------
(* The invariant and what follows from it.                                  *)

\* The inductive invariant.
Inv == Types /\ Counts /\ Way /\ View /\ Order

\* The state in which UiApp::run starts the io thread satisfies the invariant.
LEMMA InitInv == Init => Inv
  <1> SUFFICES ASSUME Init PROVE Inv
    OBVIOUS
  <1>0. /\ << >> \in Seq(Handlers) /\ << >> \in Seq(Nat) /\ << >> \in Seq(BOOLEAN)
        /\ DOMAIN << >> = {}
    OBVIOUS
  <1>1. /\ ready = << >> /\ tx_queue_ = << >> /\ received = << >> /\ line = << >>
        /\ tc_sequence = 1 /\ commands = 0 /\ downs = 0 /\ changes = 0 /\ sock_ = "closed" /\ ops = {}
    BY DEF Init
  <1>2. /\ resolving = TRUE /\ timer = FALSE /\ connected_ = FALSE /\ reconnect_scheduled_ = FALSE
        /\ daemon_connected = FALSE /\ device_connected = FALSE /\ hk_enabled = FALSE /\ hk_armed = TRUE
        /\ alive = FALSE /\ crashed = FALSE /\ up \in BOOLEAN /\ device \in BOOLEAN
    BY Zenon DEF Init
  <1>3. \A k : N(ready, k) = 0
    <2>1. \A k : N(<< >>, k) = 0
      BY <1>0, Nowhere
    <2> QED BY <1>1, <2>1
  <1>4. Types
    <2>1. Sound(ready)
      BY <1>0, <1>1 DEF Sound
    <2>2. ClientTypes
      BY <1>0, <1>1, <1>2, <2>1 DEF ClientTypes
    <2>3. AppTypes
      BY <1>1, <1>2 DEF AppTypes
    <2>4. DaemonTypes
      BY <1>0, <1>1, <1>2 DEF DaemonTypes
    <2> QED BY <2>2, <2>3, <2>4 DEF Types
  <1>5. Counts
    BY <1>1, <1>2, <1>3, BoundsAssumption, CountsAssumption DEF Counts, One
  <1>6. Way
    BY <1>1, <1>2, <1>3 DEF Way, Ways, One
  <1>7. View
    BY <1>2, Zenon DEF View
  <1>8. Order
    BY <1>0, <1>1 DEF Order, Ordered, InOrder, Above, Below
  <1> QED BY <1>4, <1>5, <1>6, <1>7, <1>8 DEF Inv

\* Every reachable state of the UI client satisfies the invariant, for any bounds
\* on commands, stops and changes, while the sequence count does not wrap.
THEOREM Inductive == Spec => []Inv
  <1>1. Init => Inv
    BY InitInv
  <1>2. Inv /\ [Next]_vars => Inv'
    <2> SUFFICES ASSUME Inv, [Next]_vars PROVE Inv'
      OBVIOUS
    <2>1. Types /\ Counts /\ Way /\ View /\ Order
      BY DEF Inv
    <2> QED BY <2>1, TypesStep, CountsStep, WayStep, ViewStep, OrderStep DEF Inv
  <1> QED BY <1>1, <1>2, PTL DEF Spec

\* Every variable of exn_gsui keeps its type (ipc_client.cpp, ui_app.cpp), and the
\* next sequence count is above those of all telecommands posted, queued and
\* written, however the timer, HK_REQ and lost connections interleave.
THEOREM TypeCorrect == Spec => []TypeOK
  <1>1. Inv => TypeOK
    <2> SUFFICES ASSUME Inv PROVE TypeOK
      OBVIOUS
    <2>1. Types /\ Counts /\ Order
      BY DEF Inv
    <2>2. /\ ready \in Seq(Handlers) /\ tx_queue_ \in Seq(Nat) /\ received \in Seq(Nat)
          /\ tc_sequence \in Nat /\ commands \in Nat /\ MaxTc \in Nat /\ MaxCommands \in Nat
      BY <2>1, BoundsAssumption DEF Types, ClientTypes, AppTypes, DaemonTypes, Sound
    <2>3. N(ready, "hkreq") \in Nat /\ N(ready, "hk") \in Nat
      BY <2>2, Nowhere
    <2>4. tc_sequence \in 1 .. MaxTc + MaxCommands /\ commands <= MaxCommands
      BY <2>1, <2>2, <2>3 DEF Counts
    <2>5. ASSUME NEW i \in DOMAIN ready, ready[i].kind = "post"
          PROVE  ready[i].tc < tc_sequence
      <3>0. ready[i] \in Handlers
        BY <2>2, <2>5
      <3>1. ready[i].tc \in Nat
        BY <3>0 DEF Handlers
      <3>2. ready[i].tc # Command => ready[i].tc < tc_sequence
        BY <2>1, <2>5 DEF Order, Ordered, Below, IsTc
      <3> QED BY <2>4, <3>1, <3>2 DEF Command
    <2>6. ASSUME NEW i \in DOMAIN tx_queue_ PROVE tx_queue_[i] < tc_sequence
      <3>1. tx_queue_[i] \in Nat /\ (tx_queue_[i] # Command => tx_queue_[i] < tc_sequence)
        BY <2>1, <2>2 DEF Order, Ordered
      <3> QED BY <2>4, <3>1 DEF Command
    <2>7. \A i \in DOMAIN received : received[i] < tc_sequence
      BY <2>1 DEF Order, Ordered
    <2> QED BY <2>1, <2>4, <2>5, <2>6, <2>7 DEF TypeOK
  <1> QED BY <1>1, Inductive, PTL

\* A number of positions is a count of handlers.
LEMMA QueuedCount ==
    ASSUME Types, NEW k
    PROVE  Queued(k) = N(ready, k)
  <1>1. ready \in Seq(Handlers)
    BY DEF Types, ClientTypes, Sound
  <1>2. {i \in DOMAIN ready : ready[i].kind = k} = {i \in DOMAIN ready : ready[i] \in Kind(k)}
    BY <1>1 DEF Kind
  <1> QED BY <1>2 DEF Queued, N, Count, Where

\* do_connect and schedule_reconnect: whatever fails, in whichever order and how
\* often, the client is connected or has exactly one way back.
THEOREM OneWayBackAlways == Spec => []OneWayBack
  <1>1. Inv => OneWayBack
    BY QueuedCount DEF Inv, Way, Ways, OneWayBack
  <1> QED BY <1>1, Inductive, PTL

\* on_connection_state and on_frame: an idle UI shows the device link as the
\* daemon last reported it, and as down without a daemon.
THEOREM DeviceViewTrue == Spec => []DeviceView
  <1>1. Inv => DeviceView
    <2> SUFFICES ASSUME Inv, ready = << >>, line = << >>
                 PROVE  /\ daemon_connected = connected_
                        /\ ~connected_ => ~device_connected
                        /\ connected_ /\ alive => device_connected = device
      BY DEF DeviceView
    <2>1. DOMAIN ready = {}
      OBVIOUS
    <2>2. ~Bad(ready) /\ NoGood(ready)
      BY <2>1 DEF Bad, NoGood
    <2> QED BY <2>2, Zenon DEF Inv, View
  <1> QED BY <1>1, Inductive, PTL

\* send_system_hk and send_frame: telecommands reach the daemon in the order of
\* their sequence counts and none twice, across reconnections.
THEOREM TcsAlwaysInOrder == Spec => []TcsInOrder
  <1>1. Inv => TcsInOrder
    BY DEF Inv, Order, Ordered, TcsInOrder
  <1> QED BY <1>1, Inductive, PTL

==============================================================================
