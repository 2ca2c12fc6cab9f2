---------------------------- MODULE DaemonProofs -----------------------------
(***************************************************************************)
(* Proofs about Daemon, for every set of clients and any number of         *)
(* requests and link events: the types, the order of each client's stream, *)
(* its beginning, and the link state it ends with.                         *)
(***************************************************************************)
EXTENDS Daemon, SequenceLemmas

\* How many handlers of session c are queued in q.
Of(k, c) == {h \in Handlers : h.kind = k /\ h.c = c}
FrontsOf(c) == {h \in Handlers : h.kind = "written" /\ h.c = c /\ h.res = "ok"}

Accepts(q, c) == Count(q, Of("accept", c))
Reads(q, c) == Count(q, Of("read", c))
Writes(q, c) == Count(q, Of("written", c))
Fronts(q, c) == Count(q, FrontsOf(c))
One(b) == IF b THEN 1 ELSE 0

\* A connection is made once.
Once(c) == Accepts(ready, c) + One(peer[c] = "never") + One(sock[c] # "none") = 1

\* Nothing happens to a session before it exists.
Unborn(c) == sock[c] = "none" =>
    /\ pending[c] = {} /\ Reads(ready, c) = 0 /\ Writes(ready, c) = 0
    /\ running # c /\ ~Contains(sessions_, c)
    /\ Posted(c) = << >> /\ sent[c] = << >> /\ d2c[c] = << >> /\ tx_queue_[c] = << >>

\* An open session is listed, reads, and writes exactly while frames wait.
Working(c) == sock[c] = "open" =>
    /\ Contains(sessions_, c)
    /\ One("read" \in pending[c]) + Reads(ready, c) + One(running = c) = 1
    /\ One("write" \in pending[c]) + Writes(ready, c) = One(tx_queue_[c] # << >>)

\* A closed session has no operation pending and nothing to write.
Ended(c) == sock[c] = "closed" => pending[c] = {} /\ tx_queue_[c] = << >>

Session(c) == Once(c) /\ Unborn(c) /\ Working(c) /\ Ended(c)

\* What a client was sent, in order, is what reached it, what its session still
\* has to write, and what is posted to the session.  A session that closed has
\* lost only the end.
Stream(c) == IF sock[c] = "open" THEN sent[c] = d2c[c] \o Queued(c) \o Posted(c)
             ELSE IsPrefix(d2c[c], sent[c])

\* A session starts with Hello and the state of the link.
Greeted(c) == sock[c] # "none" =>
    Len(sent[c]) >= 2 /\ sent[c][1] = Hello /\ sent[c][2].type = "LinkState"

\* The last link state sent to an open session is the current one.
View(c) == sock[c] = "open" =>
    LinkFrames(c) # << >> /\ Last(LinkFrames(c)) = LinkFrame(link_state)

\* What holds for each client, and together implies the properties.
ClientInv(c) == Session(c) /\ Stream(c) /\ Greeted(c) /\ View(c)

DaemonInv == \A c \in Clients : ClientInv(c)

------------------------------------------------------------------------------
(* Queues of handlers.                                                      *)

\* The posted sends to the session of c, and the frames they carry.
SendsTo(c) == {h \in Handlers : h.kind = "send" /\ h.c = c}

FramesIn(mine) == [i \in DOMAIN mine |-> mine[i].frame]

\* The frames of queued sends are frames, in the order of the sends.
LEMMA FramesInConcat ==
    ASSUME NEW s \in Seq(Handlers), NEW t \in Seq(Handlers)
    PROVE  FramesIn(s) \in Seq(Frames) /\ FramesIn(s \o t) = FramesIn(s) \o FramesIn(t)
  <1>1. ASSUME NEW u \in Seq(Handlers)
        PROVE  FramesIn(u) \in Seq(Frames) /\ Len(FramesIn(u)) = Len(u)
               /\ \A i \in 1 .. Len(u) : FramesIn(u)[i] = u[i].frame
    <2>1. Len(u) \in Nat /\ DOMAIN u = 1 .. Len(u) /\ \A i \in 1 .. Len(u) : u[i].frame \in Frames
      <3>1. \A h \in Handlers : h.frame \in Frames
        BY DEF Handlers
      <3>2. \A i \in 1 .. Len(u) : u[i] \in Handlers
        BY ElementOfSeq
      <3> QED BY <3>1, <3>2, LenProperties
    <2>2. FramesIn(u) = [i \in 1 .. Len(u) |-> u[i].frame]
      BY <2>1 DEF FramesIn
    <2> QED BY <2>1, <2>2, IsASeq
  <1> DEFINE u == s \o t
             fs == FramesIn(s)
             ft == FramesIn(t)
             v == fs \o ft
  <1>2. u \in Seq(Handlers) /\ Len(u) = Len(s) + Len(t)
        /\ \A i \in 1 .. Len(s) + Len(t) : u[i] = IF i <= Len(s) THEN s[i] ELSE t[i - Len(s)]
    BY ConcatProperties
  <1>3. v \in Seq(Frames) /\ Len(v) = Len(s) + Len(t)
        /\ \A i \in 1 .. Len(s) + Len(t) : v[i] = IF i <= Len(s) THEN fs[i] ELSE ft[i - Len(s)]
    <2>1. fs \in Seq(Frames) /\ ft \in Seq(Frames)
      BY <1>1
    <2>2. Len(fs) = Len(s) /\ Len(ft) = Len(t)
      BY <1>1
    <2> HIDE DEF fs, ft
    <2>3. v \in Seq(Frames) /\ Len(v) = Len(fs) + Len(ft)
          /\ \A i \in 1 .. Len(fs) + Len(ft) : v[i] = IF i <= Len(fs) THEN fs[i] ELSE ft[i - Len(fs)]
      BY <2>1, ConcatProperties
    <2> HIDE DEF v
    <2> QED BY <2>2, <2>3, Zenon
  <1> HIDE DEF u, v
  <1>4. FramesIn(u) \in Seq(Frames) /\ Len(FramesIn(u)) = Len(s) + Len(t)
    BY <1>1, <1>2
  <1>5. ASSUME NEW i \in 1 .. Len(s) + Len(t) PROVE FramesIn(u)[i] = v[i]
    <2>0. Len(s) \in Nat /\ Len(t) \in Nat
      BY LenProperties
    <2>1. FramesIn(u)[i] = u[i].frame
      BY <1>1, <1>2
    <2>2. CASE i <= Len(s)
      <3>1. i \in 1 .. Len(s)
        BY <2>0, <2>2
      <3> QED BY <1>1, <1>2, <1>3, <2>1, <2>2, <3>1
    <2>3. CASE ~(i <= Len(s))
      <3>1. i - Len(s) \in 1 .. Len(t)
        BY <2>0, <2>3
      <3> QED BY <1>1, <1>2, <1>3, <2>1, <2>3, <3>1
    <2> QED BY <2>2, <2>3
  <1>6. FramesIn(u) = v
    BY <1>3, <1>4, <1>5, SeqEqual
  <1> QED BY <1>1, <1>6 DEF u, v

\* What is posted to c in two queues, one behind the other.
LEMMA FramesForConcat ==
    ASSUME NEW q \in Seq(Handlers), NEW r \in Seq(Handlers), NEW c
    PROVE  FramesFor(q, c) \in Seq(Frames) /\ FramesFor(q \o r, c) = FramesFor(q, c) \o FramesFor(r, c)
  <1> DEFINE A == SendsTo(c)
  <1>1. Select(q, A) \in Seq(Handlers) /\ Select(r, A) \in Seq(Handlers)
    BY SelectType
  <1>2. Select(q \o r, A) = Select(q, A) \o Select(r, A)
    BY SelectConcat
  <1>3. \A x : FramesFor(x, c) = FramesIn(Select(x, A))
    BY DEF FramesFor, FramesIn, SendsTo
  <1> HIDE DEF A
  <1>4. FramesIn(Select(q, A)) \in Seq(Frames)
        /\ FramesIn(Select(q, A) \o Select(r, A)) = FramesIn(Select(q, A)) \o FramesIn(Select(r, A))
    BY <1>1, FramesInConcat
  <1>5. FramesFor(q, c) = FramesIn(Select(q, A)) /\ FramesFor(r, c) = FramesIn(Select(r, A))
        /\ FramesFor(q \o r, c) = FramesIn(Select(q \o r, A))
    BY <1>3, Zenon
  <1> QED BY <1>2, <1>4, <1>5, Zenon

\* Nothing is posted to c in an empty queue.
LEMMA FramesForEmpty ==
    ASSUME NEW c
    PROVE  FramesFor(<< >>, c) = << >>
  <1>1. Select(<< >>, SendsTo(c)) = << >>
    BY SelectEmpty
  <1>2. FramesFor(<< >>, c) = FramesIn(Select(<< >>, SendsTo(c)))
    BY DEF FramesFor, FramesIn, SendsTo
  <1>3. FramesIn(<< >>) = << >>
    BY DEF FramesIn
  <1> QED BY <1>1, <1>2, <1>3, Zenon

\* What one handler carries to c.
LEMMA FramesForOne ==
    ASSUME NEW h \in Handlers, NEW c
    PROVE  FramesFor(<<h>>, c) = IF h.kind = "send" /\ h.c = c THEN <<h.frame>> ELSE << >>
  <1>1. Select(<<h>>, SendsTo(c)) = IF h \in SendsTo(c) THEN <<h>> ELSE << >>
    BY SelectOne
  <1>2. h \in SendsTo(c) <=> h.kind = "send" /\ h.c = c
    BY DEF SendsTo
  <1>3. FramesFor(<<h>>, c) = FramesIn(Select(<<h>>, SendsTo(c)))
    BY DEF FramesFor, FramesIn, SendsTo
  <1>4. FramesIn(<< >>) = << >> /\ FramesIn(<<h>>) = <<h.frame>>
    BY DEF FramesIn
  <1> QED BY <1>1, <1>2, <1>3, <1>4, Zenon

\* broadcast posts one send to each session of the list.
LEMMA PostsType ==
    ASSUME NEW to \in Seq(Clients), NEW f \in Frames
    PROVE  /\ Posts(to, f) \in Seq(Handlers) /\ Len(Posts(to, f)) = Len(to)
           /\ \A i \in 1 .. Len(to) : Posts(to, f)[i] = SendPost(to[i], f)
           /\ \A c \in Clients : SendPost(c, f) \in Handlers
  <1>1. \A c \in Clients : SendPost(c, f) \in Handlers
    <2>1. << >> \in Seq(Requests)
      OBVIOUS
    <2> QED BY <2>1 DEF SendPost, Handler, Handlers
  <1>2. Len(to) \in Nat /\ DOMAIN to = 1 .. Len(to) /\ \A i \in 1 .. Len(to) : to[i] \in Clients
    BY LenProperties, ElementOfSeq
  <1>3. Posts(to, f) = [i \in 1 .. Len(to) |-> SendPost(to[i], f)]
    BY <1>2 DEF Posts
  <1>4. \A i \in 1 .. Len(to) : SendPost(to[i], f) \in Handlers
    BY <1>1, <1>2
  <1> QED BY <1>1, <1>2, <1>3, <1>4, IsASeq

\* broadcast to a longer list posts one more send.
LEMMA PostsAppend ==
    ASSUME NEW to \in Seq(Clients), NEW d \in Clients, NEW f \in Frames
    PROVE  Posts(Append(to, d), f) = Posts(to, f) \o <<SendPost(d, f)>>
  <1> DEFINE t == Append(to, d)
             n == Len(to)
             p == Posts(to, f)
             e == SendPost(d, f)
             s == p \o <<e>>
             u == Posts(t, f)
  <1>1. n \in Nat /\ t \in Seq(Clients) /\ Len(t) = n + 1 /\ t[n + 1] = d /\ \A i \in 1 .. n : t[i] = to[i]
    BY AppendProperties, LenProperties
  <1>2. p \in Seq(Handlers) /\ Len(p) = n /\ (\A i \in 1 .. n : p[i] = SendPost(to[i], f)) /\ e \in Handlers
    BY PostsType
  <1> HIDE DEF t
  <1>3. u \in Seq(Handlers) /\ Len(u) = Len(t) /\ \A i \in 1 .. Len(t) : u[i] = SendPost(t[i], f)
    BY <1>1, PostsType
  <1> HIDE DEF p, u
  <1>4. s \in Seq(Handlers) /\ Len(s) = n + 1 /\ s[n + 1] = e /\ \A i \in 1 .. n : s[i] = p[i]
    <2> HIDE DEF e
    <2> QED BY <1>1, <1>2
  <1> HIDE DEF s
  <1>5. ASSUME NEW i \in 1 .. n + 1 PROVE u[i] = s[i]
    <2>1. CASE i \in 1 .. n
      BY <1>1, <1>2, <1>3, <1>4, <2>1
    <2>2. CASE i = n + 1
      BY <1>1, <1>2, <1>3, <1>4, <2>2
    <2> QED BY <1>1, <2>1, <2>2
  <1>6. u = s
    BY <1>1, <1>3, <1>4, <1>5, SeqEqual
  <1> QED BY <1>6 DEF u, s, t, p

\* Who is in a list that grew by one.
LEMMA ContainsAppend ==
    ASSUME NEW S, NEW s \in Seq(S), NEW e \in S, NEW x
    PROVE  Contains(Append(s, e), x) <=> Contains(s, x) \/ x = e
  <1> DEFINE t == Append(s, e)
  <1>1. t \in Seq(S) /\ Len(t) = Len(s) + 1 /\ t[Len(s) + 1] = e /\ (\A i \in 1 .. Len(s) : t[i] = s[i])
        /\ Len(s) \in Nat
    BY AppendProperties, LenProperties
  <1> HIDE DEF t
  <1>2. Contains(t, x) => Contains(s, x) \/ x = e
    BY <1>1 DEF Contains
  <1>3. Contains(s, x) => Contains(t, x)
    BY <1>1 DEF Contains
  <1>4. x = e => Contains(t, x)
    BY <1>1 DEF Contains
  <1> QED BY <1>2, <1>3, <1>4 DEF t

\* A broadcast of one frame brings it once to each session of the list, by
\* induction over the list.
LEMMA FramesForPosts ==
    ASSUME NEW f \in Frames, NEW c \in Clients
    PROVE  \A to \in Seq(Clients) :
              Distinct(to) => FramesFor(Posts(to, f), c) = IF Contains(to, c) THEN <<f>> ELSE << >>
  <1> DEFINE Good(to) == FramesFor(Posts(to, f), c) = IF Contains(to, c) THEN <<f>> ELSE << >>
             P == {to \in Seq(Clients) : Distinct(to) => Good(to)}
  <1>1. << >> \in P
    <2>1. Posts(<< >>, f) = << >> /\ ~Contains(<< >>, c) /\ << >> \in Seq(Clients)
      BY DEF Posts, Contains
    <2>2. FramesFor(<< >>, c) = << >>
      BY FramesForEmpty
    <2> QED BY <2>1, <2>2, Zenon
  <1>2. \A to \in Seq(Clients) : \A d \in Clients : to \in P => Append(to, d) \in P
    <2> SUFFICES ASSUME NEW to \in Seq(Clients), NEW d \in Clients, to \in P, Distinct(Append(to, d))
                 PROVE  Good(Append(to, d))
      <3>1. \A to \in Seq(Clients) : \A d \in Clients : Append(to, d) \in Seq(Clients)
        OBVIOUS
      <3> HIDE DEF Good
      <3> QED BY <3>1
    <2>1. Distinct(to) /\ ~Contains(to, d)
      BY DistinctAppend DEF Contains
    <2>2. FramesFor(Posts(to, f), c) = IF Contains(to, c) THEN <<f>> ELSE << >>
      BY <2>1
    <2> HIDE DEF P
    <2>3. Contains(Append(to, d), c) <=> Contains(to, c) \/ c = d
      BY ContainsAppend
    <2> DEFINE p == Posts(to, f)
               e == SendPost(d, f)
    <2>4. p \in Seq(Handlers) /\ e \in Handlers /\ Posts(Append(to, d), f) = p \o <<e>>
      BY PostsType, PostsAppend
    <2>5. e.kind = "send" /\ e.c = d /\ e.frame = f
      BY DEF SendPost, Handler
    <2> HIDE DEF p, e
    <2>6. FramesFor(p \o <<e>>, c) = FramesFor(p, c) \o FramesFor(<<e>>, c)
      <3>1. <<e>> \in Seq(Handlers)
        BY <2>4
      <3> QED BY <2>4, <3>1, FramesForConcat
    <2>7. FramesFor(<<e>>, c) = IF c = d THEN <<f>> ELSE << >>
      BY <2>4, <2>5, FramesForOne
    <2>8. CASE c = d
      <3>1. FramesFor(p, c) = << >> /\ FramesFor(<<e>>, c) = <<f>>
        BY <2>1, <2>2, <2>7, <2>8 DEF p
      <3>2. << >> \o <<f>> = <<f>>
        OBVIOUS
      <3> QED BY <2>3, <2>4, <2>6, <2>8, <3>1, <3>2, Zenon
    <2>9. CASE c # d
      <3>1. FramesFor(<<e>>, c) = << >>
        BY <2>7, <2>9
      <3>2. FramesFor(p, c) \o << >> = FramesFor(p, c)
        BY <2>4, FramesForConcat, ConcatEmptySeq
      <3> QED BY <2>2, <2>3, <2>4, <2>6, <2>9, <3>1, <3>2, Zenon DEF p
    <2> QED BY <2>8, <2>9
  <1> HIDE DEF P
  <1>3. \A to \in Seq(Clients) : to \in P
    BY <1>1, <1>2, SeqInduction
  <1> QED BY <1>3 DEF P

\* The counts of handlers are natural numbers.
LEMMA Tallies ==
    ASSUME NEW q \in Seq(Handlers), NEW c
    PROVE  Accepts(q, c) \in Nat /\ Reads(q, c) \in Nat /\ Writes(q, c) \in Nat /\ Fronts(q, c) \in Nat
  BY CountType DEF Accepts, Reads, Writes, Fronts

\* r is q with the handler h behind it.
Added(q, h, r, c) ==
    /\ r \in Seq(Handlers)
    /\ Accepts(r, c) = Accepts(q, c) + One(h.kind = "accept" /\ h.c = c)
    /\ Reads(r, c) = Reads(q, c) + One(h.kind = "read" /\ h.c = c)
    /\ Writes(r, c) = Writes(q, c) + One(h.kind = "written" /\ h.c = c)
    /\ Fronts(r, c) = Fronts(q, c) + One(h.kind = "written" /\ h.c = c /\ h.res = "ok")
    /\ FramesFor(r, c) = FramesFor(q, c) \o (IF h.kind = "send" /\ h.c = c THEN <<h.frame>> ELSE << >>)

\* A handler joins the event loop's queue.
LEMMA QueueAppend ==
    ASSUME NEW q \in Seq(Handlers), NEW h \in Handlers, NEW c
    PROVE  Added(q, h, Append(q, h), c)
  <1>1. \A A : Count(Append(q, h), A) = Count(q, A) + In(h, A)
    BY CountAppend
  <1>2. /\ In(h, Of("accept", c)) = One(h.kind = "accept" /\ h.c = c)
        /\ In(h, Of("read", c)) = One(h.kind = "read" /\ h.c = c)
        /\ In(h, Of("written", c)) = One(h.kind = "written" /\ h.c = c)
        /\ In(h, FrontsOf(c)) = One(h.kind = "written" /\ h.c = c /\ h.res = "ok")
    BY DEF In, Of, FrontsOf, One
  <1>3. <<h>> \in Seq(Handlers) /\ Append(q, h) = q \o <<h>>
    OBVIOUS
  <1>4. FramesFor(q \o <<h>>, c) = FramesFor(q, c) \o FramesFor(<<h>>, c)
    <2> DEFINE r == <<h>>
    <2> HIDE DEF r
    <2>1. r \in Seq(Handlers)
      BY <1>3 DEF r
    <2>2. FramesFor(q \o r, c) = FramesFor(q, c) \o FramesFor(r, c)
      BY <2>1, FramesForConcat
    <2> QED BY <2>2 DEF r
  <1>5. FramesFor(<<h>>, c) = IF h.kind = "send" /\ h.c = c THEN <<h.frame>> ELSE << >>
    BY FramesForOne
  <1>6. FramesFor(Append(q, h), c) = FramesFor(q, c) \o (IF h.kind = "send" /\ h.c = c THEN <<h.frame>> ELSE << >>)
    BY <1>3, <1>4, <1>5, Zenon
  <1>7. Append(q, h) \in Seq(Handlers)
    OBVIOUS
  <1> QED BY <1>1, <1>2, <1>6, <1>7, Zenon DEF Added, Accepts, Reads, Writes, Fronts

\* h is the handler at the front of q, and t the rest.
FrontIs(q, h, t, c) ==
    /\ h \in Handlers /\ t \in Seq(Handlers)
    /\ Accepts(q, c) = Accepts(t, c) + One(h.kind = "accept" /\ h.c = c)
    /\ Reads(q, c) = Reads(t, c) + One(h.kind = "read" /\ h.c = c)
    /\ Writes(q, c) = Writes(t, c) + One(h.kind = "written" /\ h.c = c)
    /\ Fronts(q, c) = Fronts(t, c) + One(h.kind = "written" /\ h.c = c /\ h.res = "ok")
    /\ FramesFor(q, c) = (IF h.kind = "send" /\ h.c = c THEN <<h.frame>> ELSE << >>) \o FramesFor(t, c)

\* The event loop takes the first handler of its queue.
LEMMA QueueHead ==
    ASSUME NEW q \in Seq(Handlers), q # << >>, NEW c
    PROVE  FrontIs(q, Head(q), Tail(q), c)
  <1> DEFINE h == Head(q)
             t == Tail(q)
  <1>8. h = Head(q) /\ t = Tail(q)
    OBVIOUS
  <1> HIDE DEF h, t
  <1>0. h \in Handlers /\ t \in Seq(Handlers) /\ q = <<h>> \o t
    BY <1>8, HeadTailProperties
  <1>1. \A A : Count(q, A) = Count(t, A) + In(h, A)
    BY <1>8, CountTail, Zenon
  <1>2. /\ In(h, Of("accept", c)) = One(h.kind = "accept" /\ h.c = c)
        /\ In(h, Of("read", c)) = One(h.kind = "read" /\ h.c = c)
        /\ In(h, Of("written", c)) = One(h.kind = "written" /\ h.c = c)
        /\ In(h, FrontsOf(c)) = One(h.kind = "written" /\ h.c = c /\ h.res = "ok")
    <2> DEFINE hh == h
    <2> HIDE DEF hh
    <2>1. hh \in Handlers /\ hh = h
      BY <1>0 DEF hh
    <2>2. /\ In(hh, Of("accept", c)) = One(hh.kind = "accept" /\ hh.c = c)
          /\ In(hh, Of("read", c)) = One(hh.kind = "read" /\ hh.c = c)
          /\ In(hh, Of("written", c)) = One(hh.kind = "written" /\ hh.c = c)
          /\ In(hh, FrontsOf(c)) = One(hh.kind = "written" /\ hh.c = c /\ hh.res = "ok")
      BY <2>1 DEF In, Of, FrontsOf, One
    <2> QED BY <2>1, <2>2, Zenon
  <1>4. FramesFor(<<h>> \o t, c) = FramesFor(<<h>>, c) \o FramesFor(t, c)
    <2> DEFINE r == <<h>>
    <2>1. r \in Seq(Handlers)
      BY <1>0
    <2> HIDE DEF r
    <2>2. FramesFor(r \o t, c) = FramesFor(r, c) \o FramesFor(t, c)
      BY <1>0, <2>1, FramesForConcat, SMTT(30)
    <2> QED BY <2>2, Zenon DEF r
  <1>5. FramesFor(<<h>>, c) = IF h.kind = "send" /\ h.c = c THEN <<h.frame>> ELSE << >>
    BY <1>0, FramesForOne, Zenon
  <1>6. FramesFor(q, c) = (IF h.kind = "send" /\ h.c = c THEN <<h.frame>> ELSE << >>) \o FramesFor(t, c)
    BY <1>0, <1>4, <1>5, Zenon
  <1>7. FrontIs(q, h, t, c)
    BY <1>0, <1>1, <1>2, <1>6, Zenon DEF FrontIs, Accepts, Reads, Writes, Fronts
  <1> QED BY <1>7 DEF h, t

\* A broadcast adds sends to the queue and no other handler.
LEMMA QueuePosts ==
    ASSUME NEW q \in Seq(Handlers), NEW to \in Seq(Clients), Distinct(to), NEW f \in Frames, NEW c \in Clients
    PROVE  /\ q \o Posts(to, f) \in Seq(Handlers)
           /\ Accepts(q \o Posts(to, f), c) = Accepts(q, c)
           /\ Reads(q \o Posts(to, f), c) = Reads(q, c)
           /\ Writes(q \o Posts(to, f), c) = Writes(q, c)
           /\ Fronts(q \o Posts(to, f), c) = Fronts(q, c)
           /\ FramesFor(q \o Posts(to, f), c) = FramesFor(q, c) \o (IF Contains(to, c) THEN <<f>> ELSE << >>)
  <1> DEFINE p == Posts(to, f)
  <1>1. p \in Seq(Handlers) /\ \A i \in DOMAIN p : p[i].kind = "send"
    <2>1. p \in Seq(Handlers) /\ Len(p) = Len(to) /\ \A i \in 1 .. Len(to) : p[i] = SendPost(to[i], f)
      BY PostsType
    <2>2. \A d : SendPost(d, f).kind = "send"
      BY DEF SendPost, Handler
    <2> HIDE DEF p
    <2>3. DOMAIN p = 1 .. Len(to)
      BY <2>1, LenProperties
    <2> QED BY <2>1, <2>2, <2>3
  <1>2. FramesFor(p, c) = IF Contains(to, c) THEN <<f>> ELSE << >>
    BY FramesForPosts
  <1> HIDE DEF p
  <1>3. ASSUME NEW A, \A x \in A : x.kind # "send" PROVE Count(q \o p, A) = Count(q, A)
    <2>1. Count(p, A) = 0
      BY <1>1, <1>3, CountType
    <2>2. Count(q \o p, A) = Count(q, A) + Count(p, A)
      BY <1>1, CountConcat
    <2>3. Count(q, A) \in Nat
      BY CountType
    <2> QED BY <2>1, <2>2, <2>3
  <1>4. /\ \A x \in Of("accept", c) : x.kind # "send"
        /\ \A x \in Of("read", c) : x.kind # "send"
        /\ \A x \in Of("written", c) : x.kind # "send"
        /\ \A x \in FrontsOf(c) : x.kind # "send"
    BY DEF Of, FrontsOf
  <1>5. q \o p \in Seq(Handlers) /\ FramesFor(q \o p, c) = FramesFor(q, c) \o FramesFor(p, c)
    BY <1>1, FramesForConcat
  <1>6. /\ Accepts(q \o p, c) = Accepts(q, c) /\ Reads(q \o p, c) = Reads(q, c)
        /\ Writes(q \o p, c) = Writes(q, c) /\ Fronts(q \o p, c) = Fronts(q, c)
    BY <1>3, <1>4 DEF Accepts, Reads, Writes, Fronts
  <1> QED BY <1>2, <1>5, <1>6, Zenon DEF p

\* Two frames sent one after the other.
LEMMA TwoFrames ==
    ASSUME NEW S, NEW v \in Seq(S), NEW f \in S, NEW g \in S
    PROVE  (v \o <<f>>) \o <<g>> = v \o <<f, g>>
  <1> DEFINE n == Len(v)
             a == (v \o <<f>>) \o <<g>>
             b == v \o <<f, g>>
  <1>1. n \in Nat /\ a \in Seq(S) /\ b \in Seq(S) /\ Len(a) = n + 2 /\ Len(b) = n + 2
    OBVIOUS
  <1>2. ASSUME NEW i \in 1 .. n + 2 PROVE a[i] = b[i]
    OBVIOUS
  <1> HIDE DEF a, b, n
  <1>3. a = b
    BY <1>1, <1>2, SeqEqual
  <1> QED BY <1>3 DEF a, b

\* What a client gets of the frames fs for the sessions of to.
Given(to, fs, c) == IF Contains(to, c) THEN fs ELSE << >>

\* send and broadcast: each session of the list gets the frames, in the queue as
\* in the history, and nobody else anything.
LEMMA HandedOut ==
    ASSUME sent \in [Clients -> Seq(Frames)],
           NEW q \in Seq(Handlers), NEW to \in Seq(Clients), Distinct(to),
           NEW fs \in Seq(Frames), Len(fs) <= 2, HandOut(q, to, fs)
    PROVE  /\ ready' \in Seq(Handlers) /\ sent' \in [Clients -> Seq(Frames)]
           /\ \A c \in Clients :
                 /\ Accepts(ready', c) = Accepts(q, c)
                 /\ Reads(ready', c) = Reads(q, c)
                 /\ Writes(ready', c) = Writes(q, c)
                 /\ Fronts(ready', c) = Fronts(q, c)
                 /\ FramesFor(ready', c) = FramesFor(q, c) \o Given(to, fs, c)
                 /\ sent'[c] = sent[c] \o Given(to, fs, c)
  <1>1. sent' = [c \in Clients |-> IF Contains(to, c) THEN sent[c] \o fs ELSE sent[c]]
    BY DEF HandOut
  <1>2. \A c \in Clients : sent'[c] = sent[c] \o Given(to, fs, c) /\ sent'[c] \in Seq(Frames)
    <2> TAKE c \in Clients
    <2> DEFINE s == sent[c]
    <2>1. s \in Seq(Frames) /\ sent'[c] = IF Contains(to, c) THEN s \o fs ELSE s
      BY <1>1
    <2> HIDE DEF s
    <2>2. s \o << >> = s /\ s \o fs \in Seq(Frames)
      BY <2>1
    <2> QED BY <2>1, <2>2, Zenon DEF Given, s
  <1>3. sent' \in [Clients -> Seq(Frames)]
    BY <1>1, <1>2
  <1> DEFINE Same(r, c) == /\ Accepts(r, c) = Accepts(q, c) /\ Reads(r, c) = Reads(q, c)
                           /\ Writes(r, c) = Writes(q, c) /\ Fronts(r, c) = Fronts(q, c)
             nth(n) == IF n \in DOMAIN fs THEN Posts(to, fs[n]) ELSE << >>
             r == ready'
             e == << >>
  <1>4. r = q \o nth(1) \o nth(2)
    BY DEF HandOut
  <1>5. Len(fs) \in Nat /\ DOMAIN fs = 1 .. Len(fs) /\ \A i \in DOMAIN fs : fs[i] \in Frames
    BY LenProperties, ElementOfSeq
  <1>6. Len(fs) = 0 \/ Len(fs) = 1 \/ Len(fs) = 2
    BY <1>5
  <1>7. q \o e = q
    BY ConcatEmptySeq
  <1>8. ASSUME NEW c \in Clients PROVE FramesFor(q, c) \in Seq(Frames)
    <2>1. q \in Seq(Handlers)
      OBVIOUS
    <2> QED BY <2>1, FramesForConcat, Zenon
  <1> HIDE DEF r
  <1>9. CASE Len(fs) = 0
    <2>1. nth(1) = e /\ nth(2) = e /\ fs = e
      BY <1>5, <1>9
    <2>2. r = q
      BY <1>4, <1>7, <2>1, Zenon
    <2>3. ASSUME NEW c \in Clients PROVE FramesFor(r, c) = FramesFor(q, c) \o Given(to, fs, c)
      <3> DEFINE v == FramesFor(q, c)
      <3>1. Given(to, fs, c) = e
        BY <2>1 DEF Given
      <3>2. v \in Seq(Frames)
        BY <1>8
      <3> HIDE DEF v
      <3>3. v \o e = v
        BY <3>2
      <3> QED BY <2>2, <3>1, <3>3, Zenon DEF v
    <2> QED BY <1>2, <1>3, <2>2, <2>3 DEF r
  <1>10. CASE Len(fs) = 1
    <2> DEFINE f == fs[1]
               r1 == q \o Posts(to, f)
    <2>1. nth(1) = Posts(to, f) /\ nth(2) = e /\ f \in Frames /\ fs = <<f>>
      BY <1>5, <1>10
    <2> HIDE DEF f
    <2>2. r1 \in Seq(Handlers)
      BY <2>1, PostsType
    <2>3. \A c \in Clients : Same(r1, c) /\ FramesFor(r1, c) = FramesFor(q, c) \o (IF Contains(to, c) THEN <<f>> ELSE << >>)
      BY <2>1, QueuePosts
    <2>4. r = r1 \o e
      BY <1>4, <2>1, Zenon
    <2> HIDE DEF r1
    <2>5. r = r1
      BY <2>2, <2>4, ConcatEmptySeq
    <2>6. \A c \in Clients : Given(to, fs, c) = IF Contains(to, c) THEN <<f>> ELSE << >>
      BY <2>1 DEF Given
    <2> QED BY <1>2, <1>3, <2>2, <2>3, <2>5, <2>6, Zenon DEF r
  <1>11. CASE Len(fs) = 2
    <2> DEFINE f == fs[1]
               g == fs[2]
               r1 == q \o Posts(to, f)
               r2 == r1 \o Posts(to, g)
    <2>1. nth(1) = Posts(to, f) /\ nth(2) = Posts(to, g) /\ f \in Frames /\ g \in Frames /\ fs = <<f, g>>
      BY <1>5, <1>11
    <2> HIDE DEF f, g
    <2>2. r1 \in Seq(Handlers)
      BY <2>1, PostsType
    <2>3. \A c \in Clients : Same(r1, c) /\ FramesFor(r1, c) = FramesFor(q, c) \o (IF Contains(to, c) THEN <<f>> ELSE << >>)
      BY <2>1, QueuePosts
    <2>4. r = r2
      BY <1>4, <2>1, Zenon
    <2> HIDE DEF r1
    <2>5. r2 \in Seq(Handlers)
      BY <2>1, <2>2, PostsType
    <2>6. \A c \in Clients : /\ Accepts(r2, c) = Accepts(r1, c) /\ Reads(r2, c) = Reads(r1, c)
                            /\ Writes(r2, c) = Writes(r1, c) /\ Fronts(r2, c) = Fronts(r1, c)
                            /\ FramesFor(r2, c) = FramesFor(r1, c) \o (IF Contains(to, c) THEN <<g>> ELSE << >>)
      BY <2>1, <2>2, QueuePosts
    <2> HIDE DEF r2
    <2>7. \A c \in Clients : FramesFor(r2, c) = FramesFor(q, c) \o Given(to, fs, c)
      <3> TAKE c \in Clients
      <3> DEFINE v == FramesFor(q, c)
      <3>1. v \in Seq(Frames)
        BY <1>8
      <3> HIDE DEF v
      <3>2. FramesFor(r1, c) = v \o (IF Contains(to, c) THEN <<f>> ELSE << >>)
            /\ FramesFor(r2, c) = FramesFor(r1, c) \o (IF Contains(to, c) THEN <<g>> ELSE << >>)
        BY <2>3, <2>6 DEF v
      <3>3. CASE Contains(to, c)
        <4>1. (v \o <<f>>) \o <<g>> = v \o <<f, g>>
          BY <2>1, <3>1, TwoFrames, ZenonT(60)
        <4> QED BY <2>1, <3>2, <3>3, <4>1, Zenon DEF Given, v
      <3>4. CASE ~Contains(to, c)
        <4>1. (v \o e) \o e = v \o e
          BY <3>1
        <4> QED BY <3>2, <3>4, <4>1, Zenon DEF Given, v
      <3> QED BY <3>3, <3>4
    <2>8. \A c \in Clients : Same(r2, c)
      BY <2>3, <2>6, Zenon
    <2> QED BY <1>2, <1>3, <2>4, <2>5, <2>7, <2>8, Zenon DEF r
  <1> QED BY <1>6, <1>9, <1>10, <1>11

\* The list that broadcast keeps holds the listed sessions that are still alive,
\* each once.
LEMMA ListedType ==
    ASSUME Types
    PROVE  /\ Listed \in Seq(Clients) /\ Distinct(Listed)
           /\ \A c \in Clients : Contains(Listed, c) <=> Contains(sessions_, c) /\ Alive(c)
  <1> DEFINE A == {c \in Clients : Alive(c)}
             s == sessions_
  <1>1. s \in Seq(Clients) /\ Distinct(s)
    BY DEF Types
  <1>2. \A c \in Clients : c \in A <=> Alive(c)
    OBVIOUS
  <1> HIDE DEF A, s
  <1>3. Select(s, A) \in Seq(Clients) /\ Distinct(Select(s, A))
    BY <1>1, SelectType, SelectDistinct
  <1>5. \A c \in Clients : Contains(Select(s, A), c) <=> c \in A /\ Contains(s, c)
    BY <1>1, SelectHas DEF Contains
  <1>6. Listed = Select(s, A)
    BY DEF Listed, A, s
  <1>7. \A c \in Clients : Contains(Select(s, A), c) <=> Contains(s, c) /\ Alive(c)
    BY <1>2, <1>5
  <1> QED BY <1>3, <1>6, <1>7, Zenon DEF s

------------------------------------------------------------------------------
(* What App hands out.                                                      *)

LinkFrameSet == {LinkFrame(s) : s \in States}

\* A step of App hands out the frames fs to the sessions of to; link is the
\* state of the link after it.
Hands(to, fs, link) ==
    /\ to \in Seq(Clients) /\ Distinct(to)
    /\ fs \in Seq(Frames) /\ Len(fs) <= 2
    /\ to = Listed \/ (running \in Clients /\ to = <<running>>)
    /\ link \in States
    /\ \/ link = link_state /\ Select(fs, LinkFrameSet) \in {<< >>, <<LinkFrame(link)>>}
       \/ to = Listed /\ fs # << >> /\ Select(fs, LinkFrameSet) = fs /\ Last(fs) = LinkFrame(link)

\* The LinkState frames are frames.
LEMMA LinkFrameType ==
    /\ \A s \in States : LinkFrame(s) \in LinkFrameSet /\ LinkFrame(s) \in Frames
    /\ LinkFrameSet \subseteq Frames
  <1>1. \A s \in States : LinkFrame(s) \in Frames
    BY DEF LinkFrame, Frame, Frames
  <1> QED BY <1>1, Zenon DEF LinkFrameSet

\* publish_link_state broadcasts what it stores, one frame for each new state.
LEMMA Published ==
    ASSUME Types, NEW states \in Seq(States), Len(states) <= 2, Publish(states)
    PROVE  \E fs : /\ Hands(Listed, fs, link_state') /\ HandOut(ready, Listed, fs)
                   /\ sessions_' = sessions_ \/ sessions_' = Listed
  <1> DEFINE fs == [i \in DOMAIN states |-> LinkFrame(states[i])]
             n == Len(states)
  <1>1. n \in Nat /\ DOMAIN states = 1 .. n /\ \A i \in 1 .. n : states[i] \in States
    BY LenProperties, ElementOfSeq
  <1>2. fs \in Seq(LinkFrameSet) /\ Len(fs) = n /\ \A i \in 1 .. n : fs[i] = LinkFrame(states[i])
    <2>1. fs = [i \in 1 .. n |-> LinkFrame(states[i])]
      BY <1>1
    <2>2. \A i \in 1 .. n : LinkFrame(states[i]) \in LinkFrameSet
      BY <1>1, LinkFrameType
    <2> HIDE DEF fs
    <2> QED BY <1>1, <2>1, <2>2, IsASeq
  <1>3. HandOut(ready, Listed, fs) /\ (sessions_' = sessions_ \/ sessions_' = Listed)
        /\ link_state' = IF states = << >> THEN link_state ELSE Last(states)
    BY DEF Publish
  <1> HIDE DEF fs
  <1>4. Select(fs, LinkFrameSet) = fs /\ fs \in Seq(Frames)
    BY <1>2, SelectAll, LinkFrameType
  <1>5. Listed \in Seq(Clients) /\ Distinct(Listed)
    BY ListedType
  <1>6. CASE states = << >>
    <2>1. n = 0 /\ link_state' = link_state
      BY <1>3, <1>6
    <2>2. fs = << >>
      BY <1>2, <2>1
    <2>3. link_state \in States
      BY DEF Types
    <2> QED BY <1>2, <1>3, <1>4, <1>5, <2>1, <2>2, <2>3 DEF Hands
  <1>7. CASE states # << >>
    <2>1. n \in 1 .. n /\ link_state' = states[n] /\ fs # << >>
      BY <1>1, <1>2, <1>3, <1>7 DEF Last
    <2>2. Last(fs) = LinkFrame(link_state') /\ link_state' \in States
      BY <1>1, <1>2, <2>1 DEF Last
    <2> QED BY <1>2, <1>3, <1>4, <1>5, <2>1, <2>2 DEF Hands
  <1> QED BY <1>6, <1>7

\* One frame that brings no new link state.
LEMMA SingleFrame ==
    ASSUME NEW f \in Frames, link_state \in States,
           f.type # "LinkState" \/ f = LinkFrame(link_state)
    PROVE  /\ <<f>> \in Seq(Frames) /\ Len(<<f>>) <= 2
           /\ Select(<<f>>, LinkFrameSet) \in {<< >>, <<LinkFrame(link_state)>>}
  <1>1. Select(<<f>>, LinkFrameSet) = IF f \in LinkFrameSet THEN <<f>> ELSE << >>
    BY SelectOne
  <1>2. f.type # "LinkState" => f \notin LinkFrameSet
    BY DEF LinkFrameSet, LinkFrame, Frame
  <1>3. <<f>> \in Seq(Frames) /\ Len(<<f>>) <= 2
    OBVIOUS
  <1> QED BY <1>1, <1>2, <1>3

\* The answers to a request: at most two frames, and a LinkState among them
\* carries the current state.
LEMMA AnswersType ==
    ASSUME link_state \in States, NEW r
    PROVE  /\ Answers(r) \in Seq(Frames) /\ Len(Answers(r)) <= 2
           /\ Select(Answers(r), LinkFrameSet) \in {<< >>, <<LinkFrame(link_state)>>}
  <1>1. Answers(r) = << >> \/ \E f \in Frames : /\ Answers(r) = <<f>>
                                                /\ f.type # "LinkState" \/ f = LinkFrame(link_state)
    <2> DEFINE Pong == Frame("QueryResult", "PONG")
               Stats == Frame("QueryResult", "STATS")
               Rejected == Frame("Error", "rejected")
               Down == Frame("Error", "link down")
               Link == LinkFrame(link_state)
    <2>1. Pong \in Frames /\ Stats \in Frames /\ Rejected \in Frames /\ Down \in Frames
          /\ Pong.type # "LinkState" /\ Stats.type # "LinkState"
          /\ Rejected.type # "LinkState" /\ Down.type # "LinkState"
      BY DEF Frame, Frames
    <2>2. Link \in Frames /\ Link = LinkFrame(link_state)
      BY LinkFrameType
    <2>3. \/ Answers(r) = << >> \/ Answers(r) = <<Pong>> \/ Answers(r) = <<Stats>>
          \/ Answers(r) = <<Rejected>> \/ Answers(r) = <<Down>> \/ Answers(r) = <<Link>>
      <3> HIDE DEF Pong, Stats, Rejected, Down, Link
      <3>1. Answers(r) = CASE r = "PING" -> <<Pong>>
                           [] r = "STATUS" -> <<Link>>
                           [] r = "STATS" -> <<Stats>>
                           [] r = "BAD" -> <<Rejected>>
                           [] r = "SEND" /\ phase # "opened" -> <<Down>>
                           [] r = "CONNECT" /\ phase = "opened" -> <<Link>>
                           [] OTHER -> << >>
        BY DEF Answers, Pong, Stats, Rejected, Down, Link
      <3> QED BY <3>1
    <2> HIDE DEF Pong, Stats, Rejected, Down, Link
    <2> QED BY <2>1, <2>2, <2>3
  <1>2. CASE Answers(r) = << >>
    <2>1. Select(<< >>, LinkFrameSet) = << >>
      BY SelectEmpty
    <2>2. << >> \in Seq(Frames) /\ Len(<< >>) <= 2
      OBVIOUS
    <2> QED BY <1>2, <2>1, <2>2, Zenon
  <1>3. ASSUME NEW f \in Frames, Answers(r) = <<f>>, f.type # "LinkState" \/ f = LinkFrame(link_state)
        PROVE  /\ Answers(r) \in Seq(Frames) /\ Len(Answers(r)) <= 2
               /\ Select(Answers(r), LinkFrameSet) \in {<< >>, <<LinkFrame(link_state)>>}
    <2>1. /\ <<f>> \in Seq(Frames) /\ Len(<<f>>) <= 2
          /\ Select(<<f>>, LinkFrameSet) \in {<< >>, <<LinkFrame(link_state)>>}
      BY <1>3, SingleFrame
    <2> QED BY <1>3, <2>1, Zenon
  <1>4. CASE \E f \in Frames : /\ Answers(r) = <<f>>
                               /\ f.type # "LinkState" \/ f = LinkFrame(link_state)
    <2>1. PICK f \in Frames : /\ Answers(r) = <<f>>
                              /\ f.type # "LinkState" \/ f = LinkFrame(link_state)
      BY <1>4
    <2> QED BY <1>3, <2>1, Zenon
  <1> QED BY <1>1, <1>2, <1>4, Zenon

\* Every step of App is such a step.
AppSteps == OnFrame \/ OnOpened \/ OnError \/ \E d \in BOOLEAN : OnPacket(d)

\* What the callbacks of App do to the sessions is to hand out frames.
LEMMA AppStep ==
    ASSUME Types, AppSteps
    PROVE  /\ \E to, fs : Hands(to, fs, link_state') /\ HandOut(ready, to, fs)
           /\ sessions_' = sessions_ \/ sessions_' = Listed
           /\ phase' \in {"idle", "connecting", "opened"}
           /\ stats' \in [rx_packets : Nat, tx_packets : Nat, decode_errors : Nat]
           /\ events' \in Nat /\ batch' \in Seq(Requests)
           /\ UNCHANGED <<clientVars, sessionVars, running, crashed>>
  <1>0. link_state \in States /\ phase \in {"idle", "connecting", "opened"}
        /\ stats \in [rx_packets : Nat, tx_packets : Nat, decode_errors : Nat]
        /\ batch \in Seq(Requests) /\ events \in Nat
    BY DEF Types
  <1> DEFINE Handed == /\ \E to, fs : Hands(to, fs, link_state') /\ HandOut(ready, to, fs)
                       /\ sessions_' = sessions_ \/ sessions_' = Listed
  <1>1. ASSUME NEW states \in Seq(States), Len(states) <= 2, Publish(states) PROVE Handed
    BY <1>1, Published
  <1>2. ASSUME NEW s \in States PROVE <<s>> \in Seq(States) /\ Len(<<s>>) <= 2
    OBVIOUS
  <1>3. ASSUME NEW s \in States, Publish(<<s>>) PROVE Handed
    <2> DEFINE ss == <<s>>
    <2>1. ss \in Seq(States) /\ Len(ss) <= 2 /\ Publish(ss)
      BY <1>2, <1>3
    <2> HIDE DEF ss
    <2> QED BY <1>1, <2>1
  <1>4. ASSUME NEW f \in Frames, f.type # "LinkState", HandOut(ready, Listed, <<f>>), link_state' = link_state,
               sessions_' = Listed
        PROVE  Handed
    <2> DEFINE fs == <<f>>
    <2>1. fs \in Seq(Frames) /\ Len(fs) <= 2 /\ Select(fs, LinkFrameSet) \in {<< >>, <<LinkFrame(link_state)>>}
      BY <1>0, <1>4, SingleFrame
    <2>2. Listed \in Seq(Clients) /\ Distinct(Listed)
      BY ListedType
    <2>3. HandOut(ready, Listed, fs)
      BY <1>4
    <2> HIDE DEF fs
    <2>4. Hands(Listed, fs, link_state')
      BY <1>0, <1>4, <2>1, <2>2 DEF Hands
    <2> QED BY <1>4, <2>3, <2>4
  <1>5. ASSUME NEW shown \in Seq(States), Len(shown) <= 1, LinkStart(shown)
        PROVE  Handed /\ phase' \in {"idle", "connecting", "opened"}
    <2>1. phase' \in {"idle", "connecting", "opened"}
      BY <1>5 DEF LinkStart
    <2>2. Publish(shown) \/ \E s \in States : Publish(Append(shown, s))
      BY <1>5 DEF LinkStart, States
    <2>3. CASE Publish(shown)
      <3>1. Len(shown) <= 2
        BY <1>5, LenProperties
      <3> HIDE DEF Handed
      <3> QED BY <1>1, <2>1, <2>3, <3>1
    <2>4. ASSUME NEW s \in States, Publish(Append(shown, s)) PROVE Handed
      <3> DEFINE ss == Append(shown, s)
      <3>1. ss \in Seq(States) /\ Len(ss) <= 2
        BY <1>5
      <3>2. Publish(ss)
        BY <2>4
      <3> HIDE DEF ss
      <3> QED BY <1>1, <3>1, <3>2
    <2> HIDE DEF Handed
    <2> QED BY <2>1, <2>2, <2>3, <2>4
  <1>6. "Disconnected" \in States /\ "Connected" \in States /\ "Error" \in States
        /\ << >> \in Seq(States) /\ Len(<< >>) <= 1
    BY DEF States
  <1>7. ASSUME OnFrame PROVE Handed /\ phase' \in {"idle", "connecting", "opened"}
               /\ stats' \in [rx_packets : Nat, tx_packets : Nat, decode_errors : Nat]
    <2> DEFINE r == Head(batch)
    <2>0. running \in Clients
      BY <1>7 DEF OnFrame, Types
    <2>1. Command(r) \/ Answer(running, r) \/ Route(r)
      BY <1>7 DEF OnFrame
    <2> HIDE DEF r
    <2>2. CASE Command(r)
      <3>1. stats' = stats
        BY <2>2 DEF Command
      <3>2. CASE r = "CONNECT" /\ phase = "idle" /\ LinkStart(<< >>)
        <4> DEFINE ss == << >>
        <4>1. ss \in Seq(States) /\ Len(ss) <= 1 /\ LinkStart(ss)
          BY <1>6, <3>2
        <4> HIDE DEF ss, Handed
        <4> QED BY <1>0, <1>5, <3>1, <4>1
      <3>3. CASE r = "DISCONNECT" /\ phase' = "idle" /\ Publish(<<"Disconnected">>)
        <4>1. Handed
          BY <1>3, <1>6, <3>3
        <4> HIDE DEF Handed
        <4> QED BY <1>0, <3>1, <3>3, <4>1
      <3>4. CASE r = "RECONNECT" /\ LinkStart(<<"Disconnected">>)
        <4> DEFINE ss == <<"Disconnected">>
        <4>1. ss \in Seq(States) /\ Len(ss) <= 1 /\ LinkStart(ss)
          BY <1>6, <3>4
        <4> HIDE DEF ss, Handed
        <4> QED BY <1>0, <1>5, <3>1, <4>1
      <3> HIDE DEF Handed
      <3> QED BY <2>2, <3>2, <3>3, <3>4 DEF Command
    <2>3. CASE Answer(running, r)
      <3> DEFINE fs == Answers(r)
                 to == <<running>>
      <3>1. fs \in Seq(Frames) /\ Len(fs) <= 2 /\ Select(fs, LinkFrameSet) \in {<< >>, <<LinkFrame(link_state)>>}
        BY <1>0, AnswersType
      <3>2. HandOut(ready, to, fs) /\ UNCHANGED <<phase, link_state, sessions_, stats>>
        BY <2>3 DEF Answer
      <3>3. to \in Seq(Clients) /\ Distinct(to)
        BY <2>0 DEF Distinct
      <3>4. to = <<running>>
        OBVIOUS
      <3> HIDE DEF fs, to
      <3>5. Hands(to, fs, link_state')
        BY <1>0, <2>0, <3>1, <3>2, <3>3, <3>4 DEF Hands
      <3> QED BY <1>0, <3>2, <3>5
    <2>4. CASE Route(r)
      <3> DEFINE f == Frame("PacketTx", "")
      <3>1. f \in Frames /\ f.type # "LinkState"
        BY DEF Frame, Frames
      <3>2. HandOut(ready, Listed, <<f>>) /\ link_state' = link_state /\ sessions_' = Listed /\ phase' = phase
            /\ stats' = [stats EXCEPT !.tx_packets = @ + 1]
        BY <2>4 DEF Route
      <3> HIDE DEF f
      <3>3. Handed
        BY <1>4, <3>1, <3>2
      <3> HIDE DEF Handed
      <3> QED BY <1>0, <3>2, <3>3
    <2> HIDE DEF Handed
    <2> QED BY <2>1, <2>2, <2>3, <2>4
  <1>8. ASSUME OnFrame PROVE events' \in Nat /\ batch' \in Seq(Requests)
                             /\ UNCHANGED <<clientVars, sessionVars, running, crashed>>
    BY <1>0, <1>8, HeadTailProperties DEF OnFrame
  <1>9. ASSUME OnOpened \/ OnError \/ \E d \in BOOLEAN : OnPacket(d)
        PROVE  events' \in Nat /\ batch' \in Seq(Requests)
               /\ UNCHANGED <<clientVars, sessionVars, running, crashed>>
    <2>1. UNCHANGED <<clientVars, sessionVars, running, batch, crashed>>
      BY <1>9 DEF OnOpened, OnError, OnPacket, LinkReports
    <2>2. events' = events \/ events' = events + 1
      BY <1>9 DEF OnOpened, OnError, OnPacket, Counted
    <2> QED BY <1>0, <2>1, <2>2
  <1>10. ASSUME OnOpened \/ OnError
         PROVE  Handed /\ phase' \in {"idle", "connecting", "opened"}
               /\ stats' \in [rx_packets : Nat, tx_packets : Nat, decode_errors : Nat]
    <2>1. /\ Publish(<<"Connected">>) \/ Publish(<<"Error">>)
          /\ phase' \in {"idle", "connecting", "opened"} /\ stats' = stats
      BY <1>10 DEF OnOpened, OnError
    <2>2. Handed
      BY <1>3, <1>6, <2>1
    <2> HIDE DEF Handed
    <2> QED BY <1>0, <2>1, <2>2
  <1>11. ASSUME NEW d \in BOOLEAN, OnPacket(d)
         PROVE  Handed /\ phase' \in {"idle", "connecting", "opened"}
               /\ stats' \in [rx_packets : Nat, tx_packets : Nat, decode_errors : Nat]
    <2> DEFINE f == IF d THEN Frame("PacketRx", "") ELSE Frame("Error", "RX INVALID")
    <2>1. f \in Frames /\ f.type # "LinkState"
      BY DEF Frame, Frames
    <2>2. HandOut(ready, Listed, <<f>>) /\ sessions_' = Listed /\ UNCHANGED <<phase, link_state>>
          /\ stats' = [stats EXCEPT !.rx_packets = @ + 1, !.decode_errors = IF d THEN @ ELSE @ + 1]
      BY <1>11 DEF OnPacket
    <2> HIDE DEF f
    <2>3. Handed
      BY <1>4, <2>1, <2>2
    <2>4. stats' \in [rx_packets : Nat, tx_packets : Nat, decode_errors : Nat]
      <3> DEFINE n == IF d THEN stats.decode_errors ELSE stats.decode_errors + 1
      <3>1. n \in Nat /\ stats.rx_packets + 1 \in Nat /\ stats.tx_packets \in Nat
        BY <1>0
      <3>2. stats' = [rx_packets |-> stats.rx_packets + 1, tx_packets |-> stats.tx_packets,
                      decode_errors |-> n]
        BY <1>0, <2>2
      <3> HIDE DEF n
      <3> QED BY <3>1, <3>2
    <2> HIDE DEF Handed
    <2> QED BY <1>0, <2>2, <2>3, <2>4
  <1> HIDE DEF Handed
  <1>12. Handed /\ phase' \in {"idle", "connecting", "opened"}
         /\ stats' \in [rx_packets : Nat, tx_packets : Nat, decode_errors : Nat]
         /\ events' \in Nat /\ batch' \in Seq(Requests)
         /\ UNCHANGED <<clientVars, sessionVars, running, crashed>>
    BY <1>7, <1>8, <1>9, <1>10, <1>11 DEF AppSteps
  <1> QED BY <1>12 DEF Handed

------------------------------------------------------------------------------
(* Streams of frames.                                                       *)

\* IsPrefix in terms of positions.
LEMMA PrefixIs ==
    ASSUME NEW S, NEW a \in Seq(S), NEW b \in Seq(S)
    PROVE  IsPrefix(a, b) <=> Len(a) <= Len(b) /\ \A i \in 1 .. Len(a) : a[i] = b[i]
  <1>1. Len(a) \in Nat /\ Len(b) \in Nat
    BY LenProperties
  <1>2. CASE ~(Len(a) <= Len(b))
    BY <1>2 DEF IsPrefix
  <1>3. CASE Len(a) <= Len(b)
    <2> DEFINE u == SubSeq(a, 1, Len(a))
               v == SubSeq(b, 1, Len(a))
    <2>1. u \in Seq(S) /\ Len(u) = Len(a) /\ \A i \in 1 .. Len(a) : u[i] = a[i]
      BY <1>1
    <2>2. v \in Seq(S) /\ Len(v) = Len(a) /\ \A i \in 1 .. Len(a) : v[i] = b[i]
      BY <1>1, <1>3
    <2>3. IsPrefix(a, b) <=> u = v
      BY <1>3 DEF IsPrefix
    <2> HIDE DEF u, v
    <2>4. (\A i \in 1 .. Len(a) : a[i] = b[i]) => u = v
      BY <2>1, <2>2, SeqEqual
    <2>5. u = v => \A i \in 1 .. Len(a) : a[i] = b[i]
      BY <2>1, <2>2
    <2> QED BY <1>3, <2>3, <2>4, <2>5
  <1> QED BY <1>2, <1>3

\* A prefix stays one when more is sent.
LEMMA PrefixConcat ==
    ASSUME NEW S, NEW d \in Seq(S), NEW s \in Seq(S), NEW g \in Seq(S)
    PROVE  IsPrefix(d, d \o g) /\ (IsPrefix(d, s) => IsPrefix(d, s \o g))
  <1> DEFINE x == d \o g
             y == s \o g
  <1>1. Len(d) \in Nat /\ Len(s) \in Nat /\ Len(g) \in Nat
    BY LenProperties
  <1>2. x \in Seq(S) /\ Len(x) = Len(d) + Len(g) /\ \A i \in 1 .. Len(d) : x[i] = d[i]
    BY <1>1, ConcatProperties
  <1>3. y \in Seq(S) /\ Len(y) = Len(s) + Len(g) /\ \A i \in 1 .. Len(s) : y[i] = s[i]
    BY <1>1, ConcatProperties
  <1> HIDE DEF x, y
  <1>4. IsPrefix(d, x)
    BY <1>1, <1>2, PrefixIs
  <1>5. ASSUME IsPrefix(d, s) PROVE IsPrefix(d, y)
    <2>1. Len(d) <= Len(s) /\ \A i \in 1 .. Len(d) : d[i] = s[i]
      BY <1>5, PrefixIs
    <2>2. Len(d) <= Len(y) /\ \A i \in 1 .. Len(d) : d[i] = y[i]
      BY <1>1, <1>3, <2>1
    <2> QED BY <1>3, <2>2, PrefixIs
  <1> QED BY <1>4, <1>5 DEF x, y

\* The last element is that of the part behind.
LEMMA LastConcat ==
    ASSUME NEW S, NEW s \in Seq(S), NEW g \in Seq(S), g # << >>
    PROVE  s \o g # << >> /\ Last(s \o g) = Last(g)
  <1>1. Len(s) \in Nat /\ Len(g) \in Nat /\ Len(g) # 0
    BY LenProperties, EmptySeq
  <1> DEFINE x == s \o g
  <1>2. x \in Seq(S) /\ Len(x) = Len(s) + Len(g)
        /\ \A i \in 1 .. Len(s) + Len(g) : x[i] = IF i <= Len(s) THEN s[i] ELSE g[i - Len(s)]
    BY ConcatProperties
  <1> HIDE DEF x
  <1>3. x # << >> /\ x[Len(s) + Len(g)] = g[Len(g)]
    BY <1>1, <1>2
  <1> QED BY <1>2, <1>3 DEF Last, x

\* What is sent later does not change the greeting.
LEMMA FirstTwo ==
    ASSUME NEW S, NEW s \in Seq(S), NEW g \in Seq(S), Len(s) >= 2
    PROVE  Len(s \o g) >= 2 /\ (s \o g)[1] = s[1] /\ (s \o g)[2] = s[2]
  <1>1. Len(s) \in Nat /\ Len(g) \in Nat
    BY LenProperties
  <1>2. Len(s \o g) = Len(s) + Len(g) /\ \A i \in 1 .. Len(s) : (s \o g)[i] = s[i]
    BY <1>1, ConcatProperties
  <1> QED BY <1>1, <1>2

\* Concatenation is associative, for named parts.
LEMMA Regroup ==
    ASSUME NEW S, NEW a \in Seq(S), NEW b \in Seq(S), NEW e \in Seq(S),
           NEW ab \in Seq(S), ab = a \o b, NEW be \in Seq(S), be = b \o e,
           NEW x \in Seq(S), x = ab \o e, NEW y \in Seq(S), y = a \o be
    PROVE  x = y
  <1> DEFINE n == (Len(a) + Len(b)) + Len(e)
  <1>1. Len(a) \in Nat /\ Len(b) \in Nat /\ Len(e) \in Nat
    BY LenProperties
  <1>2. Len(ab) = Len(a) + Len(b)
        /\ \A i \in 1 .. Len(a) + Len(b) : ab[i] = IF i <= Len(a) THEN a[i] ELSE b[i - Len(a)]
    BY ConcatProperties
  <1>3. Len(be) = Len(b) + Len(e)
        /\ \A i \in 1 .. Len(b) + Len(e) : be[i] = IF i <= Len(b) THEN b[i] ELSE e[i - Len(b)]
    BY ConcatProperties
  <1>4. Len(x) = Len(ab) + Len(e)
        /\ \A i \in 1 .. Len(ab) + Len(e) : x[i] = IF i <= Len(ab) THEN ab[i] ELSE e[i - Len(ab)]
    BY ConcatProperties
  <1>5. Len(y) = Len(a) + Len(be)
        /\ \A i \in 1 .. Len(a) + Len(be) : y[i] = IF i <= Len(a) THEN a[i] ELSE be[i - Len(a)]
    BY ConcatProperties
  <1>6. ASSUME NEW i \in 1 .. n PROVE x[i] = y[i]
    <2>1. CASE i <= Len(a)
      BY <1>1, <1>2, <1>3, <1>4, <1>5, <2>1
    <2>2. CASE Len(a) < i /\ i <= Len(a) + Len(b)
      BY <1>1, <1>2, <1>3, <1>4, <1>5, <2>2
    <2>3. CASE Len(a) + Len(b) < i
      <3>1. i - Len(a) \in 1 .. Len(b) + Len(e) /\ (i - Len(a)) - Len(b) = i - (Len(a) + Len(b))
            /\ ~(i - Len(a) <= Len(b)) /\ ~(i <= Len(a)) /\ i \in 1 .. Len(a) + Len(be) /\ i \in 1 .. Len(ab) + Len(e)
        BY <1>1, <1>2, <1>3, <2>3
      <3>2. y[i] = e[(i - Len(a)) - Len(b)]
        BY <1>3, <1>5, <3>1
      <3>3. x[i] = e[i - (Len(a) + Len(b))]
        BY <1>1, <1>2, <1>4, <2>3, <3>1
      <3> QED BY <3>1, <3>2, <3>3
    <2> QED BY <1>1, <2>1, <2>2, <2>3
  <1>7. Len(x) = n /\ Len(y) = n
    BY <1>1, <1>2, <1>3, <1>4, <1>5
  <1> QED BY <1>6, <1>7, SeqEqual

\* Concatenation is associative.
LEMMA Associative ==
    ASSUME NEW S, NEW a \in Seq(S), NEW b \in Seq(S), NEW e \in Seq(S)
    PROVE  (a \o b) \o e = a \o (b \o e)
  <1>1. \A u, v \in Seq(S) : u \o v \in Seq(S)
    BY ConcatProperties
  <1> DEFINE ab == a \o b
             be == b \o e
             x == ab \o e
             y == a \o be
  <1>2. ab \in Seq(S) /\ be \in Seq(S)
    BY <1>1, Zenon
  <1>3. x \in Seq(S) /\ y \in Seq(S)
    BY <1>1, <1>2, Zenon
  <1>4. ab = a \o b /\ be = b \o e /\ x = ab \o e /\ y = a \o be
    OBVIOUS
  <1> HIDE DEF ab, be, x, y
  <1>5. x = y
    BY <1>2, <1>3, <1>4, Regroup
  <1> QED BY <1>5 DEF ab, be, x, y

\* A frame that reaches the client moves from the queue to its stream.
LEMMA HeadMoves ==
    ASSUME NEW S, NEW d \in Seq(S), NEW t \in Seq(S), NEW p \in Seq(S), t # << >>
    PROVE  Append(d, Head(t)) \o Tail(t) \o p = d \o t \o p
  <1> DEFINE h == Head(t)
             u == Tail(t)
  <1>1. h \in S /\ u \in Seq(S) /\ t = <<h>> \o u
    BY HeadTailProperties
  <1> HIDE DEF h, u
  <1>2. <<h>> \in Seq(S) /\ Append(d, h) = d \o <<h>>
    BY <1>1
  <1> DEFINE o == <<h>>
  <1> HIDE DEF o
  <1>3. (d \o o) \o u = d \o (o \o u)
    BY <1>1, <1>2, Associative DEF o
  <1>4. Append(d, h) \o u = d \o t
    BY <1>1, <1>2, <1>3, Zenon DEF o
  <1> QED BY <1>4, Zenon DEF h, u

\* A part moves from behind the queue to its end.
LEMMA MoveOver ==
    ASSUME NEW S, NEW d \in Seq(S), NEW t \in Seq(S), NEW one \in Seq(S), NEW p \in Seq(S),
           NEW dt \in Seq(S), dt = d \o t
    PROVE  dt \o (one \o p) = (d \o (t \o one)) \o p
  <1>1. (dt \o one) \o p = dt \o (one \o p)
    BY Associative, SMTT(60)
  <1>2. (d \o t) \o one = d \o (t \o one)
    BY Associative, SMTT(60)
  <1> QED BY <1>1, <1>2, Zenon

\* The first posted frame joins the queue.
Joins(d, t, f, p) == (d \o t) \o (<<f>> \o p) = (d \o Append(t, f)) \o p

\* IpcSession::send: the first posted frame joins the queue of the session.
LEMMA FrontMoves ==
    ASSUME NEW S, NEW d \in Seq(S), NEW t \in Seq(S), NEW p \in Seq(S), NEW f \in S
    PROVE  Joins(d, t, f, p)
  <1> DEFINE one == <<f>>
             dt == d \o t
  <1>1. one \in Seq(S) /\ dt \in Seq(S) /\ dt = d \o t
    BY ConcatProperties
  <1>2. Append(t, f) = t \o one
    OBVIOUS
  <1> HIDE DEF one, dt
  <1>3. dt \o (one \o p) = (d \o (t \o one)) \o p
    BY <1>1, MoveOver, SMTT(30)
  <1> QED BY <1>2, <1>3, Zenon DEF one, dt, Joins

------------------------------------------------------------------------------
(* The invariant for one client.                                            *)

\* Queued, by the counts.
Waiting(q, t, c) == IF Fronts(q, c) # 0 /\ t # << >> THEN Tail(t) ELSE t

\* The counts and the positions in the queue say the same.
LEMMA FrontCounted ==
    ASSUME NEW q \in Seq(Handlers), NEW c
    PROVE  /\ Fronts(q, c) # 0 <=> \E i \in DOMAIN q : q[i].kind = "written" /\ q[i].c = c /\ q[i].res = "ok"
           /\ Writes(q, c) = 0 => Fronts(q, c) = 0
           /\ Reads(q, c) # 0 => \E i \in DOMAIN q : q[i].c = c
  <1>1. DOMAIN q = 1 .. Len(q) /\ \A i \in DOMAIN q : q[i] \in Handlers
    BY LenProperties, ElementOfSeq
  <1>2. \A A : Count(q, A) = 0 <=> \A i \in DOMAIN q : q[i] \notin A
    BY CountType
  <1>3. Fronts(q, c) = 0 <=> \A i \in DOMAIN q : q[i] \notin FrontsOf(c)
    BY <1>2 DEF Fronts
  <1>4. Writes(q, c) = 0 <=> \A i \in DOMAIN q : q[i] \notin Of("written", c)
    BY <1>2 DEF Writes
  <1>5. Reads(q, c) = 0 <=> \A i \in DOMAIN q : q[i] \notin Of("read", c)
    BY <1>2 DEF Reads
  <1> QED BY <1>1, <1>3, <1>4, <1>5 DEF FrontsOf, Of

\* Queued in the current state.
LEMMA QueuedIs ==
    ASSUME ready \in Seq(Handlers), NEW c
    PROVE  Queued(c) = Waiting(ready, tx_queue_[c], c)
  <1>1. FrontWritten(c) <=> Fronts(ready, c) # 0
    BY FrontCounted DEF FrontWritten
  <1> QED BY <1>1, Zenon DEF Queued, Waiting

\* Queued in the next state.
LEMMA QueuedIsNext ==
    ASSUME ready' \in Seq(Handlers), NEW c
    PROVE  Queued(c)' = Waiting(ready', tx_queue_'[c], c)
  <1> DEFINE q == ready'
  <1> HIDE DEF q
  <1>1. q \in Seq(Handlers)
    BY DEF q
  <1>2. Fronts(q, c) # 0 <=> \E i \in DOMAIN q : q[i].kind = "written" /\ q[i].c = c /\ q[i].res = "ok"
    BY <1>1, FrontCounted
  <1>3. FrontWritten(c)' <=> Fronts(q, c) # 0
    BY <1>2 DEF FrontWritten, q
  <1> QED BY <1>3, Zenon DEF Queued, Waiting, q

\* The queues q and r hold the same for c.
Quiet(q, r, c) ==
    /\ Accepts(r, c) = Accepts(q, c) /\ Reads(r, c) = Reads(q, c)
    /\ Writes(r, c) = Writes(q, c) /\ Fronts(r, c) = Fronts(q, c)
    /\ FramesFor(r, c) = FramesFor(q, c)

\* A step that leaves the session of c alone.
Same(c) ==
    /\ peer'[c] = "never" <=> peer[c] = "never"
    /\ sock'[c] = sock[c] /\ pending'[c] = pending[c]
    /\ tx_queue_'[c] = tx_queue_[c] /\ d2c'[c] = d2c[c] /\ sent'[c] = sent[c]
    /\ Contains(sessions_', c) <=> Contains(sessions_, c)
    /\ running' = c <=> running = c
    /\ Quiet(ready, ready', c)
    /\ link_state' = link_state

\* A session that a step leaves alone keeps its invariant.
LEMMA Untouched ==
    ASSUME NEW c, ready \in Seq(Handlers), ready' \in Seq(Handlers), ClientInv(c), Same(c)
    PROVE  ClientInv(c)'
  <1>1. Queued(c)' = Queued(c)
    <2>1. Queued(c) = Waiting(ready, tx_queue_[c], c) /\ Queued(c)' = Waiting(ready', tx_queue_'[c], c)
      BY QueuedIs, QueuedIsNext
    <2>2. Fronts(ready', c) = Fronts(ready, c) /\ tx_queue_'[c] = tx_queue_[c]
      BY DEF Same, Quiet
    <2>3. Waiting(ready', tx_queue_'[c], c) = Waiting(ready, tx_queue_[c], c)
      BY <2>2 DEF Waiting
    <2> QED BY <2>1, <2>3
  <1>2. Posted(c)' = Posted(c)
    BY DEF Posted, Same, Quiet
  <1>3. Once(c)' /\ Working(c)'
    BY Zenon DEF ClientInv, Session, Once, Working, Same, Quiet
  <1>4. Unborn(c)' /\ Ended(c)'
    BY <1>2, Zenon DEF ClientInv, Session, Unborn, Ended, Same, Quiet
  <1>5. Stream(c)'
    BY <1>1, <1>2, Zenon DEF ClientInv, Stream, Same, Quiet
  <1>6. LinkFrames(c)' = LinkFrames(c)
    BY Zenon DEF LinkFrames, Same, Quiet
  <1>7. Greeted(c)' /\ View(c)'
    BY <1>6, Zenon DEF ClientInv, Greeted, View, Same, Quiet
  <1> QED BY <1>3, <1>4, <1>5, <1>7 DEF ClientInv, Session

\* Handlers of another session change nothing for c.
LEMMA QuietQueue ==
    ASSUME NEW q \in Seq(Handlers), NEW h, NEW c, h.c # c
    PROVE  /\ h \in Handlers => Quiet(q, Append(q, h), c)
           /\ q # << >> /\ h = Head(q) => Quiet(q, Tail(q), c)
  <1>1. ASSUME h \in Handlers PROVE Quiet(q, Append(q, h), c)
    <2> DEFINE r == Append(q, h)
    <2>1. /\ Accepts(r, c) = Accepts(q, c) + 0 /\ Reads(r, c) = Reads(q, c) + 0
          /\ Writes(r, c) = Writes(q, c) + 0 /\ Fronts(r, c) = Fronts(q, c) + 0
          /\ FramesFor(r, c) = FramesFor(q, c) \o << >>
      <3>1. Added(q, h, r, c)
        BY <1>1, QueueAppend
      <3> HIDE DEF r
      <3> QED BY <3>1 DEF Added, One
    <2>2. FramesFor(q, c) \in Seq(Frames)
      BY FramesForConcat, Zenon
    <2>3. FramesFor(q, c) \o << >> = FramesFor(q, c)
      <3> DEFINE v == FramesFor(q, c)
      <3> HIDE DEF v
      <3>1. v \in Seq(Frames)
        BY <2>2 DEF v
      <3>2. v \o << >> = v
        BY <3>1
      <3> QED BY <3>2 DEF v
    <2> HIDE DEF r
    <2> QED BY <2>1, <2>3, Tallies DEF Quiet, r
  <1>2. ASSUME q # << >>, h = Head(q) PROVE Quiet(q, Tail(q), c)
    <2> DEFINE r == Tail(q)
    <2>0. FrontIs(q, h, r, c)
      BY <1>2, QueueHead, Zenon
    <2> HIDE DEF r
    <2>1. /\ r \in Seq(Handlers)
          /\ Accepts(q, c) = Accepts(r, c) + 0 /\ Reads(q, c) = Reads(r, c) + 0
          /\ Writes(q, c) = Writes(r, c) + 0 /\ Fronts(q, c) = Fronts(r, c) + 0
          /\ FramesFor(q, c) = << >> \o FramesFor(r, c)
      BY <2>0 DEF FrontIs, One
    <2>2. FramesFor(r, c) \in Seq(Frames)
      BY <2>1, FramesForConcat, Zenon
    <2>3. << >> \o FramesFor(r, c) = FramesFor(r, c)
      <3> DEFINE v == FramesFor(r, c)
      <3> HIDE DEF v
      <3>1. v \in Seq(Frames)
        BY <2>2 DEF v
      <3>2. << >> \o v = v
        BY <3>1
      <3> QED BY <3>2 DEF v
    <2>4. Accepts(r, c) \in Nat /\ Reads(r, c) \in Nat /\ Writes(r, c) \in Nat /\ Fronts(r, c) \in Nat
      BY <2>1, Tallies
    <2>5. Accepts(r, c) = Accepts(q, c) /\ Reads(r, c) = Reads(q, c)
          /\ Writes(r, c) = Writes(q, c) /\ Fronts(r, c) = Fronts(q, c)
      BY <2>1, <2>4
    <2> QED BY <2>1, <2>3, <2>5, Zenon DEF Quiet, r
  <1> QED BY <1>1, <1>2

\* A handler of kind k for the session of c, with result res.
IsHandler(h, k, c, res) == h \in Handlers /\ h.kind = k /\ h.c = c /\ h.res = res

\* The handlers that the model queues are handlers.
LEMMA HandlerTypes ==
    ASSUME NEW c \in Clients, NEW k \in {"accept", "send", "written", "read"}, NEW fs \in Seq(Requests)
    PROVE  /\ IsHandler(Handler(k, c), k, c, "ok")
           /\ IsHandler([Handler(k, c) EXCEPT !.res = "err"], k, c, "err")
           /\ IsHandler([Handler(k, c) EXCEPT !.frames = fs], k, c, "ok")
  <1>1. << >> \in Seq(Requests)
    OBVIOUS
  <1>2. Hello \in Frames
    BY DEF Hello, Frame, Frames
  <1> HIDE DEF Frames
  <1> QED BY <1>1, <1>2 DEF Handler, Handlers, IsHandler

\* The same for those that carry no requests.
LEMMA PlainHandler ==
    ASSUME NEW c \in Clients, NEW k \in {"accept", "send", "written", "read"}
    PROVE  /\ IsHandler(Handler(k, c), k, c, "ok")
           /\ IsHandler([Handler(k, c) EXCEPT !.res = "err"], k, c, "err")
  <1>1. << >> \in Seq(Requests)
    OBVIOUS
  <1> QED BY <1>1, HandlerTypes

------------------------------------------------------------------------------
(* Steps of the clients and of the sockets.                                 *)

\* A client connects: one accept is queued for it, once.
LEMMA ConnectStep ==
    ASSUME Types, DaemonInv, port' = port, NEW c \in Clients, Connect(c)
    PROVE  Types' /\ DaemonInv'
  <1> DEFINE h == Handler("accept", c)
  <1>1. h \in Handlers /\ h.kind = "accept" /\ h.c = c
    <2>1. IsHandler(h, "accept", c, "ok")
      BY PlainHandler
    <2> HIDE DEF h
    <2> QED BY <2>1 DEF IsHandler
  <1>2. /\ peer[c] = "never" /\ peer' = [peer EXCEPT ![c] = "open"] /\ ready' = Append(ready, h)
        /\ UNCHANGED <<asked, sessionVars, sent, sessions_, running, batch, linkVars, stats, crashed>>
    BY DEF Connect
  <1> HIDE DEF h
  <1>3. ready \in Seq(Handlers) /\ peer \in [Clients -> {"never", "open", "closed"}]
    BY DEF Types
  <1>4. ready' \in Seq(Handlers) /\ peer' \in [Clients -> {"never", "open", "closed"}]
    <2>1. peer' \in [Clients -> {"never", "open", "closed"}]
      BY <1>2, <1>3
    <2>2. Append(ready, h) \in Seq(Handlers)
      BY <1>1, <1>3, AppendProperties
    <2> QED BY <1>2, <2>1, <2>2
  <1>5. Types'
    <2>1. UNCHANGED <<asked, sock, pending, tx_queue_, d2c, c2d, sent, sessions_, running, batch, phase,
                      link_state, events, stats, crashed>>
      BY <1>2 DEF sessionVars, linkVars
    <2> QED BY <1>4, <2>1 DEF Types
  <1>6. ASSUME NEW d \in Clients PROVE ClientInv(d)'
    <2>1. ClientInv(d)
      BY DEF DaemonInv
    <2>2. CASE d # c
      <3>1. Quiet(ready, ready', d)
        BY <1>1, <1>2, <1>3, <2>2, QuietQueue
      <3>2. Same(d)
        BY <1>2, <1>3, <2>2, <3>1 DEF Same, sessionVars, linkVars
      <3> QED BY <1>3, <1>4, <2>1, <3>2, Untouched
    <2>3. CASE d = c
      <3>1. Added(ready, h, ready', c)
        BY <1>1, <1>2, <1>3, QueueAppend
      <3>2. Accepts(ready, c) \in Nat /\ Reads(ready, c) \in Nat /\ Writes(ready, c) \in Nat /\ Fronts(ready, c) \in Nat
        BY <1>3, Tallies
      <3>3. Accepts(ready', c) = Accepts(ready, c) + 1 /\ Reads(ready', c) = Reads(ready, c)
            /\ Writes(ready', c) = Writes(ready, c) /\ Fronts(ready', c) = Fronts(ready, c)
            /\ FramesFor(ready', c) = FramesFor(ready, c) \o << >>
        BY <1>1, <3>1, <3>2 DEF Added, One
      <3>4. sock[c] = "none" /\ Accepts(ready, c) = 0
        BY <1>2, <2>1, <2>3, <3>2 DEF ClientInv, Session, Once, One
      <3>5. Posted(c) = << >>
        BY <2>1, <2>3, <3>4 DEF ClientInv, Session, Unborn
      <3>6. Posted(c)' = << >>
        <4>1. FramesFor(ready', c) = << >> \o << >>
          BY <3>3, <3>5, Zenon DEF Posted
        <4> QED BY <4>1 DEF Posted
      <3>7. peer'[c] = "open" /\ sock'[c] = "none" /\ UNCHANGED <<sock, pending, tx_queue_, d2c, sent, sessions_, running>>
        BY <1>2, <1>3, <3>4 DEF sessionVars
      <3>8. Once(c)'
        BY <3>3, <3>4, <3>7 DEF Once, One
      <3>9. Unborn(c)'
        BY <2>1, <2>3, <3>3, <3>4, <3>6, <3>7 DEF ClientInv, Session, Unborn
      <3>10. Working(c)' /\ Ended(c)' /\ Greeted(c)' /\ View(c)'
        BY <3>7 DEF Working, Ended, Greeted, View
      <3>11. Stream(c)'
        BY <2>1, <2>3, <3>4, <3>7 DEF ClientInv, Stream
      <3> QED BY <2>3, <3>8, <3>9, <3>10, <3>11 DEF ClientInv, Session
    <2> QED BY <2>2, <2>3
  <1> QED BY <1>5, <1>6 DEF DaemonInv

\* Requests and departures of clients do not touch the sessions.
LEMMA RequestStep ==
    ASSUME Types, DaemonInv, port' = port, NEW c \in Clients,
           Leave(c) \/ \E r \in Requests : Request(c, r)
    PROVE  Types' /\ DaemonInv'
  <1>1. /\ UNCHANGED <<sock, pending, tx_queue_, d2c, sent, sessions_, ready, running, batch, linkVars, stats, crashed>>
        /\ peer' = peer \/ (peer[c] = "open" /\ peer' = [peer EXCEPT ![c] = "closed"])
    BY DEF Leave, Request, sessionVars
  <1>2. asked' \in [Clients -> Seq(Requests)] /\ c2d' \in [Clients -> Seq(Requests)]
    <2>1. asked \in [Clients -> Seq(Requests)] /\ c2d \in [Clients -> Seq(Requests)]
      BY DEF Types
    <2>2. CASE Leave(c)
      BY <2>1, <2>2 DEF Leave, sessionVars
    <2>3. ASSUME NEW r \in Requests, Request(c, r) PROVE asked' \in [Clients -> Seq(Requests)] /\ c2d' \in [Clients -> Seq(Requests)]
      BY <2>1, <2>3 DEF Request
    <2> QED BY <2>2, <2>3
  <1>3. ready \in Seq(Handlers) /\ peer \in [Clients -> {"never", "open", "closed"}]
    BY DEF Types
  <1>4. Types'
    BY <1>1, <1>2, <1>3 DEF Types, linkVars
  <1>5. ASSUME NEW d \in Clients PROVE ClientInv(d)'
    <2>1. Same(d)
      BY <1>1, <1>3 DEF Same, Quiet, linkVars
    <2> QED BY <1>1, <1>3, <2>1, Untouched DEF DaemonInv
  <1> QED BY <1>4, <1>5 DEF DaemonInv

\* The empty sequence adds nothing to what is posted.
LEMMA EmptyBehind ==
    ASSUME NEW q \in Seq(Handlers), NEW c
    PROVE  FramesFor(q, c) \o << >> = FramesFor(q, c) /\ << >> \o FramesFor(q, c) = FramesFor(q, c)
           /\ FramesFor(q, c) \in Seq(Frames)
  <1> DEFINE v == FramesFor(q, c)
  <1>1. v \in Seq(Frames)
    BY FramesForConcat, Zenon
  <1> HIDE DEF v
  <1>2. v \o << >> = v /\ << >> \o v = v
    BY <1>1
  <1> QED BY <1>1, <1>2 DEF v

\* The completion of an operation of c: what it does, and nothing to the other
\* sessions.
LEMMA CompletedOthers ==
    ASSUME Types, DaemonInv, NEW c \in Clients, NEW op \in {"read", "write"}, NEW h \in Handlers, h.c = c,
           Completed(c, op, h), d2c' \in [Clients -> Seq(Frames)],
           \A d \in Clients : d # c => d2c'[d] = d2c[d]
    PROVE  /\ ready' \in Seq(Handlers) /\ pending' \in [Clients -> SUBSET {"read", "write"}]
           /\ \A d \in Clients : d # c => ClientInv(d)'
           /\ sock[c] = "open" /\ op \in pending[c] /\ pending'[c] = pending[c] \ {op}
           /\ Added(ready, h, ready', c)
           /\ UNCHANGED <<peer, asked, sock, tx_queue_, sent, sessions_, running, batch, phase, link_state,
                          events, stats, crashed>>
  <1>1. /\ op \in pending[c] /\ pending' = [pending EXCEPT ![c] = @ \ {op}] /\ ready' = Append(ready, h)
        /\ UNCHANGED <<peer, asked, sock, tx_queue_, sent, sessions_, running, batch, phase, link_state,
                       events, stats, crashed>>
    BY DEF Completed, clientVars, linkVars
  <1>2. ready \in Seq(Handlers) /\ pending \in [Clients -> SUBSET {"read", "write"}]
        /\ sock \in [Clients -> {"none", "open", "closed"}]
    BY DEF Types
  <1>3. Append(ready, h) \in Seq(Handlers)
    BY <1>2, AppendProperties
  <1>4. pending' \in [Clients -> SUBSET {"read", "write"}] /\ pending'[c] = pending[c] \ {op}
        /\ \A d \in Clients : d # c => pending'[d] = pending[d]
    BY <1>1, <1>2
  <1>5. ASSUME NEW d \in Clients, d # c PROVE ClientInv(d)'
    <2>1. Quiet(ready, ready', d)
      BY <1>1, <1>2, <1>5, QuietQueue
    <2>2. Same(d)
      BY <1>1, <1>4, <1>5, <2>1 DEF Same
    <2> QED BY <1>1, <1>2, <1>3, <2>2, Untouched DEF DaemonInv
  <1>6. sock[c] = "open"
    <2>1. Unborn(c) /\ Ended(c)
      BY DEF DaemonInv, ClientInv, Session
    <2> QED BY <1>1, <1>2, <2>1 DEF Unborn, Ended
  <1>7. Added(ready, h, ready', c)
    BY <1>1, <1>2, QueueAppend
  <1> QED BY <1>1, <1>3, <1>4, <1>5, <1>6, <1>7

\* A read ended, or a write failed.
LEMMA DoneClient ==
    ASSUME Types, DaemonInv, NEW c \in Clients, NEW op \in {"read", "write"}, NEW h \in Handlers, h.c = c,
           Completed(c, op, h), UNCHANGED d2c,
           \/ op = "read" /\ h.kind = "read"
           \/ op = "write" /\ h.kind = "written" /\ h.res = "err"
    PROVE  ClientInv(c)'
  <1>1. d2c' \in [Clients -> Seq(Frames)] /\ \A d \in Clients : d # c => d2c'[d] = d2c[d]
    BY DEF Types
  <1>2. /\ ready' \in Seq(Handlers) /\ sock[c] = "open" /\ op \in pending[c] /\ pending'[c] = pending[c] \ {op}
        /\ Added(ready, h, ready', c)
        /\ UNCHANGED <<peer, sock, tx_queue_, sent, sessions_, running, link_state>>
    BY <1>1, CompletedOthers
  <1>3. ready \in Seq(Handlers) /\ pending[c] \in SUBSET {"read", "write"}
    BY DEF Types
  <1>4. Accepts(ready, c) \in Nat /\ Reads(ready, c) \in Nat /\ Writes(ready, c) \in Nat /\ Fronts(ready, c) \in Nat
    BY <1>3, Tallies
  <1>5. Accepts(ready', c) = Accepts(ready, c) /\ Fronts(ready', c) = Fronts(ready, c)
        /\ Reads(ready', c) = Reads(ready, c) + One(op = "read")
        /\ Writes(ready', c) = Writes(ready, c) + One(op = "write")
        /\ FramesFor(ready', c) = FramesFor(ready, c) \o << >>
    <2>1. CASE op = "read" /\ h.kind = "read"
      BY <1>2, <1>4, <2>1 DEF Added, One
    <2>2. CASE op = "write" /\ h.kind = "written" /\ h.res = "err"
      BY <1>2, <1>4, <2>2 DEF Added, One
    <2> QED BY <2>1, <2>2
  <1>6. One("read" \in pending'[c]) + One(op = "read") = One("read" \in pending[c])
        /\ One("write" \in pending'[c]) + One(op = "write") = One("write" \in pending[c])
    BY <1>2, <1>3 DEF One
  <1>7. ClientInv(c)
    BY DEF DaemonInv
  <1>8. Posted(c)' = Posted(c)
    BY <1>3, <1>5, EmptyBehind, Zenon DEF Posted
  <1>9. Queued(c)' = Queued(c)
    <2>1. Queued(c) = Waiting(ready, tx_queue_[c], c) /\ Queued(c)' = Waiting(ready', tx_queue_'[c], c)
      BY <1>2, <1>3, QueuedIs, QueuedIsNext
    <2>2. Fronts(ready', c) = Fronts(ready, c) /\ tx_queue_' = tx_queue_
      BY <1>2, <1>5
    <2>3. Waiting(ready', tx_queue_'[c], c) = Waiting(ready, tx_queue_[c], c)
      BY <2>2 DEF Waiting
    <2> QED BY <2>1, <2>3
  <1>10. Once(c)'
    BY <1>2, <1>5, <1>7 DEF ClientInv, Session, Once
  <1>11. Working(c)'
    <2>1. /\ Contains(sessions_, c)
          /\ One("read" \in pending[c]) + Reads(ready, c) + One(running = c) = 1
          /\ One("write" \in pending[c]) + Writes(ready, c) = One(tx_queue_[c] # << >>)
      BY <1>2, <1>7 DEF ClientInv, Session, Working
    <2>2. One("read" \in pending'[c]) + Reads(ready', c) + One(running' = c) = 1
          /\ One("write" \in pending'[c]) + Writes(ready', c) = One(tx_queue_'[c] # << >>)
      BY <1>2, <1>4, <1>5, <1>6, <2>1 DEF One
    <2> QED BY <1>2, <2>1, <2>2 DEF Working
  <1>12. Unborn(c)' /\ Ended(c)'
    BY <1>2 DEF Unborn, Ended
  <1>13. Stream(c)'
    BY <1>2, <1>7, <1>8, <1>9, Zenon DEF ClientInv, Stream
  <1>14. Greeted(c)' /\ View(c)'
    BY <1>2, <1>7 DEF ClientInv, Greeted, View, LinkFrames
  <1> QED BY <1>10, <1>11, <1>12, <1>13, <1>14 DEF ClientInv, Session

\* A write ended: the frame at the front of the queue has reached the client.
LEMMA WriteStep ==
    ASSUME Types, DaemonInv, port' = port, NEW c \in Clients, WriteCompletes(c)
    PROVE  Types' /\ DaemonInv'
  <1> DEFINE h == Handler("written", c)
             t == tx_queue_[c]
             d == d2c[c]
  <1>1. IsHandler(h, "written", c, "ok")
    BY PlainHandler
  <1>2. Completed(c, "write", h) /\ d2c' = [d2c EXCEPT ![c] = Append(@, Head(t))] /\ c2d' = c2d
    BY DEF WriteCompletes
  <1> HIDE DEF h
  <1>3. h \in Handlers /\ h.kind = "written" /\ h.c = c /\ h.res = "ok"
    BY <1>1 DEF IsHandler
  <1>4. ready \in Seq(Handlers) /\ pending \in [Clients -> SUBSET {"read", "write"}]
        /\ t \in Seq(Frames) /\ d \in Seq(Frames) /\ d2c \in [Clients -> Seq(Frames)]
        /\ sock \in [Clients -> {"none", "open", "closed"}]
    BY DEF Types
  <1>5. ClientInv(c)
    BY DEF DaemonInv
  <1>6. "write" \in pending[c]
    BY <1>2 DEF Completed
  <1>7. sock[c] = "open"
    BY <1>4, <1>5, <1>6 DEF ClientInv, Session, Unborn, Ended
  <1>8. Accepts(ready, c) \in Nat /\ Reads(ready, c) \in Nat /\ Writes(ready, c) \in Nat /\ Fronts(ready, c) \in Nat
    BY <1>4, Tallies
  <1>9. t # << >> /\ Writes(ready, c) = 0
    BY <1>5, <1>6, <1>7, <1>8 DEF ClientInv, Session, Working, One
  <1>10. Fronts(ready, c) = 0
    BY <1>4, <1>9, FrontCounted
  <1>11. Head(t) \in Frames /\ Tail(t) \in Seq(Frames)
    BY <1>4, <1>9, HeadTailProperties
  <1>12. /\ d2c' \in [Clients -> Seq(Frames)] /\ d2c'[c] = Append(d, Head(t))
         /\ \A e \in Clients : e # c => d2c'[e] = d2c[e]
    <2> DEFINE v == Append(d, Head(t))
    <2>1. v \in Seq(Frames)
      BY <1>4, <1>11, AppendProperties
    <2>2. d2c' = [d2c EXCEPT ![c] = v]
      BY <1>2
    <2> HIDE DEF v
    <2>3. /\ d2c' \in [Clients -> Seq(Frames)] /\ d2c'[c] = v
          /\ \A e \in Clients : e # c => d2c'[e] = d2c[e]
      BY <1>4, <2>1, <2>2
    <2> QED BY <2>3 DEF v
  <1>13. /\ ready' \in Seq(Handlers) /\ pending' \in [Clients -> SUBSET {"read", "write"}]
         /\ \A e \in Clients : e # c => ClientInv(e)'
         /\ pending'[c] = pending[c] \ {"write"}
         /\ Added(ready, h, ready', c)
         /\ UNCHANGED <<peer, asked, sock, tx_queue_, sent, sessions_, running, batch, phase, link_state,
                        events, stats, crashed>>
    BY <1>2, <1>3, <1>12, CompletedOthers
  <1>14. Types'
    BY <1>2, <1>12, <1>13 DEF Types
  <1>15. Accepts(ready', c) = Accepts(ready, c) /\ Fronts(ready', c) = 1
        /\ Reads(ready', c) = Reads(ready, c) /\ Writes(ready', c) = 1
        /\ FramesFor(ready', c) = FramesFor(ready, c) \o << >>
    BY <1>3, <1>8, <1>9, <1>10, <1>13 DEF Added, One
  <1>16. Posted(c)' = Posted(c) /\ Posted(c) \in Seq(Frames)
    BY <1>4, <1>15, EmptyBehind, Zenon DEF Posted
  <1>17. Queued(c) = t /\ Queued(c)' = Tail(t)
    <2>1. Queued(c) = Waiting(ready, tx_queue_[c], c) /\ Queued(c)' = Waiting(ready', tx_queue_'[c], c)
      BY <1>4, <1>13, QueuedIs, QueuedIsNext
    <2>2. tx_queue_' = tx_queue_
      BY <1>13
    <2> QED BY <1>9, <1>10, <1>15, <2>1, <2>2 DEF Waiting
  <1>18. Once(c)'
    BY <1>5, <1>13, <1>15 DEF ClientInv, Session, Once
  <1>19. Working(c)'
    <2>1. /\ Contains(sessions_, c)
          /\ One("read" \in pending[c]) + Reads(ready, c) + One(running = c) = 1
      BY <1>5, <1>7 DEF ClientInv, Session, Working
    <2>2. One("read" \in pending'[c]) = One("read" \in pending[c]) /\ One("write" \in pending'[c]) = 0
          /\ One(tx_queue_'[c] # << >>) = 1
      BY <1>9, <1>13 DEF One
    <2> QED BY <1>13, <1>15, <2>1, <2>2 DEF Working
  <1>20. Unborn(c)' /\ Ended(c)'
    BY <1>7, <1>13 DEF Unborn, Ended
  <1>21. Stream(c)'
    <2> DEFINE p == Posted(c)
    <2>1. sent[c] = d \o t \o p
      BY <1>5, <1>7, <1>17 DEF ClientInv, Stream
    <2>2. p \in Seq(Frames) /\ d \in Seq(Frames) /\ t \in Seq(Frames) /\ t # << >>
      BY <1>4, <1>9, <1>16
    <2> HIDE DEF p, t, d
    <2>3. Append(d, Head(t)) \o Tail(t) \o p = d \o t \o p
      BY <2>2, HeadMoves
    <2>4. d2c'[c] = Append(d, Head(t)) /\ Queued(c)' = Tail(t) /\ Posted(c)' = p
      BY <1>12, <1>16, <1>17 DEF p
    <2>5. sent'[c] = d2c'[c] \o Queued(c)' \o Posted(c)'
      BY <1>13, <2>1, <2>3, <2>4, Zenon
    <2>6. sock'[c] = "open"
      BY <1>7, <1>13
    <2> QED BY <2>5, <2>6, Zenon DEF Stream
  <1>22. Greeted(c)' /\ View(c)'
    BY <1>5, <1>13 DEF ClientInv, Greeted, View, LinkFrames
  <1>23. ClientInv(c)'
    BY <1>18, <1>19, <1>20, <1>21, <1>22 DEF ClientInv, Session
  <1> QED BY <1>13, <1>14, <1>23 DEF DaemonInv

\* Reads that complete, and operations that fail.
LEMMA ReadStep ==
    ASSUME Types, DaemonInv, port' = port, NEW c \in Clients,
           IoFails(c) \/ \E n \in 1 .. MaxRequests : ReadCompletes(c, n)
    PROVE  Types' /\ DaemonInv'
  <1>1. c2d \in [Clients -> Seq(Requests)] /\ d2c \in [Clients -> Seq(Frames)]
    BY DEF Types
  <1>2. \E op \in {"read", "write"}, h \in Handlers :
           /\ h.c = c /\ Completed(c, op, h)
           /\ \/ op = "read" /\ h.kind = "read"
              \/ op = "write" /\ h.kind = "written" /\ h.res = "err"
    <2>1. ASSUME NEW n \in 1 .. MaxRequests, ReadCompletes(c, n)
          PROVE  \E h \in Handlers : h.c = c /\ Completed(c, "read", h) /\ h.kind = "read"
      <3> DEFINE fs == SubSeq(c2d[c], 1, n)
                 h == [Handler("read", c) EXCEPT !.frames = fs]
      <3>1. fs \in Seq(Requests)
        <4>1. c2d[c] \in Seq(Requests) /\ n \in 1 .. Len(c2d[c])
          BY <1>1, <2>1 DEF ReadCompletes
        <4> QED BY <4>1
      <3>2. Completed(c, "read", h)
        BY <2>1 DEF ReadCompletes
      <3> HIDE DEF fs
      <3>3. IsHandler(h, "read", c, "ok")
        BY <3>1, HandlerTypes
      <3> HIDE DEF h
      <3> QED BY <3>2, <3>3 DEF IsHandler
    <2>2. CASE IoFails(c)
      <3> DEFINE r == [Handler("read", c) EXCEPT !.res = "err"]
                 w == [Handler("written", c) EXCEPT !.res = "err"]
      <3>1. IsHandler(r, "read", c, "err") /\ IsHandler(w, "written", c, "err")
        BY PlainHandler
      <3>2. Completed(c, "read", r) \/ Completed(c, "write", w)
        BY <2>2 DEF IoFails
      <3> HIDE DEF r, w
      <3> QED BY <3>1, <3>2 DEF IsHandler
    <2> QED BY <2>1, <2>2
  <1>3. PICK op \in {"read", "write"}, h \in Handlers :
           /\ h.c = c /\ Completed(c, op, h)
           /\ \/ op = "read" /\ h.kind = "read"
              \/ op = "write" /\ h.kind = "written" /\ h.res = "err"
    BY <1>2
  <1>4. d2c' = d2c
    BY DEF IoFails, ReadCompletes
  <1>5. c2d' \in [Clients -> Seq(Requests)]
    <2>1. ASSUME NEW n \in 1 .. MaxRequests, ReadCompletes(c, n) PROVE c2d' \in [Clients -> Seq(Requests)]
      <3> DEFINE s == c2d[c]
                 v == SubSeq(s, n + 1, Len(s))
      <3>1. s \in Seq(Requests) /\ n \in 1 .. Len(s) /\ c2d' = [c2d EXCEPT ![c] = v]
        BY <1>1, <2>1 DEF ReadCompletes
      <3>2. v \in Seq(Requests)
        BY <3>1
      <3> HIDE DEF v
      <3> QED BY <1>1, <3>1, <3>2
    <2>2. CASE IoFails(c)
      BY <1>1, <2>2 DEF IoFails
    <2> QED BY <2>1, <2>2
  <1>6. /\ ready' \in Seq(Handlers) /\ pending' \in [Clients -> SUBSET {"read", "write"}]
        /\ \A d \in Clients : d # c => ClientInv(d)'
        /\ UNCHANGED <<peer, asked, sock, tx_queue_, sent, sessions_, running, batch, phase, link_state,
                       events, stats, crashed>>
    BY <1>1, <1>3, <1>4, CompletedOthers
  <1>7. ClientInv(c)'
    BY <1>3, <1>4, DoneClient
  <1>8. Types'
    BY <1>4, <1>5, <1>6 DEF Types
  <1> QED BY <1>6, <1>7, <1>8 DEF DaemonInv

------------------------------------------------------------------------------
(* Handlers of IpcServer and IpcSession.                                    *)

\* The handler that the event loop runs next.
LEMMA AtFront ==
    ASSUME Types, ready # << >>, NEW h, h = Head(ready), NEW hs, hs = Tail(ready)
    PROVE  /\ h \in Handlers /\ h.c \in Clients /\ hs \in Seq(Handlers)
           /\ FrontIs(ready, h, hs, h.c)
           /\ \A d \in Clients : d # h.c => Quiet(ready, hs, d)
           /\ h.res \in {"ok", "err"} /\ h.frame \in Frames /\ h.frames \in Seq(Requests)
  <1>1. ready \in Seq(Handlers)
    BY DEF Types
  <1>2. h \in Handlers /\ hs \in Seq(Handlers)
    BY <1>1, HeadTailProperties
  <1>3. h.c \in Clients /\ h.res \in {"ok", "err"} /\ h.frame \in Frames /\ h.frames \in Seq(Requests)
    BY <1>2 DEF Handlers
  <1>4. FrontIs(ready, h, hs, h.c)
    BY <1>1, QueueHead, Zenon
  <1>5. ASSUME NEW d \in Clients, d # h.c PROVE Quiet(ready, hs, d)
    BY <1>1, <1>5, QuietQueue, Zenon
  <1> QED BY <1>2, <1>3, <1>4, <1>5

\* A list of one session.
LEMMA ContainsOne ==
    ASSUME NEW c \in Clients
    PROVE  /\ <<c>> \in Seq(Clients) /\ Distinct(<<c>>)
           /\ \A d : Contains(<<c>>, d) <=> d = c
  BY DEF Distinct, Contains

\* A list of two.
LEMMA AppendPair ==
    ASSUME NEW S, NEW x \in S, NEW y \in S
    PROVE  <<x>> \in Seq(S) /\ Append(<<x>>, y) = <<x, y>>
  <1> DEFINE a == Append(<<x>>, y)
             b == <<x, y>>
  <1>1. <<x>> \in Seq(S) /\ a \in Seq(S) /\ b \in Seq(S) /\ Len(a) = 2 /\ Len(b) = 2
    OBVIOUS
  <1>2. ASSUME NEW i \in 1 .. 2 PROVE a[i] = b[i]
    OBVIOUS
  <1> HIDE DEF a, b
  <1>3. a = b
    BY <1>1, <1>2, SeqEqual
  <1> QED BY <1>1, <1>3 DEF a, b

\* The front handler h of c, by its kind.
Ran(q, h, t, c) ==
    /\ t \in Seq(Handlers)
    /\ Accepts(t, c) \in Nat /\ Reads(t, c) \in Nat /\ Writes(t, c) \in Nat /\ Fronts(t, c) \in Nat
    /\ Accepts(q, c) = Accepts(t, c) + One(h.kind = "accept")
    /\ Reads(q, c) = Reads(t, c) + One(h.kind = "read")
    /\ Writes(q, c) = Writes(t, c) + One(h.kind = "written")
    /\ Fronts(q, c) = Fronts(t, c) + One(h.kind = "written" /\ h.res = "ok")
    /\ h.kind # "send" => FramesFor(q, c) = FramesFor(t, c)
    /\ h.kind = "send" => FramesFor(q, c) = <<h.frame>> \o FramesFor(t, c)

\* What the session of c has left when its handler was taken off the queue.
LEMMA FrontFacts ==
    ASSUME NEW q \in Seq(Handlers), NEW h, NEW t, NEW c, FrontIs(q, h, t, c), h.c = c
    PROVE  Ran(q, h, t, c)
  <1>1. t \in Seq(Handlers)
    BY DEF FrontIs
  <1>2. Accepts(t, c) \in Nat /\ Reads(t, c) \in Nat /\ Writes(t, c) \in Nat /\ Fronts(t, c) \in Nat
    BY <1>1, Tallies
  <1>3. /\ Accepts(q, c) = Accepts(t, c) + One(h.kind = "accept")
        /\ Reads(q, c) = Reads(t, c) + One(h.kind = "read")
        /\ Writes(q, c) = Writes(t, c) + One(h.kind = "written")
        /\ Fronts(q, c) = Fronts(t, c) + One(h.kind = "written" /\ h.res = "ok")
    BY DEF FrontIs, One
  <1>4. FramesFor(q, c) = (IF h.kind = "send" /\ h.c = c THEN <<h.frame>> ELSE << >>) \o FramesFor(t, c)
    BY Zenon DEF FrontIs
  <1>5. ASSUME h.kind # "send" PROVE FramesFor(q, c) = FramesFor(t, c)
    <2>1. (IF h.kind = "send" /\ h.c = c THEN <<h.frame>> ELSE << >>) = << >>
      BY <1>5
    <2> QED BY <1>1, <1>4, <2>1, EmptyBehind, Zenon
  <1>6. ASSUME h.kind = "send" PROVE FramesFor(q, c) = <<h.frame>> \o FramesFor(t, c)
    BY <1>4, <1>6, Zenon
  <1> QED BY <1>1, <1>2, <1>3, <1>5, <1>6 DEF Ran

\* The accept handler: the session is listed, reads, and is sent Hello and the
\* state of the link before anything else.
LEMMA AcceptStep ==
    ASSUME Types, DaemonInv, port' = port, ready # << >>,
           NEW h, h = Head(ready), NEW hs, hs = Tail(ready), RunAccept(h, hs)
    PROVE  Types' /\ DaemonInv'
  <1> DEFINE c == h.c
             to == <<c>>
             fs == <<Hello, LinkFrame(link_state)>>
  <1>1. /\ h.kind = "accept" /\ sessions_' = Append(sessions_, c) /\ sock' = [sock EXCEPT ![c] = "open"]
        /\ pending' = [pending EXCEPT ![c] = {"read"}] /\ HandOut(hs, to, fs)
        /\ UNCHANGED <<peer, asked, c2d, d2c, tx_queue_, running, batch, phase, link_state, events, stats, crashed>>
    BY DEF RunAccept, clientVars, linkVars
  <1>2. /\ h \in Handlers /\ c \in Clients /\ hs \in Seq(Handlers)
        /\ FrontIs(ready, h, hs, c)
        /\ \A d \in Clients : d # c => Quiet(ready, hs, d)
    BY AtFront, Zenon
  <1>3. to \in Seq(Clients) /\ Distinct(to) /\ \A d : Contains(to, d) <=> d = c
    BY <1>2, ContainsOne, Zenon
  <1>4. fs \in Seq(Frames) /\ Len(fs) = 2 /\ fs[1] = Hello /\ fs[2] = LinkFrame(link_state) /\ fs # << >>
        /\ link_state \in States
    <2>1. Hello \in Frames
      BY DEF Hello, Frame, Frames
    <2>2. link_state \in States
      BY DEF Types
    <2>3. LinkFrame(link_state) \in Frames
      BY <2>2, LinkFrameType
    <2> QED BY <2>1, <2>2, <2>3
  <1>5. Select(fs, LinkFrameSet) = <<LinkFrame(link_state)>>
    <2> DEFINE f == LinkFrame(link_state)
    <2>1. Hello \in Frames /\ Hello \notin LinkFrameSet
      BY DEF Hello, LinkFrameSet, LinkFrame, Frame, Frames
    <2>2. f \in LinkFrameSet /\ f \in Frames
      BY <1>4, LinkFrameType
    <2> HIDE DEF f
    <2>3. <<Hello>> \in Seq(Frames) /\ Append(<<Hello>>, f) = <<Hello, f>>
      <3> DEFINE x == Hello
      <3>1. x \in Frames
        BY <2>1
      <3> HIDE DEF x
      <3>2. <<x>> \in Seq(Frames) /\ Append(<<x>>, f) = <<x, f>>
        BY <2>2, <3>1, AppendPair
      <3> QED BY <3>2 DEF x
    <2>4. Select(<<Hello>>, LinkFrameSet) = << >>
      BY <2>1, SelectOne
    <2> DEFINE one == <<Hello>>
    <2>5. one \in Seq(Frames) /\ Select(one, LinkFrameSet) = << >> /\ Append(one, f) = <<Hello, f>>
      BY <2>3, <2>4
    <2> HIDE DEF one
    <2>6. Select(Append(one, f), LinkFrameSet) = Append(Select(one, LinkFrameSet), f)
      BY <2>2, <2>5, SelectAppend, ZenonT(60)
    <2>7. Append(<< >>, f) = <<f>>
      OBVIOUS
    <2> QED BY <2>5, <2>6, <2>7, Zenon DEF f
  <1> HIDE DEF c, to, fs
  <1>6. sent \in [Clients -> Seq(Frames)] /\ ready \in Seq(Handlers)
        /\ sock \in [Clients -> {"none", "open", "closed"}] /\ pending \in [Clients -> SUBSET {"read", "write"}]
        /\ sessions_ \in Seq(Clients) /\ Distinct(sessions_)
    BY DEF Types
  <1>7. /\ ready' \in Seq(Handlers) /\ sent' \in [Clients -> Seq(Frames)]
        /\ \A d \in Clients :
                 /\ Accepts(ready', d) = Accepts(hs, d)
                 /\ Reads(ready', d) = Reads(hs, d)
                 /\ Writes(ready', d) = Writes(hs, d)
                 /\ Fronts(ready', d) = Fronts(hs, d)
                 /\ FramesFor(ready', d) = FramesFor(hs, d) \o Given(to, fs, d)
                 /\ sent'[d] = sent[d] \o Given(to, fs, d)
    <2>1. sent \in [Clients -> Seq(Frames)] /\ hs \in Seq(Handlers) /\ to \in Seq(Clients) /\ Distinct(to)
          /\ fs \in Seq(Frames) /\ Len(fs) <= 2 /\ HandOut(hs, to, fs)
      BY <1>1, <1>2, <1>3, <1>4, <1>6
    <2> QED BY <2>1, HandedOut, Zenon
  <1>8. ClientInv(c)
    BY <1>2 DEF DaemonInv
  <1>9. /\ Accepts(ready, c) \in Nat
        /\ Accepts(hs, c) \in Nat /\ Reads(hs, c) \in Nat /\ Writes(hs, c) \in Nat /\ Fronts(hs, c) \in Nat
    BY <1>2, <1>6, Tallies
  <1>10. /\ Accepts(ready, c) = Accepts(hs, c) + 1 /\ Reads(ready, c) = Reads(hs, c)
         /\ Writes(ready, c) = Writes(hs, c) /\ Fronts(ready, c) = Fronts(hs, c)
         /\ FramesFor(ready, c) = FramesFor(hs, c)
    <2>1. h.kind = "accept" /\ h.c = c
      BY <1>1 DEF c
    <2>2. Ran(ready, h, hs, c)
      BY <1>2, <1>6, <2>1, FrontFacts, Zenon
    <2> QED BY <2>1, <2>2 DEF Ran, One
  <1>11. sock[c] = "none" /\ peer[c] # "never" /\ Accepts(hs, c) = 0
    BY <1>8, <1>9, <1>10 DEF ClientInv, Session, Once, One
  <1>12. /\ Reads(hs, c) = 0 /\ Writes(hs, c) = 0 /\ running # c /\ ~Contains(sessions_, c)
         /\ Posted(c) = << >> /\ sent[c] = << >> /\ d2c[c] = << >> /\ tx_queue_[c] = << >>
    BY <1>8, <1>10, <1>11 DEF ClientInv, Session, Unborn
  <1>13. sessions_' \in Seq(Clients) /\ Distinct(sessions_')
         /\ \A d : Contains(sessions_', d) <=> Contains(sessions_, d) \/ d = c
    <2>1. Append(sessions_, c) \in Seq(Clients)
      BY <1>2, <1>6, AppendProperties
    <2>2. Distinct(Append(sessions_, c))
      BY <1>2, <1>6, <1>12, DistinctAppend DEF Contains
    <2>3. \A d : Contains(Append(sessions_, c), d) <=> Contains(sessions_, d) \/ d = c
      BY <1>2, <1>6, ContainsAppend
    <2> QED BY <1>1, <2>1, <2>2, <2>3, Zenon
  <1>14. sock' \in [Clients -> {"none", "open", "closed"}] /\ pending' \in [Clients -> SUBSET {"read", "write"}]
         /\ sock'[c] = "open" /\ pending'[c] = {"read"}
         /\ \A d \in Clients : d # c => sock'[d] = sock[d] /\ pending'[d] = pending[d]
    BY <1>1, <1>2, <1>6
  <1>15. Types'
    BY <1>1, <1>7, <1>13, <1>14 DEF Types
  <1>16. ASSUME NEW d \in Clients, d # c PROVE ClientInv(d)'
    <2>1. Given(to, fs, d) = << >>
      BY <1>3, <1>16 DEF Given
    <2>2. FramesFor(hs, d) \o << >> = FramesFor(hs, d)
      BY <1>2, EmptyBehind
    <2>3. Quiet(ready, hs, d)
      BY <1>2, <1>16
    <2>4. FramesFor(ready', d) = FramesFor(hs, d)
      BY <1>7, <2>1, <2>2, Zenon
    <2>5. Quiet(ready, ready', d)
      BY <1>7, <2>3, <2>4 DEF Quiet
    <2>6. sent'[d] = sent[d]
      <3> DEFINE s == sent[d]
      <3>1. s \in Seq(Frames)
        BY <1>6
      <3> HIDE DEF s
      <3>2. s \o << >> = s
        BY <3>1
      <3> QED BY <1>7, <2>1, <3>2, Zenon DEF s
    <2>7. Same(d)
      BY <1>1, <1>13, <1>14, <1>16, <2>5, <2>6 DEF Same
    <2> QED BY <1>6, <1>7, <2>7, Untouched DEF DaemonInv
  <1>17. Given(to, fs, c) = fs /\ << >> \o fs = fs
    BY <1>3, <1>4 DEF Given
  <1>18. sent'[c] = fs /\ Posted(c)' = fs
    <2>1. FramesFor(hs, c) = << >>
      BY <1>2, <1>10, <1>12, EmptyBehind, Zenon DEF Posted
    <2>2. FramesFor(ready', c) = fs
      BY <1>2, <1>7, <1>17, <2>1, Zenon
    <2>3. sent'[c] = fs
      BY <1>2, <1>7, <1>12, <1>17, Zenon
    <2> QED BY <2>2, <2>3 DEF Posted
  <1>19. Once(c)'
    BY <1>1, <1>2, <1>7, <1>11, <1>14 DEF Once, One
  <1>20. Working(c)'
    BY <1>1, <1>2, <1>7, <1>12, <1>13, <1>14 DEF Working, One
  <1>21. Unborn(c)' /\ Ended(c)'
    BY <1>14 DEF Unborn, Ended
  <1>22. Stream(c)'
    <2>1. Queued(c)' = << >>
      <3>1. Queued(c)' = Waiting(ready', tx_queue_'[c], c)
        BY <1>7, QueuedIsNext
      <3>2. tx_queue_'[c] = << >>
        BY <1>1, <1>12
      <3> QED BY <3>1, <3>2 DEF Waiting
    <2>2. d2c'[c] = << >>
      BY <1>1, <1>12
    <2>3. << >> \o << >> = << >>
      OBVIOUS
    <2>4. sent'[c] = d2c'[c] \o Queued(c)' \o Posted(c)'
      BY <1>17, <1>18, <2>1, <2>2, <2>3, Zenon
    <2> QED BY <1>14, <2>4, Zenon DEF Stream
  <1>23. Greeted(c)'
    <2>1. LinkFrame(link_state).type = "LinkState"
      BY DEF LinkFrame, Frame
    <2> QED BY <1>4, <1>18, <2>1, SMTT(30) DEF Greeted
  <1>24. View(c)'
    <2> DEFINE f == LinkFrame(link_state)
    <2>1. LinkFrames(c)' = Select(fs, LinkFrameSet)
      BY <1>18, Zenon DEF LinkFrames, LinkFrameSet
    <2> HIDE DEF f
    <2>2. <<f>> # << >> /\ Last(<<f>>) = f
      BY DEF Last
    <2>3. LinkFrames(c)' # << >> /\ Last(LinkFrames(c)') = f
      BY <1>5, <2>1, <2>2, Zenon DEF f
    <2>4. LinkFrame(link_state') = f
      BY <1>1 DEF f
    <2> QED BY <2>3, <2>4 DEF View
  <1>25. ClientInv(c)'
    BY <1>19, <1>20, <1>21, <1>22, <1>23, <1>24 DEF ClientInv, Session
  <1> QED BY <1>15, <1>16, <1>25 DEF DaemonInv

\* The handler that the event loop runs next, by its kind.
LEMMA RanFront ==
    ASSUME Types, ready # << >>, NEW h, h = Head(ready), NEW hs, hs = Tail(ready)
    PROVE  /\ h \in Handlers /\ h.c \in Clients /\ hs \in Seq(Handlers)
           /\ Ran(ready, h, hs, h.c)
           /\ \A d \in Clients : d # h.c => Quiet(ready, hs, d)
           /\ h.res \in {"ok", "err"} /\ h.frame \in Frames /\ h.frames \in Seq(Requests)
  <1>1. /\ h \in Handlers /\ h.c \in Clients /\ hs \in Seq(Handlers)
        /\ FrontIs(ready, h, hs, h.c)
        /\ \A d \in Clients : d # h.c => Quiet(ready, hs, d)
        /\ h.res \in {"ok", "err"} /\ h.frame \in Frames /\ h.frames \in Seq(Requests)
    BY AtFront, Zenon
  <1>2. ready \in Seq(Handlers)
    BY DEF Types
  <1>3. Ran(ready, h, hs, h.c)
    BY <1>1, <1>2, FrontFacts, Zenon
  <1> QED BY <1>1, <1>3

\* IpcSession::send in the event loop: a frame joins the queue, and starts the
\* writing when it is the only one.
LEMMA SendStep ==
    ASSUME Types, DaemonInv, port' = port, ready # << >>,
           NEW h, h = Head(ready), NEW hs, hs = Tail(ready), RunSend(h, hs)
    PROVE  Types' /\ DaemonInv'
  <1> DEFINE c == h.c
             f == h.frame
             t == tx_queue_[c]
             d == d2c[c]
             p == FramesFor(hs, c)
  <1>1. /\ h.kind = "send" /\ ready' = hs
        /\ UNCHANGED <<peer, asked, sock, c2d, d2c, sent, sessions_, running, batch, phase, link_state, events,
                       stats, crashed>>
    BY DEF RunSend, clientVars, linkVars
  <1>2. /\ h \in Handlers /\ c \in Clients /\ hs \in Seq(Handlers) /\ f \in Frames
        /\ Ran(ready, h, hs, c)
        /\ \A e \in Clients : e # c => Quiet(ready, hs, e)
    BY RanFront, Zenon
  <1>3. ready \in Seq(Handlers) /\ pending \in [Clients -> SUBSET {"read", "write"}]
        /\ t \in Seq(Frames) /\ d \in Seq(Frames) /\ tx_queue_ \in [Clients -> Seq(Frames)]
        /\ sock \in [Clients -> {"none", "open", "closed"}]
    BY <1>2 DEF Types
  <1>4. ClientInv(c)
    BY <1>2 DEF DaemonInv
  <1>5. /\ Accepts(ready, c) = Accepts(hs, c) /\ Reads(ready, c) = Reads(hs, c)
        /\ Writes(ready, c) = Writes(hs, c) /\ Fronts(ready, c) = Fronts(hs, c)
        /\ Writes(hs, c) \in Nat /\ Fronts(hs, c) \in Nat /\ Reads(hs, c) \in Nat
        /\ FramesFor(ready, c) = <<f>> \o p
    BY <1>1, <1>2 DEF Ran, One
  <1>6. p \in Seq(Frames)
    BY <1>2, EmptyBehind
  <1>7. sock[c] # "none"
    <2>1. <<f>> \o p # << >>
      <3> HIDE DEF p, f
      <3> QED BY <1>2, <1>6
    <2> QED BY <1>4, <1>5, <2>1, Zenon DEF ClientInv, Session, Unborn, Posted
  <1> DEFINE add == IF sock[c] = "open" THEN Append(t, f) ELSE t
             ops == IF sock[c] = "open" /\ t = << >> THEN pending[c] \union {"write"} ELSE pending[c]
  <1>8. tx_queue_' = [tx_queue_ EXCEPT ![c] = add] /\ pending' = [pending EXCEPT ![c] = ops]
    <2>1. CASE sock[c] # "open"
      BY <1>1, <1>3, <2>1 DEF RunSend
    <2>2. CASE sock[c] = "open" /\ t # << >>
      BY <1>1, <1>3, <2>2 DEF RunSend
    <2>3. CASE sock[c] = "open" /\ t = << >>
      <3>1. Append(<< >>, f) = <<f>> /\ <<f>> # << >>
        OBVIOUS
      <3>2. tx_queue_' = [tx_queue_ EXCEPT ![c] = <<f>>] /\ pending' = [pending EXCEPT ![c] = @ \union {"write"}]
        BY <1>1, <2>3, <3>1 DEF RunSend, DoWrite
      <3> QED BY <1>3, <2>3, <3>1, <3>2
    <2> QED BY <2>1, <2>2, <2>3
  <1>9. add \in Seq(Frames)
    BY <1>2, <1>3, AppendProperties
  <1> HIDE DEF add
  <1>10. ops \in SUBSET {"read", "write"}
    BY <1>2, <1>3
  <1> HIDE DEF ops
  <1>11. /\ tx_queue_' \in [Clients -> Seq(Frames)] /\ tx_queue_'[c] = add
         /\ pending' \in [Clients -> SUBSET {"read", "write"}] /\ pending'[c] = ops
         /\ \A e \in Clients : e # c => tx_queue_'[e] = tx_queue_[e] /\ pending'[e] = pending[e]
    <2> HIDE DEF c, t
    <2> QED BY <1>2, <1>3, <1>8, <1>9, <1>10
  <1> HIDE DEF c, t, d, p, f
  <1>12. Types'
    BY <1>1, <1>2, <1>11 DEF Types
  <1>13. ASSUME NEW e \in Clients, e # c PROVE ClientInv(e)'
    <2>1. Same(e)
      BY <1>1, <1>2, <1>11, <1>13 DEF Same
    <2> QED BY <1>1, <1>2, <1>3, <2>1, Untouched DEF DaemonInv
  <1>14. Once(c)' /\ Greeted(c)' /\ View(c)' /\ Unborn(c)'
    <2>1. Once(c)' /\ Unborn(c)'
      BY <1>1, <1>4, <1>5, <1>7 DEF ClientInv, Session, Once, Unborn
    <2>2. Greeted(c)' /\ View(c)'
      BY <1>1, <1>4 DEF ClientInv, Greeted, View, LinkFrames
    <2> QED BY <2>1, <2>2
  <1>15. CASE sock[c] # "open"
    <2>1. Ended(c)' /\ Working(c)'
      BY <1>1, <1>3, <1>4, <1>11, <1>15 DEF ClientInv, Session, Ended, Working, ops, add, t
    <2>2. Stream(c)'
      BY <1>1, <1>4, <1>15 DEF ClientInv, Stream
    <2>3. ClientInv(c)'
      BY <1>14, <2>1, <2>2 DEF ClientInv, Session
    <2> QED BY <1>12, <1>13, <2>3 DEF DaemonInv
  <1>16. CASE sock[c] = "open"
    <2>1. /\ Contains(sessions_, c)
          /\ One("read" \in pending[c]) + Reads(ready, c) + One(running = c) = 1
          /\ One("write" \in pending[c]) + Writes(ready, c) = One(t # << >>)
      BY <1>4, <1>16 DEF ClientInv, Session, Working, t
    <2>2. add = Append(t, f) /\ add # << >>
      <3>1. t \in Seq(Frames) /\ f \in Frames
        BY <1>2, <1>3
      <3>2. Append(t, f) # << >>
        BY <3>1, AppendProperties
      <3>3. add = Append(t, f)
        BY <1>16 DEF add
      <3> QED BY <3>2, <3>3
    <2>3. One("read" \in ops) = One("read" \in pending[c])
          /\ One("write" \in ops) + Writes(hs, c) = 1
      BY <1>5, <1>16, <2>1 DEF ops, One
    <2>4. Working(c)' /\ Ended(c)'
      <3>1. One(tx_queue_'[c] # << >>) = 1
        BY <1>11, <2>2 DEF One
      <3> QED BY <1>1, <1>5, <1>11, <1>16, <2>1, <2>3, <3>1 DEF Working, Ended
    <2> DEFINE Q == Waiting(ready, t, c)
    <2>5. Q \in Seq(Frames) /\ Waiting(ready', add, c) = Append(Q, f)
      <3>1. CASE t = << >>
        <4>1. Writes(ready, c) = 0
          BY <1>5, <2>1, <3>1 DEF One
        <4>2. Fronts(ready, c) = 0
          BY <1>3, <4>1, FrontCounted
        <4> QED BY <1>1, <1>3, <1>5, <2>2, <4>2 DEF Waiting
      <3>2. CASE t # << >>
        <4>1. Tail(Append(t, f)) = Append(Tail(t), f) /\ Tail(t) \in Seq(Frames)
          BY <1>2, <1>3, <3>2, HeadTailAppend, HeadTailProperties
        <4> QED BY <1>1, <1>3, <1>5, <2>2, <3>2, <4>1 DEF Waiting
      <3> QED BY <3>1, <3>2
    <2>6. Queued(c) = Q /\ Queued(c)' = Append(Q, f)
      <3>1. Queued(c) = Waiting(ready, tx_queue_[c], c) /\ Queued(c)' = Waiting(ready', tx_queue_'[c], c)
        BY <1>1, <1>2, <1>3, QueuedIs, QueuedIsNext
      <3> QED BY <1>11, <2>5, <3>1, Zenon DEF t
    <2> HIDE DEF Q
    <2>7. sent[c] = (d \o Q) \o (<<f>> \o p)
      BY <1>4, <1>5, <1>16, <2>6, Zenon DEF ClientInv, Stream, Posted, d
    <2>8. (d \o Q) \o (<<f>> \o p) = (d \o Append(Q, f)) \o p
      <3>1. d \in Seq(Frames) /\ Q \in Seq(Frames) /\ f \in Frames /\ p \in Seq(Frames)
        BY <1>2, <1>3, <1>6, <2>5
      <3>2. Joins(d, Q, f, p)
        BY <3>1, FrontMoves
      <3> QED BY <3>2 DEF Joins
    <2>9. sent'[c] = (d2c'[c] \o Queued(c)') \o Posted(c)'
      BY <1>1, <2>6, <2>7, <2>8, Zenon DEF Posted, d, p
    <2>10. Stream(c)'
      BY <1>1, <1>16, <2>9, Zenon DEF Stream
    <2>11. ClientInv(c)'
      BY <1>14, <2>4, <2>10 DEF ClientInv, Session
    <2> QED BY <1>12, <1>13, <2>11 DEF DaemonInv
  <1> QED BY <1>15, <1>16

\* r is q with handlers of c behind it, none of them an accept.
Behind(q, r, c, d) == r \in Seq(Handlers) /\ Accepts(r, d) = Accepts(q, d) /\ (c # d => Quiet(q, r, d))

\* A cancelled operation may join the queue behind everything else.
LEMMA Tacked ==
    ASSUME NEW q \in Seq(Handlers), NEW h \in Handlers, h.kind # "accept", NEW b \in BOOLEAN,
           NEW r, r = q \o (IF b THEN <<h>> ELSE << >>), NEW d
    PROVE  Behind(q, r, h.c, d)
  <1> SUFFICES r \in Seq(Handlers) /\ Accepts(r, d) = Accepts(q, d) /\ (h.c # d => Quiet(q, r, d))
    BY DEF Behind
  <1>1. CASE b
    <2>1. r = Append(q, h)
      BY <1>1
    <2>2. Added(q, h, r, d)
      BY <2>1, QueueAppend, Zenon
    <2>3. Accepts(q, d) \in Nat
      BY Tallies
    <2>4. h.c # d => Quiet(q, r, d)
      BY <2>1, QuietQueue, Zenon
    <2>5. One(h.kind = "accept" /\ h.c = d) = 0
      BY DEF One
    <2>6. r \in Seq(Handlers) /\ Accepts(r, d) = Accepts(q, d) + One(h.kind = "accept" /\ h.c = d)
      BY <2>2, Zenon DEF Added
    <2> QED BY <2>3, <2>4, <2>5, <2>6
  <1>2. CASE ~b
    <2>1. r = q \o << >>
      BY <1>2
    <2>2. r = q
      BY <2>1, ConcatEmptySeq
    <2> QED BY <2>2 DEF Quiet
  <1> QED BY <1>1, <1>2

\* What reached a client is the beginning of what it was sent.
LEMMA PrefixOfSent ==
    ASSUME Types, NEW c \in Clients, ClientInv(c)
    PROVE  IsPrefix(d2c[c], sent[c])
  <1>1. CASE sock[c] # "open"
    BY <1>1 DEF ClientInv, Stream
  <1>2. CASE sock[c] = "open"
    <2> DEFINE d == d2c[c]
               Q == Queued(c)
               P == Posted(c)
    <2>1. d \in Seq(Frames) /\ ready \in Seq(Handlers) /\ tx_queue_[c] \in Seq(Frames)
      BY DEF Types
    <2>2. Q \in Seq(Frames)
      BY <2>1, HeadTailProperties DEF Queued
    <2>3. P \in Seq(Frames)
      BY <2>1, EmptyBehind DEF Posted
    <2>4. sent[c] = (d \o Q) \o P
      BY <1>2 DEF ClientInv, Stream
    <2> HIDE DEF d, Q, P
    <2> DEFINE s == d \o Q
    <2>5. s \in Seq(Frames)
      BY <2>1, <2>2, ConcatProperties
    <2>6. IsPrefix(d, s)
      BY <2>1, <2>2, PrefixConcat
    <2> HIDE DEF s
    <2>7. IsPrefix(d, s \o P)
      BY <2>1, <2>3, <2>5, <2>6, PrefixConcat
    <2> QED BY <2>4, <2>7 DEF s, d
  <1> QED BY <1>1, <1>2

\* A handler that closes its session: the frames waiting are dropped and the
\* pending operations are cancelled.
LEMMA CloseStep ==
    ASSUME Types, DaemonInv, port' = port, ready # << >>,
           NEW h, h = Head(ready), NEW hs, hs = Tail(ready), h.kind \in {"read", "written"}, Close(h.c, hs),
           UNCHANGED <<peer, asked, c2d, d2c, sent, sessions_, running, batch, phase, link_state, events, stats>>,
           crashed' \in BOOLEAN
    PROVE  Types' /\ DaemonInv'
  <1> DEFINE c == h.c
             r == [Handler("read", c) EXCEPT !.res = "err"]
             w == [Handler("written", c) EXCEPT !.res = "err"]
             rd == "read" \in pending[c]
             wr == "write" \in pending[c]
             r1 == hs \o (IF rd THEN <<r>> ELSE << >>)
             r2 == r1 \o (IF wr THEN <<w>> ELSE << >>)
  <1>1. /\ sock' = [sock EXCEPT ![c] = "closed"] /\ tx_queue_' = [tx_queue_ EXCEPT ![c] = << >>]
        /\ pending' = [pending EXCEPT ![c] = {}]
        /\ ready' = r2
    BY DEF Close
  <1>2. /\ h \in Handlers /\ c \in Clients /\ hs \in Seq(Handlers)
        /\ Ran(ready, h, hs, c)
        /\ \A e \in Clients : e # c => Quiet(ready, hs, e)
    BY RanFront, Zenon
  <1>3. r \in Handlers /\ r.kind = "read" /\ r.c = c /\ w \in Handlers /\ w.kind = "written" /\ w.c = c
    <2> HIDE DEF c
    <2>1. IsHandler(r, "read", c, "err") /\ IsHandler(w, "written", c, "err")
      BY <1>2, PlainHandler
    <2> HIDE DEF r, w
    <2> QED BY <2>1 DEF IsHandler
  <1> HIDE DEF c, r, w
  <1>4. rd \in BOOLEAN /\ wr \in BOOLEAN
    OBVIOUS
  <1>5. r1 = hs \o (IF rd THEN <<r>> ELSE << >>) /\ r2 = r1 \o (IF wr THEN <<w>> ELSE << >>)
    OBVIOUS
  <1> HIDE DEF rd, wr, r1, r2
  <1>6. r.kind # "accept" /\ w.kind # "accept"
    BY <1>3
  <1>7. r1 \in Seq(Handlers) /\ \A e : Accepts(r1, e) = Accepts(hs, e) /\ (e # c => Quiet(hs, r1, e))
    <2>1. ASSUME NEW e PROVE Behind(hs, r1, r.c, e)
      BY <1>2, <1>3, <1>4, <1>5, <1>6, Tacked, Zenon
    <2> QED BY <1>3, <2>1 DEF Behind
  <1>8. r2 \in Seq(Handlers) /\ \A e : Accepts(r2, e) = Accepts(r1, e) /\ (e # c => Quiet(r1, r2, e))
    <2>1. ASSUME NEW e PROVE Behind(r1, r2, w.c, e)
      BY <1>3, <1>4, <1>5, <1>6, <1>7, Tacked, Zenon
    <2> QED BY <1>3, <2>1 DEF Behind
  <1>9. ready \in Seq(Handlers) /\ pending \in [Clients -> SUBSET {"read", "write"}]
        /\ tx_queue_ \in [Clients -> Seq(Frames)] /\ sock \in [Clients -> {"none", "open", "closed"}]
    BY DEF Types
  <1>10. /\ sock' \in [Clients -> {"none", "open", "closed"}] /\ sock'[c] = "closed"
         /\ pending' \in [Clients -> SUBSET {"read", "write"}] /\ pending'[c] = {}
         /\ \A e \in Clients : e # c => sock'[e] = sock[e] /\ pending'[e] = pending[e]
    BY <1>1, <1>2, <1>9
  <1>11. /\ tx_queue_' \in [Clients -> Seq(Frames)] /\ tx_queue_'[c] = << >>
         /\ \A e \in Clients : e # c => tx_queue_'[e] = tx_queue_[e]
    <2>1. << >> \in Seq(Frames)
      OBVIOUS
    <2> QED BY <1>1, <1>2, <1>9, <2>1
  <1>12. Types'
    BY <1>1, <1>8, <1>10, <1>11 DEF Types
  <1>13. ASSUME NEW e \in Clients, e # c PROVE ClientInv(e)'
    <2>1. Quiet(ready, ready', e)
      BY <1>1, <1>2, <1>7, <1>8, <1>13 DEF Quiet
    <2>2. Same(e)
      BY <1>10, <1>11, <1>13, <2>1 DEF Same
    <2> QED BY <1>1, <1>8, <1>9, <2>2, Untouched DEF DaemonInv
  <1>14. ClientInv(c)
    BY <1>2 DEF DaemonInv
  <1>15. Accepts(ready, c) = Accepts(hs, c) /\ (Reads(ready, c) # 0 \/ Writes(ready, c) # 0)
    BY <1>2 DEF Ran, One
  <1>16. sock[c] # "none"
    BY <1>14, <1>15 DEF ClientInv, Session, Unborn
  <1>17. Once(c)'
    <2>1. Accepts(ready', c) = Accepts(ready, c)
      BY <1>1, <1>7, <1>8, <1>15
    <2> QED BY <1>10, <1>14, <1>16, <2>1 DEF ClientInv, Session, Once, One
  <1>18. Unborn(c)' /\ Working(c)' /\ Ended(c)' /\ View(c)'
    BY <1>10, <1>11 DEF Unborn, Working, Ended, View
  <1>19. Greeted(c)'
    BY <1>14, <1>16 DEF ClientInv, Greeted
  <1>20. Stream(c)'
    <2>1. IsPrefix(d2c[c], sent[c])
      BY <1>2, <1>14, PrefixOfSent
    <2> QED BY <1>10, <2>1 DEF Stream
  <1>21. ClientInv(c)'
    BY <1>17, <1>18, <1>19, <1>20 DEF ClientInv, Session
  <1> QED BY <1>12, <1>13, <1>21 DEF DaemonInv

\* on_write: the frame that was written leaves the queue, and the next is written.
LEMMA WrittenStep ==
    ASSUME Types, DaemonInv, port' = port, ready # << >>,
           NEW h, h = Head(ready), NEW hs, hs = Tail(ready), RunWritten(h, hs)
    PROVE  Types' /\ DaemonInv'
  <1> DEFINE c == h.c
             t == tx_queue_[c]
             d == d2c[c]
  <1>1. /\ h.kind = "written"
        /\ UNCHANGED <<peer, asked, c2d, d2c, sent, sessions_, running, batch, phase, link_state, events, stats>>
        /\ \/ h.res = "err" /\ Close(h.c, hs) /\ UNCHANGED crashed
           \/ h.res = "ok" /\ t # << >> /\ DoWrite(c, Tail(t)) /\ ready' = hs /\ UNCHANGED <<sock, crashed>>
           \/ h.res = "ok" /\ t = << >> /\ crashed' \in BOOLEAN /\ ready' = hs /\ UNCHANGED <<sock, tx_queue_, pending>>
    BY DEF RunWritten, clientVars, linkVars
  <1>2. /\ h \in Handlers /\ c \in Clients /\ hs \in Seq(Handlers)
        /\ Ran(ready, h, hs, c)
        /\ \A e \in Clients : e # c => Quiet(ready, hs, e)
    BY RanFront, Zenon
  <1>3. ready \in Seq(Handlers) /\ pending \in [Clients -> SUBSET {"read", "write"}]
        /\ t \in Seq(Frames) /\ d \in Seq(Frames) /\ tx_queue_ \in [Clients -> Seq(Frames)]
        /\ sock \in [Clients -> {"none", "open", "closed"}] /\ crashed \in BOOLEAN
    BY <1>2 DEF Types
  <1>4. ClientInv(c)
    BY <1>2 DEF DaemonInv
  <1>5. CASE h.res = "err" /\ Close(h.c, hs) /\ UNCHANGED crashed
    BY <1>1, <1>3, <1>5, CloseStep
  <1>6. ASSUME h.res = "ok" PROVE /\ Accepts(ready, c) = Accepts(hs, c) /\ Reads(ready, c) = Reads(hs, c)
        /\ Writes(ready, c) = Writes(hs, c) + 1 /\ Fronts(ready, c) = Fronts(hs, c) + 1
        /\ Writes(hs, c) \in Nat /\ Fronts(hs, c) \in Nat /\ Reads(hs, c) \in Nat
        /\ FramesFor(ready, c) = FramesFor(hs, c)
        /\ sock[c] # "none"
    <2>1. /\ Accepts(ready, c) = Accepts(hs, c) /\ Reads(ready, c) = Reads(hs, c)
          /\ Writes(ready, c) = Writes(hs, c) + 1 /\ Fronts(ready, c) = Fronts(hs, c) + 1
          /\ Writes(hs, c) \in Nat /\ Fronts(hs, c) \in Nat /\ Reads(hs, c) \in Nat
          /\ FramesFor(ready, c) = FramesFor(hs, c)
      BY <1>1, <1>2, <1>6 DEF Ran, One
    <2>2. sock[c] # "none"
      BY <1>4, <2>1 DEF ClientInv, Session, Unborn
    <2> QED BY <2>1, <2>2
  <1> HIDE DEF c
  <1>7. CASE h.res = "ok" /\ t # << >> /\ DoWrite(c, Tail(t)) /\ ready' = hs /\ UNCHANGED <<sock, crashed>>
    <2>1. sock[c] = "open"
      BY <1>3, <1>4, <1>6, <1>7, <1>2 DEF ClientInv, Session, Ended
    <2> DEFINE u == Tail(t)
               ops == IF u # << >> THEN pending[c] \union {"write"} ELSE pending[c]
    <2>2. u \in Seq(Frames)
      BY <1>3, <1>7, HeadTailProperties
    <2>3. tx_queue_' = [tx_queue_ EXCEPT ![c] = u] /\ pending' = [pending EXCEPT ![c] = ops]
      BY <1>2, <1>3, <1>7, <2>1 DEF DoWrite
    <2> HIDE DEF u
    <2>4. ops \in SUBSET {"read", "write"}
      BY <1>2, <1>3
    <2> HIDE DEF ops
    <2>5. /\ tx_queue_' \in [Clients -> Seq(Frames)] /\ tx_queue_'[c] = u
          /\ pending' \in [Clients -> SUBSET {"read", "write"}] /\ pending'[c] = ops
          /\ \A e \in Clients : e # c => tx_queue_'[e] = tx_queue_[e] /\ pending'[e] = pending[e]
      BY <1>2, <1>3, <2>2, <2>3, <2>4
    <2>6. Types'
      BY <1>1, <1>2, <1>7, <2>5 DEF Types
    <2>7. ASSUME NEW e \in Clients, e # c PROVE ClientInv(e)'
      <3>1. Same(e)
        BY <1>1, <1>2, <1>7, <2>5, <2>7 DEF Same
      <3> QED BY <1>2, <1>3, <1>7, <3>1, Untouched DEF DaemonInv
    <2>8. /\ Contains(sessions_, c)
          /\ One("read" \in pending[c]) + Reads(ready, c) + One(running = c) = 1
          /\ One("write" \in pending[c]) + Writes(ready, c) = 1
      <3>1. One(t # << >>) = 1
        BY <1>7 DEF One
      <3> QED BY <1>4, <2>1, <3>1 DEF ClientInv, Session, Working
    <2>9. Writes(hs, c) = 0 /\ "write" \notin pending[c]
      BY <1>6, <1>7, <2>8 DEF One
    <2>10. Fronts(hs, c) = 0 /\ Fronts(ready, c) = 1
      <3>1. hs \in Seq(Handlers) /\ Writes(hs, c) = 0
        BY <1>2, <2>9
      <3>2. Fronts(hs, c) = 0
        BY <3>1, FrontCounted
      <3> QED BY <1>6, <1>7, <3>2
    <2>11. Once(c)' /\ Unborn(c)' /\ Ended(c)'
      BY <1>1, <1>4, <1>6, <1>7, <2>1 DEF ClientInv, Session, Once, Unborn, Ended
    <2>12. Working(c)'
      <3>1. One("read" \in ops) = One("read" \in pending[c]) /\ One("write" \in ops) = One(u # << >>)
        BY <2>9 DEF ops, One
      <3>2. One(u # << >>) + 0 = One(u # << >>)
        BY DEF One
      <3> QED BY <1>1, <1>6, <1>7, <2>5, <2>8, <2>9, <3>1, <3>2 DEF Working
    <2>13. Queued(c) = u /\ Queued(c)' = u
      <3>1. Queued(c) = Waiting(ready, tx_queue_[c], c) /\ Queued(c)' = Waiting(ready', tx_queue_'[c], c)
        BY <1>2, <1>3, <1>7, QueuedIs, QueuedIsNext
      <3> QED BY <1>7, <2>5, <2>10, <3>1 DEF Waiting, u
    <2>14. Posted(c)' = Posted(c)
      BY <1>6, <1>7 DEF Posted
    <2>15. Stream(c)'
      BY <1>1, <1>4, <1>7, <2>13, <2>14, Zenon DEF ClientInv, Stream
    <2>16. Greeted(c)' /\ View(c)'
      BY <1>1, <1>4, <1>7 DEF ClientInv, Greeted, View, LinkFrames
    <2>17. ClientInv(c)'
      BY <2>11, <2>12, <2>15, <2>16 DEF ClientInv, Session
    <2> QED BY <2>6, <2>7, <2>17 DEF DaemonInv
  <1>8. CASE h.res = "ok" /\ t = << >> /\ crashed' \in BOOLEAN /\ ready' = hs /\ UNCHANGED <<sock, tx_queue_, pending>>
    <2>1. Types'
      BY <1>1, <1>2, <1>8 DEF Types
    <2>2. ASSUME NEW e \in Clients, e # c PROVE ClientInv(e)'
      <3>1. Same(e)
        BY <1>1, <1>2, <1>8, <2>2 DEF Same
      <3> QED BY <1>2, <1>3, <1>8, <3>1, Untouched DEF DaemonInv
    <2>3. sock[c] = "closed"
      <3>1. One(t # << >>) = 0 /\ One("write" \in pending[c]) \in Nat
        BY <1>8 DEF One
      <3>2. sock[c] # "open"
        BY <1>4, <1>6, <1>8, <3>1 DEF ClientInv, Session, Working
      <3> QED BY <1>2, <1>3, <1>6, <1>8, <3>2
    <2>4. Once(c)' /\ Unborn(c)' /\ Working(c)' /\ Ended(c)'
      BY <1>1, <1>4, <1>6, <1>8, <2>3 DEF ClientInv, Session, Once, Unborn, Working, Ended
    <2>5. Stream(c)' /\ View(c)' /\ Greeted(c)'
      BY <1>1, <1>4, <1>8, <2>3 DEF ClientInv, Stream, View, Greeted
    <2>6. ClientInv(c)'
      BY <2>4, <2>5 DEF ClientInv, Session
    <2> QED BY <2>1, <2>2, <2>6 DEF DaemonInv
  <1> QED BY <1>1, <1>5, <1>7, <1>8

\* on_read: the frames of a successful read are served by this session alone.
LEMMA ReadHandlerStep ==
    ASSUME Types, DaemonInv, port' = port, ready # << >>, running = NoClient,
           NEW h, h = Head(ready), NEW hs, hs = Tail(ready), RunRead(h, hs)
    PROVE  Types' /\ DaemonInv'
  <1> DEFINE c == h.c
  <1>1. /\ h.kind = "read"
        /\ UNCHANGED <<peer, asked, c2d, d2c, sent, sessions_, phase, link_state, events, stats, crashed>>
        /\ \/ h.res = "err" /\ Close(h.c, hs) /\ UNCHANGED <<running, batch>>
           \/ h.res = "ok" /\ running' = c /\ batch' = h.frames /\ ready' = hs /\ UNCHANGED <<sock, tx_queue_, pending>>
    BY DEF RunRead, clientVars, linkVars
  <1>2. /\ h \in Handlers /\ c \in Clients /\ hs \in Seq(Handlers)
        /\ Ran(ready, h, hs, c)
        /\ \A e \in Clients : e # c => Quiet(ready, hs, e)
        /\ h.frames \in Seq(Requests)
    BY RanFront, Zenon
  <1>3. ready \in Seq(Handlers) /\ crashed \in BOOLEAN /\ sock \in [Clients -> {"none", "open", "closed"}]
    BY DEF Types
  <1>4. ClientInv(c)
    BY <1>2 DEF DaemonInv
  <1>5. CASE h.res = "err" /\ Close(h.c, hs) /\ UNCHANGED <<running, batch>>
    BY <1>1, <1>3, <1>5, CloseStep
  <1>6. CASE h.res = "ok" /\ running' = c /\ batch' = h.frames /\ ready' = hs /\ UNCHANGED <<sock, tx_queue_, pending>>
    <2>1. /\ Accepts(ready, c) = Accepts(hs, c) /\ Reads(ready, c) = Reads(hs, c) + 1
          /\ Writes(ready, c) = Writes(hs, c) /\ Fronts(ready, c) = Fronts(hs, c)
          /\ Reads(hs, c) \in Nat /\ FramesFor(ready, c) = FramesFor(hs, c)
      BY <1>1, <1>2 DEF Ran, One
    <2>2. sock[c] # "none"
      BY <1>4, <2>1 DEF ClientInv, Session, Unborn
    <2> HIDE DEF c
    <2>3. Types'
      BY <1>1, <1>2, <1>6 DEF Types
    <2>4. ASSUME NEW e \in Clients, e # c PROVE ClientInv(e)'
      <3>1. running # e
        BY ClientsAssumption
      <3>2. Same(e)
        BY <1>1, <1>2, <1>6, <2>4, <3>1 DEF Same
      <3> QED BY <1>2, <1>3, <1>6, <3>2, Untouched DEF DaemonInv
    <2>5. running # c
      BY <1>2, ClientsAssumption
    <2>6. Working(c)'
      <3>1. ASSUME sock[c] = "open" PROVE
               /\ Contains(sessions_', c)
               /\ One("read" \in pending'[c]) + Reads(ready', c) + One(running' = c) = 1
               /\ One("write" \in pending'[c]) + Writes(ready', c) = One(tx_queue_'[c] # << >>)
        <4>1. /\ Contains(sessions_, c)
              /\ One("read" \in pending[c]) + Reads(ready, c) + One(running = c) = 1
              /\ One("write" \in pending[c]) + Writes(ready, c) = One(tx_queue_[c] # << >>)
          BY <1>4, <3>1 DEF ClientInv, Session, Working
        <4>2. One(running = c) = 0 /\ One(running' = c) = 1 /\ One("read" \in pending[c]) \in {0, 1}
          BY <1>6, <2>5 DEF One
        <4> QED BY <1>1, <1>6, <2>1, <4>1, <4>2
      <3> QED BY <1>6, <3>1 DEF Working
    <2>7. Once(c)' /\ Unborn(c)' /\ Ended(c)'
      BY <1>1, <1>4, <1>6, <2>1, <2>2 DEF ClientInv, Session, Once, Unborn, Ended
    <2>8. Queued(c)' = Queued(c)
      <3>1. Queued(c) = Waiting(ready, tx_queue_[c], c) /\ Queued(c)' = Waiting(ready', tx_queue_'[c], c)
        BY <1>2, <1>3, <1>6, QueuedIs, QueuedIsNext
      <3> QED BY <1>6, <2>1, <3>1 DEF Waiting
    <2>9. Posted(c)' = Posted(c)
      BY <1>6, <2>1 DEF Posted
    <2>10. Stream(c)'
      BY <1>1, <1>4, <1>6, <2>8, <2>9, Zenon DEF ClientInv, Stream
    <2>11. Greeted(c)' /\ View(c)'
      BY <1>1, <1>4, <1>6 DEF ClientInv, Greeted, View, LinkFrames
    <2>12. ClientInv(c)'
      BY <2>6, <2>7, <2>10, <2>11 DEF ClientInv, Session
    <2> QED BY <2>3, <2>4, <2>12 DEF DaemonInv
  <1> QED BY <1>1, <1>5, <1>6

\* The end of on_read: the session reads again unless it was closed meanwhile.
LEMMA EndReadStep ==
    ASSUME Types, DaemonInv, port' = port, EndRead
    PROVE  Types' /\ DaemonInv'
  <1>0. PICK c \in Clients : running = c
    BY DEF EndRead, Types
  <1> DEFINE h == [Handler("read", c) EXCEPT !.res = "err"]
  <1>1. /\ running = c /\ running' = NoClient
        /\ IF sock[c] = "open"
           THEN pending' = [pending EXCEPT ![c] = @ \union {"read"}] /\ ready' = ready
           ELSE ready' = Append(ready, h) /\ pending' = pending
        /\ UNCHANGED <<peer, asked, sock, tx_queue_, d2c, c2d, sent, sessions_, batch, phase, link_state, events,
                       stats, crashed>>
    BY <1>0 DEF EndRead, clientVars, linkVars
  <1>2. ready \in Seq(Handlers) /\ sock \in [Clients -> {"none", "open", "closed"}]
        /\ pending \in [Clients -> SUBSET {"read", "write"}]
    BY DEF Types
  <1>3. h \in Handlers /\ h.kind = "read" /\ h.c = c
    <2>1. IsHandler(h, "read", c, "err")
      BY PlainHandler
    <2> HIDE DEF h
    <2> QED BY <2>1 DEF IsHandler
  <1> HIDE DEF h
  <1>4. ClientInv(c)
    BY DEF DaemonInv
  <1>5. sock[c] # "none"
    BY <1>1, <1>4 DEF ClientInv, Session, Unborn
  <1>6. NoClient \notin Clients
    BY ClientsAssumption
  <1>7. CASE sock[c] = "open"
    <2>1. pending' = [pending EXCEPT ![c] = @ \union {"read"}] /\ ready' = ready
      BY <1>1, <1>7
    <2>2. pending' \in [Clients -> SUBSET {"read", "write"}] /\ pending'[c] = pending[c] \union {"read"}
          /\ \A e \in Clients : e # c => pending'[e] = pending[e]
      BY <1>2, <2>1
    <2>3. Types'
      BY <1>1, <2>1, <2>2 DEF Types
    <2>4. ASSUME NEW e \in Clients, e # c PROVE ClientInv(e)'
      <3>1. Same(e)
        BY <1>1, <1>6, <2>1, <2>2, <2>4 DEF Same, Quiet
      <3> QED BY <1>2, <2>1, <3>1, Untouched DEF DaemonInv
    <2>5. /\ Contains(sessions_, c)
          /\ One("read" \in pending[c]) + Reads(ready, c) + One(running = c) = 1
          /\ One("write" \in pending[c]) + Writes(ready, c) = One(tx_queue_[c] # << >>)
      BY <1>4, <1>7 DEF ClientInv, Session, Working
    <2>6. Reads(ready, c) \in Nat
      BY <1>2, Tallies
    <2>7. Reads(ready, c) = 0
      BY <1>1, <2>5, <2>6 DEF One
    <2>8. One("read" \in pending'[c]) = 1 /\ One(running' = c) = 0 /\ One("write" \in pending'[c]) = One("write" \in pending[c])
      BY <1>1, <1>2, <1>6, <2>2 DEF One
    <2>9. Working(c)'
      BY <1>1, <2>1, <2>5, <2>7, <2>8 DEF Working
    <2>10. Once(c)' /\ Unborn(c)' /\ Ended(c)'
      BY <1>1, <1>4, <1>7, <2>1 DEF ClientInv, Session, Once, Unborn, Ended
    <2>11. Stream(c)'
      BY <1>1, <1>4, <2>1 DEF ClientInv, Stream, Queued, FrontWritten, Posted
    <2>12. Greeted(c)' /\ View(c)'
      BY <1>1, <1>4 DEF ClientInv, Greeted, View, LinkFrames
    <2>13. ClientInv(c)'
      BY <2>9, <2>10, <2>11, <2>12 DEF ClientInv, Session
    <2> QED BY <2>3, <2>4, <2>13 DEF DaemonInv
  <1>8. CASE sock[c] # "open"
    <2>1. ready' = Append(ready, h) /\ pending' = pending
      BY <1>1, <1>8
    <2>2. ready' \in Seq(Handlers)
      BY <1>2, <1>3, <2>1, AppendProperties
    <2>3. Types'
      BY <1>1, <2>1, <2>2 DEF Types
    <2>4. ASSUME NEW e \in Clients, e # c PROVE ClientInv(e)'
      <3>1. Quiet(ready, ready', e)
        BY <1>2, <1>3, <2>1, <2>4, QuietQueue
      <3>2. Same(e)
        BY <1>1, <1>6, <2>1, <2>4, <3>1 DEF Same
      <3> QED BY <1>2, <2>2, <3>2, Untouched DEF DaemonInv
    <2>5. Added(ready, h, ready', c)
      BY <1>2, <1>3, <2>1, QueueAppend
    <2>6. Accepts(ready, c) \in Nat
      BY <1>2, Tallies
    <2>7. Accepts(ready', c) = Accepts(ready, c)
      BY <1>3, <2>5, <2>6 DEF Added, One
    <2>8. Once(c)' /\ Unborn(c)' /\ Working(c)' /\ Ended(c)'
      BY <1>1, <1>4, <1>5, <1>8, <2>1, <2>7 DEF ClientInv, Session, Once, Unborn, Working, Ended
    <2>9. Stream(c)' /\ View(c)' /\ Greeted(c)'
      BY <1>1, <1>4, <1>8 DEF ClientInv, Stream, View, Greeted
    <2>10. ClientInv(c)'
      BY <2>8, <2>9 DEF ClientInv, Session
    <2> QED BY <2>3, <2>4, <2>10 DEF DaemonInv
  <1> QED BY <1>7, <1>8

------------------------------------------------------------------------------
(* Steps of App.                                                            *)

\* An open session has a handler, and is therefore listed.
LEMMA OpenListed ==
    ASSUME Types, NEW c \in Clients, ClientInv(c)
    PROVE  /\ sock[c] = "open" => Contains(Listed, c)
           /\ sock[c] = "none" => ~Contains(Listed, c) /\ running # c
  <1>1. Contains(Listed, c) <=> Contains(sessions_, c) /\ Alive(c)
    BY ListedType
  <1>2. ready \in Seq(Handlers)
    BY DEF Types
  <1>3. ASSUME sock[c] = "open" PROVE Contains(Listed, c)
    <2>1. Contains(sessions_, c) /\ One("read" \in pending[c]) + Reads(ready, c) + One(running = c) = 1
      BY <1>3 DEF ClientInv, Session, Working
    <2>2. "read" \in pending[c] \/ running = c \/ Reads(ready, c) # 0
      BY <2>1 DEF One
    <2>3. Alive(c)
      BY <1>2, <2>2, FrontCounted DEF Alive
    <2> QED BY <1>1, <2>1, <2>3
  <1>4. ASSUME sock[c] = "none" PROVE ~Contains(Listed, c) /\ running # c
    BY <1>1, <1>4 DEF ClientInv, Session, Unborn
  <1> QED BY <1>3, <1>4

\* Frames that App hands out keep the invariant of every client.
LEMMA AppClient ==
    ASSUME Types, NEW c \in Clients, ClientInv(c), NEW to, NEW fs, Hands(to, fs, link_state'),
           HandOut(ready, to, fs), sessions_' = sessions_ \/ sessions_' = Listed,
           UNCHANGED <<clientVars, sessionVars, running>>
    PROVE  ClientInv(c)'
  <1> DEFINE g == Given(to, fs, c)
  <1>1. ready \in Seq(Handlers) /\ sent[c] \in Seq(Frames) /\ d2c[c] \in Seq(Frames)
        /\ tx_queue_[c] \in Seq(Frames) /\ sent \in [Clients -> Seq(Frames)] /\ link_state \in States
    BY DEF Types
  <1>2. to \in Seq(Clients) /\ Distinct(to) /\ fs \in Seq(Frames) /\ Len(fs) <= 2
        /\ (to = Listed \/ (running \in Clients /\ to = <<running>>))
    BY DEF Hands
  <1>3. /\ ready' \in Seq(Handlers)
        /\ Accepts(ready', c) = Accepts(ready, c)
        /\ Reads(ready', c) = Reads(ready, c)
        /\ Writes(ready', c) = Writes(ready, c)
        /\ Fronts(ready', c) = Fronts(ready, c)
        /\ FramesFor(ready', c) = FramesFor(ready, c) \o g
        /\ sent'[c] = sent[c] \o g
    BY <1>1, <1>2, HandedOut, Zenon
  <1>4. g \in Seq(Frames)
    BY <1>2 DEF Given
  <1>5. UNCHANGED <<peer, sock, pending, tx_queue_, d2c, running>>
    BY DEF clientVars, sessionVars
  <1>6. /\ sock[c] = "open" => Contains(Listed, c)
        /\ sock[c] = "none" => ~Contains(Listed, c) /\ running # c
    BY OpenListed
  <1>7. sock[c] = "none" => g = << >>
    <2>1. ASSUME sock[c] = "none" PROVE ~Contains(to, c)
      <3>1. CASE to = Listed
        BY <1>6, <2>1, <3>1
      <3>2. CASE running \in Clients /\ to = <<running>>
        <4> DEFINE r == running
        <4>1. r # c /\ r \in Clients /\ to = <<r>>
          BY <1>6, <2>1, <3>2
        <4> HIDE DEF r
        <4> QED BY <4>1, ContainsOne
      <3> QED BY <1>2, <3>1, <3>2
    <2> QED BY <2>1 DEF Given
  <1> HIDE DEF g
  <1>8. (Contains(sessions_', c) => Contains(sessions_, c))
        /\ (sock[c] = "open" => Contains(sessions_', c))
    <2>1. Contains(Listed, c) => Contains(sessions_, c)
      BY ListedType
    <2>2. sock[c] = "open" => Contains(sessions_, c)
      BY DEF ClientInv, Session, Working
    <2> QED BY <1>6, <2>1, <2>2
  <1>9. Once(c)' /\ Ended(c)'
    BY <1>3, <1>5 DEF ClientInv, Session, Once, Ended
  <1>10. Working(c)'
    <2>1. ASSUME sock[c] = "open" PROVE
             /\ Contains(sessions_', c)
             /\ One("read" \in pending'[c]) + Reads(ready', c) + One(running' = c) = 1
             /\ One("write" \in pending'[c]) + Writes(ready', c) = One(tx_queue_'[c] # << >>)
      <3>1. /\ One("read" \in pending[c]) + Reads(ready, c) + One(running = c) = 1
            /\ One("write" \in pending[c]) + Writes(ready, c) = One(tx_queue_[c] # << >>)
        BY <2>1 DEF ClientInv, Session, Working
      <3> QED BY <1>3, <1>5, <1>8, <2>1, <3>1
    <2> QED BY <1>5, <2>1 DEF Working
  <1>11. Unborn(c)'
    <2>1. ASSUME sock[c] = "none"
          PROVE  Posted(c)' = << >> /\ sent'[c] = << >>
      <3>1. FramesFor(ready, c) = << >> /\ sent[c] = << >> /\ g = << >>
        BY <1>7, <2>1 DEF ClientInv, Session, Unborn, Posted
      <3>2. << >> \o << >> = << >>
        OBVIOUS
      <3> QED BY <1>3, <3>1, <3>2, Zenon DEF Posted
    <2> QED BY <1>3, <1>5, <1>8, <2>1 DEF ClientInv, Session, Unborn
  <1>12. Stream(c)'
    <2>1. CASE sock[c] = "open"
      <3> DEFINE x == d2c[c] \o Queued(c)
                 p == Posted(c)
      <3>1. Queued(c) \in Seq(Frames)
        BY <1>1, HeadTailProperties DEF Queued
      <3>2. x \in Seq(Frames)
        BY <1>1, <3>1, ConcatProperties
      <3>3. p \in Seq(Frames)
        BY <1>1, EmptyBehind DEF Posted
      <3>4. sent[c] = x \o p
        BY <2>1 DEF ClientInv, Stream
      <3>5. Queued(c)' = Queued(c)
        <4>1. Queued(c) = Waiting(ready, tx_queue_[c], c) /\ Queued(c)' = Waiting(ready', tx_queue_'[c], c)
          BY <1>1, <1>3, QueuedIs, QueuedIsNext
        <4> QED BY <1>3, <1>5, <4>1 DEF Waiting
      <3>6. Posted(c)' = p \o g
        BY <1>3 DEF Posted
      <3>7. d2c'[c] \o Queued(c)' = x
        BY <1>5, <3>5
      <3> HIDE DEF x, p
      <3>8. (x \o p) \o g = x \o (p \o g)
        BY <1>4, <3>2, <3>3, Associative, SMTT(30)
      <3>9. sent'[c] = (d2c'[c] \o Queued(c)') \o Posted(c)'
        BY <1>3, <3>4, <3>6, <3>7, <3>8, Zenon
      <3> QED BY <1>5, <2>1, <3>9, Zenon DEF Stream
    <2>2. CASE sock[c] # "open"
      <3>1. IsPrefix(d2c[c], sent[c])
        BY <2>2 DEF ClientInv, Stream
      <3> DEFINE d == d2c[c]
                 s == sent[c]
      <3>2. d \in Seq(Frames) /\ s \in Seq(Frames) /\ IsPrefix(d, s)
        BY <1>1, <3>1
      <3> HIDE DEF d, s
      <3>3. IsPrefix(d, s \o g)
        BY <1>4, <3>2, PrefixConcat
      <3> QED BY <1>3, <1>5, <2>2, <3>3 DEF Stream, d, s
    <2> QED BY <2>1, <2>2
  <1>13. Greeted(c)'
    <2>1. ASSUME sock[c] # "none"
          PROVE  Len(sent'[c]) >= 2 /\ sent'[c][1] = Hello /\ sent'[c][2].type = "LinkState"
      <3> DEFINE s == sent[c]
      <3>1. s \in Seq(Frames) /\ Len(s) >= 2 /\ s[1] = Hello /\ s[2].type = "LinkState"
        BY <1>1, <2>1 DEF ClientInv, Greeted
      <3>2. sent'[c] = s \o g
        BY <1>3
      <3> HIDE DEF s
      <3>3. Len(s \o g) >= 2 /\ (s \o g)[1] = s[1] /\ (s \o g)[2] = s[2]
        BY <1>4, <3>1, FirstTwo
      <3> QED BY <3>1, <3>2, <3>3
    <2> QED BY <1>5, <2>1 DEF Greeted
  <1>14. View(c)'
    <2>1. ASSUME sock[c] = "open"
          PROVE  LinkFrames(c)' # << >> /\ Last(LinkFrames(c)') = LinkFrame(link_state')
      <3> DEFINE s == sent[c]
                 v == Select(s, LinkFrameSet)
                 u == Select(g, LinkFrameSet)
                 lf == LinkFrame(link_state')
      <3>1. s \in Seq(Frames) /\ v # << >> /\ Last(v) = LinkFrame(link_state) /\ sent'[c] = s \o g
        BY <1>1, <1>3, <2>1 DEF ClientInv, View, LinkFrames, LinkFrameSet
      <3> HIDE DEF s
      <3>2. Select(s \o g, LinkFrameSet) = v \o u
        BY <1>4, <3>1, SelectConcat
      <3>3. v \in Seq(Frames) /\ u \in Seq(Frames)
        BY <1>4, <3>1, SelectType
      <3>4. LinkFrames(c)' = v \o u
        <4>1. LinkFrames(c)' = Select(sent'[c], LinkFrameSet)
          BY DEF LinkFrames, LinkFrameSet
        <4> QED BY <3>1, <3>2, <4>1, Zenon
      <3> HIDE DEF v
      <3>5. Select(<< >>, LinkFrameSet) = << >>
        BY SelectEmpty
      <3>6. CASE link_state' = link_state /\ Select(fs, LinkFrameSet) \in {<< >>, <<lf>>}
        <4>1. g = fs \/ g = << >>
          BY DEF g, Given
        <4>2. u = << >> \/ u = <<lf>>
          BY <3>5, <3>6, <4>1, Zenon
        <4> HIDE DEF u
        <4>3. CASE u = << >>
          <5>1. v \o << >> = v
            BY <3>3
          <5> QED BY <3>1, <3>4, <3>6, <4>3, <5>1
        <4>4. CASE u = <<lf>>
          <5> HIDE DEF lf
          <5>1. u # << >> /\ Last(u) = lf
            BY <4>4 DEF Last
          <5>2. v \o u # << >> /\ Last(v \o u) = Last(u)
            BY <3>3, <5>1, LastConcat
          <5> QED BY <3>4, <5>1, <5>2 DEF lf
        <4> QED BY <4>2, <4>3, <4>4
      <3>7. CASE to = Listed /\ fs # << >> /\ Select(fs, LinkFrameSet) = fs /\ Last(fs) = lf
        <4>1. g = fs
          BY <1>6, <2>1, <3>7 DEF g, Given
        <4>2. u = fs
          BY <3>7, <4>1
        <4> HIDE DEF u, lf
        <4>3. u # << >> /\ Last(u) = lf
          BY <3>7, <4>2
        <4>4. v \o u # << >> /\ Last(v \o u) = Last(u)
          BY <3>3, <4>3, LastConcat
        <4> QED BY <3>4, <4>3, <4>4 DEF lf
      <3> QED BY <3>6, <3>7 DEF Hands
    <2> QED BY <1>5, <2>1 DEF View
  <1> QED BY <1>9, <1>10, <1>11, <1>12, <1>13, <1>14 DEF ClientInv, Session

\* Every step of App keeps the invariant.
LEMMA AppInv ==
    ASSUME Types, DaemonInv, port' = port, AppSteps
    PROVE  Types' /\ DaemonInv'
  <1>1. /\ \E to, fs : Hands(to, fs, link_state') /\ HandOut(ready, to, fs)
        /\ sessions_' = sessions_ \/ sessions_' = Listed
        /\ phase' \in {"idle", "connecting", "opened"}
        /\ stats' \in [rx_packets : Nat, tx_packets : Nat, decode_errors : Nat]
        /\ events' \in Nat /\ batch' \in Seq(Requests)
        /\ UNCHANGED <<clientVars, sessionVars, running, crashed>>
    BY AppStep
  <1>2. PICK to, fs : Hands(to, fs, link_state') /\ HandOut(ready, to, fs)
    BY <1>1, Zenon
  <1>3. ASSUME NEW c \in Clients PROVE ClientInv(c)'
    BY <1>1, <1>2, AppClient DEF DaemonInv
  <1>4. /\ ready \in Seq(Handlers) /\ sent \in [Clients -> Seq(Frames)]
        /\ sessions_ \in Seq(Clients) /\ Distinct(sessions_)
    BY DEF Types
  <1>5. /\ to \in Seq(Clients) /\ Distinct(to) /\ fs \in Seq(Frames) /\ Len(fs) <= 2 /\ link_state' \in States
    BY <1>2 DEF Hands
  <1>6. ready' \in Seq(Handlers) /\ sent' \in [Clients -> Seq(Frames)]
    BY <1>2, <1>4, <1>5, HandedOut, Zenon
  <1>7. sessions_' \in Seq(Clients) /\ Distinct(sessions_')
    BY <1>1, <1>4, ListedType
  <1>8. Types'
    BY <1>1, <1>5, <1>6, <1>7 DEF Types, clientVars, sessionVars
  <1> QED BY <1>3, <1>8 DEF DaemonInv

------------------------------------------------------------------------------
(* The theorems.                                                            *)

\* The invariant holds at the start of the daemon.
LEMMA InitInv ==
    ASSUME Init
    PROVE  Types /\ DaemonInv
  <1>1. Types
    <2>1. << >> \in Seq(Requests) /\ << >> \in Seq(Frames) /\ << >> \in Seq(Handlers) /\ << >> \in Seq(Clients)
      OBVIOUS
    <2>2. Distinct(<< >>)
      BY DEF Distinct
    <2> DEFINE e == << >>
    <2> HIDE DEF e
    <2>3. /\ c2d = [c \in Clients |-> e] /\ asked = c2d /\ d2c = c2d /\ tx_queue_ = c2d /\ sent = c2d
          /\ e \in Seq(Requests) /\ e \in Seq(Frames)
      BY <2>1 DEF Init, e
    <2>4. c2d \in [Clients -> Seq(Requests)] /\ asked \in [Clients -> Seq(Requests)]
          /\ d2c \in [Clients -> Seq(Frames)] /\ tx_queue_ \in [Clients -> Seq(Frames)] /\ sent \in [Clients -> Seq(Frames)]
      BY <2>3
    <2>5. sessions_ \in Seq(Clients) /\ Distinct(sessions_) /\ ready \in Seq(Handlers) /\ batch \in Seq(Requests)
      BY <2>1, <2>2 DEF Init
    <2>6. /\ peer \in [Clients -> {"never", "open", "closed"}]
          /\ sock \in [Clients -> {"none", "open", "closed"}]
          /\ pending \in [Clients -> SUBSET {"read", "write"}]
          /\ running \in Clients \union {NoClient}
          /\ port \in Ports /\ phase \in {"idle", "connecting", "opened"} /\ link_state \in States
          /\ events \in Nat /\ crashed \in BOOLEAN
      BY DEF Init, States
    <2>7. stats \in [rx_packets : Nat, tx_packets : Nat, decode_errors : Nat]
      BY DEF Init
    <2> QED BY <2>4, <2>5, <2>6, <2>7 DEF Types
  <1>2. ASSUME NEW c \in Clients PROVE ClientInv(c)
    <2>1. /\ peer[c] = "never" /\ sock[c] = "none" /\ pending[c] = {} /\ ready = << >> /\ sessions_ = << >>
          /\ running = NoClient /\ sent[c] = << >> /\ d2c[c] = << >> /\ tx_queue_[c] = << >>
      BY DEF Init
    <2>2. Accepts(<< >>, c) = 0 /\ Reads(<< >>, c) = 0 /\ Writes(<< >>, c) = 0
      BY CountEmpty DEF Accepts, Reads, Writes
    <2>3. Posted(c) = << >>
      BY <2>1, FramesForEmpty DEF Posted
    <2>4. ~Contains(sessions_, c) /\ running # c
      BY <2>1, ClientsAssumption DEF Contains
    <2>5. Session(c)
      BY <2>1, <2>2, <2>3, <2>4 DEF Session, Once, Unborn, Working, Ended, One
    <2>6. Stream(c)
      <3>1. IsPrefix(<< >>, << >>)
        BY DEF IsPrefix
      <3> QED BY <2>1, <3>1 DEF Stream
    <2>7. Greeted(c) /\ View(c)
      BY <2>1 DEF Greeted, View
    <2> QED BY <2>5, <2>6, <2>7 DEF ClientInv
  <1> QED BY <1>1, <1>2 DEF DaemonInv

\* Every step of the clients, the sockets and the daemon keeps it.
LEMMA NextInv ==
    ASSUME Types, DaemonInv, [Next]_vars
    PROVE  Types' /\ DaemonInv'
  <1>1. CASE UNCHANGED vars
    <2>1. UNCHANGED <<peer, asked, sock, pending, tx_queue_, d2c, c2d, sent, sessions_, ready, running, batch,
                      port, phase, link_state, events, stats, crashed>>
      BY <1>1 DEF vars, clientVars, sessionVars, linkVars
    <2>2. Types'
      BY <2>1 DEF Types
    <2>3. ready \in Seq(Handlers)
      BY DEF Types
    <2>4. ASSUME NEW c \in Clients PROVE ClientInv(c)'
      <3>1. Same(c)
        BY <2>1 DEF Same, Quiet
      <3> QED BY <2>1, <2>3, <3>1, Untouched DEF DaemonInv
    <2> QED BY <2>2, <2>4 DEF DaemonInv
  <1>2. CASE Next
    <2>0. port' = port
      BY <1>2 DEF Next
    <2>1. ASSUME NEW c \in Clients, Connect(c) PROVE Types' /\ DaemonInv'
      BY <2>0, <2>1, ConnectStep
    <2>2. ASSUME NEW c \in Clients, Leave(c) \/ \E r \in Requests : Request(c, r) PROVE Types' /\ DaemonInv'
      BY <2>0, <2>2, RequestStep
    <2>3. ASSUME NEW c \in Clients, WriteCompletes(c) PROVE Types' /\ DaemonInv'
      BY <2>0, <2>3, WriteStep
    <2>4. ASSUME NEW c \in Clients, IoFails(c) \/ \E n \in 1 .. MaxRequests : ReadCompletes(c, n)
          PROVE  Types' /\ DaemonInv'
      BY <2>0, <2>4, ReadStep
    <2>5. CASE RunHandler
      <3>1. PICK h, hs : h = Head(ready) /\ hs = Tail(ready)
        OBVIOUS
      <3>2. ready # << >> /\ running = NoClient
            /\ (RunAccept(h, hs) \/ RunSend(h, hs) \/ RunWritten(h, hs) \/ RunRead(h, hs))
        BY <2>5, <3>1 DEF RunHandler, Free
      <3>3. CASE RunAccept(h, hs)
        BY <2>0, <3>1, <3>2, <3>3, AcceptStep, Zenon
      <3>4. CASE RunSend(h, hs)
        BY <2>0, <3>1, <3>2, <3>4, SendStep, Zenon
      <3>5. CASE RunWritten(h, hs)
        BY <2>0, <3>1, <3>2, <3>5, WrittenStep, Zenon
      <3>6. CASE RunRead(h, hs)
        BY <2>0, <3>1, <3>2, <3>6, ReadHandlerStep, Zenon
      <3> QED BY <3>2, <3>3, <3>4, <3>5, <3>6
    <2>6. CASE EndRead
      BY <2>0, <2>6, EndReadStep
    <2>7. CASE AppSteps
      BY <2>0, <2>7, AppInv
    <2> QED BY <1>2, <2>1, <2>2, <2>3, <2>4, <2>5, <2>6, <2>7
          DEF Next, ClientNext, DaemonNext, SocketNext, LinkNext, AppSteps
  <1> QED BY <1>1, <1>2

\* The invariant that the theorems below rest on: of every client, its session's
\* handlers, stream, greeting and view.
THEOREM Inductive == Spec => [](Types /\ DaemonInv)
  <1>1. Init => Types /\ DaemonInv
    BY InitInv
  <1>2. (Types /\ DaemonInv) /\ [Next]_vars => (Types /\ DaemonInv)'
    BY NextInv
  <1> QED BY <1>1, <1>2, PTL DEF Spec

\* StateStore counts a packet that is not decoded as received, too, and as many
\* packets as the link brought.
Counters == stats.decode_errors <= stats.rx_packets
            /\ stats.rx_packets <= events /\ events <= MaxLinkEvents

\* Only on_packet counts them.
LEMMA CountersStep == Types /\ Counters /\ [Next]_vars => Counters'
  <1> SUFFICES ASSUME Types, Counters, [Next]_vars PROVE Counters'
    OBVIOUS
  <1>1. stats \in [rx_packets : Nat, tx_packets : Nat, decode_errors : Nat] /\ events \in Nat
        /\ MaxLinkEvents \in Nat
    BY LimitsAssumption DEF Types
  <1>2. ASSUME UNCHANGED <<stats, events>> PROVE Counters'
    BY <1>2 DEF Counters
  <1>3. ASSUME NEW d \in BOOLEAN, OnPacket(d) PROVE Counters'
    <2> DEFINE x == stats.rx_packets
               y == IF d THEN stats.decode_errors ELSE stats.decode_errors + 1
    <2>1. events' = events + 1 /\ events < MaxLinkEvents
          /\ stats' = [stats EXCEPT !.rx_packets = x + 1, !.decode_errors = y]
      BY <1>3 DEF OnPacket, Counted
    <2>2. x \in Nat /\ stats.decode_errors \in Nat /\ x <= events /\ stats.decode_errors <= x
      BY <1>1 DEF Counters
    <2>3. y <= x + 1 /\ x + 1 <= events + 1 /\ events + 1 <= MaxLinkEvents
      BY <1>1, <2>1, <2>2
    <2> HIDE DEF x, y
    <2>4. stats'.rx_packets = x + 1 /\ stats'.decode_errors = y
      BY <1>1, <2>1
    <2> QED BY <2>1, <2>3, <2>4 DEF Counters
  <1>4. CASE OnError
    <2>1. stats' = stats /\ events' = events + 1 /\ events < MaxLinkEvents
      BY <1>4 DEF OnError, Counted
    <2>2. stats.rx_packets \in Nat
      BY <1>1
    <2> QED BY <1>1, <2>1, <2>2 DEF Counters
  <1>5. CASE OnFrame
    <2> DEFINE r == Head(batch)
    <2>1. events' = events /\ (Command(r) \/ Answer(running, r) \/ Route(r))
      BY <1>5 DEF OnFrame
    <2> HIDE DEF r
    <2>2. stats' = stats \/ stats' = [stats EXCEPT !.tx_packets = @ + 1]
      BY <2>1, Zenon DEF Command, Answer, Route
    <2>3. stats'.rx_packets = stats.rx_packets /\ stats'.decode_errors = stats.decode_errors
      BY <1>1, <2>2
    <2> QED BY <2>1, <2>3 DEF Counters
  <1>6. CASE ClientNext
    BY <1>2, <1>6 DEF ClientNext, Connect, Leave, Request, linkVars
  <1>7. CASE SocketNext
    BY <1>2, <1>7 DEF SocketNext, ReadCompletes, WriteCompletes, IoFails, Completed, linkVars
  <1>8. CASE OnOpened
    BY <1>2, <1>8 DEF OnOpened
  <1>9. CASE RunHandler
    <2> DEFINE h == Head(ready)
               hs == Tail(ready)
    <2>1. RunAccept(h, hs) \/ RunSend(h, hs) \/ RunWritten(h, hs) \/ RunRead(h, hs)
      BY <1>9 DEF RunHandler
    <2> HIDE DEF h, hs
    <2>2. UNCHANGED <<stats, events>>
      BY <2>1, Zenon DEF RunAccept, RunSend, RunWritten, RunRead, linkVars
    <2> QED BY <1>2, <2>2
  <1>10. CASE EndRead
    BY <1>2, <1>10 DEF EndRead, linkVars
  <1>11. CASE UNCHANGED vars
    BY <1>2, <1>11 DEF vars, linkVars
  <1> QED BY <1>3, <1>4, <1>5, <1>6, <1>7, <1>8, <1>9, <1>10, <1>11, Zenon
          DEF Next, DaemonNext, LinkNext

\* Every variable of the daemon keeps its type, the queues of handlers, requests and
\* frames with their elements, and StateStore's counters fit together.
THEOREM TypeCorrect == Spec => []TypeOK
  <1>1. Init => Counters
    <2> SUFFICES ASSUME Init PROVE Counters
      OBVIOUS
    <2>1. stats.rx_packets = 0 /\ stats.decode_errors = 0 /\ events = 0
      BY DEF Init
    <2> QED BY <2>1, LimitsAssumption DEF Counters
  <1>2. Types /\ Counters => TypeOK
    BY DEF Counters, TypeOK
  <1> QED BY <1>1, <1>2, CountersStep, Inductive, PTL DEF Spec

\* do_read: on every path of every client's handlers an open session keeps exactly
\* one read, pending, queued or being served, and a closed one has none pending.
THEOREM ReadArmed == Spec => []OneRead
  <1>1. Types /\ DaemonInv => OneRead
    <2> SUFFICES ASSUME Types, DaemonInv, NEW c \in Clients
                 PROVE  LET queued == {i \in DOMAIN ready : ready[i].kind = "read" /\ ready[i].c = c}
                        IN /\ sock[c] = "open" =>
                                (IF "read" \in pending[c] THEN 1 ELSE 0) + Cardinality(queued)
                                    + (IF running = c THEN 1 ELSE 0) = 1
                           /\ sock[c] = "closed" => "read" \notin pending[c]
      BY Zenon DEF OneRead
    <2> DEFINE queued == {i \in DOMAIN ready : ready[i].kind = "read" /\ ready[i].c = c}
    <2>1. Working(c) /\ Ended(c)
      BY DEF DaemonInv, ClientInv, Session
    <2>2. queued = Where(ready, Of("read", c))
      <3>1. \A i \in DOMAIN ready : ready[i] \in Handlers
        BY ElementOfSeq, LenProperties DEF Types
      <3> QED BY <3>1 DEF Where, Of
    <2>3. Cardinality(queued) = Reads(ready, c)
      BY <2>2 DEF Reads, Count
    <2> HIDE DEF queued
    <2>4. sock[c] = "open" => (IF "read" \in pending[c] THEN 1 ELSE 0) + Cardinality(queued)
                                  + (IF running = c THEN 1 ELSE 0) = 1
      BY <2>1, <2>3 DEF Working, One
    <2>5. sock[c] = "closed" => "read" \notin pending[c]
      BY <2>1 DEF Ended
    <2> QED BY <2>4, <2>5 DEF queued
  <1> QED BY <1>1, Inductive, PTL

\* What a client gets from the daemon is what IpcServer and App sent it, complete
\* and in order as long as its session is open, and without a gap otherwise.
THEOREM StreamsInOrder == Spec => []StreamInOrder
  <1>1. DaemonInv => StreamInOrder
    BY Zenon DEF DaemonInv, ClientInv, Stream, StreamInOrder
  <1> QED BY <1>1, Inductive, PTL

\* The first two frames of every client are Hello and a LinkState, whatever the
\* link and the other clients do while it connects.
THEOREM Greeting == Spec => []HelloFirst
  <1>1. Types /\ DaemonInv => HelloFirst
    <2> SUFFICES ASSUME Types, DaemonInv, NEW c \in Clients
                 PROVE  /\ Len(d2c[c]) >= 1 => d2c[c][1] = Hello
                        /\ Len(d2c[c]) >= 2 => d2c[c][2].type = "LinkState"
      BY Zenon DEF HelloFirst
    <2>1. ClientInv(c)
      BY DEF DaemonInv
    <2> DEFINE d == d2c[c]
               s == sent[c]
    <2>2. d \in Seq(Frames) /\ s \in Seq(Frames)
      BY DEF Types
    <2>3. IsPrefix(d, s)
      BY <2>1, PrefixOfSent
    <2>4. CASE sock[c] = "none"
      BY <2>1, <2>4 DEF ClientInv, Session, Unborn
    <2>5. CASE sock[c] # "none"
      <3>1. Len(s) >= 2 /\ s[1] = Hello /\ s[2].type = "LinkState"
        BY <2>1, <2>5 DEF ClientInv, Greeted
      <3> HIDE DEF d, s
      <3>2. Len(d) <= Len(s) /\ (\A i \in 1 .. Len(d) : d[i] = s[i]) /\ Len(d) \in Nat
        BY <2>2, <2>3, PrefixIs, LenProperties
      <3>3. (Len(d) >= 1 => d[1] = Hello) /\ (Len(d) >= 2 => d[2].type = "LinkState")
        BY <3>1, <3>2
      <3> QED BY <3>3 DEF d
    <2> QED BY <2>4, <2>5
  <1> QED BY <1>1, Inductive, PTL

\* The last LinkState sent to an open session is the state StateStore holds: a
\* client that reads everything ends with the state of the link.
THEOREM NoStaleView == Spec => []ViewsAgree
  <1>1. DaemonInv => ViewsAgree
    <2>1. LinkFrame(link_state).arg = link_state
      BY DEF LinkFrame, Frame
    <2> QED BY <2>1 DEF DaemonInv, ClientInv, View, ViewsAgree
  <1> QED BY <1>1, Inductive, PTL

=============================================================================
