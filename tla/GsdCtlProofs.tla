---------------------------- MODULE GsdCtlProofs -----------------------------
(***************************************************************************)
(* Proofs about GsdCtl, for every set of runs and any number of link       *)
(* events: runs of gsdctl are clients of the daemon, so that what          *)
(* DaemonProofs says of clients holds for them; ping and stats succeed on  *)
(* their own answer only; a run fails for a reason of its own.             *)
(***************************************************************************)
EXTENDS GsdCtl, DaemonProofs

CtlStep == (CtlNext \/ (DaemonNext /\ UNCHANGED exit)) /\ UNCHANGED port

\* The handlers that bring the daemon requests of c, and those of them that bring
\* anything else than what c asked.
Carries(c) == {h \in Handlers : h.c = c /\ h.frames # << >>}
Strays(c) == {h \in Handlers : h.c = c /\ h.frames \notin {<< >>, asked[c]}}

\* In how many places the request of c is on its way: the connection, a queued
\* read handler, the read handler that runs.
Outstanding(c) == One(c2d[c] # << >>) + Count(ready, Carries(c)) + One(running = c /\ batch # << >>)

\* c writes one request, which is in one place at a time.
OneRequest(c) ==
    /\ Len(asked[c]) <= 1
    /\ Outstanding(c) <= One(asked[c] # << >>)
    /\ c2d[c] \in {<< >>, asked[c]}
    /\ Count(ready, Strays(c)) = 0
    /\ running = c => batch \in {<< >>, asked[c]}

\* The request of c was served.
Settled(c) == asked[c] # << >> /\ Outstanding(c) = 0

\* Frames that were sent to c, and what each tells about the past.
Told(c, f) == \E i \in DOMAIN sent[c] : sent[c][i] = f
Rejectable == {"SEND", "BAD"}
Means(c, f) ==
    /\ f.type = "QueryResult" => Settled(c)
    /\ f.type = "Error" /\ events = 0 => Settled(c) /\ asked[c][1] \in Rejectable
    /\ f = LinkFrame("Error") /\ events = 0 => port # "tcp"
Meant(c) == \A f \in Frames : Told(c, f) => Means(c, f)

\* On a TCP link only a failure of the device makes the state an error.
ErrorIsNoTcp == link_state = "Error" /\ events = 0 => port # "tcp"

\* What the exit status of a run says.
Exits(c) ==
    /\ exit[c] \in {"none", "0", "1"}
    /\ exit[c] # "none" => peer[c] = "closed"
    /\ exit[c] = "0" => asked[c] # << >> /\ (asked[c][1] \in {"PING", "STATS"} => Settled(c))
    /\ exit[c] = "1" =>
          \/ crashed \/ events > 0
          \/ asked[c] = << >>
          \/ Settled(c) /\ asked[c][1] \in Rejectable
          \/ port # "tcp" /\ Expected(asked[c][1]) = "LinkState"

CtlInv ==
    /\ exit \in [Clients -> {"none", "0", "1"}]
    /\ ErrorIsNoTcp
    /\ \A c \in Clients : OneRequest(c) /\ Meant(c) /\ Exits(c)

------------------------------------------------------------------------------
(* Runs of gsdctl are clients of the daemon.                                *)

\* A step of the daemon with gsdctl as its clients is a step of the daemon.
LEMMA StepIsDaemons ==
    ASSUME [CtlStep]_ctlVars
    PROVE  [Next]_vars
  <1>1. CASE UNCHANGED ctlVars
    BY <1>1 DEF ctlVars
  <1>2. CASE CtlStep
    <2>1. CASE DaemonNext
      BY <1>2, <2>1 DEF CtlStep, Next
    <2>2. ASSUME NEW c \in Clients,
                 \/ Starts(c) \/ (\E r \in Requests : WritesRequest(c, r))
                 \/ UsageError(c) \/ Returns(c) \/ LosesDaemon(c)
          PROVE  ClientNext
      <3>1. Connect(c) \/ Leave(c) \/ \E r \in Requests : Request(c, r)
        BY <2>2 DEF Starts, WritesRequest, UsageError, Returns, LosesDaemon
      <3> QED BY <3>1 DEF ClientNext
    <2> QED BY <1>2, <2>1, <2>2 DEF CtlStep, CtlNext, Next
  <1> QED BY <1>1, <1>2

\* Whatever holds of the daemon and any clients holds of the daemon and gsdctl.
THEOREM CtlImplementsDaemon == CtlSpec => Spec
  <1>1. CtlInit => Init
    BY DEF CtlInit
  <1>2. [CtlStep]_ctlVars => [Next]_vars
    BY StepIsDaemons
  <1>3. CtlSpec <=> CtlInit /\ [][CtlStep]_ctlVars
    BY DEF CtlSpec, CtlStep
  <1> QED BY <1>1, <1>2, <1>3, PTL DEF Spec

------------------------------------------------------------------------------
(* Queues of handlers, and what is sent.                                    *)

\* Handlers that bring a request.
Loaded(A) == A \subseteq Handlers /\ \A h \in A : h.frames # << >>

\* Those of a client are such handlers.
LEMMA LoadedSets == \A c : Loaded(Carries(c)) /\ Loaded(Strays(c))
  BY DEF Loaded, Carries, Strays

\* A completion that brings no request.
LEMMA LightAppend ==
    ASSUME NEW q \in Seq(Handlers), NEW h \in Handlers, h.frames = << >>, NEW A, Loaded(A)
    PROVE  Count(Append(q, h), A) = Count(q, A)
  <1>1. h \notin A
    BY DEF Loaded
  <1>2. Count(q, A) \in Nat
    BY CountType
  <1> QED BY <1>1, <1>2, CountAppend DEF In

\* A handler taken from the front of the queue.
LEMMA LightTail ==
    ASSUME NEW q \in Seq(Handlers), q # << >>, NEW A
    PROVE  /\ Tail(q) \in Seq(Handlers) /\ Count(q, A) \in Nat /\ Count(Tail(q), A) \in Nat
           /\ Count(q, A) = Count(Tail(q), A) + In(Head(q), A)
  <1>1. Tail(q) \in Seq(Handlers)
    BY HeadTailProperties
  <1> QED BY <1>1, CountTail, CountType

\* Posted sends bring no request.
LEMMA LightPosts ==
    ASSUME NEW q \in Seq(Handlers), NEW to \in Seq(Clients), NEW f \in Frames, NEW A, Loaded(A)
    PROVE  q \o Posts(to, f) \in Seq(Handlers) /\ Count(q \o Posts(to, f), A) = Count(q, A)
  <1> DEFINE p == Posts(to, f)
  <1>1. p \in Seq(Handlers) /\ DOMAIN p = 1 .. Len(to) /\ \A i \in 1 .. Len(to) : p[i] = SendPost(to[i], f)
    BY PostsType, LenProperties
  <1>2. \A c : SendPost(c, f).frames = << >>
    BY DEF SendPost, Handler
  <1>3. \A i \in DOMAIN p : p[i] \notin A
    BY <1>1, <1>2 DEF Loaded
  <1> HIDE DEF p
  <1>4. Count(p, A) = 0 /\ Count(q, A) \in Nat
    BY <1>1, <1>3, CountType
  <1>5. Count(q \o p, A) = Count(q, A) + Count(p, A)
    BY <1>1, CountConcat
  <1>6. q \o p \in Seq(Handlers)
    BY <1>1
  <1> QED BY <1>4, <1>5, <1>6 DEF p

\* Handing out frames adds no request to the queue.
LEMMA LightHandOut ==
    ASSUME NEW q \in Seq(Handlers), NEW to \in Seq(Clients), NEW fs \in Seq(Frames),
           HandOut(q, to, fs), NEW A, Loaded(A)
    PROVE  Count(ready', A) = Count(q, A)
  <1> DEFINE nth(n) == IF n \in DOMAIN fs THEN Posts(to, fs[n]) ELSE << >>
             a == nth(1)
             b == nth(2)
  <1>1. ready' = (q \o a) \o b
    BY DEF HandOut
  <1>2. \A i \in DOMAIN fs : fs[i] \in Frames
    BY LenProperties, ElementOfSeq
  <1>3. ASSUME NEW r \in Seq(Handlers), NEW n
        PROVE  r \o nth(n) \in Seq(Handlers) /\ Count(r \o nth(n), A) = Count(r, A)
    <2>1. CASE n \in DOMAIN fs
      <3>1. nth(n) = Posts(to, fs[n]) /\ fs[n] \in Frames
        BY <1>2, <2>1
      <3> HIDE DEF nth
      <3> QED BY <3>1, LightPosts
    <2>2. CASE n \notin DOMAIN fs
      <3>1. nth(n) = << >> /\ r \o << >> = r
        BY <2>2
      <3> HIDE DEF nth
      <3> QED BY <3>1
    <2> QED BY <2>1, <2>2
  <1> HIDE DEF nth
  <1>4. q \o a \in Seq(Handlers) /\ Count(q \o a, A) = Count(q, A)
    BY <1>3
  <1> HIDE DEF a
  <1>5. Count((q \o a) \o b, A) = Count(q \o a, A)
    BY <1>3, <1>4
  <1> QED BY <1>1, <1>4, <1>5

\* Whoever is sent a frame was sent it before, or is handed it now.
LEMMA HandedTold ==
    ASSUME sent \in [Clients -> Seq(Frames)], NEW q, NEW to \in Seq(Clients), NEW fs \in Seq(Frames),
           HandOut(q, to, fs), NEW c \in Clients, NEW f, Told(c, f)'
    PROVE  Told(c, f) \/ (Contains(to, c) /\ \E i \in DOMAIN fs : fs[i] = f)
  <1> DEFINE s == sent[c]
             t == sent'[c]
  <1>1. s \in Seq(Frames) /\ t = IF Contains(to, c) THEN s \o fs ELSE s
    BY DEF HandOut
  <1>2. \E i \in DOMAIN t : t[i] = f
    BY DEF Told
  <1>3. Told(c, f) <=> \E i \in DOMAIN s : s[i] = f
    BY DEF Told
  <1> HIDE DEF s, t
  <1>4. CASE ~Contains(to, c)
    BY <1>1, <1>2, <1>3, <1>4
  <1>5. CASE Contains(to, c)
    <2>1. t = s \o fs
      BY <1>1, <1>5
    <2>2. PICK i \in DOMAIN t : t[i] = f
      BY <1>2
    <2>3. /\ Len(s) \in Nat /\ Len(fs) \in Nat /\ DOMAIN s = 1 .. Len(s) /\ DOMAIN fs = 1 .. Len(fs)
          /\ DOMAIN t = 1 .. Len(s) + Len(fs)
          /\ \A j \in 1 .. Len(s) + Len(fs) : t[j] = IF j <= Len(s) THEN s[j] ELSE fs[j - Len(s)]
      BY <1>1, <2>1, ConcatProperties, LenProperties
    <2>4. CASE i <= Len(s)
      <3>1. i \in DOMAIN s /\ s[i] = f
        BY <2>2, <2>3, <2>4
      <3> QED BY <1>3, <3>1
    <2>5. CASE ~(i <= Len(s))
      <3>1. i - Len(s) \in DOMAIN fs /\ fs[i - Len(s)] = f
        BY <2>2, <2>3, <2>5
      <3> QED BY <1>5, <3>1
    <2> QED BY <2>4, <2>5
  <1> QED BY <1>4, <1>5

------------------------------------------------------------------------------
(* What App tells its clients.                                              *)

\* The daemon is at a request of c.
Serves(c) == running = c /\ batch # << >>

\* What a frame that is handed to c tells about the step that hands it out.
News(c, f) ==
    /\ f.type = "QueryResult" => Serves(c)
    /\ f.type = "Error" /\ events' = 0 => Serves(c) /\ Head(batch) \in Rejectable
    /\ f = LinkFrame("Error") /\ events' = 0 => port # "tcp"

\* A step hands out news only, from the queue q.
Tells(q) ==
    \E to \in Seq(Clients), fs \in Seq(Frames) :
        /\ HandOut(q, to, fs)
        /\ \A c \in Clients : \A i \in DOMAIN fs : Contains(to, c) => News(c, fs[i])

\* One frame for the sessions of a list.
LEMMA TellsOne ==
    ASSUME NEW to \in Seq(Clients), NEW f \in Frames, HandOut(ready, to, <<f>>),
           \A c \in Clients : Contains(to, c) => News(c, f)
    PROVE  Tells(ready)
  <1> DEFINE fs == <<f>>
  <1>1. fs \in Seq(Frames) /\ HandOut(ready, to, fs) /\ \A i \in DOMAIN fs : fs[i] = f
    OBVIOUS
  <1> HIDE DEF fs
  <1>2. \A c \in Clients : \A i \in DOMAIN fs : Contains(to, c) => News(c, fs[i])
    BY <1>1
  <1> QED BY <1>1, <1>2 DEF Tells

\* publish_link_state: an error is news of the device, or of a port that is not TCP.
LEMMA PublishTells ==
    ASSUME Types, ErrorIsNoTcp, port' = port, events' = 0 => events = 0,
           NEW states \in Seq(States), Publish(states),
           events' = 0 /\ (\E i \in DOMAIN states : states[i] = "Error") => port # "tcp"
    PROVE  Tells(ready) /\ ErrorIsNoTcp'
  <1> DEFINE fs == [i \in DOMAIN states |-> LinkFrame(states[i])]
  <1>1. Len(states) \in Nat /\ DOMAIN states = 1 .. Len(states) /\ \A i \in DOMAIN states : states[i] \in States
    BY LenProperties, ElementOfSeq
  <1>2. fs \in Seq(Frames) /\ DOMAIN fs = DOMAIN states /\ \A i \in DOMAIN states : fs[i] = LinkFrame(states[i])
    BY <1>1, LinkFrameType, IsASeq
  <1>3. HandOut(ready, Listed, fs)
    BY DEF Publish
  <1>4. Listed \in Seq(Clients)
    BY ListedType
  <1>5. link_state' = IF states = << >> THEN link_state ELSE Last(states)
    BY DEF Publish
  <1> HIDE DEF fs
  <1>6. ASSUME NEW c \in Clients, NEW i \in DOMAIN fs PROVE News(c, fs[i])
    <2>1. fs[i].type = "LinkState" /\ (fs[i] = LinkFrame("Error") => states[i] = "Error")
      BY <1>2 DEF LinkFrame, Frame
    <2> QED BY <1>2, <2>1 DEF News
  <1>7. Tells(ready)
    BY <1>2, <1>3, <1>4, <1>6 DEF Tells
  <1>8. ErrorIsNoTcp'
    <2>1. CASE states = << >>
      BY <1>5, <2>1 DEF ErrorIsNoTcp
    <2>2. CASE states # << >>
      <3>1. Len(states) \in DOMAIN states /\ Last(states) = states[Len(states)]
        BY <1>1, <2>2, EmptySeq DEF Last
      <3> QED BY <1>5, <2>2, <3>1 DEF ErrorIsNoTcp
    <2> QED BY <2>1, <2>2
  <1> QED BY <1>7, <1>8

\* The same for a list of states that is written out.
LEMMA PublishesOne ==
    ASSUME Types, ErrorIsNoTcp, port' = port, events' = 0 => events = 0,
           NEW s \in States, Publish(<<s>>), events' = 0 /\ s = "Error" => port # "tcp"
    PROVE  Tells(ready) /\ ErrorIsNoTcp'
  <1> DEFINE ss == <<s>>
  <1>1. ss \in Seq(States) /\ Publish(ss) /\ \A i \in DOMAIN ss : ss[i] = s
    OBVIOUS
  <1> HIDE DEF ss
  <1> QED BY <1>1, PublishTells

\* link.start() fails at once only on a port that is not TCP.
LEMMA StartTells ==
    ASSUME Types, ErrorIsNoTcp, port' = port, events' = events,
           NEW shown \in Seq(States), \A i \in DOMAIN shown : shown[i] # "Error",
           LinkStart(shown)
    PROVE  Tells(ready) /\ ErrorIsNoTcp'
  <1>1. CASE port = "tcp" /\ Publish(shown)
    BY <1>1, PublishTells
  <1>2. ASSUME NEW s \in States, port # "tcp" \/ s # "Error", Publish(Append(shown, s))
        PROVE  Tells(ready) /\ ErrorIsNoTcp'
    <2> DEFINE ss == Append(shown, s)
    <2>1. ss \in Seq(States) /\ Publish(ss)
      BY <1>2
    <2>2. \A i \in DOMAIN ss : ss[i] = s \/ \E j \in DOMAIN shown : ss[i] = shown[j]
      <3>1. /\ Len(shown) \in Nat /\ DOMAIN shown = 1 .. Len(shown) /\ DOMAIN ss = 1 .. Len(shown) + 1
            /\ ss[Len(shown) + 1] = s /\ \A i \in 1 .. Len(shown) : ss[i] = shown[i]
        BY AppendProperties, LenProperties
      <3> QED BY <3>1
    <2> HIDE DEF ss
    <2> QED BY <1>2, <2>1, <2>2, PublishTells
  <1>3. "Error" \in States /\ "Connected" \in States
    BY DEF States
  <1> QED BY <1>1, <1>2, <1>3 DEF LinkStart

\* The answer to a request is news to the client that is served.
LEMMA AnswerTells ==
    ASSUME Types, ErrorIsNoTcp, events' = events, Serves(running)
    PROVE  Answers(Head(batch)) = << >>
           \/ \E f \in Frames : Answers(Head(batch)) = <<f>> /\ News(running, f)
  <1> DEFINE r == Head(batch)
             Pong == Frame("QueryResult", "PONG")
             Stats == Frame("QueryResult", "STATS")
             Rejected == Frame("Error", "rejected")
             Down == Frame("Error", "link down")
             Link == LinkFrame(link_state)
             N(f) == f \in Frames /\ News(running, f)
  <1>1. Pong \in Frames /\ Stats \in Frames /\ Rejected \in Frames /\ Down \in Frames
    BY DEF Frame, Frames
  <1>2. Link \in Frames
    BY LinkFrameType DEF Types
  <1>3. /\ Pong.type = "QueryResult" /\ Stats.type = "QueryResult" /\ Link.type = "LinkState"
        /\ Rejected.type = "Error" /\ Down.type = "Error"
        /\ (Link = LinkFrame("Error") => link_state = "Error") /\ LinkFrame("Error").type = "LinkState"
    BY DEF LinkFrame, Frame
  <1> HIDE DEF Pong, Stats, Rejected, Down, Link
  <1>4. N(Pong) /\ N(Stats) /\ N(Link) /\ (r \in Rejectable => N(Rejected) /\ N(Down))
    BY <1>1, <1>2, <1>3 DEF News, ErrorIsNoTcp
  <1>5. Answers(r) = CASE r = "PING" -> <<Pong>>
                       [] r = "STATUS" -> <<Link>>
                       [] r = "STATS" -> <<Stats>>
                       [] r = "BAD" -> <<Rejected>>
                       [] r = "SEND" /\ phase # "opened" -> <<Down>>
                       [] r = "CONNECT" /\ phase = "opened" -> <<Link>>
                       [] OTHER -> << >>
    BY DEF Answers, Pong, Stats, Rejected, Down, Link
  <1>6. \/ Answers(r) \in {<< >>, <<Pong>>, <<Stats>>, <<Link>>}
        \/ Answers(r) \in {<<Rejected>>, <<Down>>} /\ r \in Rejectable
    <2> HIDE DEF r
    <2> QED BY <1>5 DEF Rejectable
  <1> HIDE DEF N, r
  <1>7. Answers(r) = << >> \/ \E f : Answers(r) = <<f>> /\ N(f)
    BY <1>4, <1>6
  <1> QED BY <1>7, Zenon DEF N, r

\* A served request is answered to its client, or changes the link.
LEMMA FrameTells ==
    ASSUME Types, ErrorIsNoTcp, port' = port, OnFrame
    PROVE  Tells(ready) /\ ErrorIsNoTcp'
  <1> DEFINE r == Head(batch)
  <1>0. running \in Clients /\ Serves(running) /\ events' = events /\ link_state \in States
    BY DEF OnFrame, Types, Serves
  <1>1. Command(r) \/ Answer(running, r) \/ Route(r)
    BY DEF OnFrame
  <1>2. << >> \in Seq(States) /\ <<"Disconnected">> \in Seq(States) /\ "Disconnected" \in States
        /\ \A i \in DOMAIN <<"Disconnected">> : <<"Disconnected">>[i] # "Error"
    BY DEF States
  <1>3. CASE Command(r)
    <2>1. LinkStart(<< >>) \/ Publish(<<"Disconnected">>) \/ LinkStart(<<"Disconnected">>)
      BY <1>3 DEF Command
    <2>2. CASE LinkStart(<< >>)
      <3> DEFINE ss == << >>
      <3>1. ss \in Seq(States) /\ (\A i \in DOMAIN ss : ss[i] # "Error") /\ LinkStart(ss)
        BY <1>2, <2>2
      <3> HIDE DEF ss
      <3> QED BY <1>0, <3>1, StartTells
    <2>3. CASE Publish(<<"Disconnected">>)
      BY <1>0, <1>2, <2>3, PublishesOne
    <2>4. CASE LinkStart(<<"Disconnected">>)
      <3> DEFINE ss == <<"Disconnected">>
      <3>1. ss \in Seq(States) /\ (\A i \in DOMAIN ss : ss[i] # "Error") /\ LinkStart(ss)
        BY <1>2, <2>4
      <3> HIDE DEF ss
      <3> QED BY <1>0, <3>1, StartTells
    <2> QED BY <2>1, <2>2, <2>3, <2>4
  <1>4. CASE Answer(running, r)
    <2> DEFINE fs == Answers(r)
               to == <<running>>
    <2>1. HandOut(ready, to, fs) /\ link_state' = link_state
      BY <1>4 DEF Answer
    <2>2. fs \in Seq(Frames) /\ to \in Seq(Clients)
      BY <1>0, AnswersType
    <2>3. fs = << >> \/ \E f \in Frames : fs = <<f>> /\ News(running, f)
      BY <1>0, AnswerTells
    <2>4. \A i \in DOMAIN fs : News(running, fs[i])
      <3> HIDE DEF fs
      <3> QED BY <2>3
    <2>5. \A c \in Clients : Contains(to, c) => c = running
      BY DEF Contains
    <2> HIDE DEF fs, to
    <2>6. Tells(ready)
      BY <2>1, <2>2, <2>4, <2>5 DEF Tells
    <2> QED BY <1>0, <2>1, <2>6 DEF ErrorIsNoTcp
  <1>5. CASE Route(r)
    <2> DEFINE f == Frame("PacketTx", "")
    <2>1. f \in Frames /\ f.type # "QueryResult" /\ f.type # "Error" /\ f # LinkFrame("Error")
      BY DEF Frame, Frames, LinkFrame
    <2>2. HandOut(ready, Listed, <<f>>) /\ link_state' = link_state
      BY <1>5 DEF Route
    <2>3. Listed \in Seq(Clients)
      BY ListedType
    <2> HIDE DEF f
    <2>4. \A c \in Clients : News(c, f)
      BY <2>1 DEF News
    <2>5. Tells(ready)
      BY <2>1, <2>2, <2>3, <2>4, TellsOne
    <2> QED BY <1>0, <2>2, <2>5 DEF ErrorIsNoTcp
  <1> QED BY <1>1, <1>3, <1>4, <1>5

\* The link's callbacks: an error, and a malformed packet, are events of the device.
LEMMA LinkTells ==
    ASSUME Types, ErrorIsNoTcp, port' = port, LinkNext
    PROVE  Tells(ready) /\ ErrorIsNoTcp' /\ (events' = 0 => events = 0)
  <1>0. events \in Nat /\ "Connected" \in States /\ "Error" \in States
    BY DEF Types, States
  <1>1. CASE OnOpened
    <2>1. Publish(<<"Connected">>) /\ events' = events
      BY <1>1 DEF OnOpened
    <2> QED BY <1>0, <2>1, PublishesOne
  <1>2. CASE OnError
    <2>1. Publish(<<"Error">>) /\ events' = events + 1
      BY <1>2 DEF OnError, Counted
    <2>2. events' # 0
      BY <1>0, <2>1
    <2> QED BY <1>0, <2>1, <2>2, PublishesOne
  <1>3. ASSUME NEW d \in BOOLEAN, OnPacket(d)
        PROVE  Tells(ready) /\ ErrorIsNoTcp' /\ (events' = 0 => events = 0)
    <2> DEFINE f == IF d THEN Frame("PacketRx", "") ELSE Frame("Error", "RX INVALID")
    <2>1. f \in Frames /\ f.type # "QueryResult"
      BY DEF Frame, Frames
    <2>2. HandOut(ready, Listed, <<f>>) /\ link_state' = link_state
      BY <1>3 DEF OnPacket
    <2>3. Listed \in Seq(Clients) /\ events' # 0
      <3>1. events' = events + 1
        BY <1>3 DEF OnPacket, Counted
      <3>2. events' # 0
        BY <1>0, <3>1
      <3> QED BY <3>2, ListedType
    <2> HIDE DEF f
    <2>4. \A c \in Clients : News(c, f)
      BY <2>1, <2>3 DEF News
    <2>5. Tells(ready)
      BY <2>1, <2>2, <2>3, <2>4, TellsOne
    <2> QED BY <2>3, <2>5 DEF ErrorIsNoTcp
  <1> QED BY <1>1, <1>2, <1>3 DEF LinkNext

\* do_accept: the greeting.
LEMMA AcceptTells ==
    ASSUME Types, ErrorIsNoTcp, events' = events, ready # << >>,
           NEW h, h = Head(ready), NEW hs, RunAccept(h, hs)
    PROVE  Tells(hs)
  <1> DEFINE f == Hello
             g == LinkFrame(link_state)
             fs == <<f, g>>
             to == <<h.c>>
  <1>1. f \in Frames /\ g \in Frames /\ h.c \in Clients
    <2>1. ready \in Seq(Handlers) /\ link_state \in States
      BY DEF Types
    <2>2. h \in Handlers
      BY <2>1, HeadTailProperties
    <2>3. Hello \in Frames
      BY DEF Hello, Frame, Frames
    <2> QED BY <2>1, <2>2, <2>3, LinkFrameType DEF Handlers
  <1>2. HandOut(hs, to, fs)
    BY DEF RunAccept
  <1>3. \A c \in Clients : News(c, f) /\ News(c, g)
    BY DEF News, Hello, LinkFrame, Frame, ErrorIsNoTcp
  <1> HIDE DEF f, g
  <1>4. to \in Seq(Clients) /\ fs \in Seq(Frames) /\ \A i \in DOMAIN fs : fs[i] \in {f, g}
    BY <1>1
  <1> HIDE DEF fs, to
  <1>5. \A c \in Clients : \A i \in DOMAIN fs : News(c, fs[i])
    BY <1>3, <1>4
  <1> QED BY <1>2, <1>4, <1>5 DEF Tells

------------------------------------------------------------------------------
(* The one request of a run.                                                *)

\* A step keeps to one request, and brings it nearer to being served.
Onward(c) ==
    /\ OneRequest(c)'
    /\ asked[c] # << >> => asked'[c] = asked[c] /\ Outstanding(c)' <= Outstanding(c)

\* No request joins the queue of handlers.
Lightens == \A A : Loaded(A) => Count(ready', A) <= Count(ready, A)

\* What is outstanding is counted.
LEMMA OutstandingType ==
    ASSUME Types, NEW c
    PROVE  /\ Count(ready, Carries(c)) \in Nat /\ Count(ready, Strays(c)) \in Nat
           /\ One(c2d[c] # << >>) \in {0, 1} /\ One(running = c /\ batch # << >>) \in {0, 1}
           /\ One(asked[c] # << >>) \in {0, 1} /\ Outstanding(c) \in Nat
  <1>1. ready \in Seq(Handlers)
    BY DEF Types
  <1>2. Count(ready, Carries(c)) \in Nat /\ Count(ready, Strays(c)) \in Nat
    BY <1>1, CountType
  <1>3. \A b : One(b) \in {0, 1}
    BY DEF One
  <1> QED BY <1>2, <1>3 DEF Outstanding

\* A step that neither writes, reads nor starts to serve a request of c.
LEMMA Lighter ==
    ASSUME Types, Types', NEW c \in Clients, OneRequest(c), Lightens,
           asked'[c] = asked[c], c2d'[c] = c2d[c],
           (running' = running /\ batch' = batch) \/ running' # c
    PROVE  Onward(c)
  <1> DEFINE k == Count(ready, Carries(c))
             k2 == Count(ready', Carries(c))
             m == Count(ready', Strays(c))
             w == One(c2d[c] # << >>)
             a == One(asked[c] # << >>)
             b == One(running = c /\ batch # << >>)
             b2 == One(running' = c /\ batch' # << >>)
  <1>1. k2 <= k /\ m <= Count(ready, Strays(c))
    BY LoadedSets DEF Lightens
  <1>2. Strays(c)' = Strays(c) /\ Carries(c)' = Carries(c)
    BY DEF Strays, Carries
  <1>3. m \in Nat /\ k2 \in Nat
    <2>1. ready' \in Seq(Handlers)
      BY DEF Types
    <2> QED BY <2>1, CountType
  <1>4. k \in Nat /\ Count(ready, Strays(c)) = 0 /\ w \in {0, 1} /\ b \in {0, 1} /\ a \in {0, 1}
    BY OutstandingType DEF OneRequest
  <1>5. b2 \in {0, 1} /\ b2 <= b
    BY DEF One
  <1>6. Outstanding(c) = w + k + b /\ Outstanding(c)' = w + k2 + b2
    BY <1>2 DEF Outstanding
  <1>7. w + k + b <= a
    BY <1>6 DEF OneRequest
  <1> HIDE DEF k, k2, w, b, b2, a
  <1>8. w + k2 + b2 <= w + k + b /\ w + k2 + b2 <= a
    BY <1>1, <1>3, <1>4, <1>5, <1>7
  <1>9. m = 0
    BY <1>1, <1>3, <1>4
  <1>10. running' = c => batch' \in {<< >>, asked'[c]}
    BY DEF OneRequest
  <1>11. Outstanding(c)' <= One(asked'[c] # << >>)
    BY <1>6, <1>8 DEF a
  <1>12. OneRequest(c)'
    BY <1>2, <1>9, <1>10, <1>11 DEF OneRequest
  <1> QED BY <1>6, <1>8, <1>12 DEF Onward

\* Counting does not increase when the queue is the same, or grows by a handler
\* without a request.
LEMMA LightensBy ==
    ASSUME Types
    PROVE  /\ ready' = ready => Lightens
           /\ \A h \in Handlers : h.frames = << >> /\ ready' = Append(ready, h) => Lightens
           /\ \A to \in Seq(Clients), fs \in Seq(Frames) : HandOut(ready, to, fs) => Lightens
           /\ ready # << >> /\ ready' = Tail(ready) => Lightens
           /\ \A to \in Seq(Clients), fs \in Seq(Frames) :
                 ready # << >> /\ HandOut(Tail(ready), to, fs) => Lightens
  <1>1. ready \in Seq(Handlers)
    BY DEF Types
  <1>2. \A A : Count(ready, A) \in Nat
    BY <1>1, CountType
  <1>3. ASSUME ready # << >>, NEW A PROVE Tail(ready) \in Seq(Handlers) /\ Count(Tail(ready), A) <= Count(ready, A)
    <2>1. In(Head(ready), A) \in {0, 1}
      BY DEF In
    <2>2. /\ Tail(ready) \in Seq(Handlers) /\ Count(ready, A) \in Nat /\ Count(Tail(ready), A) \in Nat
          /\ Count(ready, A) = Count(Tail(ready), A) + In(Head(ready), A)
      BY <1>1, <1>3, LightTail
    <2> QED BY <2>1, <2>2
  <1>4. ready' = ready => Lightens
    BY <1>2 DEF Lightens
  <1>5. ASSUME NEW h \in Handlers, h.frames = << >>, ready' = Append(ready, h) PROVE Lightens
    <2>1. \A A : Loaded(A) => Count(ready', A) = Count(ready, A)
      BY <1>1, <1>5, LightAppend
    <2> QED BY <1>2, <2>1 DEF Lightens
  <1>6. ASSUME NEW to \in Seq(Clients), NEW fs \in Seq(Frames), HandOut(ready, to, fs) PROVE Lightens
    <2>1. \A A : Loaded(A) => Count(ready', A) = Count(ready, A)
      BY <1>1, <1>6, LightHandOut
    <2> QED BY <1>2, <2>1 DEF Lightens
  <1>7. ASSUME ready # << >>, ready' = Tail(ready) PROVE Lightens
    BY <1>3, <1>7 DEF Lightens
  <1>8. ASSUME NEW to \in Seq(Clients), NEW fs \in Seq(Frames), ready # << >>, HandOut(Tail(ready), to, fs)
        PROVE  Lightens
    <2>1. Tail(ready) \in Seq(Handlers)
      BY <1>3, <1>8
    <2>2. \A A : Loaded(A) => Count(ready', A) = Count(Tail(ready), A)
      BY <1>8, <2>1, LightHandOut
    <2> QED BY <1>3, <1>8, <2>2 DEF Lightens
  <1> QED BY <1>4, <1>5, <1>6, <1>7, <1>8

\* The handlers of completions without a request.
LEMMA LightHandler ==
    ASSUME NEW c \in Clients, NEW k \in {"accept", "send", "written", "read"}
    PROVE  /\ Handler(k, c) \in Handlers /\ Handler(k, c).frames = << >>
           /\ [Handler(k, c) EXCEPT !.res = "err"] \in Handlers
           /\ [Handler(k, c) EXCEPT !.res = "err"].frames = << >>
  <1>1. Handler(k, c).frames = << >> /\ [Handler(k, c) EXCEPT !.res = "err"].frames = << >>
    BY DEF Handler
  <1> QED BY <1>1, PlainHandler DEF IsHandler

\* Closing a session queues failed completions, which bring no request.
LEMMA CloseLightens ==
    ASSUME Types, NEW c \in Clients, ready # << >>, Close(c, Tail(ready))
    PROVE  Lightens
  <1> DEFINE q == Tail(ready)
             r == [Handler("read", c) EXCEPT !.res = "err"]
             w == [Handler("written", c) EXCEPT !.res = "err"]
             x == IF "read" \in pending[c] THEN <<r>> ELSE << >>
             y == IF "write" \in pending[c] THEN <<w>> ELSE << >>
  <1>1. ready' = (q \o x) \o y
    BY DEF Close
  <1>2. r \in Handlers /\ w \in Handlers /\ r.frames = << >> /\ w.frames = << >>
    BY LightHandler
  <1>3. q \in Seq(Handlers)
    BY HeadTailProperties DEF Types
  <1> HIDE DEF q, r, w
  <1>4. ASSUME NEW s \in Seq(Handlers), NEW h \in Handlers, h.frames = << >>, NEW z \in {<<h>>, << >>},
               NEW A, Loaded(A)
        PROVE  s \o z \in Seq(Handlers) /\ Count(s \o z, A) = Count(s, A)
    <2>1. CASE z = <<h>>
      <3>1. s \o z = Append(s, h) /\ s \o z \in Seq(Handlers)
        BY <2>1
      <3> QED BY <1>4, <3>1, LightAppend
    <2>2. CASE z = << >>
      BY <2>2
    <2> QED BY <2>1, <2>2
  <1>5. ASSUME NEW A, Loaded(A) PROVE Count(ready', A) = Count(q, A)
    <2>1. x \in {<<r>>, << >>} /\ y \in {<<w>>, << >>}
      OBVIOUS
    <2> HIDE DEF x, y
    <2>2. q \o x \in Seq(Handlers) /\ Count(q \o x, A) = Count(q, A)
      BY <1>2, <1>3, <1>4, <1>5, <2>1
    <2> DEFINE v == q \o x
    <2>3. v \in Seq(Handlers)
      BY <2>2
    <2> HIDE DEF v
    <2>4. Count(v \o y, A) = Count(v, A)
      BY <1>2, <1>4, <1>5, <2>1, <2>3
    <2> QED BY <1>1, <2>2, <2>4, Zenon DEF v
  <1>6. ASSUME NEW A PROVE Count(q, A) <= Count(ready, A)
    <2>0. ready \in Seq(Handlers)
      BY DEF Types
    <2>1. In(Head(ready), A) \in {0, 1}
      BY DEF In
    <2>2. /\ Count(ready, A) \in Nat /\ Count(q, A) \in Nat
          /\ Count(ready, A) = Count(q, A) + In(Head(ready), A)
      BY <2>0, LightTail DEF q
    <2> QED BY <2>1, <2>2
  <1> QED BY <1>5, <1>6 DEF Lightens

\* A sequence of at most one element.
LEMMA AtMostOne ==
    ASSUME NEW S, NEW s \in Seq(S), Len(s) <= 1
    PROVE  s = << >> \/ (Len(s) = 1 /\ s = <<s[1]>> /\ s[1] \in S /\ Head(s) = s[1] /\ Tail(s) = << >>)
  <1>1. Len(s) \in Nat
    BY LenProperties
  <1>2. CASE Len(s) = 0
    BY <1>2, EmptySeq
  <1>3. CASE Len(s) = 1
    <2>1. s[1] \in S
      BY <1>3, ElementOfSeq
    <2>2. s = <<s[1]>>
      BY <1>3, <2>1
    <2> DEFINE e == s[1]
    <2> HIDE DEF e
    <2>3. Head(<<e>>) = e /\ Tail(<<e>>) = << >>
      OBVIOUS
    <2> QED BY <1>3, <2>1, <2>2, <2>3, Zenon DEF e
  <1>4. Len(s) = 0 \/ Len(s) = 1
    <2> DEFINE n == Len(s)
    <2>1. n \in Nat /\ n <= 1
      BY <1>1, Zenon
    <2> HIDE DEF n
    <2>2. n = 0 \/ n = 1
      BY <2>1
    <2> QED BY <2>2 DEF n
  <1> QED BY <1>2, <1>3, <1>4, Zenon

\* The run writes its request: it had none before.
LEMMA WriteOnward ==
    ASSUME Types, Types', NEW c \in Clients, OneRequest(c), NEW d \in Clients, NEW r \in Requests,
           WritesRequest(d, r)
    PROVE  Onward(c)
  <1>1. /\ asked' = [asked EXCEPT ![d] = Append(@, r)] /\ c2d' = [c2d EXCEPT ![d] = Append(@, r)]
        /\ ready' = ready /\ running' = running /\ batch' = batch /\ asked[d] = << >>
    BY DEF WritesRequest, Request
  <1>2. asked \in [Clients -> Seq(Requests)] /\ c2d \in [Clients -> Seq(Requests)]
    BY DEF Types
  <1>3. CASE c # d
    <2>1. asked'[c] = asked[c] /\ c2d'[c] = c2d[c]
      BY <1>1, <1>2, <1>3
    <2>2. Lightens
      BY <1>1, LightensBy
    <2> QED BY <1>1, <2>1, <2>2, Lighter
  <1>4. CASE c = d
    <2>0. asked[c] = << >>
      BY <1>1, <1>4
    <2>1. Outstanding(c) = 0
      <3>1. Outstanding(c) <= 0 /\ Outstanding(c) \in Nat
        BY <2>0, OutstandingType DEF OneRequest, One
      <3> QED BY <3>1
    <2>2. /\ c2d[c] = << >> /\ Count(ready, Carries(c)) = 0 /\ ~(running = c /\ batch # << >>)
      <3> DEFINE k == Count(ready, Carries(c))
                 x == One(c2d[c] # << >>)
                 y == One(running = c /\ batch # << >>)
      <3>1. k \in Nat /\ x \in {0, 1} /\ y \in {0, 1}
        BY OutstandingType
      <3>2. x + k + y = 0
        BY <2>1 DEF Outstanding
      <3> HIDE DEF k, x, y
      <3>3. x = 0 /\ k = 0 /\ y = 0
        BY <3>1, <3>2
      <3> QED BY <3>3 DEF k, x, y, One
    <2>3. asked'[c] = <<r>> /\ c2d'[c] = <<r>> /\ <<r>> # << >> /\ Len(<<r>>) <= 1
      BY <1>1, <1>2, <1>4, <2>0, <2>2
    <2>4. Carries(c)' = Carries(c)
      BY DEF Carries
    <2>5. Outstanding(c)' = 1
      <3>1. One(c2d'[c] # << >>) = 1 /\ One(running' = c /\ batch' # << >>) = 0
        BY <1>1, <2>2, <2>3 DEF One
      <3>2. Count(ready', Carries(c)') = 0
        BY <1>1, <2>2, <2>4
      <3> QED BY <3>1, <3>2 DEF Outstanding
    <2>6. Count(ready, Strays(c)') = 0
      <3>1. ready \in Seq(Handlers)
        BY DEF Types
      <3>2. \A i \in DOMAIN ready : ready[i] \notin Carries(c)
        BY <2>2, <3>1, CountType
      <3>3. Strays(c)' \subseteq Carries(c)
        BY DEF Strays, Carries
      <3>4. \A i \in DOMAIN ready : ready[i] \notin Strays(c)'
        BY <3>2, <3>3
      <3> QED BY <3>1, <3>4, CountType
    <2>7. One(asked'[c] # << >>) = 1
      BY <2>3 DEF One
    <2>8. OneRequest(c)'
      BY <1>1, <2>2, <2>3, <2>5, <2>6, <2>7 DEF OneRequest
    <2> QED BY <2>0, <2>8 DEF Onward
  <1> QED BY <1>3, <1>4

\* The kernel delivers the request: a read handler carries it.
LEMMA ReadOnward ==
    ASSUME Types, Types', NEW c \in Clients, OneRequest(c), NEW d \in Clients, NEW n, ReadCompletes(d, n)
    PROVE  Onward(c)
  <1> DEFINE g == SubSeq(c2d[d], 1, n)
             h == [Handler("read", d) EXCEPT !.frames = g]
  <1>1. /\ n \in 1 .. Len(c2d[d]) /\ ready' = Append(ready, h)
        /\ c2d' = [c2d EXCEPT ![d] = SubSeq(c2d[d], n + 1, Len(c2d[d]))]
        /\ asked' = asked /\ running' = running /\ batch' = batch
    BY DEF ReadCompletes, Completed, clientVars
  <1>2. ready \in Seq(Handlers) /\ c2d \in [Clients -> Seq(Requests)] /\ asked \in [Clients -> Seq(Requests)]
    BY DEF Types
  <1>3. g \in Seq(Requests)
    BY <1>1, <1>2
  <1> HIDE DEF g
  <1>4. h \in Handlers /\ h.c = d /\ h.frames = g
    BY <1>3, HandlerTypes, ZenonT(60) DEF IsHandler, Handler
  <1> HIDE DEF h
  <1>5. Carries(c)' = Carries(c) /\ Strays(c)' = Strays(c)
    BY <1>1 DEF Carries, Strays
  <1>6. /\ Count(ready', Carries(c)) = Count(ready, Carries(c)) + In(h, Carries(c))
        /\ Count(ready', Strays(c)) = Count(ready, Strays(c)) + In(h, Strays(c))
    BY <1>1, <1>2, <1>4, CountAppend
  <1>7. CASE c # d
    <2>1. h \notin Carries(c) /\ h \notin Strays(c)
      BY <1>4, <1>7 DEF Carries, Strays
    <2>2. Count(ready', Carries(c)) = Count(ready, Carries(c)) /\ Count(ready', Strays(c)) = Count(ready, Strays(c))
      BY <1>6, <2>1, OutstandingType DEF In
    <2>3. c2d'[c] = c2d[c]
      BY <1>1, <1>2, <1>7
    <2>4. Outstanding(c)' = Outstanding(c)
      BY <1>1, <1>5, <2>2, <2>3 DEF Outstanding
    <2>5. OneRequest(c)'
      BY <1>1, <1>5, <2>2, <2>3, <2>4 DEF OneRequest
    <2>6. Outstanding(c) \in Nat
      BY OutstandingType
    <2> QED BY <1>1, <2>4, <2>5, <2>6 DEF Onward
  <1>8. CASE c = d
    <2>1. c2d[c] # << >> /\ c2d[c] = asked[c]
      <3>1. c2d[c] # << >>
        BY <1>1, <1>2, <1>8, EmptySeq
      <3> QED BY <3>1 DEF OneRequest
    <2> DEFINE s == asked[c]
    <2>2. s \in Seq(Requests) /\ Len(s) = 1 /\ s = <<s[1]>> /\ s[1] \in Requests
      <3>1. s \in Seq(Requests) /\ Len(s) <= 1 /\ s # << >>
        BY <1>2, <2>1 DEF OneRequest
      <3> QED BY <3>1, AtMostOne
    <2>3. n = 1 /\ g = SubSeq(s, 1, 1) /\ c2d'[c] = SubSeq(s, 2, 1)
      BY <1>1, <1>2, <1>8, <2>1, <2>2 DEF g
    <2> HIDE DEF s
    <2>4. SubSeq(s, 1, 1) = s /\ SubSeq(s, 2, 1) = << >>
      BY <2>2
    <2>5. g = s /\ c2d'[c] = << >> /\ s # << >>
      <3>1. s # << >>
        BY <2>1 DEF s
      <3> QED BY <2>3, <2>4, <3>1, Zenon
    <2>6. h \in Carries(c) /\ h \notin Strays(c)
      BY <1>4, <1>8, <2>5 DEF Carries, Strays, s
    <2>7. Count(ready', Carries(c)) = Count(ready, Carries(c)) + 1 /\ Count(ready', Strays(c)) = Count(ready, Strays(c))
      BY <1>6, <2>6, OutstandingType DEF In
    <2>8. Outstanding(c)' = Outstanding(c)
      <3> DEFINE k == Count(ready, Carries(c))
                 k2 == Count(ready', Carries(c))
                 y == One(running = c /\ batch # << >>)
      <3>1. k \in Nat /\ y \in {0, 1} /\ k2 = k + 1
        BY <2>7, OutstandingType
      <3>2. One(c2d[c] # << >>) = 1 /\ One(c2d'[c] # << >>) = 0
        BY <2>1, <2>5 DEF One
      <3>3. Outstanding(c) = One(c2d[c] # << >>) + k + y
        BY DEF Outstanding
      <3>4. Outstanding(c)' = One(c2d'[c] # << >>) + k2 + y
        BY <1>1, <1>5 DEF Outstanding
      <3> HIDE DEF k, k2, y
      <3>5. 1 + k + y = 0 + k2 + y
        BY <3>1
      <3> QED BY <3>2, <3>3, <3>4, <3>5
    <2>9. OneRequest(c)'
      BY <1>1, <1>5, <2>5, <2>7, <2>8 DEF OneRequest
    <2>10. Outstanding(c) \in Nat
      BY OutstandingType
    <2> QED BY <1>1, <2>8, <2>9, <2>10 DEF Onward
  <1> QED BY <1>7, <1>8

\* The read handler starts to serve what it carries.
LEMMA BatchOnward ==
    ASSUME Types, Types', NEW c \in Clients, OneRequest(c), ready # << >>, running = NoClient,
           NEW h, h = Head(ready), ready' = Tail(ready), running' = h.c, batch' = h.frames,
           asked' = asked, c2d' = c2d
    PROVE  Onward(c)
  <1>1. ready \in Seq(Handlers) /\ h \in Handlers
    BY HeadTailProperties DEF Types
  <1>2. running # c
    BY ClientsAssumption
  <1>3. CASE c # h.c
    <2>1. Lightens
      BY LightensBy
    <2> QED BY <1>3, <2>1, Lighter
  <1>4. CASE c = h.c
    <2>1. Carries(c)' = Carries(c) /\ Strays(c)' = Strays(c)
      BY DEF Carries, Strays
    <2> DEFINE k == Count(ready, Carries(c))
               k2 == Count(ready', Carries(c))
               m == Count(ready, Strays(c))
               m2 == Count(ready', Strays(c))
               x == One(c2d[c] # << >>)
               i == In(h, Carries(c))
               j == In(h, Strays(c))
    <2>2. k = k2 + i /\ m = m2 + j /\ k \in Nat /\ k2 \in Nat /\ m \in Nat /\ m2 \in Nat
      BY <1>1, LightTail
    <2>3. m = 0 /\ x \in {0, 1}
      BY OutstandingType DEF OneRequest
    <2>4. j \in {0, 1} /\ i = One(h.frames # << >>) /\ i \in {0, 1}
      BY <1>1, <1>4 DEF In, One, Carries
    <2>5. Outstanding(c) = x + k + 0
      BY <1>2 DEF Outstanding, One
    <2>6. Outstanding(c)' = x + k2 + i
      BY <1>4, <2>1, <2>4 DEF Outstanding, One
    <2>7. h \in Strays(c) <=> j = 1
      BY DEF In
    <2> HIDE DEF k, k2, m, m2, x, i, j
    <2>8. x + k2 + i = x + k + 0 /\ m2 = 0 /\ j = 0 /\ x + k2 + i \in Nat
      BY <2>2, <2>3, <2>4
    <2>9. h.frames \in {<< >>, asked[c]}
      BY <1>1, <1>4, <2>7, <2>8 DEF Strays
    <2>10. Outstanding(c)' = Outstanding(c) /\ Outstanding(c) \in Nat
      BY <2>5, <2>6, <2>8
    <2>11. OneRequest(c)'
      BY <2>1, <2>8, <2>9, <2>10 DEF OneRequest, m2
    <2> QED BY <2>10, <2>11 DEF Onward
  <1> QED BY <1>3, <1>4

\* The daemon serves a request: it was the only one of its client.
LEMMA FrameOnward ==
    ASSUME Types, Types', NEW c \in Clients, OneRequest(c), Tells(ready), OnFrame
    PROVE  Onward(c) /\ (Serves(c) => Settled(c)' /\ asked'[c] = asked[c] /\ asked[c][1] = Head(batch))
  <1>1. /\ running # NoClient /\ batch # << >> /\ batch' = Tail(batch) /\ running' = running
        /\ asked' = asked /\ c2d' = c2d
    BY DEF OnFrame, clientVars, sessionVars
  <1>2. Lightens
    BY LightensBy DEF Tells
  <1>3. CASE running # c
    <2>1. Onward(c)
      BY <1>1, <1>2, <1>3, Lighter
    <2> QED BY <1>3, <2>1 DEF Serves
  <1>4. CASE running = c
    <2> DEFINE s == asked[c]
    <2>1. s \in Seq(Requests) /\ Len(s) <= 1 /\ batch = s /\ s # << >>
      BY <1>1, <1>4 DEF Types, OneRequest
    <2>2. Tail(batch) = << >> /\ Head(batch) = s[1]
      <3> HIDE DEF s
      <3> QED BY <2>1, AtMostOne
    <2>3. Carries(c)' = Carries(c) /\ Strays(c)' = Strays(c)
      BY <1>1 DEF Carries, Strays
    <2> DEFINE k == Count(ready, Carries(c))
               k2 == Count(ready', Carries(c))
               m == Count(ready, Strays(c))
               m2 == Count(ready', Strays(c))
               x == One(c2d[c] # << >>)
    <2>4. k \in Nat /\ m = 0 /\ x \in {0, 1}
      BY OutstandingType DEF OneRequest
    <2>5. k2 \in Nat /\ m2 \in Nat
      <3>1. ready' \in Seq(Handlers)
        BY DEF Types
      <3> QED BY <3>1, CountType
    <2>6. k2 <= k /\ m2 <= m
      BY <1>2, LoadedSets DEF Lightens
    <2>7. Outstanding(c) = x + k + 1 /\ Outstanding(c) <= 1
      BY <1>1, <1>4, <2>1 DEF OneRequest, Outstanding, One
    <2>8. Outstanding(c)' = x + k2 + 0
      BY <1>1, <2>2, <2>3 DEF Outstanding, One
    <2> HIDE DEF k, k2, m, m2, x
    <2>9. x + k2 + 0 = 0 /\ m2 = 0 /\ x + k + 1 = 1
      BY <2>4, <2>5, <2>6, <2>7
    <2>10. Outstanding(c)' = 0 /\ Outstanding(c) = 1
      BY <2>7, <2>8, <2>9
    <2>11. One(asked'[c] # << >>) = 1
      BY <1>1, <2>1 DEF One
    <2>12. OneRequest(c)'
      <3>1. Len(asked'[c]) <= 1 /\ Outstanding(c)' <= One(asked'[c] # << >>) /\ c2d'[c] \in {<< >>, asked'[c]}
        BY <1>1, <2>10, <2>11 DEF OneRequest
      <3>2. Count(ready', Strays(c)') = 0 /\ (running' = c => batch' \in {<< >>, asked'[c]})
        BY <1>1, <2>2, <2>3, <2>9 DEF m2
      <3> QED BY <3>1, <3>2 DEF OneRequest
    <2>13. Onward(c)
      BY <1>1, <2>10, <2>12 DEF Onward
    <2> QED BY <1>1, <2>1, <2>2, <2>10, <2>13 DEF Settled
  <1> QED BY <1>3, <1>4

------------------------------------------------------------------------------
(* Every step.                                                              *)

\* What a step does to a run c, apart from its exit.
Effect(c) ==
    /\ Onward(c)
    /\ ErrorIsNoTcp'
    /\ events' = 0 => events = 0
    /\ crashed => crashed'
    /\ peer[c] = "closed" => peer'[c] = "closed" /\ asked'[c] = asked[c]
    /\ \A f \in Frames : Told(c, f)' => Told(c, f) \/ Means(c, f)'

\* A step that sends nothing.
LEMMA Silent ==
    ASSUME NEW c \in Clients, Onward(c), ErrorIsNoTcp, port' = port, crashed => crashed',
           UNCHANGED <<sent, events, link_state>>,
           peer[c] = "closed" => peer'[c] = "closed" /\ asked'[c] = asked[c]
    PROVE  Effect(c)
  <1>1. \A f : Told(c, f)' => Told(c, f)
    BY DEF Told
  <1>2. ErrorIsNoTcp'
    BY DEF ErrorIsNoTcp
  <1> QED BY <1>1, <1>2, Zenon DEF Effect

\* A step that leaves the clients and their requests alone and sends nothing.
LEMMA Passive ==
    ASSUME Types, Types', NEW c \in Clients, OneRequest(c), ErrorIsNoTcp, port' = port, Lightens,
           (running' = running /\ batch' = batch) \/ running' # c,
           UNCHANGED <<peer, asked, c2d, sent, events, link_state>>, crashed => crashed'
    PROVE  Effect(c)
  <1>1. Onward(c)
    BY Lighter
  <1> QED BY <1>1, Silent

\* Whoever is sent a frame by such a step was sent it before, or it is news.
LEMMA ToldOrNews ==
    ASSUME Types, NEW q, Tells(q), NEW c \in Clients, NEW f, Told(c, f)'
    PROVE  Told(c, f) \/ News(c, f)
  <1>1. sent \in [Clients -> Seq(Frames)]
    BY DEF Types
  <1>2. PICK to \in Seq(Clients), fs \in Seq(Frames) :
             HandOut(q, to, fs) /\ \A d \in Clients : \A i \in DOMAIN fs : Contains(to, d) => News(d, fs[i])
    BY DEF Tells
  <1>3. Told(c, f) \/ (Contains(to, c) /\ \E i \in DOMAIN fs : fs[i] = f)
    BY <1>1, <1>2, HandedTold
  <1> QED BY <1>2, <1>3

\* A step that hands out news while no request is served.
LEMMA Broadcasts ==
    ASSUME Types, Types', NEW c \in Clients, OneRequest(c), ErrorIsNoTcp', port' = port, Lightens,
           events' = 0 => events = 0, NEW q \in Seq(Handlers), Tells(q), running = NoClient,
           UNCHANGED <<peer, asked, c2d, running, batch, crashed>>
    PROVE  Effect(c)
  <1>1. Onward(c)
    BY Lighter
  <1>2. ~Serves(c)
    BY ClientsAssumption DEF Serves
  <1>3. ASSUME NEW f \in Frames, Told(c, f)' PROVE Told(c, f) \/ Means(c, f)'
    <2>1. Told(c, f) \/ News(c, f)
      BY <1>3, ToldOrNews
    <2>2. CASE News(c, f)
      BY <1>2, <2>2 DEF News, Means
    <2> QED BY <2>1, <2>2
  <1> QED BY <1>1, <1>3 DEF Effect

\* Serving a request.
LEMMA FrameEffect ==
    ASSUME Types, Types', NEW c \in Clients, OneRequest(c), ErrorIsNoTcp, port' = port, OnFrame
    PROVE  Effect(c)
  <1>1. Tells(ready) /\ ErrorIsNoTcp'
    BY FrameTells
  <1>2. Onward(c) /\ (Serves(c) => Settled(c)' /\ asked'[c] = asked[c] /\ asked[c][1] = Head(batch))
    BY <1>1, FrameOnward
  <1>3. UNCHANGED <<peer, asked, events, crashed>>
    BY DEF OnFrame, clientVars
  <1>4. ASSUME NEW f \in Frames, Told(c, f)' PROVE Told(c, f) \/ Means(c, f)'
    <2>1. Told(c, f) \/ News(c, f)
      BY <1>1, <1>4, ToldOrNews
    <2>2. CASE News(c, f)
      <3>1. f.type = "QueryResult" => Settled(c)'
        BY <1>2, <2>2 DEF News
      <3>2. f.type = "Error" /\ events' = 0 => Settled(c)' /\ asked'[c][1] \in Rejectable
        BY <1>2, <2>2 DEF News
      <3>3. f = LinkFrame("Error") /\ events' = 0 => port' # "tcp"
        BY <2>2 DEF News
      <3> QED BY <3>1, <3>2, <3>3 DEF Means
    <2> QED BY <2>1, <2>2
  <1> QED BY <1>1, <1>2, <1>3, <1>4 DEF Effect

\* The handlers of IpcServer and IpcSession.
LEMMA HandlerEffect ==
    ASSUME Types, Types', NEW c \in Clients, OneRequest(c), ErrorIsNoTcp, port' = port, RunHandler
    PROVE  Effect(c)
  <1>1. PICK h, hs : h = Head(ready) /\ hs = Tail(ready)
    OBVIOUS
  <1>2. /\ ready # << >> /\ running = NoClient /\ ~crashed
        /\ RunAccept(h, hs) \/ RunSend(h, hs) \/ RunWritten(h, hs) \/ RunRead(h, hs)
    BY <1>1 DEF RunHandler, Free
  <1>3. ready \in Seq(Handlers) /\ h \in Handlers /\ hs \in Seq(Handlers)
    BY <1>1, <1>2, HeadTailProperties DEF Types
  <1>4. h.c \in Clients
    BY <1>3 DEF Handlers
  <1>5. CASE RunAccept(h, hs)
    <2>1. UNCHANGED <<peer, asked, c2d, running, batch, crashed, events, link_state>>
      BY <1>5 DEF RunAccept, clientVars, linkVars
    <2>2. Tells(hs)
      BY <1>1, <1>2, <1>5, <2>1, AcceptTells
    <2>3. Lightens
      BY <1>1, <1>2, <2>2, LightensBy DEF Tells
    <2>4. ErrorIsNoTcp'
      BY <2>1 DEF ErrorIsNoTcp
    <2> QED BY <1>2, <1>3, <2>1, <2>2, <2>3, <2>4, Broadcasts
  <1>6. CASE RunSend(h, hs)
    <2>1. UNCHANGED <<peer, asked, c2d, sent, running, batch, crashed, events, link_state>> /\ ready' = Tail(ready)
      BY <1>1, <1>6 DEF RunSend, clientVars, linkVars
    <2>2. Lightens
      BY <1>2, <2>1, LightensBy
    <2> QED BY <2>1, <2>2, Passive
  <1>7. CASE RunWritten(h, hs)
    <2>1. UNCHANGED <<peer, asked, c2d, sent, running, batch, events, link_state>>
      BY <1>7 DEF RunWritten, clientVars, linkVars
    <2>2. Close(h.c, Tail(ready)) \/ ready' = Tail(ready)
      BY <1>1, <1>7 DEF RunWritten
    <2>3. Lightens
      BY <1>2, <1>4, <2>2, CloseLightens, LightensBy
    <2> QED BY <1>2, <2>1, <2>3, Passive
  <1>8. CASE RunRead(h, hs)
    <2>1. UNCHANGED <<peer, asked, c2d, sent, crashed, events, link_state>>
      BY <1>8 DEF RunRead, clientVars, linkVars
    <2>2. CASE Close(h.c, hs) /\ UNCHANGED <<running, batch>>
      <3>1. Lightens
        BY <1>1, <1>2, <1>4, <2>2, CloseLightens
      <3> QED BY <2>1, <2>2, <3>1, Passive
    <2>3. CASE running' = h.c /\ batch' = h.frames /\ ready' = hs
      <3>1. Onward(c)
        BY <1>1, <1>2, <2>1, <2>3, BatchOnward
      <3> QED BY <2>1, <3>1, Silent
    <2> QED BY <1>8, <2>2, <2>3 DEF RunRead
  <1> QED BY <1>2, <1>5, <1>6, <1>7, <1>8

\* Completions on the sockets.
LEMMA SocketEffect ==
    ASSUME Types, Types', NEW c \in Clients, OneRequest(c), ErrorIsNoTcp, port' = port, SocketNext
    PROVE  Effect(c)
  <1>1. ASSUME NEW d \in Clients, NEW n, ReadCompletes(d, n) PROVE Effect(c)
    <2>1. UNCHANGED <<peer, asked, sent, crashed, events, link_state>>
      BY <1>1 DEF ReadCompletes, Completed, clientVars, linkVars
    <2>2. Onward(c)
      BY <1>1, ReadOnward
    <2> QED BY <2>1, <2>2, Silent
  <1>2. ASSUME NEW d \in Clients, NEW op, NEW h \in Handlers, h.frames = << >>, Completed(d, op, h), c2d' = c2d
        PROVE  Effect(c)
    <2>1. UNCHANGED <<peer, asked, sent, running, batch, crashed, events, link_state>> /\ ready' = Append(ready, h)
      BY <1>2 DEF Completed, clientVars, linkVars
    <2>2. Lightens
      BY <1>2, <2>1, LightensBy
    <2> QED BY <1>2, <2>1, <2>2, Passive
  <1>3. ASSUME NEW d \in Clients, WriteCompletes(d) \/ IoFails(d) PROVE Effect(c)
    <2>1. c2d' = c2d
      BY <1>3 DEF WriteCompletes, IoFails
    <2>2. \/ Completed(d, "write", Handler("written", d))
          \/ Completed(d, "read", [Handler("read", d) EXCEPT !.res = "err"])
          \/ Completed(d, "write", [Handler("written", d) EXCEPT !.res = "err"])
      BY <1>3 DEF WriteCompletes, IoFails
    <2>3. PICK h, op : Completed(d, op, h) /\ h \in Handlers /\ h.frames = << >>
      BY <2>2, LightHandler
    <2> QED BY <1>2, <2>1, <2>3
  <1> QED BY <1>1, <1>3 DEF SocketNext

\* do_read after the last frame.
LEMMA EndReadEffect ==
    ASSUME Types, Types', NEW c \in Clients, OneRequest(c), ErrorIsNoTcp, port' = port, EndRead
    PROVE  Effect(c)
  <1>1. UNCHANGED <<peer, asked, c2d, sent, crashed, events, link_state>> /\ running' = NoClient
        /\ running \in Clients
    BY DEF EndRead, clientVars, linkVars, Types
  <1>2. ready' = ready \/ ready' = Append(ready, [Handler("read", running) EXCEPT !.res = "err"])
    BY DEF EndRead
  <1>3. Lightens
    BY <1>1, <1>2, LightensBy, LightHandler
  <1>4. running' # c
    BY <1>1, ClientsAssumption
  <1> QED BY <1>1, <1>3, <1>4, Passive

\* The steps of a run of gsdctl.
LEMMA RunEffect ==
    ASSUME Types, Types', NEW c \in Clients, OneRequest(c), ErrorIsNoTcp, port' = port, CtlNext
    PROVE  Effect(c)
  <1>0. peer \in [Clients -> {"never", "open", "closed"}] /\ asked \in [Clients -> Seq(Requests)]
    BY DEF Types
  <1>1. ASSUME NEW d \in Clients, Connect(d) PROVE Effect(c)
    <2>1. /\ UNCHANGED <<asked, c2d, sent, running, batch, crashed, events, link_state>>
          /\ ready' = Append(ready, Handler("accept", d))
          /\ peer[c] = "closed" => peer'[c] = "closed"
      BY <1>0, <1>1 DEF Connect, sessionVars, linkVars
    <2>2. Lightens
      BY <2>1, LightensBy, LightHandler
    <2>3. Onward(c)
      BY <2>1, <2>2, Lighter
    <2> QED BY <2>1, <2>3, Silent
  <1>2. ASSUME NEW d \in Clients, Leave(d) PROVE Effect(c)
    <2>1. /\ UNCHANGED <<asked, c2d, sent, ready, running, batch, crashed, events, link_state>>
          /\ peer[c] = "closed" => peer'[c] = "closed"
      BY <1>0, <1>2 DEF Leave, sessionVars, linkVars
    <2>2. Onward(c)
      BY <2>1, LightensBy, Lighter
    <2> QED BY <2>1, <2>2, Silent
  <1>3. ASSUME NEW d \in Clients, NEW r \in Requests, WritesRequest(d, r) PROVE Effect(c)
    <2>1. UNCHANGED <<peer, sent, crashed, events, link_state>>
      BY <1>3 DEF WritesRequest, Request, linkVars
    <2>2. peer[c] = "closed" => asked'[c] = asked[c]
      BY <1>0, <1>3 DEF WritesRequest, Request
    <2>3. Onward(c)
      BY <1>3, WriteOnward
    <2> QED BY <2>1, <2>2, <2>3, Silent
  <1> QED BY <1>1, <1>2, <1>3 DEF CtlNext, Starts, UsageError, Returns, LosesDaemon

\* Every step of the daemon and of the runs has that effect on every run.
LEMMA StepEffect ==
    ASSUME Types, Types', NEW c \in Clients, OneRequest(c), ErrorIsNoTcp, CtlStep
    PROVE  Effect(c)
  <1>0. port' = port
    BY DEF CtlStep
  <1>1. CASE CtlNext
    BY <1>0, <1>1, RunEffect
  <1>2. CASE SocketNext
    BY <1>0, <1>2, SocketEffect
  <1>3. CASE LinkNext
    <2>1. UNCHANGED <<peer, asked, c2d, running, batch, crashed>> /\ running = NoClient
      BY <1>3 DEF LinkNext, OnOpened, OnError, OnPacket, LinkReports, Free, clientVars, sessionVars
    <2>2. Tells(ready) /\ ErrorIsNoTcp' /\ (events' = 0 => events = 0) /\ ready \in Seq(Handlers)
      BY <1>0, <1>3, LinkTells DEF Types
    <2>3. Lightens
      BY <2>2, LightensBy DEF Tells
    <2> QED BY <1>0, <2>1, <2>2, <2>3, Broadcasts
  <1>4. CASE RunHandler
    BY <1>0, <1>4, HandlerEffect
  <1>5. CASE OnFrame
    BY <1>0, <1>5, FrameEffect
  <1>6. CASE EndRead
    BY <1>0, <1>6, EndReadEffect
  <1> QED BY <1>1, <1>2, <1>3, <1>4, <1>5, <1>6 DEF CtlStep, DaemonNext

\* What was served stays served, and what a frame tells stays true.
LEMMA MeantStays ==
    ASSUME Types, Types', NEW c \in Clients, Meant(c), Effect(c), port' = port
    PROVE  Meant(c)' /\ (Settled(c) => Settled(c)')
  <1>1. ASSUME Settled(c) PROVE Settled(c)'
    <2>1. asked'[c] = asked[c] /\ asked[c] # << >> /\ Outstanding(c)' <= 0
      BY <1>1 DEF Settled, Effect, Onward
    <2>2. Outstanding(c)' \in Nat
      <3>1. ready' \in Seq(Handlers)
        BY DEF Types
      <3>2. Count(ready', Carries(c)') \in Nat
        BY <3>1, CountType
      <3> QED BY <3>2 DEF Outstanding, One
    <2>3. Outstanding(c)' = 0
      BY <2>1, <2>2
    <2> QED BY <2>1, <2>3 DEF Settled
  <1>2. ASSUME NEW f \in Frames, Told(c, f)' PROVE Means(c, f)'
    <2>1. CASE Told(c, f)
      <3>1. Means(c, f)
        BY <2>1 DEF Meant
      <3>2. f.type = "QueryResult" => Settled(c)'
        BY <1>1, <3>1 DEF Means
      <3>3. (events' = 0 => events = 0) /\ (asked[c] # << >> => asked'[c] = asked[c])
        BY DEF Effect, Onward
      <3>4. f.type = "Error" /\ events' = 0 => Settled(c)' /\ asked'[c][1] \in Rejectable
        <4>1. f.type = "Error" /\ events' = 0 => Settled(c) /\ asked[c][1] \in Rejectable
          BY <3>1, <3>3 DEF Means
        <4>2. Settled(c) => asked'[c] = asked[c]
          BY <3>3 DEF Settled
        <4> QED BY <1>1, <4>1, <4>2
      <3>5. f = LinkFrame("Error") /\ events' = 0 => port' # "tcp"
        BY <3>1, <3>3 DEF Means
      <3> QED BY <3>2, <3>4, <3>5 DEF Means
    <2>2. CASE ~Told(c, f)
      BY <1>2, <2>2 DEF Effect
    <2> QED BY <2>1, <2>2
  <1> QED BY <1>1, <1>2 DEF Meant

\* A frame that a run read was sent to it.
LEMMA ReadIsTold ==
    ASSUME Types, DaemonInv, NEW c \in Clients, NEW n \in DOMAIN d2c[c]
    PROVE  d2c[c][n] \in Frames /\ Told(c, d2c[c][n])
  <1> DEFINE d == d2c[c]
             s == sent[c]
  <1>1. d \in Seq(Frames) /\ s \in Seq(Frames) /\ n \in DOMAIN d
    BY DEF Types
  <1>2. IsPrefix(d, s)
    <2>1. ClientInv(c)
      BY DEF DaemonInv
    <2> QED BY <2>1, PrefixOfSent
  <1> HIDE DEF d, s
  <1>3. /\ Len(d) <= Len(s) /\ (\A i \in 1 .. Len(d) : d[i] = s[i])
        /\ Len(d) \in Nat /\ Len(s) \in Nat /\ DOMAIN d = 1 .. Len(d) /\ DOMAIN s = 1 .. Len(s)
    BY <1>1, <1>2, PrefixIs, LenProperties
  <1>4. n \in DOMAIN s /\ s[n] = d[n] /\ d[n] \in Frames
    BY <1>1, <1>3, ElementOfSeq
  <1> QED BY <1>4 DEF Told, d, s

\* The status of a run, once set, stays and stays true.
LEMMA ExitStays ==
    ASSUME Types, Types', NEW c \in Clients, Exits(c), Effect(c), Meant(c), port' = port, exit'[c] = exit[c]
    PROVE  Exits(c)'
  <1>1. CASE exit[c] = "none"
    BY <1>1 DEF Exits
  <1>2. CASE exit[c] # "none"
    <2>1. peer'[c] = "closed" /\ asked'[c] = asked[c] /\ (crashed => crashed')
      BY <1>2 DEF Exits, Effect
    <2>2. events > 0 => events' > 0
      <3>1. events \in Nat /\ events' \in Nat /\ (events' = 0 => events = 0)
        BY DEF Types, Effect
      <3> QED BY <3>1
    <2>3. Settled(c) => Settled(c)'
      BY MeantStays
    <2>4. exit'[c] = "0" => asked'[c] # << >> /\ (asked'[c][1] \in {"PING", "STATS"} => Settled(c)')
      BY <2>1, <2>3 DEF Exits
    <2>5. exit'[c] = "1" =>
            \/ crashed' \/ events' > 0
            \/ asked'[c] = << >>
            \/ Settled(c)' /\ asked'[c][1] \in Rejectable
            \/ port' # "tcp" /\ Expected(asked'[c][1]) = "LinkState"
      BY <2>1, <2>2, <2>3 DEF Exits
    <2>6. exit'[c] \in {"none", "0", "1"}
      BY DEF Exits
    <2> QED BY <2>1, <2>4, <2>5, <2>6 DEF Exits
  <1> QED BY <1>1, <1>2

\* A run returns what the deciding frame means.
LEMMA ReturnExits ==
    ASSUME Types, Types', DaemonInv, NEW c \in Clients, Meant(c), Effect(c), port' = port,
           exit \in [Clients -> {"none", "0", "1"}], Returns(c)
    PROVE  Exits(c)'
  <1>1. /\ UNCHANGED <<asked, events>> /\ peer'[c] = "closed" /\ asked[c] # << >>
    BY DEF Returns, Leave, linkVars, Types
  <1> DEFINE r == asked[c][1]
  <1>2. PICK n \in DOMAIN d2c[c] :
           Ends(r, d2c[c], n) /\ exit' = [exit EXCEPT ![c] = Status(r, d2c[c][n])]
    BY DEF Returns
  <1>3. PICK f \in Frames : f = d2c[c][n] /\ Told(c, f)
    BY ReadIsTold
  <1>4. Means(c, f)
    BY <1>3 DEF Meant
  <1>5. (Fails(r, f) \/ Succeeds(r, f)) /\ exit'[c] = Status(r, f)
    BY <1>2, <1>3 DEF Ends, Decides
  <1>6. CASE Fails(r, f)
    <2>1. exit'[c] = "1"
      BY <1>5, <1>6 DEF Status
    <2>2. f.type = "Error" \/ (f.type = Expected(r) /\ f = LinkFrame("Error"))
      BY <1>6 DEF Fails
    <2>3. LinkFrame("Error").type = "LinkState"
      BY DEF LinkFrame, Frame
    <2>4. events > 0 \/ (Settled(c) /\ r \in Rejectable) \/ (port # "tcp" /\ Expected(r) = "LinkState")
      <3>1. events = 0 \/ events > 0
        BY DEF Types
      <3> QED BY <1>4, <2>2, <2>3, <3>1 DEF Means
    <2>5. Settled(c) => Settled(c)'
      BY MeantStays
    <2> QED BY <1>1, <2>1, <2>4, <2>5 DEF Exits
  <1>7. CASE ~Fails(r, f)
    <2>1. exit'[c] = "0" /\ f.type = Expected(r)
      BY <1>5, <1>7 DEF Status, Succeeds
    <2>2. r \in {"PING", "STATS"} => Settled(c)
      <3>1. r \in {"PING", "STATS"} => Expected(r) = "QueryResult"
        BY DEF Expected
      <3> QED BY <1>4, <2>1, <3>1 DEF Means
    <2>3. Settled(c) => Settled(c)'
      BY MeantStays
    <2> QED BY <1>1, <2>1, <2>2, <2>3 DEF Exits
  <1> QED BY <1>6, <1>7

\* The other ways a run ends: a wrong call, and a daemon that is gone.
LEMMA FailExits ==
    ASSUME Types, NEW c \in Clients, exit \in [Clients -> {"none", "0", "1"}], UsageError(c) \/ LosesDaemon(c)
    PROVE  Exits(c)'
  <1>1. exit'[c] = "1" /\ peer'[c] = "closed" /\ UNCHANGED <<asked, crashed>>
    BY DEF UsageError, LosesDaemon, Leave, Types
  <1>2. asked[c] = << >> \/ crashed
    BY DEF UsageError, LosesDaemon
  <1> QED BY <1>1, <1>2 DEF Exits

\* A TCP link that does not fail is in no error.
LEMMA NoTcpError ==
    ASSUME Types, ErrorIsNoTcp, CtlStep
    PROVE  ErrorIsNoTcp'
  <1>0. port' = port
    BY DEF CtlStep
  <1>1. CASE OnFrame
    BY <1>0, <1>1, FrameTells
  <1>2. CASE LinkNext
    BY <1>0, <1>2, LinkTells
  <1>3. CASE CtlNext \/ SocketNext \/ RunHandler \/ EndRead
    <2>1. CtlNext => UNCHANGED <<link_state, events>>
      BY DEF CtlNext, Starts, WritesRequest, UsageError, Returns, LosesDaemon, Connect, Request, Leave, linkVars
    <2>2. SocketNext => UNCHANGED <<link_state, events>>
      BY DEF SocketNext, ReadCompletes, WriteCompletes, IoFails, Completed, linkVars
    <2>3. RunHandler => UNCHANGED <<link_state, events>>
      BY DEF RunHandler, RunAccept, RunSend, RunWritten, RunRead, linkVars
    <2>4. EndRead => UNCHANGED <<link_state, events>>
      BY DEF EndRead, linkVars
    <2> QED BY <1>0, <1>3, <2>1, <2>2, <2>3, <2>4 DEF ErrorIsNoTcp
  <1> QED BY <1>1, <1>2, <1>3 DEF CtlStep, DaemonNext

\* Every step keeps the invariant.
LEMMA CtlInvStep ==
    ASSUME Types, Types', DaemonInv, CtlInv, [CtlStep]_ctlVars
    PROVE  CtlInv'
  <1>1. CASE UNCHANGED ctlVars
    <2>1. UNCHANGED <<peer, asked, sock, pending, tx_queue_, d2c, c2d, sent, sessions_, ready, running, batch,
                      port, phase, link_state, events, stats, crashed, exit>>
      BY <1>1 DEF ctlVars, vars, clientVars, sessionVars, linkVars
    <2>2. \A c : Outstanding(c)' = Outstanding(c) /\ Strays(c)' = Strays(c)
      BY <2>1 DEF Outstanding, Carries, Strays
    <2>3. \A c : OneRequest(c)' <=> OneRequest(c)
      BY <2>1, <2>2 DEF OneRequest
    <2>4. \A c : Settled(c)' <=> Settled(c)
      BY <2>1, <2>2 DEF Settled
    <2>5. \A c, f : (Told(c, f)' <=> Told(c, f)) /\ (Means(c, f)' <=> Means(c, f))
      BY <2>1, <2>4 DEF Told, Means
    <2>6. \A c : (Meant(c)' <=> Meant(c)) /\ (Exits(c)' <=> Exits(c))
      BY <2>1, <2>4, <2>5 DEF Meant, Exits
    <2>7. ErrorIsNoTcp'
      BY <2>1 DEF CtlInv, ErrorIsNoTcp
    <2> QED BY <2>1, <2>3, <2>6, <2>7 DEF CtlInv
  <1>2. CASE CtlStep
    <2>0. exit \in [Clients -> {"none", "0", "1"}] /\ ErrorIsNoTcp /\ port' = port
      BY <1>2 DEF CtlInv, CtlStep
    <2>1. ASSUME NEW c \in Clients PROVE Effect(c)
      BY <1>2, StepEffect DEF CtlInv
    <2>2. ASSUME NEW c \in Clients PROVE OneRequest(c)'
      BY <2>1 DEF Effect, Onward
    <2>3. ASSUME NEW c \in Clients PROVE Meant(c)'
      BY <2>0, <2>1, MeantStays DEF CtlInv
    <2>4. ASSUME NEW c \in Clients, exit'[c] = exit[c] PROVE Exits(c)'
      BY <2>0, <2>1, <2>4, ExitStays DEF CtlInv
    <2>5. ASSUME exit' = exit
          PROVE  exit' \in [Clients -> {"none", "0", "1"}] /\ \A c \in Clients : Exits(c)'
      BY <2>0, <2>4, <2>5
    <2>6. ASSUME NEW d \in Clients, Returns(d) \/ UsageError(d) \/ LosesDaemon(d)
          PROVE  exit' \in [Clients -> {"none", "0", "1"}] /\ \A c \in Clients : Exits(c)'
      <3>1. PICK v \in {"0", "1"} : exit' = [exit EXCEPT ![d] = v]
        BY <2>6 DEF Returns, UsageError, LosesDaemon, Status
      <3>2. exit' \in [Clients -> {"none", "0", "1"}] /\ \A c \in Clients : c # d => exit'[c] = exit[c]
        BY <2>0, <3>1
      <3>3. Exits(d)'
        BY <2>0, <2>1, <2>6, ReturnExits, FailExits DEF CtlInv
      <3> QED BY <2>4, <3>2, <3>3
    <2>7. exit' \in [Clients -> {"none", "0", "1"}] /\ \A c \in Clients : Exits(c)'
      <3>1. CASE DaemonNext /\ UNCHANGED exit
        BY <2>5, <3>1
      <3>2. CASE CtlNext
        BY <2>5, <2>6, <3>2 DEF CtlNext, Starts, WritesRequest
      <3> QED BY <1>2, <3>1, <3>2 DEF CtlStep
    <2>8. ErrorIsNoTcp'
      BY <1>2, <2>0, NoTcpError
    <2> QED BY <2>2, <2>3, <2>7, <2>8 DEF CtlInv
  <1> QED BY <1>1, <1>2

\* It holds before the first run.
LEMMA CtlInitInv ==
    ASSUME CtlInit
    PROVE  CtlInv
  <1>1. /\ exit = [c \in Clients |-> "none"] /\ ready = << >> /\ running = NoClient
        /\ events = 0 /\ (link_state = "Error" => port = "serial")
    BY DEF CtlInit, Init
  <1>2. \A c \in Clients : c2d[c] = << >> /\ asked[c] = << >> /\ sent[c] = << >>
    BY DEF CtlInit, Init
  <1>3. ErrorIsNoTcp
    BY <1>1 DEF ErrorIsNoTcp
  <1>4. ASSUME NEW c \in Clients PROVE OneRequest(c) /\ Meant(c) /\ Exits(c)
    <2>1. running # c
      BY <1>1, ClientsAssumption
    <2>2. Count(ready, Carries(c)) = 0 /\ Count(ready, Strays(c)) = 0
      BY <1>1, CountEmpty
    <2>3. Outstanding(c) = 0 /\ One(asked[c] # << >>) = 0
      BY <1>2, <2>1, <2>2 DEF Outstanding, One
    <2>4. OneRequest(c)
      <3>1. Len(asked[c]) <= 1
        BY <1>2
      <3> QED BY <1>2, <2>1, <2>2, <2>3, <3>1 DEF OneRequest
    <2>5. \A f : ~Told(c, f)
      BY <1>2 DEF Told
    <2> QED BY <1>1, <2>4, <2>5 DEF Meant, Exits
  <1> QED BY <1>1, <1>3, <1>4 DEF CtlInv

------------------------------------------------------------------------------
(* The theorems.                                                            *)

\* The invariant of the daemon with gsdctl as its clients: each run's request is
\* in one place at a time, every frame sent to a run tells the truth about that
\* request or about the link, and so does its exit status.
THEOREM CtlInductive == CtlSpec => [](Types /\ DaemonInv /\ CtlInv)
  <1>1. CtlInit => CtlInv
    BY CtlInitInv
  <1>2. (Types /\ DaemonInv /\ CtlInv) /\ Types' /\ [CtlStep]_ctlVars => CtlInv'
    BY CtlInvStep
  <1>3. CtlSpec => [](Types /\ DaemonInv)
    BY CtlImplementsDaemon, Inductive, PTL
  <1>4. CtlSpec <=> CtlInit /\ [][CtlStep]_ctlVars
    BY DEF CtlSpec, CtlStep
  <1> QED BY <1>1, <1>2, <1>3, <1>4, PTL

\* A request that is in none of its places has been read and served.
LEMMA SettledServed ==
    ASSUME Types, NEW c \in Clients, Settled(c)
    PROVE  Served(c)
  <1>1. asked[c] # << >> /\ Outstanding(c) = 0
    BY DEF Settled
  <1>2. c2d[c] = << >> /\ Count(ready, Carries(c)) = 0 /\ ~(running = c /\ batch # << >>)
    <2> DEFINE k == Count(ready, Carries(c))
               x == One(c2d[c] # << >>)
               y == One(running = c /\ batch # << >>)
    <2>1. k \in Nat /\ x \in {0, 1} /\ y \in {0, 1} /\ x + k + y = 0
      BY <1>1, OutstandingType DEF Outstanding
    <2> HIDE DEF k, x, y
    <2>2. x = 0 /\ k = 0 /\ y = 0
      BY <2>1
    <2> QED BY <2>2 DEF k, x, y, One
  <1>3. ASSUME NEW i \in DOMAIN ready, ready[i].c = c PROVE ready[i].frames = << >>
    <2>1. ready \in Seq(Handlers)
      BY DEF Types
    <2>2. ready[i] \in Handlers
      BY <2>1, ElementOfSeq, LenProperties
    <2>3. ready[i] \notin Carries(c)
      BY <1>2, <2>1, CountType
    <2> QED BY <1>3, <2>2, <2>3 DEF Carries
  <1> QED BY <1>1, <1>2, <1>3 DEF Served

\* main.cpp:185, any number of runs at once: ping and stats exit with 0 only when
\* the daemon has read and served their own request.
THEOREM QueriesAlwaysServed == CtlSpec => []QueriesServed
  <1>1. Types /\ CtlInv => QueriesServed
    BY SettledServed DEF QueriesServed, CtlInv, Exits
  <1> QED BY <1>1, CtlInductive, PTL

\* main.cpp:192, any number of runs at once: while the device stays quiet and the
\* daemon lives, a run exits with 1 only if it was called wrongly, its own packet
\* was served and may be rejected, or it waits for a port other than TCP.
THEOREM FailuresAreOnesOwn == CtlSpec => []FailsOnItsOwn
  <1>1. Types /\ CtlInv => FailsOnItsOwn
    BY SettledServed DEF CtlInv, Exits, FailsOnItsOwn, Rejectable
  <1> QED BY <1>1, CtlInductive, PTL

\* The streams of the runs: in order, greeted first, and ending with the state of
\* the link, as of any client of the daemon.
THEOREM RunsAreClients == CtlSpec => [](StreamInOrder /\ HelloFirst /\ ViewsAgree)
  BY CtlImplementsDaemon, StreamsInOrder, Greeting, NoStaleView, PTL

==============================================================================
