-------------------------- MODULE SerialLinkProofs --------------------------
(***************************************************************************)
(* Theorems about SerialLink, for every port kind and every bound: the     *)
(* types, the agreement of flags, descriptor and operations, the one       *)
(* reader and the one writer of a session; and, on TCP, that the link      *)
(* implements LinkContract.                                                *)
(***************************************************************************)
EXTENDS SerialLink, SequenceLemmas

------------------------------------------------------------------------------
(* Operations and the sequences that hold them.                             *)

\* The operations start(), do_read_* and do_write issue are well formed.
LEMMA OpTypes ==
    ASSUME NEW g \in Nat, NEW p \in Nat, NEW kind \in Kinds
    PROVE  Op(kind, g) \in Ops /\ ReadOp(g) \in Ops /\ WriteOp(g, p) \in Ops
           /\ Post(g, p) \in Ops
  BY DEF Op, ReadOp, WriteOp, Post, Ops, Kinds, Results

\* Empty queues are well formed.
LEMMA EmptyTypes ==
    << >> \in Seq(Ops) /\ << >> \in Seq(Nat) /\ << >> \in Seq(Parts)
  OBVIOUS

\* The fields of a queued handler or pending operation.
LEMMA ElementTypes ==
    ASSUME NEW s \in Seq(Ops)
    PROVE  \A i \in DOMAIN s : /\ s[i] \in Ops /\ s[i].gen \in Nat /\ s[i].pkt \in Nat
                               /\ s[i].part \in Nat /\ s[i].kind \in Kinds
  <1>1. DOMAIN s = 1 .. Len(s) BY LenProperties
  <1>2. \A i \in 1 .. Len(s) : s[i] \in Ops BY ElementOfSeq
  <1> QED BY <1>1, <1>2 DEF Ops

\* Taking the first handler off the io_context's queue.
LEMMA TailFacts ==
    ASSUME NEW S, NEW s \in Seq(S), s # << >>
    PROVE  /\ Head(s) \in S /\ Head(s) = s[1] /\ 1 \in DOMAIN s
           /\ Tail(s) \in Seq(S)
           /\ \A i \in DOMAIN Tail(s) : i + 1 \in DOMAIN s /\ Tail(s)[i] = s[i + 1]
  <1>1. Len(s) \in Nat /\ Len(s) >= 1 /\ DOMAIN s = 1 .. Len(s)
    BY EmptySeq, LenProperties
  <1>2. Head(s) = s[1] /\ s[1] \in S
    BY <1>1, ElementOfSeq
  <1>3. Tail(s) \in Seq(S) /\ Len(Tail(s)) = Len(s) - 1
        /\ \A i \in 1 .. Len(s) - 1 : Tail(s)[i] = s[i + 1]
    BY <1>1, HeadTailProperties
  <1>4. DOMAIN Tail(s) = 1 .. Len(s) - 1
    BY <1>3, LenProperties
  <1> QED BY <1>1, <1>2, <1>3, <1>4

\* Queueing a handler or issuing an operation.
LEMMA AppendFacts ==
    ASSUME NEW S, NEW s \in Seq(S), NEW e \in S
    PROVE  /\ Append(s, e) \in Seq(S)
           /\ DOMAIN Append(s, e) = DOMAIN s \union {Len(s) + 1}
           /\ Append(s, e)[Len(s) + 1] = e
           /\ \A i \in DOMAIN s : Append(s, e)[i] = s[i] /\ i < Len(s) + 1
  <1>1. Len(s) \in Nat /\ DOMAIN s = 1 .. Len(s)
    BY LenProperties
  <1>2. Append(s, e) \in Seq(S) /\ Len(Append(s, e)) = Len(s) + 1
        /\ (\A i \in 1 .. Len(s) : Append(s, e)[i] = s[i])
        /\ Append(s, e)[Len(s) + 1] = e
    BY AppendProperties
  <1>3. DOMAIN Append(s, e) = 1 .. Len(s) + 1
    BY <1>2, LenProperties
  <1> QED BY <1>1, <1>2, <1>3

\* Closing the descriptor: aborted operations queue behind the handlers, and
\* differ from what they were in their result only.
LEMMA AbortFacts ==
    ASSUME NEW q \in Seq(Ops), NEW r \in Seq(Ops)
    PROVE  /\ q \o Abort(r) \in Seq(Ops)
           /\ \A i \in DOMAIN (q \o Abort(r)) :
                 \/ i \in DOMAIN q /\ (q \o Abort(r))[i] = q[i]
                 \/ \E j \in DOMAIN r : /\ (q \o Abort(r))[i].kind = r[j].kind
                                        /\ (q \o Abort(r))[i].gen = r[j].gen
  <1>1. Len(q) \in Nat /\ DOMAIN q = 1 .. Len(q) /\ Len(r) \in Nat /\ DOMAIN r = 1 .. Len(r)
    BY LenProperties
  <1>2. \A j \in DOMAIN r : [r[j] EXCEPT !.res = "err"] \in Ops
    <2> TAKE j \in DOMAIN r
    <2>1. r[j] \in Ops BY <1>1, ElementOfSeq
    <2> QED BY <2>1 DEF Ops, Results
  <1>3. Abort(r) \in Seq(Ops) /\ Len(Abort(r)) = Len(r)
    BY <1>1, <1>2 DEF Abort
  <1>4. q \o Abort(r) \in Seq(Ops) /\ Len(q \o Abort(r)) = Len(q) + Len(r)
        /\ \A i \in 1 .. Len(q) + Len(r) :
              (q \o Abort(r))[i] = IF i <= Len(q) THEN q[i] ELSE Abort(r)[i - Len(q)]
    <2>1. \A a \in Seq(Ops) :
            /\ q \o a \in Seq(Ops) /\ Len(q \o a) = Len(q) + Len(a)
            /\ \A i \in 1 .. Len(q) + Len(a) :
                  (q \o a)[i] = IF i <= Len(q) THEN q[i] ELSE a[i - Len(q)]
      BY ConcatProperties, Zenon
    <2> QED BY <1>3, <2>1
  <1>5. DOMAIN (q \o Abort(r)) = 1 .. Len(q) + Len(r)
    BY <1>4, LenProperties
  <1>6. \A j \in 1 .. Len(r) : Abort(r)[j] = [r[j] EXCEPT !.res = "err"]
    BY <1>1 DEF Abort
  <1>7. \A i \in 1 .. Len(q) + Len(r) : i <= Len(q) \/ i - Len(q) \in 1 .. Len(r)
    BY <1>1
  <1>8. \A i \in 1 .. Len(q) + Len(r) : ~(i <= Len(q)) =>
            (q \o Abort(r))[i] = [r[i - Len(q)] EXCEPT !.res = "err"]
    BY <1>4, <1>6, <1>7
  <1>9. \A i \in 1 .. Len(q) + Len(r) : i <= Len(q) =>
            i \in 1 .. Len(q) /\ (q \o Abort(r))[i] = q[i]
    BY <1>1, <1>4
  <1>10. \A j \in 1 .. Len(r) : /\ [r[j] EXCEPT !.res = "err"].kind = r[j].kind
                                /\ [r[j] EXCEPT !.res = "err"].gen = r[j].gen
    BY <1>1, ElementTypes DEF Ops
  <1> DEFINE s == q \o Abort(r)
  <1> HIDE DEF s
  <1>11. \A i \in 1 .. Len(q) + Len(r) : ~(i <= Len(q)) =>
            \E j \in 1 .. Len(r) : s[i].kind = r[j].kind /\ s[i].gen = r[j].gen
    <2> TAKE i \in 1 .. Len(q) + Len(r)
    <2> HAVE ~(i <= Len(q))
    <2> DEFINE j == i - Len(q)
    <2>1. j \in 1 .. Len(r) BY <1>7
    <2>2. s[i] = [r[j] EXCEPT !.res = "err"] BY <1>8 DEF s
    <2> QED BY <1>10, <2>1, <2>2
  <1>12. \A i \in 1 .. Len(q) + Len(r) : i <= Len(q) => i \in 1 .. Len(q) /\ s[i] = q[i]
    BY <1>9 DEF s
  <1>13. s \in Seq(Ops) /\ DOMAIN s = 1 .. Len(q) + Len(r) BY <1>4, <1>5 DEF s
  <1> QED BY <1>1, <1>11, <1>12, <1>13, Zenon DEF s

\* A completed operation leaves the pending ones; the others keep their order.
LEMMA WithoutFacts ==
    ASSUME NEW s \in Seq(Ops), NEW i \in DOMAIN s
    PROVE  /\ Without(s, i) \in Seq(Ops)
           /\ \A j \in DOMAIN Without(s, i) :
                 \E k \in DOMAIN s : k # i /\ Without(s, i)[j] = s[k]
                                     /\ k = IF j < i THEN j ELSE j + 1
  <1>1. Len(s) \in Nat /\ DOMAIN s = 1 .. Len(s) /\ Len(s) >= 1 /\ i \in 1 .. Len(s)
    BY LenProperties
  <1>2. \A k \in 1 .. Len(s) : s[k] \in Ops
    BY ElementOfSeq
  <1>3. \A j \in 1 .. Len(s) - 1 :
            LET k == IF j < i THEN j ELSE j + 1
            IN k \in 1 .. Len(s) /\ k # i /\ Without(s, i)[j] = s[k]
    BY <1>1 DEF Without
  <1>4. DOMAIN Without(s, i) = 1 .. Len(s) - 1
    BY DEF Without
  <1>5. \A j \in 1 .. Len(s) - 1 : Without(s, i)[j] \in Ops
    BY <1>2, <1>3
  <1>6. Without(s, i) \in Seq(Ops)
    BY <1>1, <1>5 DEF Without
  <1> QED BY <1>1, <1>3, <1>4, <1>6

------------------------------------------------------------------------------
(* Type correctness.                                                        *)

\* The start() part of CONNECT and RECONNECT keeps the types.
LEMMA BeginTypes ==
    ASSUME TypeOK, NEW g \in Nat, NEW shown \in {"Disconnected", "Connected", "Error"},
           NEW ops \in Seq(Ops), NEW hs \in Seq(Ops), tx_queue_' \in Seq(Nat),
           Begin(g, shown, ops, hs)
    PROVE  TypeOK'
  <1>1. ReadOp(g) \in Ops BY OpTypes DEF Kinds
  <1>2. Append(ops, ReadOp(g)) \in Seq(Ops) BY <1>1, AppendFacts
  <1>3. CASE StartTcp(g, shown, ops, hs)
    BY <1>3 DEF Begin, TypeOK, StartTcp, Closed
  <1>4. CASE StartFails(ops, hs)
    BY <1>4 DEF Begin, TypeOK, StartFails, Closed
  <1>5. CASE StartSerial(g, ops, hs)
    BY <1>2, <1>5 DEF Begin, TypeOK, StartSerial
  <1> QED BY <1>3, <1>4, <1>5 DEF Begin

\* handle_io_error keeps the types.
LEMMA IoErrorTypes ==
    ASSUME TypeOK, NEW hs \in Seq(Ops), HandleIoError(hs)
    PROVE  TypeOK'
  <1>1. hs \o Abort(inflight) \in Seq(Ops) BY AbortFacts DEF TypeOK
  <1>2. ready' \in Seq(Ops) /\ inflight' \in Seq(Ops) /\ tx_queue_' \in Seq(Nat)
    BY <1>1, EmptyTypes, Zenon DEF HandleIoError
  <1> QED BY <1>2 DEF TypeOK, HandleIoError, Closed

\* A callback that returns at once keeps the types.
LEMMA IgnoreTypes ==
    ASSUME TypeOK, NEW hs \in Seq(Ops), Ignore(hs)
    PROVE  TypeOK'
  BY DEF TypeOK, Ignore

\* A completion keeps the types.
LEMMA CompletesTypes ==
    ASSUME TypeOK, NEW i \in DOMAIN inflight, NEW op \in Ops, Completes(i, op),
           wire' \in Seq(Parts)
    PROVE  TypeOK'
  <1>1. Without(inflight, i) \in Seq(Ops) BY WithoutFacts DEF TypeOK
  <1>2. Append(ready, op) \in Seq(Ops) BY AppendFacts DEF TypeOK
  <1> QED BY <1>1, <1>2 DEF TypeOK, Completes

\* Every handler keeps the types.
LEMMA HandlerTypes ==
    ASSUME TypeOK, RunHandler
    PROVE  TypeOK'
  <1> DEFINE h == Head(ready)
             hs == Tail(ready)
  <1>1. h \in Ops /\ hs \in Seq(Ops)
    BY TailFacts DEF TypeOK, RunHandler
  <1>2. h.gen \in Nat /\ h.pkt \in Nat /\ h.kind \in Kinds
    BY <1>1 DEF Ops
  <1>3. /\ [h EXCEPT !.res = "pending"] \in Ops
        /\ [h EXCEPT !.res = "err"] \in Ops
    BY <1>1 DEF Ops, Results
  <1>4. /\ Op("connect", h.gen) \in Ops
        /\ ReadOp(h.gen) \in Ops
        /\ \A p \in Nat : WriteOp(generation_, p) \in Ops
    BY <1>2, OpTypes DEF Kinds, TypeOK
  <1>5. \A op \in Ops : Append(inflight, op) \in Seq(Ops) /\ Append(hs, op) \in Seq(Ops)
    BY <1>1, AppendFacts DEF TypeOK
  <1>6. \A q \in Seq(Nat) : DoWrite(q) => inflight' \in Seq(Ops) /\ tx_queue_' \in Seq(Nat)
    <2> TAKE q \in Seq(Nat)
    <2> HAVE DoWrite(q)
    <2>1. q # << >> => Head(q) \in Nat
      BY TailFacts
    <2> QED BY <1>4, <1>5, <2>1 DEF DoWrite, TypeOK
  <1> HIDE DEF h, hs
  <1>7. CASE RunResolve(h, hs)
    <2>1. CASE Ignore(hs) BY <1>1, <2>1, IgnoreTypes
    <2>2. CASE HandleIoError(hs) BY <1>1, <2>2, IoErrorTypes
    <2>3. CASE ~Ignore(hs) /\ ~HandleIoError(hs)
      BY <1>1, <1>2, <1>4, <1>5, <1>7, <2>3 DEF RunResolve, TypeOK
    <2> QED BY <2>1, <2>2, <2>3
  <1>8. CASE RunConnect(h, hs)
    <2>1. CASE Ignore(hs) BY <1>1, <2>1, IgnoreTypes
    <2>2. CASE HandleIoError(hs) BY <1>1, <2>2, IoErrorTypes
    <2>3. CASE ~Ignore(hs) /\ ~HandleIoError(hs)
      BY <1>1, <1>4, <1>5, <1>8, <2>3 DEF RunConnect, TypeOK
    <2> QED BY <2>1, <2>2, <2>3
  <1>9. CASE RunRead(h, hs)
    <2>1. CASE Ignore(hs) BY <1>1, <2>1, IgnoreTypes
    <2>2. CASE HandleIoError(hs) BY <1>1, <2>2, IoErrorTypes
    <2>3. CASE ~Ignore(hs) /\ ~HandleIoError(hs)
      BY <1>1, <1>4, <1>5, <1>9, <2>3 DEF RunRead, TypeOK
    <2> QED BY <2>1, <2>2, <2>3
  <1>10. CASE RunPartialWrite(h, hs)
    BY <1>1, <1>3, <1>5, <1>10 DEF RunPartialWrite, TypeOK
  <1>11. CASE RunWrite(h, hs)
    <2>1. CASE Ignore(hs) BY <1>1, <2>1, IgnoreTypes
    <2>2. CASE HandleIoError(hs) BY <1>1, <2>2, IoErrorTypes
    <2>3. CASE ~Ignore(hs) /\ ~HandleIoError(hs)
      <3> DEFINE q == IF tx_queue_ = << >> THEN << >> ELSE Tail(tx_queue_)
      <3>1. q \in Seq(Nat)
        BY TailFacts DEF TypeOK
      <3> HIDE DEF q
      <3>2. DoWrite(q) /\ ready' = hs
            /\ UNCHANGED <<opened_, connecting_, generation_, handle,
                           link_state, resolving, accepted, wire>>
        BY <1>11, <2>3 DEF RunWrite, q
      <3> QED BY <1>1, <1>6, <3>1, <3>2 DEF TypeOK
    <2> QED BY <2>1, <2>2, <2>3
  <1>12. CASE RunPost(h, hs)
    <2>1. CASE Ignore(hs) BY <1>1, <2>1, IgnoreTypes
    <2>2. CASE ~Ignore(hs)
      <3>1. <<h.pkt>> \in Seq(Nat) /\ Append(tx_queue_, h.pkt) \in Seq(Nat)
        BY <1>2, AppendFacts DEF TypeOK
      <3>2. inflight' \in Seq(Ops) /\ tx_queue_' \in Seq(Nat)
        BY <1>6, <1>12, <2>2, <3>1 DEF RunPost, TypeOK
      <3> QED BY <1>1, <1>12, <2>2, <3>2 DEF RunPost, TypeOK
    <2> QED BY <2>1, <2>2
  <1> QED BY <1>7, <1>8, <1>9, <1>10, <1>11, <1>12 DEF RunHandler, h, hs

\* Every step of the link keeps the types.
LEMMA NextTypes ==
    ASSUME TypeOK, [Next]_vars
    PROVE  TypeOK'
  <1>1. generation_ + 1 \in Nat /\ generation_ + 2 \in Nat /\ accepted + 1 \in Nat
    BY DEF TypeOK
  <1>2. ready \o Abort(inflight) \in Seq(Ops)
    BY AbortFacts DEF TypeOK
  <1>3. CASE Start
    BY <1>1, <1>3, BeginTypes DEF Start, TypeOK
  <1>4. CASE Stop
    <2>1. ready' \in Seq(Ops) /\ inflight' \in Seq(Ops) /\ tx_queue_' \in Seq(Nat)
      BY <1>2, <1>4, EmptyTypes, Zenon DEF Stop
    <2> QED BY <1>1, <1>4, <2>1 DEF Stop, TypeOK, Closed
  <1>5. CASE Restart
    <2>1. tx_queue_' \in Seq(Nat) BY <1>5 DEF Restart
    <2>2. << >> \in Seq(Ops) OBVIOUS
    <2> QED BY <1>1, <1>2, <1>5, <2>1, <2>2, BeginTypes DEF Restart
  <1>6. CASE WriteBytes
    <2>1. Post(generation_, accepted + 1) \in Ops
      BY <1>1, OpTypes DEF TypeOK, Kinds
    <2>2. Append(ready, Post(generation_, accepted + 1)) \in Seq(Ops)
      BY <2>1, AppendFacts DEF TypeOK
    <2> QED BY <1>1, <1>6, <2>2 DEF WriteBytes, TypeOK
  <1>7. CASE Resolver
    <2>1. PICK g \in resolving, res \in {"ok", "err"} : Resolved(g, res)
      BY <1>7 DEF Resolver
    <2>2. [Op("resolve", g) EXCEPT !.res = res] \in Ops
      BY <2>1 DEF Op, Ops, Kinds, Results, TypeOK
    <2>3. Append(ready, [Op("resolve", g) EXCEPT !.res = res]) \in Seq(Ops)
      BY <2>2, AppendFacts DEF TypeOK
    <2> QED BY <2>1, <2>3 DEF Resolved, TypeOK
  <1>8. CASE System
    <2>1. PICK i \in DOMAIN inflight :
              \/ \E res \in {"ok", "err"} : IoCompletes(i, res)
              \/ \E res \in {"ok", "some"} : Transmits(i, res)
      BY <1>8 DEF System
    <2>2. inflight[i] \in Ops
      BY ElementOfSeq, LenProperties DEF TypeOK
    <2>3. CASE \E res \in {"ok", "err"} : IoCompletes(i, res)
      <3>1. PICK res \in {"ok", "err"} : IoCompletes(i, res) BY <2>3
      <3>2. [inflight[i] EXCEPT !.res = res] \in Ops
        BY <2>2 DEF Ops, Results
      <3> QED BY <3>1, <3>2, CompletesTypes DEF IoCompletes, TypeOK
    <2>4. CASE \E res \in {"ok", "some"} : Transmits(i, res)
      <3>1. PICK res \in {"ok", "some"} : Transmits(i, res) BY <2>4
      <3>2. [inflight[i] EXCEPT !.res = res, !.part = @ + 1] \in Ops
        <4>1. inflight[i].part + 1 \in Nat BY <2>2 DEF Ops
        <4>2. [inflight[i] EXCEPT !.res = res] \in Ops BY <2>2 DEF Ops, Results
        <4> QED BY <2>2, <4>1, <4>2 DEF Ops, Results
      <3> DEFINE p == [sess |-> handle, pkt |-> inflight[i].pkt,
                       part |-> inflight[i].part + 1, last |-> res = "ok"]
      <3>3. p \in Parts
        BY <2>2 DEF Parts, Ops, TypeOK
      <3>4. wire' \in Seq(Parts)
        BY <3>1, <3>3, AppendFacts DEF Transmits, TypeOK
      <3> QED BY <3>1, <3>2, <3>4, CompletesTypes DEF Transmits
    <2> QED BY <2>1, <2>3, <2>4
  <1>9. CASE RunHandler BY <1>9, HandlerTypes
  <1>10. CASE UNCHANGED vars BY <1>10 DEF vars, TypeOK
  <1> QED BY <1>3, <1>4, <1>5, <1>6, <1>7, <1>8, <1>9, <1>10 DEF Next

\* The link starts well typed.
LEMMA InitTypes == Init => TypeOK
  <1>1. ReadOp(1) \in Ops BY OpTypes DEF Kinds
  <1>2. <<ReadOp(1)>> \in Seq(Ops) BY <1>1
  <1>3. {1} \subseteq Nat /\ {} \subseteq Nat OBVIOUS
  <1>4. 0 \in Nat /\ 1 \in Nat OBVIOUS
  <1>5. SUFFICES ASSUME Init PROVE TypeOK OBVIOUS
  <1>6. inflight \in Seq(Ops) /\ resolving \subseteq Nat
    BY <1>2, <1>3, <1>5, EmptyTypes, Zenon DEF Init
  <1>7. opened_ \in BOOLEAN /\ connecting_ \in BOOLEAN
        /\ link_state \in {"Disconnected", "Connected", "Error"}
    BY <1>5, Zenon DEF Init
  <1>8. generation_ \in Nat /\ handle \in Nat
    BY <1>4, <1>5, Zenon DEF Init, Closed
  <1> QED BY <1>4, <1>5, <1>6, <1>7, <1>8, EmptyTypes, Zenon DEF Init, TypeOK

\* Whatever commands, completions and failures meet the link, its variables keep
\* their types.
THEOREM TypeCorrect == Spec => []TypeOK
  BY InitTypes, NextTypes, PTL DEF Spec

------------------------------------------------------------------------------
(* The inductive invariant.                                                 *)

\* A command starts a new generation: everything queued or pending is of an
\* older one, except the read a serial port starts with.
LEMMA NewGeneration ==
    ASSUME TypeOK, TypeOK',
           generation_' > generation_,
           LinkConsistent',
           \A i \in DOMAIN ready' : ready'[i].gen <= generation_,
           \A i \in DOMAIN inflight' : inflight'[i] = ReadOp(generation_') /\ ~connecting_',
           \A g \in resolving' : g <= generation_ \/ (g = generation_' /\ connecting_'),
           Tcp => ~opened_'
    PROVE  LinkInv'
  <1>1. generation_ \in Nat /\ generation_' \in Nat
    BY DEF TypeOK
  <1>2. \A i \in DOMAIN ready' : ready'[i].gen \in Nat
    BY ElementTypes DEF TypeOK
  <1>3. \A i \in DOMAIN inflight' : inflight'[i].gen \in Nat
    BY ElementTypes DEF TypeOK
  <1>4. \A i \in DOMAIN ready' : ready'[i].gen < generation_' /\ ready'[i].gen # generation_'
    BY <1>1, <1>2
  <1>5. \A i \in DOMAIN inflight' :
           /\ inflight'[i].gen <= generation_'
           /\ inflight'[i].gen = generation_' => inflight'[i].kind = "read" /\ ~connecting_'
    BY <1>1, <1>3 DEF ReadOp, Op
  <1>6. GenerationsPast'
    <2>1. resolving' \subseteq Nat BY DEF TypeOK
    <2>2. \A g \in resolving' : g <= generation_' BY <1>1, <2>1
    <2>3. \A i \in DOMAIN ready' : ready'[i].gen <= generation_' BY <1>1, <1>2, <1>4
    <2> QED BY <1>5, <2>2, <2>3 DEF GenerationsPast
  <1>7. DescriptorOps'
    BY DEF DescriptorOps, ReadOp, Op
  <1>8. /\ \A i \in DOMAIN ready' : ~Attempt(ready[i])' /\ ~Transfer(ready[i])'
        /\ \A i \in DOMAIN inflight' : ~Attempt(inflight[i])'
        /\ \A i \in DOMAIN inflight' : Transfer(inflight[i])' => ~connecting_'
    BY <1>4, <1>5 DEF Attempt, Transfer, Current
  <1>9. OneAttempt' /\ TransfersAfterConnect'
    BY <1>1, <1>8 DEF OneAttempt, TransfersAfterConnect, TypeOK
  <1>10. PostsFirst'
    BY <1>8 DEF PostsFirst, PostsCurrent
  <1> QED BY <1>6, <1>7, <1>9, <1>10 DEF LinkInv

\* CONNECT, DISCONNECT and RECONNECT.
LEMMA CommandInv ==
    ASSUME TypeOK, LinkInv, TypeOK', Start \/ Stop \/ Restart
    PROVE  LinkInv'
  <1>1. generation_ \in Nat BY DEF TypeOK
  <1>2. /\ \A i \in DOMAIN ready : ready[i].gen <= generation_
        /\ \A i \in DOMAIN inflight : inflight[i].gen <= generation_
        /\ \A g \in resolving : g <= generation_
    BY DEF LinkInv, GenerationsPast
  <1>3. \A i \in DOMAIN (ready \o Abort(inflight)) :
            (ready \o Abort(inflight))[i].gen <= generation_
    <2>1. ready \in Seq(Ops) /\ inflight \in Seq(Ops) BY DEF TypeOK
    <2> DEFINE s == ready \o Abort(inflight)
    <2>2. \A i \in DOMAIN s : \/ i \in DOMAIN ready /\ s[i] = ready[i]
                             \/ \E j \in DOMAIN inflight : s[i].gen = inflight[j].gen
      BY <2>1, AbortFacts
    <2> HIDE DEF s
    <2>3. \A i \in DOMAIN s : s[i].gen <= generation_ BY <1>2, <2>2
    <2> QED BY <2>3 DEF s
  <1>4. ASSUME NEW g, g \in {generation_ + 1, generation_ + 2}, NEW shown, NEW hs,
               shown # "Connected", hs = ready \/ hs = ready \o Abort(inflight),
               Begin(g, shown, << >>, hs)
        PROVE  LinkInv'
    <2>1. generation_' = g /\ g > generation_ /\ ready' = hs
      BY <1>1, <1>4 DEF Begin, StartTcp, StartFails, StartSerial
    <2>2. \A i \in DOMAIN ready' : ready'[i].gen <= generation_
      BY <1>2, <1>3, <1>4, <2>1
    <2>3. CASE StartTcp(g, shown, << >>, hs)
      <3>1. LinkConsistent' BY <1>4, <2>3 DEF StartTcp, LinkConsistent
      <3>2. inflight' = << >> /\ ~opened_' BY <2>3 DEF StartTcp
      <3>3. \A i \in DOMAIN inflight' : inflight'[i] = ReadOp(generation_') /\ ~connecting_'
        BY <3>2
      <3>4. \A k \in resolving' : k <= generation_ \/ (k = generation_' /\ connecting_')
        BY <1>2, <2>1, <2>3 DEF StartTcp
      <3> QED BY <2>1, <2>2, <3>1, <3>2, <3>3, <3>4, NewGeneration, Zenon
    <2>4. CASE StartFails(<< >>, hs)
      <3>1. LinkConsistent' BY <2>4 DEF StartFails, LinkConsistent
      <3>2. inflight' = << >> /\ resolving' = resolving /\ ~opened_' BY <2>4 DEF StartFails
      <3>3. \A i \in DOMAIN inflight' : inflight'[i] = ReadOp(generation_') /\ ~connecting_'
        BY <3>2
      <3>4. \A k \in resolving' : k <= generation_ \/ (k = generation_' /\ connecting_')
        BY <1>2, <3>2, Zenon
      <3> QED BY <2>1, <2>2, <3>1, <3>2, <3>3, <3>4, NewGeneration, Zenon
    <2>5. CASE StartSerial(g, << >>, hs)
      <3>1. LinkConsistent' BY <2>1, <2>5 DEF StartSerial, LinkConsistent
      <3>2. \A i \in DOMAIN inflight' : inflight'[i] = ReadOp(generation_') /\ ~connecting_'
        BY <2>1, <2>5 DEF StartSerial
      <3>3. ~Tcp BY <2>5 DEF StartSerial, Tcp
      <3>4. \A k \in resolving' : k <= generation_ \/ (k = generation_' /\ connecting_')
        BY <1>2, <2>5, Zenon DEF StartSerial
      <3> QED BY <2>1, <2>2, <3>1, <3>2, <3>3, <3>4, NewGeneration, Zenon
    <2> QED BY <1>4, <2>3, <2>4, <2>5 DEF Begin
  <1>5. CASE Start
    <2>1. inflight = << >> /\ link_state # "Connected"
      BY <1>5 DEF Start, LinkInv, LinkConsistent
    <2> QED BY <1>4, <1>5, <2>1 DEF Start
  <1>6. CASE Stop
    <2>1. LinkConsistent' BY <1>6 DEF Stop, LinkConsistent
    <2>2. generation_' > generation_ BY <1>1, <1>6 DEF Stop
    <2>3. \A i \in DOMAIN ready' : ready'[i].gen <= generation_
      BY <1>3, <1>6, Zenon DEF Stop
    <2>4. inflight' = << >> /\ resolving' = resolving /\ ~opened_' BY <1>6 DEF Stop
    <2>5. \A i \in DOMAIN inflight' : inflight'[i] = ReadOp(generation_') /\ ~connecting_'
      BY <2>4
    <2>6. \A k \in resolving' : k <= generation_ \/ (k = generation_' /\ connecting_')
      BY <1>2, <2>4, Zenon
    <2> QED BY <2>1, <2>2, <2>3, <2>4, <2>5, <2>6, NewGeneration, Zenon
  <1>7. CASE Restart
    BY <1>4, <1>7 DEF Restart
  <1> QED BY <1>5, <1>6, <1>7

\* An accepted packet: its post joins a link that is up.
LEMMA WriteBytesInv ==
    ASSUME TypeOK, LinkInv, WriteBytes
    PROVE  LinkInv'
  <1> DEFINE new == Post(generation_, accepted + 1)
  <1>1. new \in Ops /\ new.kind = "post" /\ new.gen = generation_ /\ generation_ \in Nat
    <2>1. accepted + 1 \in Nat BY DEF TypeOK
    <2> QED BY <2>1, OpTypes DEF TypeOK, Kinds, Post, Op
  <1> HIDE DEF new
  <1>2. ready' = Append(ready, new)
        /\ UNCHANGED <<opened_, connecting_, generation_, handle, link_state, resolving, inflight>>
    BY DEF WriteBytes, new
  <1>3. opened_ /\ ~connecting_
    BY DEF WriteBytes, LinkInv, LinkConsistent
  <1>4. \A i \in DOMAIN ready' : (i \in DOMAIN ready /\ ready'[i] = ready[i]) \/ ready'[i] = new
    BY <1>1, <1>2, AppendFacts DEF TypeOK
  <1>5. LinkConsistent' /\ DescriptorOps'
    BY <1>2 DEF LinkInv, LinkConsistent, DescriptorOps
  <1>6. GenerationsPast'
    BY <1>1, <1>2, <1>4 DEF LinkInv, GenerationsPast
  <1>7. /\ generation_ \notin resolving
        /\ \A i \in DOMAIN inflight : ~Attempt(inflight[i])
        /\ \A i \in DOMAIN ready : ~Attempt(ready[i])
    BY <1>3 DEF LinkInv, OneAttempt
  <1>8. /\ \A i \in DOMAIN inflight' : ~Attempt(inflight[i])'
        /\ \A i \in DOMAIN ready' : ~Attempt(ready[i])'
    BY <1>1, <1>2, <1>4, <1>7 DEF Attempt, Current
  <1>9. OneAttempt'
    BY <1>2, <1>7, <1>8 DEF OneAttempt
  <1>10. TransfersAfterConnect'
    BY <1>2, <1>3 DEF TransfersAfterConnect
  <1>11. PostsFirst'
    BY <1>1, <1>2, <1>3, <1>4, <1>8 DEF PostsFirst, PostsCurrent, Current, LinkInv
  <1> QED BY <1>5, <1>6, <1>9, <1>10, <1>11 DEF LinkInv

\* The resolver reports back: if for this generation, the attempt now is a
\* handler, behind every post.
LEMMA ResolvedInv ==
    ASSUME TypeOK, LinkInv, NEW g \in resolving, NEW res, res \in {"ok", "err"},
           Resolved(g, res)
    PROVE  LinkInv'
  <1> DEFINE new == [Op("resolve", g) EXCEPT !.res = res]
  <1>1. new \in Ops /\ new.kind = "resolve" /\ new.gen = g
    BY DEF Op, Ops, Kinds, Results, TypeOK
  <1>2. ready' = Append(ready, new) /\ resolving' = resolving \ {g}
        /\ UNCHANGED <<opened_, connecting_, generation_, handle, link_state, inflight>>
    BY DEF Resolved
  <1> HIDE DEF new
  <1>3. /\ DOMAIN ready' = DOMAIN ready \union {Len(ready) + 1}
        /\ ready'[Len(ready) + 1] = new
        /\ \A i \in DOMAIN ready : ready'[i] = ready[i] /\ i < Len(ready) + 1
    BY <1>1, <1>2, AppendFacts DEF TypeOK
  <1>4. \A i \in DOMAIN ready' : (i \in DOMAIN ready /\ ready'[i] = ready[i]) \/ ready'[i] = new
    BY <1>3
  <1>5. LinkConsistent' /\ DescriptorOps'
    BY <1>2 DEF LinkInv, LinkConsistent, DescriptorOps
  <1>6. GenerationsPast'
    BY <1>1, <1>2, <1>4 DEF LinkInv, GenerationsPast
  <1>7. Attempt(new)' => /\ g = generation_ /\ generation_ \notin resolving' /\ connecting_
                         /\ \A i \in DOMAIN inflight : ~Attempt(inflight[i])
                         /\ \A i \in DOMAIN ready : ~Attempt(ready[i])
    BY <1>1, <1>2 DEF Attempt, Current, LinkInv, OneAttempt
  <1>8. /\ \A i \in DOMAIN ready : Attempt(ready[i])' <=> Attempt(ready[i])
        /\ \A i \in DOMAIN inflight : Attempt(inflight[i])' <=> Attempt(inflight[i])
    BY <1>2, <1>3 DEF Attempt, Current
  <1>9. OneAttempt'
    <2>1. (generation_ \in resolving)' =>
            /\ connecting_'
            /\ \A i \in DOMAIN inflight' : ~Attempt(inflight[i])'
            /\ \A i \in DOMAIN ready' : ~Attempt(ready[i])'
      BY <1>1, <1>2, <1>4, <1>7, <1>8 DEF LinkInv, OneAttempt, Attempt
    <2>2. \A i \in DOMAIN inflight' : Attempt(inflight[i])' =>
            /\ connecting_' /\ handle' = generation_'
            /\ \A j \in DOMAIN inflight' : Attempt(inflight[j])' => i = j
            /\ \A j \in DOMAIN ready' : ~Attempt(ready[j])'
      BY <1>1, <1>2, <1>4, <1>7, <1>8 DEF LinkInv, OneAttempt, Attempt
    <2>3. \A i \in DOMAIN ready' : Attempt(ready[i])' =>
            /\ connecting_' /\ (ready'[i].kind = "connect" => handle' = generation_')
            /\ \A j \in DOMAIN ready' : Attempt(ready[j])' => i = j
      BY <1>1, <1>2, <1>3, <1>4, <1>7, <1>8 DEF LinkInv, OneAttempt, Attempt
    <2> QED BY <2>1, <2>2, <2>3 DEF OneAttempt
  <1>10. TransfersAfterConnect'
    BY <1>1, <1>2, <1>4 DEF LinkInv, TransfersAfterConnect, Transfer, Current
  <1>11. PostsFirst'
    <2> SUFFICES ASSUME Tcp PROVE PostsFirst' BY DEF PostsFirst
    <2>1. \A i, j \in DOMAIN ready' :
             Attempt(ready[i])' /\ ready'[j].kind = "post" =>
                 j < i /\ ready'[i].kind = "resolve"
      BY <1>1, <1>3, <1>4, <1>8 DEF LinkInv, PostsFirst, Attempt
    <2>2. \A i \in DOMAIN inflight' : Attempt(inflight[i])' =>
             \A j \in DOMAIN ready' : ready'[j].kind # "post"
      BY <1>1, <1>2, <1>4, <1>8 DEF LinkInv, PostsFirst
    <2>3. PostsCurrent'
      BY <1>1, <1>2, <1>4 DEF LinkInv, PostsFirst, PostsCurrent, Current
    <2> QED BY <2>1, <2>2, <2>3 DEF PostsFirst
  <1> QED BY <1>5, <1>6, <1>9, <1>10, <1>11 DEF LinkInv

\* The operating system completes an operation: it moves behind the handlers.
LEMMA CompletesInv ==
    ASSUME TypeOK, LinkInv, NEW i \in DOMAIN inflight, NEW new \in Ops,
           new.kind = inflight[i].kind, new.gen = inflight[i].gen, Completes(i, new)
    PROVE  LinkInv'
  <1>1. ready' = Append(ready, new) /\ inflight' = Without(inflight, i)
        /\ UNCHANGED <<opened_, connecting_, generation_, handle, link_state, resolving>>
    BY DEF Completes
  <1>2. /\ DOMAIN ready' = DOMAIN ready \union {Len(ready) + 1}
        /\ ready'[Len(ready) + 1] = new
        /\ \A k \in DOMAIN ready : ready'[k] = ready[k] /\ k < Len(ready) + 1
    BY <1>1, AppendFacts DEF TypeOK
  <1>3. \A k \in DOMAIN ready' : (k \in DOMAIN ready /\ ready'[k] = ready[k]) \/ ready'[k] = new
    BY <1>2
  <1>4. \A k \in DOMAIN inflight' : \E m \in DOMAIN inflight : m # i /\ inflight'[k] = inflight[m]
    BY <1>1, WithoutFacts DEF TypeOK
  <1>5. new.kind \in {"connect", "read", "write"} /\ new.gen <= generation_
    BY DEF LinkInv, DescriptorOps, GenerationsPast
  <1>6. LinkConsistent'
    <2>1. opened_ \/ connecting_ BY DEF LinkInv, LinkConsistent
    <2> QED BY <1>1, <2>1 DEF LinkInv, LinkConsistent
  <1>7. DescriptorOps' /\ GenerationsPast'
    BY <1>1, <1>3, <1>4, <1>5 DEF LinkInv, DescriptorOps, GenerationsPast
  <1>8. Attempt(new)' <=> Attempt(inflight[i])
    BY <1>1 DEF Attempt, Current
  <1>9. Attempt(inflight[i]) =>
          /\ connecting_ /\ handle = generation_ /\ generation_ \notin resolving
          /\ \A k \in DOMAIN ready : ~Attempt(ready[k])
          /\ \A k \in DOMAIN inflight' : ~Attempt(inflight[k])'
    BY <1>1, <1>4 DEF LinkInv, OneAttempt, Attempt, Current
  <1>10. /\ \A k \in DOMAIN ready : Attempt(ready[k])' <=> Attempt(ready[k])
         /\ \A k \in DOMAIN inflight' : Attempt(inflight[k])' =>
               \E m \in DOMAIN inflight : m # i /\ Attempt(inflight[m]) /\ inflight'[k] = inflight[m]
    BY <1>1, <1>2, <1>4 DEF Attempt, Current
  <1>11. OneAttempt'
    <2>1. (generation_ \in resolving)' =>
            /\ connecting_'
            /\ \A k \in DOMAIN inflight' : ~Attempt(inflight[k])'
            /\ \A k \in DOMAIN ready' : ~Attempt(ready[k])'
      BY <1>1, <1>3, <1>8, <1>9, <1>10 DEF LinkInv, OneAttempt, Attempt
    <2>2. \A k \in DOMAIN inflight' : Attempt(inflight[k])' =>
            /\ connecting_' /\ handle' = generation_'
            /\ \A j \in DOMAIN inflight' : Attempt(inflight[j])' => k = j
            /\ \A j \in DOMAIN ready' : ~Attempt(ready[j])'
      <3> SUFFICES ASSUME NEW k \in DOMAIN inflight', Attempt(inflight[k])'
                   PROVE  /\ connecting_' /\ handle' = generation_'
                          /\ \A j \in DOMAIN inflight' : Attempt(inflight[j])' => k = j
                          /\ \A j \in DOMAIN ready' : ~Attempt(ready[j])'
        OBVIOUS
      <3>1. ~Attempt(inflight[i]) BY <1>9
      <3>2. connecting_' /\ handle' = generation_' /\ \A j \in DOMAIN ready' : ~Attempt(ready[j])'
        BY <1>1, <1>3, <1>8, <1>10, <3>1 DEF LinkInv, OneAttempt, Attempt
      <3>3. \A j \in DOMAIN inflight' : Attempt(inflight[j])' => k = j
        <4> SUFFICES ASSUME NEW j \in DOMAIN inflight', Attempt(inflight[j])' PROVE k = j
          OBVIOUS
        <4>1. \A a \in DOMAIN inflight' : \E m \in DOMAIN inflight :
                 m # i /\ inflight'[a] = inflight[m] /\ m = IF a < i THEN a ELSE a + 1
          BY <1>1, WithoutFacts DEF TypeOK
        <4>2. PICK m \in DOMAIN inflight :
                 inflight'[k] = inflight[m] /\ m = IF k < i THEN k ELSE k + 1
          BY <4>1
        <4>3. PICK n \in DOMAIN inflight :
                 inflight'[j] = inflight[n] /\ n = IF j < i THEN j ELSE j + 1
          BY <4>1
        <4>4. Attempt(inflight[m]) /\ Attempt(inflight[n])
          BY <1>1, <4>2, <4>3 DEF Attempt, Current
        <4>5. m = n BY <4>4 DEF LinkInv, OneAttempt
        <4>6. DOMAIN inflight' \subseteq Int /\ i \in Int
          BY LenProperties, WithoutFacts, <1>1 DEF TypeOK, Without
        <4> QED BY <4>2, <4>3, <4>5, <4>6
      <3> QED BY <3>2, <3>3
    <2>3. \A k \in DOMAIN ready' : Attempt(ready[k])' =>
            /\ connecting_' /\ (ready'[k].kind = "connect" => handle' = generation_')
            /\ \A j \in DOMAIN ready' : Attempt(ready[j])' => k = j
      BY <1>1, <1>2, <1>3, <1>8, <1>9, <1>10 DEF LinkInv, OneAttempt, Attempt
    <2> QED BY <2>1, <2>2, <2>3 DEF OneAttempt
  <1>12. TransfersAfterConnect'
    BY <1>1, <1>3, <1>4 DEF LinkInv, TransfersAfterConnect, Transfer, Current
  <1>13. PostsFirst'
    <2> SUFFICES ASSUME Tcp PROVE PostsFirst' BY DEF PostsFirst
    <2>1. \A k, j \in DOMAIN ready' :
             Attempt(ready[k])' /\ ready'[j].kind = "post" =>
                 j < k /\ ready'[k].kind = "resolve"
      BY <1>1, <1>2, <1>3, <1>5, <1>8, <1>10 DEF LinkInv, PostsFirst, Attempt
    <2>2. \A k \in DOMAIN inflight' : Attempt(inflight[k])' =>
             \A j \in DOMAIN ready' : ready'[j].kind # "post"
      BY <1>1, <1>3, <1>5, <1>10 DEF LinkInv, PostsFirst
    <2>3. PostsCurrent'
      BY <1>1, <1>3, <1>5 DEF LinkInv, PostsFirst, PostsCurrent, Current
    <2> QED BY <2>1, <2>2, <2>3 DEF PostsFirst
  <1> QED BY <1>6, <1>7, <1>11, <1>12, <1>13 DEF LinkInv

\* A handler leaves the queue and changes at most what the descriptor has to do:
\* the queue's part of the invariant stays, one operation that is no attempt and
\* fits this generation may join the pending ones.
LEMMA TransferInv ==
    ASSUME TypeOK, LinkInv, ready # << >>,
           ready' = Tail(ready),
           inflight' = inflight \/ \E op \in Ops :
              /\ inflight' = Append(inflight, op)
              /\ op.kind \in {"read", "write"} /\ op.gen <= generation_
              /\ op.gen = generation_ => ~connecting_
              /\ opened_ \/ connecting_,
           UNCHANGED <<opened_, connecting_, generation_, handle, link_state, resolving>>
    PROVE  LinkInv'
  <1>1. \A i \in DOMAIN ready' : i + 1 \in DOMAIN ready /\ ready'[i] = ready[i + 1]
    BY TailFacts DEF TypeOK
  <1>2. DOMAIN ready' \subseteq Int
    BY TailFacts, LenProperties DEF TypeOK
  <1>3. \A i \in DOMAIN inflight' :
            \/ i \in DOMAIN inflight /\ inflight'[i] = inflight[i]
            \/ /\ inflight'[i].kind \in {"read", "write"} /\ inflight'[i].gen <= generation_
               /\ inflight'[i].gen = generation_ => ~connecting_
    BY AppendFacts DEF TypeOK
  <1>4. /\ \A i \in DOMAIN ready' : Attempt(ready[i])' <=> Attempt(ready[i + 1])
        /\ \A i \in DOMAIN inflight' : Attempt(inflight[i])' =>
              i \in DOMAIN inflight /\ inflight'[i] = inflight[i] /\ Attempt(inflight[i])
    BY <1>1, <1>3 DEF Attempt, Current
  <1>5. LinkConsistent'
    BY DEF LinkInv, LinkConsistent
  <1>6. GenerationsPast' /\ DescriptorOps'
    BY <1>1, <1>3 DEF LinkInv, GenerationsPast, DescriptorOps
  <1>7. OneAttempt'
    BY <1>1, <1>2, <1>4 DEF LinkInv, OneAttempt
  <1>8. TransfersAfterConnect'
    BY <1>1, <1>3 DEF LinkInv, TransfersAfterConnect, Transfer, Current
  <1>9. PostsFirst'
    BY <1>1, <1>2, <1>4 DEF LinkInv, PostsFirst, PostsCurrent, Current
  <1> QED BY <1>5, <1>6, <1>7, <1>8, <1>9 DEF LinkInv

\* handle_io_error, called for a callback of this generation: whether that was
\* the attempt or a transfer, no attempt is left.
LEMMA IoErrorInv ==
    ASSUME TypeOK, LinkInv, ready # << >>,
           Attempt(Head(ready)) \/ Transfer(Head(ready)),
           HandleIoError(Tail(ready))
    PROVE  LinkInv'
  <1> DEFINE hs == Tail(ready)
             s == hs \o Abort(inflight)
  <1>1. /\ Head(ready) = ready[1] /\ 1 \in DOMAIN ready /\ hs \in Seq(Ops)
        /\ \A i \in DOMAIN hs : i + 1 \in DOMAIN ready /\ hs[i] = ready[i + 1]
    BY TailFacts DEF TypeOK
  <1>2. DOMAIN hs \subseteq Nat \ {0}
    BY <1>1, LenProperties
  <1>3. /\ generation_ \notin resolving
        /\ \A i \in DOMAIN inflight : ~Attempt(inflight[i])
        /\ \A i \in DOMAIN hs : ~Attempt(hs[i])
    <2>1. CASE Attempt(ready[1])
      <3>1. \A i \in DOMAIN ready : Attempt(ready[i]) => i = 1
        BY <1>1, <2>1 DEF LinkInv, OneAttempt
      <3>2. \A i \in DOMAIN hs : ~Attempt(hs[i])
        BY <1>1, <1>2, <3>1
      <3> QED BY <1>1, <2>1, <3>2 DEF LinkInv, OneAttempt
    <2>2. CASE Transfer(ready[1])
      <3>1. ~connecting_ BY <1>1, <2>2 DEF LinkInv, TransfersAfterConnect
      <3> QED BY <1>1, <3>1 DEF LinkInv, OneAttempt
    <2> QED BY <1>1, <2>1, <2>2
  <1>4. inflight \in Seq(Ops) BY DEF TypeOK
  <1>5. \A i \in DOMAIN s :
           \/ i \in DOMAIN hs /\ s[i] = hs[i]
           \/ \E j \in DOMAIN inflight : s[i].kind = inflight[j].kind /\ s[i].gen = inflight[j].gen
    BY <1>1, <1>4, AbortFacts
  <1>6. ready' = s /\ inflight' = << >> /\ ~opened_' /\ ~connecting_' /\ handle' = Closed
        /\ link_state' = "Error" /\ generation_' = generation_ /\ resolving' = resolving
    BY DEF HandleIoError
  <1> HIDE DEF hs, s
  <1>7. \A i \in DOMAIN ready' : ~Attempt(ready[i])' /\ ready'[i].gen <= generation_'
    <2>1. \A i \in DOMAIN s : s[i].gen <= generation_
      BY <1>1, <1>5 DEF LinkInv, GenerationsPast
    <2>2. \A i \in DOMAIN s : ~Attempt(s[i])
      BY <1>3, <1>5 DEF Attempt, Current
    <2> QED BY <1>6, <2>1, <2>2 DEF Attempt, Current
  <1>8. LinkConsistent' BY <1>6 DEF LinkConsistent
  <1>9. GenerationsPast' /\ DescriptorOps'
    BY <1>6, <1>7 DEF LinkInv, GenerationsPast, DescriptorOps
  <1>10. OneAttempt' /\ TransfersAfterConnect'
    BY <1>3, <1>6, <1>7 DEF OneAttempt, TransfersAfterConnect
  <1>11. PostsFirst'
    BY <1>6, <1>7 DEF PostsFirst, PostsCurrent
  <1> QED BY <1>8, <1>9, <1>10, <1>11 DEF LinkInv

\* Name resolution succeeded: the attempt moves on to the socket.  It was at the
\* head of the queue, so no post is left in it.
LEMMA ResolveOkInv ==
    ASSUME TypeOK, LinkInv, ready # << >>, Head(ready).kind = "resolve",
           Current(Head(ready)),
           handle' = generation_, ready' = Tail(ready),
           inflight' = Append(inflight, Op("connect", generation_)),
           UNCHANGED <<opened_, connecting_, generation_, link_state, resolving>>
    PROVE  LinkInv'
  <1> DEFINE new == Op("connect", generation_)
  <1>1. new \in Ops /\ new.kind = "connect" /\ new.gen = generation_ /\ generation_ \in Nat
    BY OpTypes DEF TypeOK, Kinds, Op
  <1> HIDE DEF new
  <1>2. /\ Head(ready) = ready[1] /\ 1 \in DOMAIN ready
        /\ \A i \in DOMAIN ready' : i + 1 \in DOMAIN ready /\ ready'[i] = ready[i + 1]
    BY TailFacts DEF TypeOK
  <1>3. DOMAIN ready' \subseteq Nat \ {0} /\ DOMAIN ready \subseteq Nat \ {0}
    BY TailFacts, LenProperties DEF TypeOK
  <1>4. \A i \in DOMAIN inflight' :
            (i \in DOMAIN inflight /\ inflight'[i] = inflight[i])
            \/ (i = Len(inflight) + 1 /\ inflight'[i] = new)
    BY <1>1, AppendFacts DEF TypeOK, new
  <1>5. Attempt(ready[1]) BY <1>2 DEF Attempt
  <1>6. /\ connecting_ /\ generation_ \notin resolving
        /\ \A i \in DOMAIN inflight : ~Attempt(inflight[i])
        /\ \A i \in DOMAIN ready : Attempt(ready[i]) => i = 1
    BY <1>2, <1>5 DEF LinkInv, OneAttempt
  <1>7. \A i \in DOMAIN ready' : ~Attempt(ready[i])'
    <2>1. \A i \in DOMAIN ready' : ~Attempt(ready[i + 1])
      BY <1>2, <1>3, <1>6
    <2> QED BY <1>2, <2>1 DEF Attempt, Current
  <1>8. \A i \in DOMAIN inflight' : Attempt(inflight[i])' => i = Len(inflight) + 1
    BY <1>4, <1>6 DEF Attempt, Current
  <1>9. LinkConsistent' BY <1>6 DEF LinkInv, LinkConsistent
  <1>10. GenerationsPast' /\ DescriptorOps'
    BY <1>1, <1>2, <1>4 DEF LinkInv, GenerationsPast, DescriptorOps
  <1>11. OneAttempt'
    BY <1>6, <1>7, <1>8 DEF OneAttempt
  <1>12. TransfersAfterConnect'
    BY <1>1, <1>2, <1>4 DEF LinkInv, TransfersAfterConnect, Transfer, Current
  <1>13. PostsFirst'
    <2> SUFFICES ASSUME Tcp PROVE PostsFirst' BY DEF PostsFirst
    <2>1. \A j \in DOMAIN ready : ready[j].kind # "post"
      BY <1>2, <1>3, <1>5 DEF LinkInv, PostsFirst
    <2>2. \A j \in DOMAIN ready' : ready'[j].kind # "post"
      BY <1>2, <2>1
    <2> QED BY <2>2 DEF PostsFirst, PostsCurrent
  <1> QED BY <1>9, <1>10, <1>11, <1>12, <1>13 DEF LinkInv

\* The socket connected: the attempt is over and the first read is issued.
LEMMA ConnectOkInv ==
    ASSUME TypeOK, LinkInv, ready # << >>, Head(ready).kind = "connect",
           Current(Head(ready)),
           ~connecting_', opened_', link_state' = "Connected", ready' = Tail(ready),
           inflight' = Append(inflight, ReadOp(generation_)),
           UNCHANGED <<generation_, handle, resolving>>
    PROVE  LinkInv'
  <1> DEFINE new == ReadOp(generation_)
  <1>1. new \in Ops /\ new.kind = "read" /\ new.gen = generation_ /\ generation_ \in Nat
    BY OpTypes DEF TypeOK, Kinds, ReadOp, Op
  <1> HIDE DEF new
  <1>2. /\ Head(ready) = ready[1] /\ 1 \in DOMAIN ready
        /\ \A i \in DOMAIN ready' : i + 1 \in DOMAIN ready /\ ready'[i] = ready[i + 1]
    BY TailFacts DEF TypeOK
  <1>3. DOMAIN ready' \subseteq Nat \ {0}
    BY TailFacts, LenProperties DEF TypeOK
  <1>4. \A i \in DOMAIN inflight' :
            (i \in DOMAIN inflight /\ inflight'[i] = inflight[i]) \/ inflight'[i] = new
    BY <1>1, AppendFacts DEF TypeOK, new
  <1>5. Attempt(ready[1]) BY <1>2 DEF Attempt
  <1>6. /\ generation_ \notin resolving /\ handle = generation_
        /\ \A i \in DOMAIN inflight : ~Attempt(inflight[i])
        /\ \A i \in DOMAIN ready : Attempt(ready[i]) => i = 1
    BY <1>2, <1>5 DEF LinkInv, OneAttempt
  <1>7. \A i \in DOMAIN ready' : ~Attempt(ready[i])'
    <2>1. \A i \in DOMAIN ready' : ~Attempt(ready[i + 1])
      BY <1>2, <1>3, <1>6
    <2> QED BY <1>2, <2>1 DEF Attempt, Current
  <1>8. \A i \in DOMAIN inflight' : ~Attempt(inflight[i])'
    BY <1>1, <1>4, <1>6 DEF Attempt, Current
  <1>9. LinkConsistent' BY <1>6 DEF LinkConsistent
  <1>10. GenerationsPast' /\ DescriptorOps'
    BY <1>1, <1>2, <1>4 DEF LinkInv, GenerationsPast, DescriptorOps
  <1>11. OneAttempt' /\ TransfersAfterConnect'
    BY <1>6, <1>7, <1>8 DEF OneAttempt, TransfersAfterConnect
  <1>12. PostsFirst'
    <2> SUFFICES ASSUME Tcp PROVE PostsFirst' BY DEF PostsFirst
    <2>1. \A j \in DOMAIN ready : ready[j].kind # "post"
      BY <1>2, <1>5 DEF LinkInv, PostsFirst
    <2>2. \A j \in DOMAIN ready' : ready'[j].kind # "post"
      BY <1>2, <2>1
    <2> QED BY <1>7, <1>8, <2>2 DEF PostsFirst, PostsCurrent
  <1> QED BY <1>9, <1>10, <1>11, <1>12 DEF LinkInv

\* Every handler keeps the invariant.
LEMMA HandlerInv ==
    ASSUME TypeOK, LinkInv, RunHandler
    PROVE  LinkInv'
  <1> DEFINE h == Head(ready)
             hs == Tail(ready)
  <1>1. ready # << >> BY DEF RunHandler
  <1>2. h \in Ops /\ h = ready[1] /\ 1 \in DOMAIN ready
    BY <1>1, TailFacts DEF TypeOK
  <1>3. h.gen <= generation_ /\ h.gen \in Nat /\ generation_ \in Nat
    BY <1>2 DEF LinkInv, GenerationsPast, Ops, TypeOK
  <1>4. opened_ => ~connecting_ BY DEF LinkInv, LinkConsistent
  <1>5. ReadOp(generation_) \in Ops /\ ReadOp(generation_).kind = "read"
        /\ ReadOp(generation_).gen = generation_
    BY <1>3, OpTypes DEF Kinds, ReadOp, Op
  <1>6. \A p \in Nat : /\ WriteOp(generation_, p) \in Ops
                       /\ WriteOp(generation_, p).kind = "write"
                       /\ WriteOp(generation_, p).gen = generation_
    BY <1>3, OpTypes DEF Kinds, WriteOp, Op
  <1>7. \A q \in Seq(Nat) : DoWrite(q) =>
           inflight' = inflight \/ \E op \in Ops :
              /\ inflight' = Append(inflight, op)
              /\ op.kind \in {"read", "write"} /\ op.gen <= generation_
              /\ op.gen = generation_ => ~connecting_
              /\ opened_ \/ connecting_
    <2> TAKE q \in Seq(Nat)
    <2> HAVE DoWrite(q)
    <2>1. CASE opened_ /\ q # << >>
      <3>1. Head(q) \in Nat BY <2>1, TailFacts
      <3>2. inflight' = Append(inflight, WriteOp(generation_, Head(q))) BY <2>1 DEF DoWrite
      <3> QED BY <1>3, <1>4, <1>6, <2>1, <3>1, <3>2
    <2>2. CASE ~(opened_ /\ q # << >>)
      BY <2>2 DEF DoWrite
    <2> QED BY <2>1, <2>2
  <1> HIDE DEF h, hs
  <1>8. ASSUME Ignore(hs) PROVE LinkInv'
    BY <1>1, <1>8, TransferInv DEF Ignore, hs
  <1>9. ASSUME h.kind \in {"resolve", "connect", "read", "write"}, Current(h), HandleIoError(hs)
        PROVE  LinkInv'
    BY <1>1, <1>9, IoErrorInv DEF h, hs, Attempt, Transfer
  <1>10. CASE RunResolve(h, hs)
    <2>1. CASE Ignore(hs) BY <1>8, <2>1
    <2>2. CASE Current(h) /\ HandleIoError(hs) BY <1>9, <1>10, <2>2 DEF RunResolve
    <2>3. CASE ~Ignore(hs) /\ ~(Current(h) /\ HandleIoError(hs))
      <3>1. /\ h.kind = "resolve" /\ Current(h) /\ handle' = h.gen /\ ready' = hs
            /\ inflight' = Append(inflight, Op("connect", h.gen))
            /\ UNCHANGED <<opened_, connecting_, generation_, link_state, resolving>>
        BY <1>10, <2>3 DEF RunResolve
      <3> QED BY <1>1, <3>1, ResolveOkInv DEF h, hs, Current
    <2> QED BY <2>1, <2>2, <2>3
  <1>11. CASE RunConnect(h, hs)
    <2>1. CASE Ignore(hs) BY <1>8, <2>1
    <2>2. CASE Current(h) /\ HandleIoError(hs) BY <1>9, <1>11, <2>2 DEF RunConnect
    <2>3. CASE ~Ignore(hs) /\ ~(Current(h) /\ HandleIoError(hs))
      <3>1. /\ h.kind = "connect" /\ Current(h) /\ ~connecting_' /\ opened_'
            /\ link_state' = "Connected" /\ ready' = hs
            /\ inflight' = Append(inflight, ReadOp(h.gen))
            /\ UNCHANGED <<generation_, handle, resolving>>
        BY <1>11, <2>3 DEF RunConnect
      <3> QED BY <1>1, <3>1, ConnectOkInv DEF h, hs, Current
    <2> QED BY <2>1, <2>2, <2>3
  <1>12. CASE RunRead(h, hs)
    <2>1. CASE Ignore(hs) BY <1>8, <2>1
    <2>2. CASE Current(h) /\ HandleIoError(hs) BY <1>9, <1>12, <2>2 DEF RunRead
    <2>3. CASE ~Ignore(hs) /\ ~(Current(h) /\ HandleIoError(hs))
      <3>1. /\ inflight' = IF opened_ THEN Append(inflight, ReadOp(generation_)) ELSE inflight
            /\ ready' = hs
            /\ UNCHANGED <<opened_, connecting_, generation_, handle, link_state, resolving>>
        BY <1>12, <2>3 DEF RunRead, Current
      <3>2. inflight' = inflight \/ \E op \in Ops :
              /\ inflight' = Append(inflight, op)
              /\ op.kind \in {"read", "write"} /\ op.gen <= generation_
              /\ op.gen = generation_ => ~connecting_
              /\ opened_ \/ connecting_
        BY <1>3, <1>4, <1>5, <3>1
      <3> QED BY <1>1, <3>1, <3>2, TransferInv DEF hs
    <2> QED BY <2>1, <2>2, <2>3
  <1>13. CASE RunPartialWrite(h, hs)
    <2>1. CASE handle # Closed
      <3> DEFINE op == [h EXCEPT !.res = "pending"]
      <3>1. /\ inflight' = Append(inflight, op) /\ ready' = hs /\ h.kind = "write"
            /\ UNCHANGED <<opened_, connecting_, generation_, handle, link_state, resolving>>
        BY <1>13, <2>1 DEF RunPartialWrite
      <3>2. op \in Ops /\ op.kind = "write" /\ op.gen = h.gen
        BY <1>2, <3>1 DEF Ops, Results
      <3>3. h.gen = generation_ => ~connecting_
        BY <1>2, <3>1 DEF LinkInv, TransfersAfterConnect, Transfer, Current
      <3>4. opened_ \/ connecting_
        BY <2>1 DEF LinkInv, LinkConsistent
      <3> HIDE DEF op
      <3> QED BY <1>1, <1>3, <3>1, <3>2, <3>3, <3>4, TransferInv DEF hs
    <2>2. CASE handle = Closed
      \* write_some on the closed descriptor: bad_descriptor takes its place at
      \* the end of the queue.
      <3> DEFINE op == [h EXCEPT !.res = "err"]
      <3>1. /\ ready' = Append(hs, op) /\ inflight' = inflight /\ h.kind = "write"
            /\ UNCHANGED <<opened_, connecting_, generation_, handle, link_state, resolving>>
        BY <1>13, <2>2 DEF RunPartialWrite
      <3>2. op \in Ops /\ op.kind = "write" /\ op.gen = h.gen
        BY <1>2, <3>1 DEF Ops, Results
      <3>3. h.gen = generation_ => ~connecting_
        BY <1>2, <3>1 DEF LinkInv, TransfersAfterConnect, Transfer, Current
      <3> HIDE DEF op
      <3>4. hs \in Seq(Ops) /\ DOMAIN hs \subseteq Int
            /\ \A i \in DOMAIN hs : i + 1 \in DOMAIN ready /\ hs[i] = ready[i + 1]
        BY <1>1, TailFacts, LenProperties DEF TypeOK, hs
      <3>5. \A i \in DOMAIN ready' :
               (i \in DOMAIN hs /\ ready'[i] = ready[i + 1] /\ i + 1 \in DOMAIN ready)
               \/ ready'[i] = op
        BY <3>1, <3>2, <3>4, AppendFacts
      <3>6. \A i \in DOMAIN ready' : Attempt(ready[i])' =>
               i \in DOMAIN hs /\ Attempt(ready[i + 1]) /\ ready'[i] = ready[i + 1]
               /\ i + 1 \in DOMAIN ready
        BY <3>1, <3>2, <3>5 DEF Attempt, Current
      <3>7. LinkConsistent' /\ DescriptorOps'
        BY <3>1 DEF LinkInv, LinkConsistent, DescriptorOps
      <3>8. GenerationsPast'
        BY <1>3, <3>1, <3>2, <3>5 DEF LinkInv, GenerationsPast
      <3>9. \A i \in DOMAIN inflight' : Attempt(inflight[i])' <=> Attempt(inflight[i])
        BY <3>1 DEF Attempt, Current
      <3>10. OneAttempt'
        BY <3>1, <3>4, <3>6, <3>9 DEF LinkInv, OneAttempt
      <3>11. TransfersAfterConnect'
        BY <3>1, <3>2, <3>3, <3>5 DEF LinkInv, TransfersAfterConnect, Transfer, Current
      <3>12. PostsFirst'
        BY <3>1, <3>2, <3>4, <3>5, <3>6, <3>9 DEF LinkInv, PostsFirst, PostsCurrent, Current
      <3> QED BY <3>7, <3>8, <3>10, <3>11, <3>12 DEF LinkInv
    <2> QED BY <2>1, <2>2
  <1>14. CASE RunWrite(h, hs)
    <2>1. CASE Ignore(hs) BY <1>8, <2>1
    <2>2. CASE Current(h) /\ HandleIoError(hs) BY <1>9, <1>14, <2>2 DEF RunWrite
    <2>3. CASE ~Ignore(hs) /\ ~(Current(h) /\ HandleIoError(hs))
      <3> DEFINE q == IF tx_queue_ = << >> THEN << >> ELSE Tail(tx_queue_)
      <3>1. q \in Seq(Nat) BY TailFacts DEF TypeOK
      <3> HIDE DEF q
      <3>2. /\ DoWrite(q) /\ ready' = hs
            /\ UNCHANGED <<opened_, connecting_, generation_, handle, link_state, resolving>>
        BY <1>14, <2>3 DEF RunWrite, q
      <3> QED BY <1>1, <1>7, <3>1, <3>2, TransferInv DEF hs
    <2> QED BY <2>1, <2>2, <2>3
  <1>15. CASE RunPost(h, hs)
    <2>1. CASE Ignore(hs) BY <1>8, <2>1
    <2>2. CASE ~Ignore(hs)
      <3>1. <<h.pkt>> \in Seq(Nat) BY <1>2 DEF Ops
      <3>2. /\ inflight' = inflight \/ DoWrite(<<h.pkt>>)
            /\ ready' = hs
            /\ UNCHANGED <<opened_, connecting_, generation_, handle, link_state, resolving>>
        BY <1>15, <2>2 DEF RunPost
      <3> QED BY <1>1, <1>7, <3>1, <3>2, TransferInv DEF hs
    <2> QED BY <2>1, <2>2
  <1> QED BY <1>10, <1>11, <1>12, <1>13, <1>14, <1>15 DEF RunHandler, h, hs

\* Every step keeps the invariant.
LEMMA NextInv ==
    ASSUME TypeOK, LinkInv, [Next]_vars
    PROVE  LinkInv'
  <1>1. TypeOK' BY NextTypes
  <1>2. CASE Start \/ Stop \/ Restart BY <1>1, <1>2, CommandInv
  <1>3. CASE WriteBytes BY <1>3, WriteBytesInv
  <1>4. CASE Resolver BY <1>4, ResolvedInv DEF Resolver
  <1>5. CASE System
    <2>1. PICK i \in DOMAIN inflight :
              \/ \E res \in {"ok", "err"} : IoCompletes(i, res)
              \/ \E res \in {"ok", "some"} : Transmits(i, res)
      BY <1>5 DEF System
    <2>2. inflight[i] \in Ops BY ElementTypes DEF TypeOK
    <2>3. CASE \E res \in {"ok", "err"} : IoCompletes(i, res)
      <3>1. PICK res \in {"ok", "err"} : IoCompletes(i, res) BY <2>3
      <3> DEFINE op == [inflight[i] EXCEPT !.res = res]
      <3>2. op \in Ops /\ op.kind = inflight[i].kind /\ op.gen = inflight[i].gen
        BY <2>2 DEF Ops, Results
      <3>3. Completes(i, op) BY <3>1 DEF IoCompletes
      <3> HIDE DEF op
      <3> QED BY <3>2, <3>3, CompletesInv
    <2>4. CASE \E res \in {"ok", "some"} : Transmits(i, res)
      <3>1. PICK res \in {"ok", "some"} : Transmits(i, res) BY <2>4
      <3> DEFINE op == [inflight[i] EXCEPT !.res = res, !.part = @ + 1]
      <3>2. op \in Ops /\ op.kind = inflight[i].kind /\ op.gen = inflight[i].gen
        <4>1. inflight[i].part + 1 \in Nat BY <2>2 DEF Ops
        <4> QED BY <2>2, <4>1 DEF Ops, Results
      <3>3. Completes(i, op) BY <3>1 DEF Transmits
      <3> HIDE DEF op
      <3> QED BY <3>2, <3>3, CompletesInv
    <2> QED BY <2>1, <2>3, <2>4
  <1>6. CASE RunHandler BY <1>6, HandlerInv
  <1>7. CASE UNCHANGED vars
    BY <1>7 DEF vars, LinkInv, LinkConsistent, GenerationsPast, DescriptorOps, OneAttempt,
                TransfersAfterConnect, PostsFirst, PostsCurrent, Attempt, Transfer, Current
  <1> QED BY <1>2, <1>3, <1>4, <1>5, <1>6, <1>7 DEF Next

\* The link starts in the invariant, whatever its port.
LEMMA InitInv == Init => LinkInv
  <1> SUFFICES ASSUME Init PROVE LinkInv OBVIOUS
  <1>1. ReadOp(1).kind = "read" /\ ReadOp(1).gen = 1 BY DEF ReadOp, Op
  <1>2. ready = << >> /\ \A i \in DOMAIN ready : FALSE BY DEF Init
  <1>3. CASE inflight = << >>
    BY <1>2, <1>3 DEF Init, LinkInv, LinkConsistent, GenerationsPast, DescriptorOps, OneAttempt,
                TransfersAfterConnect, PostsFirst, PostsCurrent, Attempt, Transfer, Current, Closed
  <1>4. CASE inflight = <<ReadOp(1)>>
    <2>1. \A i \in DOMAIN inflight : inflight[i] = ReadOp(1) BY <1>4
    <2>2. opened_ /\ ~connecting_ /\ handle = 1 /\ generation_ = 1 /\ resolving = {}
          /\ link_state = "Connected"
      BY <1>4 DEF Init
    <2> QED BY <1>1, <1>2, <2>1, <2>2 DEF LinkInv, LinkConsistent, GenerationsPast, DescriptorOps,
                OneAttempt, TransfersAfterConnect, PostsFirst, PostsCurrent, Attempt, Transfer, Current
  <1> QED BY <1>3, <1>4 DEF Init

------------------------------------------------------------------------------
\* The invariant holds in every reachable state.
THEOREM Inductive == Spec => [](TypeOK /\ LinkInv)
  <1>1. Init => TypeOK /\ LinkInv BY InitTypes, InitInv
  <1>2. TypeOK /\ LinkInv /\ [Next]_vars => TypeOK' /\ LinkInv' BY NextTypes, NextInv
  <1> QED BY <1>1, <1>2, PTL DEF Spec

\* For every port kind and any number of generations, packets and partial
\* writes: the published state, opened_, connecting_ and the descriptor agree.
THEOREM LinkAlwaysConsistent == Spec => []LinkConsistent
  <1>1. TypeOK /\ LinkInv => LinkConsistent BY DEF LinkInv
  <1> QED BY <1>1, Inductive, PTL

\* On a TCP link no post of an earlier session is left when a session is up,
\* although write_bytes never looks at the generation.
THEOREM TcpPostsCurrent == Tcp => (Spec => []PostsCurrent)
  <1>1. ASSUME Tcp PROVE Spec => []PostsCurrent
    <2>1. TypeOK /\ LinkInv => PostsCurrent BY <1>1 DEF LinkInv, PostsFirst
    <2> QED BY <2>1, Inductive, PTL
  <1> QED BY <1>1

\* With no attempt under way the shown ERROR is left by a client's command only.
THEOREM ErrorStays == Spec => ErrorSticky
  <1> DEFINE Sticks == link_state = "Error" /\ ~connecting_ /\ link_state' # "Error"
                          => generation_' > generation_
  <1>1. TypeOK /\ LinkInv /\ [Next]_vars => [Sticks]_vars
    <2> SUFFICES ASSUME TypeOK, LinkInv, Next, link_state = "Error", ~connecting_,
                        link_state' # "Error"
                 PROVE  generation_' > generation_
      BY DEF vars
    <2>1. generation_ \in Nat BY DEF TypeOK
    <2>2. CASE Start \/ Stop \/ Restart
      BY <2>1, <2>2 DEF Start, Stop, Restart, Begin
    <2>3. CASE WriteBytes \/ Resolver \/ System
      BY <2>3 DEF WriteBytes, Resolver, Resolved, System, IoCompletes, Transmits, Completes
    <2>4. CASE RunHandler
      <3> DEFINE h == Head(ready)
                 hs == Tail(ready)
      <3>1. h = ready[1] /\ 1 \in DOMAIN ready
        BY <2>4, TailFacts DEF RunHandler, TypeOK
      <3>2. ~Attempt(h)
        BY <3>1 DEF LinkInv, OneAttempt
      <3> HIDE DEF h, hs
      <3>3. link_state' = "Error" \/ link_state' = link_state
        BY <2>4, <3>2 DEF RunHandler, h, hs, RunResolve, RunConnect, RunRead, RunPartialWrite,
              RunWrite, RunPost, Ignore, HandleIoError, Attempt
      <3> QED BY <3>3
    <2> QED BY <2>2, <2>3, <2>4 DEF Next
  <1> QED BY <1>1, Inductive, PTL DEF Spec, ErrorSticky

------------------------------------------------------------------------------
(* The reader and the writer: while the link is up there is exactly one     *)
(* outstanding read, and one outstanding write exactly when packets are     *)
(* queued.  The invariant counts operations over the two sequences of the   *)
(* event loop together, so that a completion, which moves an operation from *)
(* one to the other, leaves the sum alone.                                  *)

\* The operations of one kind and generation; the writes among them that do
\* not write packet p.
Of(kind, g) == {op \in Ops : op.kind = kind /\ op.gen = g}
Stray(g, p) == {op \in Ops : op.kind = "write" /\ op.gen = g /\ op.pkt # p}

\* How many of A are pending on the descriptor (q) or queued as handlers (r).
Total(q, r, A) == Count(q, A) + Count(r, A)

\* OneReader and OneWriter in terms of these sums.
Readers == opened_ => Total(inflight, ready, Of("read", generation_)) = 1
Writers == opened_ => Total(inflight, ready, Of("write", generation_))
                        = IF tx_queue_ = << >> THEN 0 ELSE 1
Fronts == opened_ /\ tx_queue_ # << >> =>
              Total(inflight, ready, Stray(generation_, Head(tx_queue_))) = 0

TransfersInv == Readers /\ Writers /\ Fronts /\ IdleDown

------------------------------------------------------------------------------
(* The sums.                                                                *)

\* A sum is a number, zero when neither sequence holds one.
LEMMA TotalType ==
    ASSUME NEW q \in Seq(Ops), NEW r \in Seq(Ops), NEW A
    PROVE  /\ Total(q, r, A) \in Nat
           /\ Total(q, r, A) = 0 <=> /\ \A i \in DOMAIN q : q[i] \notin A
                                     /\ \A i \in DOMAIN r : r[i] \notin A
  <1>1. /\ Count(q, A) \in Nat /\ Count(r, A) \in Nat
        /\ Count(q, A) = 0 <=> \A i \in DOMAIN q : q[i] \notin A
        /\ Count(r, A) = 0 <=> \A i \in DOMAIN r : r[i] \notin A
    BY CountType
  <1>2. Total(q, r, A) \in Nat /\ (Total(q, r, A) = 0 <=> Count(q, A) = 0 /\ Count(r, A) = 0)
    BY <1>1 DEF Total
  <1> QED BY <1>1, <1>2

\* Issuing an operation, or queueing a handler, adds it to the sum.
LEMMA TotalAppend ==
    ASSUME NEW q \in Seq(Ops), NEW r \in Seq(Ops), NEW e \in Ops, NEW A
    PROVE  /\ Total(Append(q, e), r, A) = Total(q, r, A) + In(e, A)
           /\ Total(q, Append(r, e), A) = Total(q, r, A) + In(e, A)
  <1>1. /\ Count(q, A) \in Nat /\ Count(r, A) \in Nat /\ In(e, A) \in Nat
    BY CountType DEF In
  <1>2. /\ Count(Append(q, e), A) = Count(q, A) + In(e, A)
        /\ Count(Append(r, e), A) = Count(r, A) + In(e, A)
    BY CountAppend
  <1> QED BY <1>1, <1>2 DEF Total

\* Running a handler takes it out of the sum.
LEMMA TotalTail ==
    ASSUME NEW q \in Seq(Ops), NEW r \in Seq(Ops), r # << >>, NEW A
    PROVE  Total(q, r, A) = Total(q, Tail(r), A) + In(Head(r), A)
  <1>1. Tail(r) \in Seq(Ops)
    BY TailFacts
  <1>2. Count(q, A) \in Nat /\ Count(Tail(r), A) \in Nat /\ In(Head(r), A) \in Nat
    BY <1>1, CountType DEF In
  <1>3. Count(r, A) = Count(Tail(r), A) + In(Head(r), A)
    BY CountTail
  <1> QED BY <1>2, <1>3 DEF Total

\* A completion moves an operation to the handlers.
LEMMA TotalMove ==
    ASSUME NEW q \in Seq(Ops), NEW r \in Seq(Ops), NEW i \in DOMAIN q, NEW e \in Ops, NEW A,
           e \in A <=> q[i] \in A
    PROVE  Total(Without(q, i), Append(r, e), A) = Total(q, r, A)
  <1> DEFINE w == Without(q, i)
  <1>1. w \in Seq(Ops) /\ w = [j \in 1 .. Len(q) - 1 |-> IF j < i THEN q[j] ELSE q[j + 1]]
    BY WithoutFacts DEF Without
  <1> HIDE DEF w
  <1>2. Count(q, A) = Count(w, A) + In(q[i], A)
    BY <1>1, CountRemove, SMTT(30)
  <1>3. Count(Append(r, e), A) = Count(r, A) + In(e, A)
    BY CountAppend
  <1>4. Count(w, A) \in Nat /\ Count(r, A) \in Nat /\ In(e, A) \in Nat /\ In(e, A) = In(q[i], A)
    BY <1>1, CountType DEF In
  <1>5. Total(w, Append(r, e), A) = Total(q, r, A)
    BY <1>2, <1>3, <1>4 DEF Total
  <1> QED BY <1>5 DEF w

------------------------------------------------------------------------------
(* What a step does to the reader and the writer.                           *)

\* The sets the invariant counts.
Counted == {Of("read", generation_), Of("write", generation_)}
           \union {Stray(generation_, p) : p \in Nat}

\* The result and the number of parts written do not matter to the sums, and
\* nothing but a read or a write of this generation does.
LEMMA Membership ==
    ASSUME NEW A \in Counted, NEW a \in Ops
    PROVE  /\ a \in A => a.kind \in {"read", "write"} /\ a.gen = generation_
           /\ \A b \in Ops : a.kind = b.kind /\ a.gen = b.gen /\ (a.kind = "write" => a.pkt = b.pkt)
                  => (a \in A <=> b \in A)
  BY DEF Counted, Of, Stray

\* A step that leaves the link up, its queue and the sums alone.
LEMMA SameTransfers ==
    ASSUME TypeOK, TransfersInv, UNCHANGED <<opened_, generation_, tx_queue_>>,
           opened_ => \A A \in Counted : Total(inflight', ready', A) = Total(inflight, ready, A)
    PROVE  TransfersInv'
  <1>1. IdleDown'
    BY DEF TransfersInv, IdleDown
  <1>2. CASE opened_
    <2> DEFINE p == Head(tx_queue_)
    <2>1. tx_queue_ # << >> => p \in Nat
      BY TailFacts DEF TypeOK
    <2>2. /\ Of("read", generation_) \in Counted
          /\ Of("write", generation_) \in Counted
          /\ tx_queue_ # << >> => Stray(generation_, p) \in Counted
      BY <2>1 DEF Counted
    <2> HIDE DEF p
    <2>3. Readers' /\ Writers'
      BY <1>2, <2>2 DEF TransfersInv, Readers, Writers
    <2>4. Fronts'
      BY <1>2, <2>2 DEF TransfersInv, Fronts, p
    <2> QED BY <1>1, <2>3, <2>4 DEF TransfersInv
  <1>3. CASE ~opened_
    BY <1>1, <1>3 DEF TransfersInv, Readers, Writers, Fronts
  <1> QED BY <1>2, <1>3

\* A link that is down, with an empty queue, needs neither.
LEMMA DownTransfers ==
    ASSUME ~opened_', tx_queue_' = << >>
    PROVE  TransfersInv'
  BY DEF TransfersInv, Readers, Writers, Fronts, IdleDown

\* A session starts with one read and nothing to write.
LEMMA UpTransfers ==
    ASSUME TypeOK, TypeOK', opened_', tx_queue_' = << >>,
           NEW q \in Seq(Ops), NEW r \in Seq(Ops),
           inflight' = Append(q, ReadOp(generation_')), ready' = r,
           \A i \in DOMAIN q : q[i].kind \in {"read", "write"} => q[i].gen # generation_',
           \A i \in DOMAIN r : r[i].kind \in {"read", "write"} => r[i].gen # generation_'
    PROVE  TransfersInv'
  <1> DEFINE R == Of("read", generation_')
             W == Of("write", generation_')
             e == ReadOp(generation_')
  <1>1. e \in Ops /\ e.kind = "read" /\ e.gen = generation_'
    BY OpTypes DEF TypeOK, Kinds, ReadOp, Op
  <1> HIDE DEF e
  <1>2. Total(q, r, R) = 0 /\ Total(q, r, W) = 0
    <2>1. \A i \in DOMAIN q : q[i] \notin R /\ q[i] \notin W
      BY DEF Of
    <2>2. \A i \in DOMAIN r : r[i] \notin R /\ r[i] \notin W
      BY DEF Of
    <2> HIDE DEF R, W
    <2> QED BY <2>1, <2>2, TotalType
  <1>3. In(e, R) = 1 /\ In(e, W) = 0
    BY <1>1 DEF In, Of
  <1> HIDE DEF R, W
  <1>4. Total(Append(q, e), r, R) = 0 + 1 /\ Total(Append(q, e), r, W) = 0 + 0
    BY <1>1, <1>2, <1>3, TotalAppend
  <1>5. Total(inflight', ready', R) = 1 /\ Total(inflight', ready', W) = 0
    BY <1>4 DEF e
  <1> QED BY <1>5 DEF TransfersInv, Readers, Writers, Fronts, IdleDown, R, W

\* CONNECT, DISCONNECT and RECONNECT.
LEMMA CommandTransfers ==
    ASSUME TypeOK, LinkInv, TransfersInv, TypeOK', LinkInv', Start \/ Stop \/ Restart
    PROVE  TransfersInv'
  <1>1. generation_ \in Nat BY DEF TypeOK
  <1>2. \A i \in DOMAIN ready : ready[i].gen <= generation_ /\ ready[i].gen \in Nat
    BY ElementTypes DEF LinkInv, GenerationsPast, TypeOK
  <1>3. \A i \in DOMAIN (ready \o Abort(inflight)) :
            (ready \o Abort(inflight))[i].gen <= generation_
    <2>1. ready \in Seq(Ops) /\ inflight \in Seq(Ops) BY DEF TypeOK
    <2> DEFINE s == ready \o Abort(inflight)
    <2>2. \A i \in DOMAIN s : \/ i \in DOMAIN ready /\ s[i] = ready[i]
                             \/ \E j \in DOMAIN inflight : s[i].gen = inflight[j].gen
      BY <2>1, AbortFacts
    <2> HIDE DEF s
    <2>3. \A i \in DOMAIN s : s[i].gen <= generation_
      BY <1>2, <2>2 DEF LinkInv, GenerationsPast
    <2> QED BY <2>3 DEF s
  <1>4. CASE ~opened_'
    <2>1. tx_queue_' = << >>
      BY <1>4 DEF Start, Stop, Restart, TransfersInv, IdleDown
    <2> QED BY <1>4, <2>1, DownTransfers
  <1>5. CASE opened_'
    <2>1. PICK g \in {generation_ + 1, generation_ + 2}, hs \in {ready, ready \o Abort(inflight)} :
              generation_' = g /\ inflight' = Append(<< >>, ReadOp(g)) /\ ready' = hs
              /\ tx_queue_' = << >>
      <3>1. CASE Start
        <4>1. inflight = << >> /\ tx_queue_ = << >>
          BY <3>1 DEF Start, LinkInv, LinkConsistent, TransfersInv, IdleDown
        <4> QED BY <1>5, <3>1, <4>1 DEF Start, Begin, StartTcp, StartFails, StartSerial
      <3>2. CASE Restart
        BY <1>5, <3>2 DEF Restart, Begin, StartTcp, StartFails, StartSerial
      <3>3. CASE Stop
        BY <1>5, <3>3 DEF Stop
      <3> QED BY <3>1, <3>2, <3>3
    <2>2. \A i \in DOMAIN ready' : ready'[i].gen <= generation_
      BY <1>2, <1>3, <2>1
    <2>3. ready' \in Seq(Ops) /\ \A i \in DOMAIN ready' : ready'[i].gen \in Nat
      BY ElementTypes DEF TypeOK
    <2>4. \A i \in DOMAIN ready' : ready'[i].gen # generation_'
      BY <1>1, <2>1, <2>2, <2>3
    <2> DEFINE z == << >>
    <2>5. z \in Seq(Ops) /\ \A i \in DOMAIN z : FALSE
      BY EmptyTypes
    <2>6. inflight' = Append(z, ReadOp(generation_'))
      BY <2>1
    <2> HIDE DEF z
    <2> QED BY <1>5, <2>1, <2>3, <2>4, <2>5, <2>6, UpTransfers
  <1> QED BY <1>4, <1>5

\* A packet accepted, or the resolver's answer: a handler that transfers nothing.
LEMMA QueuedTransfers ==
    ASSUME TypeOK, TransfersInv, NEW e \in Ops, e.kind \notin {"read", "write"},
           ready' = Append(ready, e), UNCHANGED <<opened_, generation_, tx_queue_, inflight>>
    PROVE  TransfersInv'
  <1>1. inflight \in Seq(Ops) /\ ready \in Seq(Ops) BY DEF TypeOK
  <1>2. ASSUME NEW A \in Counted
        PROVE  Total(inflight', ready', A) = Total(inflight, ready, A)
    <2>1. In(e, A) = 0 BY <1>2, Membership DEF In
    <2>2. Total(inflight, Append(ready, e), A) = Total(inflight, ready, A) + In(e, A)
      BY <1>1, TotalAppend
    <2>3. Total(inflight, ready, A) \in Nat BY <1>1, TotalType
    <2> QED BY <2>1, <2>2, <2>3
  <1> QED BY <1>2, SameTransfers

\* A completion of whatever result.
LEMMA CompletesTransfers ==
    ASSUME TypeOK, TransfersInv, NEW i \in DOMAIN inflight, NEW op \in Ops, Completes(i, op),
           op.kind = inflight[i].kind, op.gen = inflight[i].gen, op.pkt = inflight[i].pkt
    PROVE  TransfersInv'
  <1>1. inflight \in Seq(Ops) /\ ready \in Seq(Ops) BY DEF TypeOK
  <1>2. inflight[i] \in Ops BY <1>1, ElementTypes
  <1>3. ASSUME NEW A \in Counted
        PROVE  Total(inflight', ready', A) = Total(inflight, ready, A)
    <2>1. op \in A <=> inflight[i] \in A BY <1>2, <1>3, Membership
    <2>2. Total(Without(inflight, i), Append(ready, op), A) = Total(inflight, ready, A)
      BY <1>1, <2>1, TotalMove
    <2> QED BY <2>2 DEF Completes
  <1> QED BY <1>3, SameTransfers DEF Completes

\* A handler that has nothing to do with this generation's reads and writes.
LEMMA OtherTransfers ==
    ASSUME TypeOK, TransfersInv, ready # << >>,
           opened_ => ~Transfer(Head(ready)),
           ready' = Tail(ready), UNCHANGED <<opened_, generation_, tx_queue_>>,
           \/ inflight' = inflight
           \/ \E e \in Ops : e.kind \notin {"read", "write"} /\ inflight' = Append(inflight, e)
    PROVE  TransfersInv'
  <1>1. inflight \in Seq(Ops) /\ ready \in Seq(Ops) /\ Tail(ready) \in Seq(Ops)
        /\ Head(ready) \in Ops
    BY TailFacts DEF TypeOK
  <1> DEFINE hs == Tail(ready)
  <1>2. hs \in Seq(Ops) BY <1>1
  <1> HIDE DEF hs
  <1>3. ASSUME opened_, NEW A \in Counted
        PROVE  Total(inflight', ready', A) = Total(inflight, ready, A)
    <2>1. In(Head(ready), A) = 0
      BY <1>1, <1>3, Membership DEF In, Transfer, Current
    <2>2. Total(inflight, ready, A) = Total(inflight, hs, A) + In(Head(ready), A)
      BY <1>1, TotalTail DEF hs
    <2>3. Total(inflight, hs, A) \in Nat BY <1>1, <1>2, TotalType
    <2>4. Total(inflight, hs, A) = Total(inflight, ready, A)
      BY <2>1, <2>2, <2>3
    <2>5. CASE inflight' = inflight BY <2>4, <2>5 DEF hs
    <2>6. CASE \E e \in Ops : e.kind \notin {"read", "write"} /\ inflight' = Append(inflight, e)
      <3>1. PICK e \in Ops : e.kind \notin {"read", "write"} /\ inflight' = Append(inflight, e)
        BY <2>6
      <3>2. In(e, A) = 0 BY <1>3, <3>1, Membership DEF In
      <3>3. Total(Append(inflight, e), hs, A)
              = Total(inflight, hs, A) + In(e, A)
        BY <1>1, <1>2, TotalAppend
      <3> QED BY <2>3, <2>4, <3>1, <3>2, <3>3 DEF hs
    <2> QED BY <2>5, <2>6
  <1> QED BY <1>3, SameTransfers

\* A handler whose operation goes on: do_read_* again, or write_some again on
\* whatever the descriptor now is.
LEMMA GoesOn ==
    ASSUME TypeOK, TransfersInv, ready # << >>, NEW e \in Ops,
           e.kind = Head(ready).kind, e.gen = Head(ready).gen,
           e.kind = "write" => e.pkt = Head(ready).pkt,
           UNCHANGED <<opened_, generation_, tx_queue_>>,
           \/ inflight' = Append(inflight, e) /\ ready' = Tail(ready)
           \/ inflight' = inflight /\ ready' = Append(Tail(ready), e)
    PROVE  TransfersInv'
  <1>1. inflight \in Seq(Ops) /\ ready \in Seq(Ops) /\ Tail(ready) \in Seq(Ops)
        /\ Head(ready) \in Ops
    BY TailFacts DEF TypeOK
  <1> DEFINE hs == Tail(ready)
  <1>2. hs \in Seq(Ops) BY <1>1
  <1> HIDE DEF hs
  <1>3. ASSUME NEW A \in Counted
        PROVE  Total(inflight', ready', A) = Total(inflight, ready, A)
    <2>1. In(e, A) = In(Head(ready), A)
      BY <1>1, <1>3, Membership DEF In
    <2>2. Total(inflight, ready, A) = Total(inflight, hs, A) + In(Head(ready), A)
      BY <1>1, TotalTail DEF hs
    <2>3. /\ Total(Append(inflight, e), hs, A)
              = Total(inflight, hs, A) + In(e, A)
          /\ Total(inflight, Append(hs, e), A)
              = Total(inflight, hs, A) + In(e, A)
      BY <1>1, <1>2, TotalAppend
    <2> QED BY <2>1, <2>2, <2>3 DEF hs
  <1> QED BY <1>3, SameTransfers

\* What the sums are once the handler h of an up link has been taken off.
LEMMA AfterHead ==
    ASSUME TypeOK, TransfersInv, ready # << >>, opened_
    PROVE  LET h == Head(ready)
               hs == Tail(ready)
               R == Of("read", generation_)
               W == Of("write", generation_)
           IN /\ h \in Ops /\ hs \in Seq(Ops) /\ inflight \in Seq(Ops)
              /\ Total(inflight, hs, R) + In(h, R) = 1
              /\ Total(inflight, hs, W) + In(h, W) = IF tx_queue_ = << >> THEN 0 ELSE 1
              /\ Total(inflight, hs, R) \in Nat /\ Total(inflight, hs, W) \in Nat
  <1>1. inflight \in Seq(Ops) /\ ready \in Seq(Ops) /\ Tail(ready) \in Seq(Ops)
        /\ Head(ready) \in Ops
    BY TailFacts DEF TypeOK
  <1> DEFINE h == Head(ready)
             hs == Tail(ready)
  <1>2. hs \in Seq(Ops) BY <1>1
  <1> HIDE DEF h, hs
  <1>3. ASSUME NEW A
        PROVE  Total(inflight, ready, A) = Total(inflight, hs, A) + In(h, A)
               /\ Total(inflight, hs, A) \in Nat
    <2>1. Total(inflight, ready, A) = Total(inflight, hs, A) + In(h, A)
      BY <1>1, TotalTail DEF h, hs
    <2>2. Total(inflight, hs, A) \in Nat
      BY <1>1, <1>2, TotalType
    <2> QED BY <2>1, <2>2
  <1> QED BY <1>1, <1>3 DEF TransfersInv, Readers, Writers, h, hs

\* do_write with its front p, when no write of this generation is outstanding.
LEMMA WriterStarts ==
    ASSUME TypeOK, TransfersInv, ready # << >>, opened_, Head(ready).kind \in {"write", "post"},
           Total(inflight, Tail(ready), Of("write", generation_)) = 0,
           NEW p \in Nat, tx_queue_' # << >>, Head(tx_queue_') = p,
           inflight' = Append(inflight, WriteOp(generation_, p)), ready' = Tail(ready),
           UNCHANGED <<opened_, generation_>>
    PROVE  TransfersInv'
  <1> DEFINE R == Of("read", generation_)
             W == Of("write", generation_)
             T == Stray(generation_, p)
             e == WriteOp(generation_, p)
             h == Head(ready)
             hs == Tail(ready)
  <1>1. h \in Ops /\ hs \in Seq(Ops) /\ inflight \in Seq(Ops)
        /\ Total(inflight, hs, R) + In(h, R) = 1 /\ Total(inflight, hs, R) \in Nat
    BY AfterHead
  <1>2. e \in Ops /\ e.kind = "write" /\ e.gen = generation_ /\ e.pkt = p
    BY OpTypes DEF TypeOK, Kinds, WriteOp, Op
  <1> HIDE DEF e
  <1>3. In(h, R) = 0 /\ In(e, R) = 0 /\ In(e, W) = 1 /\ In(e, T) = 0
    BY <1>2 DEF In, Of, Stray
  <1>4. Total(inflight, hs, R) = 1
    BY <1>1, <1>3
  <1>5. Total(inflight, hs, T) = 0
    <2>1. /\ \A i \in DOMAIN inflight : inflight[i] \notin W
          /\ \A i \in DOMAIN hs : hs[i] \notin W
      BY <1>1, TotalType
    <2>2. \A x : x \in T => x \in W
      BY DEF Of, Stray
    <2> HIDE DEF W, T, hs
    <2> QED BY <1>1, <2>1, <2>2, TotalType
  <1>6. Total(inflight, hs, W) = 0
    OBVIOUS
  <1> HIDE DEF R, W, T, h, hs
  <1>7. /\ Total(Append(inflight, e), hs, R) = 1 + 0
        /\ Total(Append(inflight, e), hs, W) = 0 + 1
        /\ Total(Append(inflight, e), hs, T) = 0 + 0
    BY <1>1, <1>2, <1>3, <1>4, <1>5, <1>6, TotalAppend
  <1>8. /\ Total(inflight', ready', R) = 1
        /\ Total(inflight', ready', W) = 1
        /\ Total(inflight', ready', T) = 0
    BY <1>7 DEF e, hs
  <1> QED BY <1>8 DEF TransfersInv, Readers, Writers, Fronts, IdleDown, R, W, T

\* A link that is up takes the handler h off and issues nothing: the queue is as
\* long as before, or the one write that was outstanding was h and is done.
LEMMA WriterRests ==
    ASSUME TypeOK, TransfersInv, ready # << >>, opened_, Head(ready).kind \in {"write", "post"},
           inflight' = inflight, ready' = Tail(ready), UNCHANGED <<opened_, generation_>>,
           Total(inflight, Tail(ready), Of("write", generation_))
              = IF tx_queue_' = << >> THEN 0 ELSE 1,
           tx_queue_' # << >> => tx_queue_ # << >> /\ Head(tx_queue_') = Head(tx_queue_)
    PROVE  TransfersInv'
  <1> DEFINE R == Of("read", generation_)
             h == Head(ready)
             hs == Tail(ready)
  <1>1. h \in Ops /\ hs \in Seq(Ops) /\ inflight \in Seq(Ops) /\ ready \in Seq(Ops)
        /\ Total(inflight, hs, R) + In(h, R) = 1 /\ Total(inflight, hs, R) \in Nat
    BY AfterHead DEF TypeOK
  <1>2. In(h, R) = 0 BY DEF In, Of
  <1>3. Total(inflight', ready', R) = 1 BY <1>1, <1>2
  <1>4. Readers' /\ Writers' /\ IdleDown'
    BY <1>3 DEF Readers, Writers, IdleDown
  <1>5. ASSUME tx_queue_' # << >>
        PROVE  Total(inflight', ready', Stray(generation_, Head(tx_queue_'))) = 0
    <2> DEFINE T == Stray(generation_, Head(tx_queue_))
    <2>1. Total(inflight, ready, T) = 0
      BY <1>5 DEF TransfersInv, Fronts
    <2>2. Total(inflight, ready, T) = Total(inflight, hs, T) + In(h, T)
      BY <1>1, TotalTail
    <2> HIDE DEF hs, T
    <2>3. Total(inflight, hs, T) \in Nat /\ In(h, T) \in Nat
      BY <1>1, TotalType DEF In
    <2>4. Total(inflight, hs, T) = 0
      BY <2>1, <2>2, <2>3
    <2> QED BY <1>5, <2>4 DEF T, hs
  <1>6. Fronts' BY <1>5 DEF Fronts
  <1> QED BY <1>4, <1>6 DEF TransfersInv

\* Every handler.
LEMMA HandlerTransfers ==
    ASSUME TypeOK, LinkInv, TransfersInv, TypeOK', RunHandler
    PROVE  TransfersInv'
  <1> DEFINE h == Head(ready)
             hs == Tail(ready)
             W == Of("write", generation_)
  <1>1. ready # << >> BY DEF RunHandler
  <1>2. h \in Ops /\ h = ready[1] /\ 1 \in DOMAIN ready /\ hs \in Seq(Ops) /\ generation_ \in Nat
    BY <1>1, TailFacts DEF TypeOK
  <1>3. opened_ => ~connecting_ BY DEF LinkInv, LinkConsistent
  <1>4. opened_ => /\ Total(inflight, hs, W) + In(h, W) = IF tx_queue_ = << >> THEN 0 ELSE 1
                   /\ Total(inflight, hs, W) \in Nat
    BY <1>1, AfterHead
  <1>5. h \in W <=> h.kind = "write" /\ h.gen = generation_
    BY <1>2 DEF Of
  <1>6. ~opened_ => tx_queue_ = << >> BY DEF TransfersInv, IdleDown
  <1>7. h.gen \in Nat /\ h.pkt \in Nat BY <1>2 DEF Ops
  <1> HIDE DEF h, hs, W
  <1>8. ASSUME Ignore(hs), opened_ => ~Transfer(h) PROVE TransfersInv'
    BY <1>1, <1>8, OtherTransfers DEF Ignore, h, hs
  <1>9. ASSUME HandleIoError(hs) PROVE TransfersInv'
    BY <1>9, DownTransfers DEF HandleIoError
  <1>10. CASE RunResolve(h, hs)
    <2>1. ~Transfer(h) BY <1>10 DEF RunResolve, Transfer
    <2>2. CASE Ignore(hs) BY <1>8, <2>1, <2>2
    <2>3. CASE HandleIoError(hs) BY <1>9, <2>3
    <2>4. CASE ~Ignore(hs) /\ ~HandleIoError(hs)
      <3>1. /\ inflight' = Append(inflight, Op("connect", h.gen)) /\ ready' = hs
            /\ UNCHANGED <<opened_, generation_, tx_queue_>>
        BY <1>10, <2>4 DEF RunResolve
      <3>2. Op("connect", h.gen) \in Ops /\ Op("connect", h.gen).kind = "connect"
        BY <1>7, OpTypes DEF Kinds, Op
      <3> QED BY <1>1, <2>1, <3>1, <3>2, OtherTransfers DEF h, hs
    <2> QED BY <2>2, <2>3, <2>4
  <1>11. CASE RunConnect(h, hs)
    <2>1. ~Transfer(h) BY <1>11 DEF RunConnect, Transfer
    <2>2. CASE Ignore(hs) BY <1>8, <2>1, <2>2
    <2>3. CASE HandleIoError(hs) BY <1>9, <2>3
    <2>4. CASE ~Ignore(hs) /\ ~HandleIoError(hs)
      <3>1. /\ h.kind = "connect" /\ Current(h) /\ opened_' /\ ready' = hs
            /\ inflight' = Append(inflight, ReadOp(h.gen))
            /\ UNCHANGED <<generation_, tx_queue_>>
        BY <1>11, <2>4 DEF RunConnect
      <3>2. connecting_
        BY <1>2, <3>1 DEF LinkInv, OneAttempt, Attempt
      <3>3. /\ \A i \in DOMAIN inflight : ~Transfer(inflight[i])
            /\ \A i \in DOMAIN ready : ~Transfer(ready[i])
        BY <3>2 DEF LinkInv, TransfersAfterConnect
      <3>4. \A i \in DOMAIN hs : i + 1 \in DOMAIN ready /\ hs[i] = ready[i + 1]
        BY <1>1, TailFacts DEF TypeOK, hs
      <3>5. \A i \in DOMAIN hs : ~Transfer(hs[i])
        BY <3>3, <3>4
      <3>6. /\ \A i \in DOMAIN inflight :
                  inflight[i].kind \in {"read", "write"} => inflight[i].gen # generation_'
            /\ \A i \in DOMAIN hs : hs[i].kind \in {"read", "write"} => hs[i].gen # generation_'
        BY <3>1, <3>3, <3>5 DEF Transfer, Current
      <3>7. tx_queue_' = << >> BY <1>3, <1>6, <3>1, <3>2
      <3>8. inflight \in Seq(Ops) BY DEF TypeOK
      <3>9. inflight' = Append(inflight, ReadOp(generation_')) BY <3>1 DEF Current
      <3> QED BY <1>2, <3>1, <3>6, <3>7, <3>8, <3>9, UpTransfers
    <2> QED BY <2>2, <2>3, <2>4
  <1>12. CASE RunRead(h, hs)
    <2>1. CASE HandleIoError(hs) BY <1>9, <2>1
    <2>2. CASE ~Current(h) /\ Ignore(hs) BY <1>8, <2>2 DEF Transfer
    <2>3. CASE ~HandleIoError(hs) /\ ~(~Current(h) /\ Ignore(hs))
      <3>1. /\ h.kind = "read" /\ Current(h) /\ ready' = hs
            /\ inflight' = IF opened_ THEN Append(inflight, ReadOp(h.gen)) ELSE inflight
            /\ UNCHANGED <<opened_, generation_, tx_queue_>>
        BY <1>12, <2>3 DEF RunRead
      <3>2. ReadOp(h.gen) \in Ops /\ ReadOp(h.gen).kind = "read" /\ ReadOp(h.gen).gen = h.gen
        BY <1>7, OpTypes DEF Kinds, ReadOp, Op
      <3>3. CASE opened_
        BY <1>1, <3>1, <3>2, <3>3, GoesOn DEF h, hs
      <3>4. CASE ~opened_
        BY <1>6, <3>1, <3>4, DownTransfers
      <3> QED BY <3>3, <3>4
    <2> QED BY <2>1, <2>2, <2>3
  <1>13. CASE RunPartialWrite(h, hs)
    <2> DEFINE more == [h EXCEPT !.res = "pending"]
               bad == [h EXCEPT !.res = "err"]
    <2>1. /\ more \in Ops /\ more.kind = h.kind /\ more.gen = h.gen /\ more.pkt = h.pkt
          /\ bad \in Ops /\ bad.kind = h.kind /\ bad.gen = h.gen /\ bad.pkt = h.pkt
      BY <1>2 DEF Ops, Results
    <2>2. \/ inflight' = Append(inflight, more) /\ ready' = hs
          \/ inflight' = inflight /\ ready' = Append(hs, bad)
      BY <1>13 DEF RunPartialWrite
    <2>3. UNCHANGED <<opened_, generation_, tx_queue_>>
      BY <1>13 DEF RunPartialWrite
    <2> HIDE DEF more, bad
    <2> QED BY <1>1, <2>1, <2>2, <2>3, GoesOn DEF h, hs
  <1>14. CASE RunWrite(h, hs)
    <2>1. CASE HandleIoError(hs) BY <1>9, <2>1
    <2>2. CASE ~Current(h) /\ Ignore(hs) BY <1>8, <2>2 DEF Transfer
    <2>3. CASE ~HandleIoError(hs) /\ ~(~Current(h) /\ Ignore(hs))
      <3> DEFINE q == IF tx_queue_ = << >> THEN << >> ELSE Tail(tx_queue_)
      <3>1. q \in Seq(Nat) BY TailFacts DEF TypeOK
      <3>2. ~opened_ => q = << >> BY <1>6
      <3> HIDE DEF q
      <3>3. /\ h.kind = "write" /\ Current(h) /\ ready' = hs /\ DoWrite(q)
            /\ UNCHANGED <<opened_, generation_>>
        BY <1>14, <2>3 DEF RunWrite, q
      <3>4. CASE ~opened_
        BY <3>2, <3>3, <3>4, DownTransfers DEF DoWrite
      <3>5. CASE opened_
        <4>1. In(h, W) = 1 BY <1>5, <3>3 DEF In, Current
        <4>2. Total(inflight, hs, W) = 0
          BY <1>4, <3>5, <4>1
        <4>3. CASE q = << >>
          <5>1. inflight' = inflight /\ tx_queue_' = << >>
            BY <3>3, <4>3 DEF DoWrite
          <5> QED BY <1>1, <3>3, <3>5, <4>2, <5>1, WriterRests DEF h, hs, W
        <4>4. CASE q # << >>
          <5>1. Head(q) \in Nat BY <3>1, <4>4, TailFacts
          <5>2. inflight' = Append(inflight, WriteOp(generation_, Head(q))) /\ tx_queue_' = q
            BY <3>3, <3>5, <4>4 DEF DoWrite
          <5> QED BY <1>1, <3>3, <3>5, <4>2, <4>4, <5>1, <5>2, WriterStarts DEF h, hs, W
        <4> QED BY <4>3, <4>4
      <3> QED BY <3>4, <3>5
    <2> QED BY <2>1, <2>2, <2>3
  <1>15. CASE RunPost(h, hs)
    <2>1. h.kind = "post" /\ ~Transfer(h) BY <1>15 DEF RunPost, Transfer
    <2>2. CASE Ignore(hs) BY <1>8, <2>1, <2>2
    <2>3. CASE ~Ignore(hs)
      <3>1. /\ opened_ /\ ready' = hs /\ UNCHANGED <<opened_, generation_>>
            /\ IF tx_queue_ = << >>
               THEN DoWrite(<<h.pkt>>)
               ELSE tx_queue_' = Append(tx_queue_, h.pkt) /\ UNCHANGED inflight
        BY <1>15, <2>3 DEF RunPost
      <3>2. In(h, W) = 0 BY <1>5, <2>1 DEF In
      <3>3. Total(inflight, hs, W) = IF tx_queue_ = << >> THEN 0 ELSE 1
        BY <1>4, <3>1, <3>2
      <3>4. CASE tx_queue_ = << >>
        <4>1. <<h.pkt>> # << >> /\ Head(<<h.pkt>>) = h.pkt OBVIOUS
        <4>2. tx_queue_' = <<h.pkt>> /\ inflight' = Append(inflight, WriteOp(generation_, h.pkt))
          BY <3>1, <3>4, <4>1 DEF DoWrite
        <4>3. tx_queue_' # << >> /\ Head(tx_queue_') = h.pkt BY <4>1, <4>2
        <4>4. Total(inflight, hs, W) = 0 BY <3>3, <3>4
        <4> QED BY <1>1, <1>7, <2>1, <3>1, <4>2, <4>3, <4>4, WriterStarts DEF h, hs, W
      <3>5. CASE tx_queue_ # << >>
        <4>1. tx_queue_' = Append(tx_queue_, h.pkt) /\ inflight' = inflight BY <3>1, <3>5
        <4>2. tx_queue_' # << >> /\ Head(tx_queue_') = Head(tx_queue_)
          <5>1. tx_queue_ \in Seq(Nat) BY DEF TypeOK
          <5> QED BY <1>7, <3>5, <4>1, <5>1
        <4>3. Total(inflight, hs, W) = IF tx_queue_' = << >> THEN 0 ELSE 1
          BY <3>3, <3>5, <4>2
        <4> QED BY <1>1, <2>1, <3>1, <3>5, <4>1, <4>2, <4>3, WriterRests DEF h, hs, W
      <3> QED BY <3>4, <3>5
    <2> QED BY <2>2, <2>3
  <1> QED BY <1>10, <1>11, <1>12, <1>13, <1>14, <1>15 DEF RunHandler, h, hs

\* Every step keeps the reader and the writer.
LEMMA NextTransfers ==
    ASSUME TypeOK, LinkInv, TransfersInv, [Next]_vars
    PROVE  TransfersInv'
  <1>1. TypeOK' /\ LinkInv' BY NextTypes, NextInv
  <1>2. CASE Start \/ Stop \/ Restart BY <1>1, <1>2, CommandTransfers
  <1>3. CASE WriteBytes
    <2> DEFINE e == Post(generation_, accepted + 1)
    <2>1. e \in Ops /\ e.kind = "post"
      <3>1. accepted + 1 \in Nat BY DEF TypeOK
      <3> QED BY <3>1, OpTypes DEF TypeOK, Kinds, Post, Op
    <2>2. ready' = Append(ready, e) /\ UNCHANGED <<opened_, generation_, tx_queue_, inflight>>
      BY <1>3 DEF WriteBytes
    <2> HIDE DEF e
    <2> QED BY <2>1, <2>2, QueuedTransfers
  <1>4. CASE Resolver
    <2>1. PICK g \in resolving, res \in {"ok", "err"} : Resolved(g, res)
      BY <1>4 DEF Resolver
    <2> DEFINE e == [Op("resolve", g) EXCEPT !.res = res]
    <2>2. e \in Ops /\ e.kind = "resolve"
      BY <2>1 DEF Op, Ops, Kinds, Results, TypeOK
    <2>3. ready' = Append(ready, e) /\ UNCHANGED <<opened_, generation_, tx_queue_, inflight>>
      BY <2>1 DEF Resolved
    <2> HIDE DEF e
    <2> QED BY <2>2, <2>3, QueuedTransfers
  <1>5. CASE System
    <2>1. PICK i \in DOMAIN inflight :
              \/ \E res \in {"ok", "err"} : IoCompletes(i, res)
              \/ \E res \in {"ok", "some"} : Transmits(i, res)
      BY <1>5 DEF System
    <2>2. inflight[i] \in Ops BY ElementTypes DEF TypeOK
    <2>3. CASE \E res \in {"ok", "err"} : IoCompletes(i, res)
      <3>1. PICK res \in {"ok", "err"} : IoCompletes(i, res) BY <2>3
      <3> DEFINE op == [inflight[i] EXCEPT !.res = res]
      <3>2. op \in Ops /\ op.kind = inflight[i].kind /\ op.gen = inflight[i].gen
            /\ op.pkt = inflight[i].pkt
        BY <2>2 DEF Ops, Results
      <3>3. Completes(i, op) BY <3>1 DEF IoCompletes
      <3> HIDE DEF op
      <3> QED BY <3>2, <3>3, CompletesTransfers
    <2>4. CASE \E res \in {"ok", "some"} : Transmits(i, res)
      <3>1. PICK res \in {"ok", "some"} : Transmits(i, res) BY <2>4
      <3> DEFINE op == [inflight[i] EXCEPT !.res = res, !.part = @ + 1]
      <3>2. op \in Ops /\ op.kind = inflight[i].kind /\ op.gen = inflight[i].gen
            /\ op.pkt = inflight[i].pkt
        <4>1. inflight[i].part + 1 \in Nat BY <2>2 DEF Ops
        <4> QED BY <2>2, <4>1 DEF Ops, Results
      <3>3. Completes(i, op) BY <3>1 DEF Transmits
      <3> HIDE DEF op
      <3> QED BY <3>2, <3>3, CompletesTransfers
    <2> QED BY <2>1, <2>3, <2>4
  <1>6. CASE RunHandler BY <1>1, <1>6, HandlerTransfers
  <1>7. CASE UNCHANGED vars
    BY <1>7, SameTransfers DEF vars
  <1> QED BY <1>2, <1>3, <1>4, <1>5, <1>6, <1>7 DEF Next

\* A serial port that opens starts with its read; otherwise the link is down.
LEMMA InitTransfers == Init => TransfersInv
  <1> SUFFICES ASSUME Init PROVE TransfersInv OBVIOUS
  <1>1. CASE ~opened_
    BY <1>1 DEF Init, TransfersInv, Readers, Writers, Fronts, IdleDown
  <1>2. CASE opened_
    <2> DEFINE e == ReadOp(1)
               R == Of("read", 1)
               W == Of("write", 1)
    <2>1. generation_ = 1 /\ inflight = <<e>> /\ ready = << >> /\ tx_queue_ = << >>
      BY <1>2, Zenon DEF Init
    <2>2. e \in Ops /\ e.kind = "read" /\ e.gen = 1
      BY OpTypes DEF Kinds, ReadOp, Op
    <2>3. In(e, R) = 1 /\ In(e, W) = 0
      BY <2>2 DEF In, Of
    <2> HIDE DEF e, R, W
    <2>4. Count(inflight, R) = 1 /\ Count(inflight, W) = 0
      BY <2>1, <2>3, CountOne
    <2>5. Count(ready, R) = 0 /\ Count(ready, W) = 0
      BY <2>1, CountEmpty, Zenon
    <2>6. Total(inflight, ready, R) = 1 /\ Total(inflight, ready, W) = 0
      BY <2>4, <2>5 DEF Total
    <2> QED BY <1>2, <2>1, <2>6 DEF TransfersInv, Readers, Writers, Fronts, IdleDown, R, W
  <1> QED BY <1>1, <1>2 DEF Init

\* The sums are what the invariants of SerialLink count.
LEMMA OutstandingTotal ==
    ASSUME TypeOK, NEW kind
    PROVE  Outstanding(kind) = Total(inflight, ready, Of(kind, generation_))
  <1> DEFINE A == Of(kind, generation_)
  <1>1. /\ \A i \in DOMAIN inflight : inflight[i] \in Ops
        /\ \A i \in DOMAIN ready : ready[i] \in Ops
    BY ElementTypes DEF TypeOK
  <1>2. {i \in DOMAIN inflight : inflight[i].kind = kind /\ Current(inflight[i])}
          = Where(inflight, A)
    BY <1>1 DEF Where, Of, Current
  <1>3. {i \in DOMAIN ready : ready[i].kind = kind /\ Current(ready[i])} = Where(ready, A)
    BY <1>1 DEF Where, Of, Current
  <1> QED BY <1>2, <1>3 DEF Outstanding, Total, Count

\* The reader's and the writer's invariant, in every reachable state.
THEOREM TransfersInductive == Spec => [](TypeOK /\ LinkInv /\ TransfersInv)
  <1>1. Init => TypeOK /\ LinkInv /\ TransfersInv
    BY InitTypes, InitInv, InitTransfers
  <1>2. TypeOK /\ LinkInv /\ TransfersInv /\ [Next]_vars
          => TypeOK' /\ LinkInv' /\ TransfersInv'
    BY NextTypes, NextInv, NextTransfers
  <1> QED BY <1>1, <1>2, PTL DEF Spec

\* For every port kind and any number of sessions, errors and late completions,
\* a link that is up has exactly one read of its own session outstanding.
THEOREM OneReaderAlways == Spec => []OneReader
  <1>1. ASSUME TypeOK, TransfersInv PROVE OneReader
    BY <1>1, OutstandingTotal DEF TransfersInv, Readers, OneReader
  <1> QED BY <1>1, TransfersInductive, PTL

\* For every port kind, a link that is up has one write outstanding exactly when
\* packets are queued, and it writes the front of the queue.
THEOREM OneWriterAlways == Spec => []OneWriter
  <1>1. ASSUME TypeOK, TransfersInv PROVE OneWriter
    <2> SUFFICES ASSUME opened_
                 PROVE  /\ Outstanding("write") = IF tx_queue_ = << >> THEN 0 ELSE 1
                        /\ \A q \in {inflight, ready} : \A i \in DOMAIN q :
                             q[i].kind = "write" /\ Current(q[i]) => q[i].pkt = Head(tx_queue_)
      BY DEF OneWriter
    <2>1. Outstanding("write") = IF tx_queue_ = << >> THEN 0 ELSE 1
      BY <1>1, OutstandingTotal DEF TransfersInv, Writers
    <2> DEFINE W == Of("write", generation_)
               T == Stray(generation_, Head(tx_queue_))
    <2>2. inflight \in Seq(Ops) /\ ready \in Seq(Ops) BY <1>1 DEF TypeOK
    <2>3. ASSUME NEW q \in {inflight, ready}, NEW i \in DOMAIN q,
                 q[i].kind = "write", Current(q[i])
          PROVE  q[i].pkt = Head(tx_queue_)
      <3>1. q[i] \in Ops BY <2>2, <2>3, ElementTypes
      <3>2. q[i] \in W BY <2>3, <3>1 DEF Of, Current
      <3> HIDE DEF W, T
      <3>3. Total(inflight, ready, W) # 0 BY <2>2, <2>3, <3>2, TotalType
      <3>4. tx_queue_ # << >> BY <1>1, <3>3 DEF TransfersInv, Writers, W
      <3>5. Total(inflight, ready, T) = 0 BY <1>1, <3>4 DEF TransfersInv, Fronts, T
      <3>6. q[i] \notin T BY <2>2, <2>3, <3>5, TotalType
      <3> QED BY <2>3, <3>1, <3>6 DEF T, Stray, Current
    <2> QED BY <2>1, <2>3
  <1> QED BY <1>1, TransfersInductive, PTL
------------------------------------------------------------------------------
(* The contract.  On TCP the link implements LinkContract: packets carry    *)
(* consecutive numbers, in the transmit queue and behind it in the posted   *)
(* lambdas, up to the last one accepted; the write under way is the front's *)
(* and knows how much of it is done.                                        *)

Posted == {op \in Ops : op.kind = "post"}

\* Packets queued in q and posted in s have consecutive numbers, up to a.
Numbers(q, s, a) ==
    /\ \A i \in 1 .. Len(q) : q[i] = a - Len(s) - Len(q) + i
    /\ \A j \in 1 .. Len(s) : s[j].pkt = a - Len(s) + j

\* A partial completion, whose write goes on when its handler runs.
Loose(h) == h.kind = "write" /\ h.res = "some"

\* What is pending in q has no result yet, and a pending write is one of session g,
\* which is up (o).
Sends(q, g, o) ==
    \A i \in DOMAIN q : q[i].res = "pending" /\ (q[i].kind = "write" => o /\ q[i].gen = g)

\* A partial completion of an earlier session runs before the resolve handler
\* of this one, that is, while the descriptor d is closed.
Begins(h, g) == h.kind \in {"resolve", "connect"} /\ h.gen = g
Partials(r, g, o, d) ==
    /\ \A i, j \in DOMAIN r : Begins(r[i], g) /\ Loose(r[j]) => j < i
    /\ d # Closed => \A j \in DOMAIN r : Loose(r[j]) => o /\ r[j].gen = g

Sending == Sends(inflight, generation_, opened_)
PartialsFirst == Partials(ready, generation_, opened_, handle)
Numbered == opened_ => Numbers(tx_queue_, Select(ready, Posted), accepted)

PacketsInv == Sending /\ PartialsFirst /\ Numbered

\* No packet at all.
LEMMA NumbersNone ==
    ASSUME NEW a
    PROVE  Numbers(<< >>, << >>, a)
  <1>1. Len(<< >>) = 0 OBVIOUS
  <1>2. 1 .. 0 = {} OBVIOUS
  <1> QED BY <1>1, <1>2 DEF Numbers

\* write_bytes accepts one more.
LEMMA NumbersAccept ==
    ASSUME NEW a \in Nat, NEW q \in Seq(Nat), NEW s \in Seq(Ops), NEW e \in Ops,
           Numbers(q, s, a), e.pkt = a + 1
    PROVE  Numbers(q, Append(s, e), a + 1)
  <1> DEFINE t == Append(s, e)
             m == Len(q)
             n == Len(s)
  <1>1. m \in Nat /\ n \in Nat BY LenProperties
  <1>2. Len(t) = n + 1 /\ t[n + 1] = e /\ \A i \in 1 .. n : t[i] = s[i]
    BY AppendProperties
  <1>3. /\ \A i \in 1 .. m : q[i] = a - n - m + i
        /\ \A j \in 1 .. n : s[j].pkt = a - n + j
    BY DEF Numbers
  <1> HIDE DEF t, m, n
  <1>4. \A i \in 1 .. m : q[i] = (a + 1) - (n + 1) - m + i
    BY <1>1, <1>3
  <1>5. ASSUME NEW j \in 1 .. n + 1 PROVE t[j].pkt = (a + 1) - (n + 1) + j
    <2>1. CASE j = n + 1 BY <1>1, <1>2, <2>1
    <2>2. CASE j # n + 1
      <3>1. j \in 1 .. n BY <1>1, <2>2
      <3>2. t[j].pkt = a - n + j BY <1>2, <1>3, <3>1
      <3> QED BY <1>1, <3>1, <3>2
    <2> QED BY <2>1, <2>2
  <1>6. Numbers(q, t, a + 1)
    BY <1>2, <1>4, <1>5 DEF Numbers, m
  <1> QED BY <1>6 DEF t

\* The posted lambda puts its packet behind the others.
LEMMA NumbersPost ==
    ASSUME NEW a \in Nat, NEW q \in Seq(Nat), NEW t \in Seq(Ops), NEW h \in Ops,
           Numbers(q, <<h>> \o t, a)
    PROVE  Numbers(Append(q, h.pkt), t, a)
  <1> DEFINE s == <<h>> \o t
             u == Append(q, h.pkt)
             m == Len(q)
             n == Len(t)
  <1>1. m \in Nat /\ n \in Nat BY LenProperties
  <1>2. Len(s) = n + 1 /\ s[1] = h /\ \A j \in 1 .. n : s[1 + j] = t[j]
    <2>1. <<h>> \in Seq(Ops) /\ Len(<<h>>) = 1 /\ <<h>>[1] = h OBVIOUS
    <2>2. Len(s) = Len(<<h>>) + n /\ (\A i \in 1 .. Len(<<h>>) : s[i] = <<h>>[i])
          /\ \A i \in 1 .. n : s[Len(<<h>>) + i] = t[i]
      BY <2>1, ConcatElements
    <2> QED BY <1>1, <2>1, <2>2
  <1>3. h.pkt \in Nat BY DEF Ops
  <1>4. Len(u) = m + 1 /\ u[m + 1] = h.pkt /\ \A i \in 1 .. m : u[i] = q[i]
    BY <1>3, AppendProperties
  <1>5. /\ \A i \in 1 .. m : q[i] = a - (n + 1) - m + i
        /\ \A j \in 1 .. n + 1 : s[j].pkt = a - (n + 1) + j
    BY <1>2 DEF Numbers
  <1> HIDE DEF s, u, m, n
  <1>6. ASSUME NEW i \in 1 .. m + 1 PROVE u[i] = a - n - (m + 1) + i
    <2>1. CASE i = m + 1
      <3>1. h.pkt = a - (n + 1) + 1 BY <1>1, <1>2, <1>5
      <3> QED BY <1>1, <1>4, <2>1, <3>1
    <2>2. CASE i # m + 1
      <3>1. i \in 1 .. m BY <1>1, <2>2
      <3>2. u[i] = a - (n + 1) - m + i BY <1>4, <1>5, <3>1
      <3> QED BY <1>1, <3>1, <3>2
    <2> QED BY <2>1, <2>2
  <1>7. ASSUME NEW j \in 1 .. n PROVE t[j].pkt = a - n + j
    <2>1. 1 + j \in 1 .. n + 1 BY <1>1
    <2>2. t[j].pkt = a - (n + 1) + (1 + j) BY <1>2, <1>5, <2>1
    <2> QED BY <1>1, <2>2
  <1>8. Numbers(u, t, a)
    BY <1>4, <1>6, <1>7 DEF Numbers, n
  <1> QED BY <1>8 DEF u

\* The front of the queue is the first packet left, and may go.
LEMMA NumbersTail ==
    ASSUME NEW a \in Nat, NEW q \in Seq(Nat), NEW s \in Seq(Ops), q # << >>, Numbers(q, s, a)
    PROVE  Head(q) = a - Len(s) - Len(q) + 1 /\ Numbers(Tail(q), s, a)
  <1> DEFINE u == Tail(q)
             m == Len(q)
             n == Len(s)
  <1>1. m \in Nat /\ n \in Nat /\ m >= 1 BY LenProperties, EmptySeq
  <1>2. Len(u) = m - 1 /\ Head(q) = q[1] /\ \A i \in 1 .. m - 1 : u[i] = q[i + 1]
    BY <1>1, HeadTailProperties
  <1>3. /\ \A i \in 1 .. m : q[i] = a - n - m + i
        /\ \A j \in 1 .. n : s[j].pkt = a - n + j
    BY DEF Numbers
  <1> HIDE DEF u, m, n
  <1>4. Head(q) = a - n - m + 1 BY <1>1, <1>2, <1>3
  <1>5. ASSUME NEW i \in 1 .. m - 1 PROVE u[i] = a - n - (m - 1) + i
    <2>1. i + 1 \in 1 .. m BY <1>1
    <2>2. u[i] = a - n - m + (i + 1) BY <1>2, <1>3, <2>1
    <2> QED BY <1>1, <2>2
  <1>6. Numbers(u, s, a) BY <1>2, <1>3, <1>5 DEF Numbers, n
  <1> QED BY <1>4, <1>6 DEF u, m, n

\* The elements of A in q and r; Writes is an instance of it.
Among(q, r, A) == {q[i] : i \in Where(q, A)} \union {r[i] : i \in Where(r, A)}

\* Whether the packet of a write in ws is written whole, and if not how many parts.
Whole(ws) == IF \E w \in ws : w.res = "ok" THEN 1 ELSE 0
Done(ws) == IF ~(\E w \in ws : w.res = "ok") /\ ws # {} THEN (CHOOSE w \in ws : TRUE).part ELSE 0

\* What is in it.
LEMMA AmongMember ==
    ASSUME NEW q, NEW r, NEW A, NEW x
    PROVE  x \in Among(q, r, A) <=> x \in A /\ (\/ \E i \in DOMAIN q : q[i] = x
                                              \/ \E i \in DOMAIN r : r[i] = x)
  BY DEF Among, Where

\* Nothing when the sum is zero.
LEMMA AmongNone ==
    ASSUME NEW q \in Seq(Ops), NEW r \in Seq(Ops), NEW A, Total(q, r, A) = 0
    PROVE  Among(q, r, A) = {}
  <1>1. /\ \A i \in DOMAIN q : q[i] \notin A
        /\ \A i \in DOMAIN r : r[i] \notin A
    BY TotalType
  <1> QED BY <1>1 DEF Among, Where

\* Issuing an operation, or queueing a handler, adds it if it is one of A.
LEMMA AmongAppend ==
    ASSUME NEW q \in Seq(Ops), NEW r \in Seq(Ops), NEW e \in Ops, NEW A
    PROVE  /\ Among(Append(q, e), r, A) = Among(q, r, A) \union ({e} \intersect A)
           /\ Among(q, Append(r, e), A) = Among(q, r, A) \union ({e} \intersect A)
  <1> DEFINE Has(s, x) == \E i \in DOMAIN s : s[i] = x
  <1>1. ASSUME NEW s \in Seq(Ops), NEW x
        PROVE  Has(Append(s, e), x) <=> Has(s, x) \/ x = e
    <2> DEFINE t == Append(s, e)
               k == Len(s) + 1
    <2>1. DOMAIN t = DOMAIN s \union {k} /\ t[k] = e /\ \A i \in DOMAIN s : t[i] = s[i]
      BY <1>1, AppendFacts
    <2> HIDE DEF t, k
    <2>2. (\E i \in DOMAIN t : t[i] = x) <=> (\E i \in DOMAIN s : s[i] = x) \/ x = e
      BY <2>1
    <2> QED BY <2>2 DEF t
  <1>2. \A s, t, x : x \in Among(s, t, A) <=> x \in A /\ (Has(s, x) \/ Has(t, x))
    BY AmongMember
  <1> HIDE DEF Has
  <1>3. \A x : x \in Among(Append(q, e), r, A) <=> x \in Among(q, r, A) \union ({e} \intersect A)
    BY <1>1, <1>2
  <1>4. \A x : x \in Among(q, Append(r, e), A) <=> x \in Among(q, r, A) \union ({e} \intersect A)
    BY <1>1, <1>2
  <1> QED BY <1>3, <1>4

\* Running a handler takes it out.
LEMMA AmongTail ==
    ASSUME NEW q \in Seq(Ops), NEW r \in Seq(Ops), r # << >>, NEW A
    PROVE  Among(q, r, A) = Among(q, Tail(r), A) \union ({Head(r)} \intersect A)
  <1> DEFINE Has(s, x) == \E i \in DOMAIN s : s[i] = x
             t == Tail(r)
             n == Len(r)
  <1>1. ASSUME NEW x PROVE Has(r, x) <=> Has(t, x) \/ x = Head(r)
    <2>1. /\ n \in Nat /\ n >= 1 /\ DOMAIN r = 1 .. n /\ Head(r) = r[1]
          /\ DOMAIN t = 1 .. n - 1 /\ \A i \in 1 .. n - 1 : t[i] = r[i + 1]
      BY EmptySeq, HeadTailProperties, LenProperties
    <2> HIDE DEF t, n
    <2>2. ASSUME NEW i \in 1 .. n, r[i] = x PROVE Has(t, x) \/ x = Head(r)
      <3>1. CASE i = 1 BY <2>1, <2>2, <3>1
      <3>2. CASE i # 1
        <4>1. i - 1 \in 1 .. n - 1 /\ (i - 1) + 1 = i BY <2>1, <3>2
        <4>2. t[i - 1] = x BY <2>1, <2>2, <4>1
        <4> QED BY <2>1, <4>1, <4>2
      <3> QED BY <3>1, <3>2
    <2>3. ASSUME NEW i \in 1 .. n - 1, t[i] = x PROVE Has(r, x)
      <3>1. i + 1 \in 1 .. n /\ r[i + 1] = x BY <2>1, <2>3
      <3> QED BY <2>1, <3>1
    <2>4. x = Head(r) => Has(r, x)
      <3>1. 1 \in 1 .. n BY <2>1
      <3> QED BY <2>1, <3>1
    <2> QED BY <2>1, <2>2, <2>3, <2>4
  <1>2. \A s, u, x : x \in Among(s, u, A) <=> x \in A /\ (Has(s, x) \/ Has(u, x))
    BY AmongMember
  <1> HIDE DEF Has, t
  <1>3. \A x : x \in Among(q, r, A) <=> x \in Among(q, t, A) \union ({Head(r)} \intersect A)
    BY <1>1, <1>2
  <1> QED BY <1>3 DEF t

\* A completion takes an operation out of the pending ones.
LEMMA AmongWithout ==
    ASSUME NEW q \in Seq(Ops), NEW r \in Seq(Ops), NEW i \in DOMAIN q, NEW A
    PROVE  Among(q, r, A) = Among(Without(q, i), r, A) \union ({q[i]} \intersect A)
  <1> DEFINE Has(s, x) == \E k \in DOMAIN s : s[k] = x
             w == Without(q, i)
             n == Len(q)
  <1>1. ASSUME NEW x PROVE Has(q, x) <=> Has(w, x) \/ x = q[i]
    <2>1. n \in Nat /\ DOMAIN q = 1 .. n /\ i \in 1 .. n
      BY LenProperties
    <2>2. w = [j \in 1 .. n - 1 |-> IF j < i THEN q[j] ELSE q[j + 1]]
      BY DEF Without
    <2>3. DOMAIN w = 1 .. n - 1 /\ \A j \in 1 .. n - 1 : w[j] = IF j < i THEN q[j] ELSE q[j + 1]
      BY <2>2
    <2> HIDE DEF w, n
    <2>4. ASSUME NEW k \in 1 .. n, q[k] = x PROVE Has(w, x) \/ x = q[i]
      <3>1. CASE k = i BY <2>4, <3>1
      <3>2. CASE k < i
        <4>1. k \in 1 .. n - 1 BY <2>1, <3>2
        <4>2. w[k] = x BY <2>3, <2>4, <3>2, <4>1
        <4> QED BY <2>3, <4>1, <4>2
      <3>3. CASE k > i
        <4>1. k - 1 \in 1 .. n - 1 /\ ~(k - 1 < i) /\ (k - 1) + 1 = k BY <2>1, <3>3
        <4>2. w[k - 1] = x BY <2>3, <2>4, <4>1
        <4> QED BY <2>3, <4>1, <4>2
      <3> QED BY <2>1, <3>1, <3>2, <3>3
    <2>5. ASSUME NEW j \in 1 .. n - 1, w[j] = x PROVE Has(q, x)
      <3>1. j \in 1 .. n /\ j + 1 \in 1 .. n BY <2>1
      <3>2. q[j] = x \/ q[j + 1] = x BY <2>3, <2>5
      <3> QED BY <2>1, <3>1, <3>2
    <2>6. x = q[i] => Has(q, x) BY <2>1
    <2> QED BY <2>1, <2>3, <2>4, <2>5, <2>6
  <1>2. \A s, u, x : x \in Among(s, u, A) <=> x \in A /\ (Has(s, x) \/ Has(u, x))
    BY AmongMember
  <1> HIDE DEF Has, w
  <1>3. \A x : x \in Among(q, r, A) <=> x \in Among(w, r, A) \union ({q[i]} \intersect A)
    BY <1>1, <1>2
  <1> QED BY <1>3 DEF w

\* One write says by itself how far its packet is; none says that nothing is.
LEMMA OneWrite ==
    ASSUME NEW e
    PROVE  /\ Whole({e}) = IF e.res = "ok" THEN 1 ELSE 0
           /\ Done({e}) = IF e.res = "ok" THEN 0 ELSE e.part
           /\ Whole({}) = 0 /\ Done({}) = 0
  <1>1. (CHOOSE w \in {e} : TRUE) = e OBVIOUS
  <1>2. (\E w \in {e} : w.res = "ok") <=> e.res = "ok" OBVIOUS
  <1>3. {e} # {} /\ ~(\E w \in {} : w.res = "ok") OBVIOUS
  <1> QED BY <1>1, <1>2, <1>3 DEF Whole, Done

\* The refinement mapping in these terms.
Line == Select(ready, Posted)
Under == Among(inflight, ready, Of("write", generation_))
Mapped ==
    /\ ~opened_ => Upcoming = accepted + 1 /\ PartsSent = 0
    /\ opened_ => /\ Upcoming = accepted + 1 - (Len(tx_queue_) + Len(Line) - Whole(Under))
                  /\ PartsSent = Done(Under)

\* It is the one of SerialLink.
LEMMA Mapping == TypeOK => Mapped
  <1> SUFFICES ASSUME TypeOK PROVE Mapped OBVIOUS
  <1> DEFINE s == Select(ready, Posted)
             ws == Among(inflight, ready, Of("write", generation_))
  <1>1. /\ \A i \in DOMAIN inflight : inflight[i] \in Ops
        /\ \A i \in DOMAIN ready : ready[i] \in Ops
    BY ElementTypes DEF TypeOK
  <1>2. /\ {j \in DOMAIN inflight : inflight[j].kind = "write" /\ Current(inflight[j])}
             = Where(inflight, Of("write", generation_))
        /\ {j \in DOMAIN ready : ready[j].kind = "write" /\ Current(ready[j])}
             = Where(ready, Of("write", generation_))
    BY <1>1 DEF Where, Of, Current
  <1>3. Writes = ws
    BY <1>2 DEF Writes, Among
  <1>4. {i \in DOMAIN ready : ready[i].kind = "post"} = Where(ready, Posted)
    BY <1>1 DEF Where, Posted
  <1>5. Len(s) = Cardinality({i \in DOMAIN ready : ready[i].kind = "post"})
    <2>1. Len(s) = Count(ready, Posted) BY SelectLen DEF TypeOK
    <2> QED BY <1>4, <2>1 DEF Count
  <1> HIDE DEF s, ws
  <1>6. (IF FrontWritten THEN 1 ELSE 0) = Whole(ws)
    BY <1>3 DEF FrontWritten, Whole
  <1>7. Untransmitted = Len(tx_queue_) + Len(s) - Whole(ws)
    BY <1>5, <1>6 DEF Untransmitted
  <1>8. accepted \in Nat BY DEF TypeOK
  <1>9. ~opened_ => Upcoming = accepted + 1 /\ PartsSent = 0
    BY <1>8 DEF Upcoming, PartsSent
  <1>10. opened_ => Upcoming = accepted + 1 - (Len(tx_queue_) + Len(s) - Whole(ws))
    BY <1>7 DEF Upcoming
  <1>11. opened_ => PartsSent = Done(ws)
    BY <1>3 DEF PartsSent, Done, FrontWritten
  <1> QED BY <1>9, <1>10, <1>11 DEF s, ws, Mapped, Line, Under

\* The same after a step.
LEMMA MappingAfter == TypeOK' => Mapped'
  BY Mapping, PTL

\* A new operation.
LEMMA SendsAppend ==
    ASSUME NEW q \in Seq(Ops), NEW g, NEW o, NEW e \in Ops, Sends(q, g, o),
           e.res = "pending", e.kind = "write" => o /\ e.gen = g
    PROVE  Sends(Append(q, e), g, o)
  <1> DEFINE t == Append(q, e)
             k == Len(q) + 1
  <1>1. DOMAIN t = DOMAIN q \union {k} /\ t[k] = e /\ \A i \in DOMAIN q : t[i] = q[i]
    BY AppendFacts
  <1> HIDE DEF t, k
  <1>2. Sends(t, g, o) BY <1>1 DEF Sends
  <1> QED BY <1>2 DEF t

\* An operation that has completed.
LEMMA SendsWithout ==
    ASSUME NEW q \in Seq(Ops), NEW g, NEW o, NEW i \in DOMAIN q, Sends(q, g, o)
    PROVE  Sends(Without(q, i), g, o)
  BY WithoutFacts DEF Sends

\* A handler at the end of the queue.
LEMMA PartialsAppend ==
    ASSUME NEW r \in Seq(Ops), NEW g, NEW o, NEW d, NEW e \in Ops, Partials(r, g, o, d),
           Loose(e) => o /\ e.gen = g /\ \A i \in DOMAIN r : ~Begins(r[i], g)
    PROVE  Partials(Append(r, e), g, o, d)
  <1> DEFINE t == Append(r, e)
             k == Len(r) + 1
  <1>1. /\ DOMAIN t = DOMAIN r \union {k} /\ t[k] = e
        /\ \A i \in DOMAIN r : t[i] = r[i] /\ i < k
    BY AppendFacts
  <1> HIDE DEF t, k
  <1>2. Loose(e) => ~Begins(e, g) BY DEF Loose, Begins
  <1>3. ASSUME NEW i \in DOMAIN t, NEW j \in DOMAIN t, Begins(t[i], g), Loose(t[j])
        PROVE  j < i
    <2>1. CASE j = k BY <1>1, <1>2, <1>3, <2>1
    <2>2. CASE j # k /\ i = k BY <1>1, <2>2
    <2>3. CASE j # k /\ i # k BY <1>1, <1>3, <2>3 DEF Partials
    <2> QED BY <2>1, <2>2, <2>3
  <1>4. ASSUME d # Closed, NEW j \in DOMAIN t, Loose(t[j]) PROVE o /\ t[j].gen = g
    <2>1. CASE j = k BY <1>1, <1>4, <2>1
    <2>2. CASE j # k BY <1>1, <1>4, <2>2 DEF Partials
    <2> QED BY <2>1, <2>2
  <1>5. Partials(t, g, o, d) BY <1>3, <1>4 DEF Partials
  <1> QED BY <1>5 DEF t

\* The handler that runs leaves the queue, and may open the descriptor or the link.
LEMMA PartialsTail ==
    ASSUME NEW r \in Seq(Ops), r # << >>, NEW g, NEW o, NEW d, NEW o2, NEW d2,
           Partials(r, g, o, d), o => o2, d2 = d \/ Begins(Head(r), g)
    PROVE  Partials(Tail(r), g, o2, d2)
  <1> DEFINE t == Tail(r)
  <1>1. /\ Head(r) = r[1] /\ 1 \in DOMAIN r
        /\ \A i \in DOMAIN t : i + 1 \in DOMAIN r /\ t[i] = r[i + 1] /\ i \in Nat
    <2>1. t \in Seq(Ops) BY TailFacts
    <2>2. \A i \in DOMAIN t : i \in Nat BY <2>1, LenProperties
    <2> QED BY <2>2, TailFacts
  <1> HIDE DEF t
  <1>2. ASSUME NEW i \in DOMAIN t, NEW j \in DOMAIN t, Begins(t[i], g), Loose(t[j])
        PROVE  j < i
    <2>1. j + 1 < i + 1 BY <1>1, <1>2 DEF Partials
    <2> QED BY <1>1, <2>1
  <1>3. ASSUME d2 # Closed, NEW j \in DOMAIN t, Loose(t[j]) PROVE o2 /\ t[j].gen = g
    <2>1. CASE d2 = d BY <1>1, <1>3, <2>1 DEF Partials
    <2>2. CASE Begins(Head(r), g)
      <3>1. j + 1 < 1 BY <1>1, <1>3, <2>2 DEF Partials
      <3> QED BY <1>1, <3>1
    <2> QED BY <2>1, <2>2
  <1>4. Partials(t, g, o2, d2) BY <1>2, <1>3 DEF Partials
  <1> QED BY <1>4 DEF t

\* With the descriptor closed and no attempt queued there is nothing to say.
LEMMA PartialsClosed ==
    ASSUME NEW r, NEW g, NEW o, \A i \in DOMAIN r : ~Begins(r[i], g)
    PROVE  Partials(r, g, o, Closed)
  BY DEF Partials

\* A link that stays down, or goes down.
LEMMA DownMaps ==
    ASSUME TypeOK', ~opened_', accepted' = accepted
    PROVE  Upcoming' = accepted + 1 /\ PartsSent' = 0
  BY MappingAfter DEF Mapped

\* A step that transmits and accepts nothing.
LEMMA QuietMaps ==
    ASSUME TypeOK, TypeOK', opened_' = opened_, accepted' = accepted,
           opened_ => /\ Len(tx_queue_') + Len(Line') - Whole(Under')
                           = Len(tx_queue_) + Len(Line) - Whole(Under)
                      /\ Done(Under') = Done(Under)
    PROVE  Upcoming' = Upcoming /\ PartsSent' = PartsSent
  <1>1. Mapped /\ Mapped' BY Mapping, MappingAfter
  <1>2. CASE opened_
    <2>1. /\ Upcoming = accepted + 1 - (Len(tx_queue_) + Len(Line) - Whole(Under))
          /\ PartsSent = Done(Under)
      BY <1>1, <1>2 DEF Mapped
    <2>2. /\ Upcoming' = accepted' + 1 - (Len(tx_queue_') + Len(Line') - Whole(Under'))
          /\ PartsSent' = Done(Under')
      BY <1>1, <1>2 DEF Mapped
    <2> QED BY <1>2, <2>1, <2>2
  <1>3. CASE ~opened_
    BY <1>1, <1>3 DEF Mapped
  <1> QED BY <1>2, <1>3

------------------------------------------------------------------------------
(* What a step of the link is to the contract.                              *)

Conforms == Contract!CNext \/ UNCHANGED Contract!cvars

\* A step nobody outside the link sees.
LEMMA Stutters ==
    ASSUME UNCHANGED <<link_state, connecting_, generation_, accepted, wire>>,
           Upcoming' = Upcoming, PartsSent' = PartsSent
    PROVE  Conforms
  BY DEF Conforms, Contract!cvars

\* A command.
LEMMA Commanded ==
    ASSUME TypeOK', LinkInv', ~opened_', generation_' \in {generation_ + 1, generation_ + 2},
           UNCHANGED <<accepted, wire>>
    PROVE  Conforms
  <1>1. Upcoming' = accepted + 1 /\ PartsSent' = 0 BY DownMaps
  <1>2. /\ link_state' \in {"Disconnected", "Connected", "Error"} /\ connecting_' \in BOOLEAN
        /\ link_state' # "Connected"
    BY DEF TypeOK, LinkInv, LinkConsistent
  <1>3. Contract!Command
    BY <1>1, <1>2 DEF Contract!Command, Contract!DropPending, Contract!States
  <1> QED BY <1>3 DEF Conforms, Contract!CNext

\* handle_io_error.
LEMMA Failed ==
    ASSUME TypeOK', NEW hs, HandleIoError(hs)
    PROVE  Conforms
  <1>1. Upcoming' = accepted + 1 /\ PartsSent' = 0 BY DownMaps DEF HandleIoError
  <1>2. Contract!Fail
    BY <1>1 DEF Contract!Fail, Contract!DropPending, HandleIoError
  <1> QED BY <1>2 DEF Conforms, Contract!CNext

\* The link is down, with the descriptor closed.
LEMMA DownPackets ==
    ASSUME TypeOK', LinkInv', ~opened_', handle' = Closed, inflight' = << >>,
           ~connecting_' \/ generation_' \in resolving'
    PROVE  PacketsInv'
  <1>1. \A i \in DOMAIN ready' : ~Attempt(ready[i])'
    BY DEF LinkInv, OneAttempt
  <1>2. \A i \in DOMAIN ready' : ~Begins(ready'[i], generation_')
    BY <1>1 DEF Attempt, Begins, Current
  <1>3. PartialsFirst' BY <1>2, PartialsClosed DEF PartialsFirst
  <1>4. Sending' BY DEF Sending, Sends
  <1> QED BY <1>3, <1>4 DEF PacketsInv, Numbered

\* CONNECT, DISCONNECT and RECONNECT.
LEMMA CommandPackets ==
    ASSUME Tcp, TypeOK, LinkInv, TypeOK', LinkInv', Start \/ Stop \/ Restart
    PROVE  PacketsInv' /\ Conforms
  <1>1. /\ ~opened_' /\ handle' = Closed /\ inflight' = << >>
        /\ ~connecting_' \/ generation_' \in resolving'
        /\ generation_' \in {generation_ + 1, generation_ + 2}
        /\ UNCHANGED <<accepted, wire>>
    <2>1. CASE Start
      <3>1. inflight = << >> BY <2>1 DEF Start, LinkInv, LinkConsistent
      <3> QED BY <2>1, <3>1 DEF Start, Begin, StartTcp, StartFails, StartSerial, Tcp
    <2>2. CASE Stop BY <2>2 DEF Stop
    <2>3. CASE Restart BY <2>3 DEF Restart, Begin, StartTcp, StartFails, StartSerial, Tcp
    <2> QED BY <2>1, <2>2, <2>3
  <1> QED BY <1>1, DownPackets, Commanded

\* Which packets are posted, as the queue of handlers grows and shrinks.
LEMMA LineAppend ==
    ASSUME NEW r \in Seq(Ops), NEW e \in Ops
    PROVE  /\ e.kind # "post" => Select(Append(r, e), Posted) = Select(r, Posted)
           /\ e.kind = "post" => Select(Append(r, e), Posted) = Append(Select(r, Posted), e)
  <1>1. e \in Posted <=> e.kind = "post" BY DEF Posted
  <1>2. Select(Append(r, e), Posted)
          = IF e \in Posted THEN Append(Select(r, Posted), e) ELSE Select(r, Posted)
    BY SelectAppend
  <1> QED BY <1>1, <1>2

\* The same for the handler that runs.
LEMMA LineTail ==
    ASSUME NEW r \in Seq(Ops), r # << >>
    PROVE  /\ Head(r).kind # "post" => Select(Tail(r), Posted) = Select(r, Posted)
           /\ Head(r).kind = "post" => Select(r, Posted) = <<Head(r)>> \o Select(Tail(r), Posted)
  <1> DEFINE h == Head(r)
             s == Select(Tail(r), Posted)
  <1>1. h \in Ops /\ Tail(r) \in Seq(Ops) BY TailFacts
  <1>2. h \in Posted <=> h.kind = "post" BY <1>1 DEF Posted
  <1>3. Select(r, Posted) = (IF h \in Posted THEN <<h>> ELSE << >>) \o s
    BY SelectTail
  <1>4. s \in Seq(Ops) BY <1>1, SelectType
  <1> HIDE DEF h, s
  <1>5. << >> \o s = s BY <1>4
  <1> QED BY <1>2, <1>3, <1>5 DEF h, s

\* write_bytes.
LEMMA AcceptPackets ==
    ASSUME TypeOK, LinkInv, PacketsInv, TypeOK', WriteBytes
    PROVE  PacketsInv' /\ Conforms
  <1> DEFINE e == Post(generation_, accepted + 1)
             W == Of("write", generation_)
  <1>1. accepted \in Nat /\ ready \in Seq(Ops) /\ inflight \in Seq(Ops) /\ tx_queue_ \in Seq(Nat)
    BY DEF TypeOK
  <1>2. e \in Ops /\ e.kind = "post" /\ e.pkt = accepted + 1 /\ ~Loose(e) /\ e \notin W
    <2>1. accepted + 1 \in Nat BY <1>1
    <2> QED BY <2>1, OpTypes DEF TypeOK, Kinds, Post, Op, Loose, Of
  <1>3. /\ opened_ /\ opened_' /\ ready' = Append(ready, e) /\ accepted' = accepted + 1
        /\ UNCHANGED <<opened_, connecting_, generation_, tx_queue_, handle, link_state, inflight,
                       wire>>
    BY DEF WriteBytes
  <1> HIDE DEF e
  <1>4. Line' = Append(Line, e)
    BY <1>1, <1>2, <1>3, LineAppend DEF Line
  <1>5. Line \in Seq(Ops) BY <1>1, SelectType DEF Line
  <1>6. Under' = Under
    <2>1. Among(inflight, Append(ready, e), W) = Among(inflight, ready, W) \union ({e} \intersect W)
      BY <1>1, <1>2, AmongAppend
    <2> HIDE DEF W
    <2>2. Among(inflight, Append(ready, e), W) = Among(inflight, ready, W)
      BY <1>2, <2>1
    <2> QED BY <1>3, <2>2 DEF Under, W
  <1>7. Numbered'
    <2>1. Numbers(tx_queue_, Line, accepted)
      BY <1>3 DEF PacketsInv, Numbered, Line
    <2>2. Numbers(tx_queue_, Append(Line, e), accepted + 1)
      BY <1>1, <1>2, <1>5, <2>1, NumbersAccept
    <2>3. Numbers(tx_queue_', Line', accepted')
      BY <1>3, <1>4, <2>2
    <2> QED BY <2>3 DEF Numbered, Line
  <1>8. PartialsFirst'
    <2>1. Partials(Append(ready, e), generation_, opened_, handle)
      BY <1>1, <1>2, PartialsAppend DEF PacketsInv, PartialsFirst
    <2> QED BY <1>3, <2>1 DEF PartialsFirst
  <1>9. Sending' BY <1>3 DEF PacketsInv, Sending
  <1>10. Upcoming' = Upcoming /\ PartsSent' = PartsSent
    <2>1. Mapped /\ Mapped' BY Mapping, MappingAfter
    <2>2. /\ Upcoming = accepted + 1 - (Len(tx_queue_) + Len(Line) - Whole(Under))
          /\ PartsSent = Done(Under)
      BY <1>3, <2>1 DEF Mapped
    <2>3. /\ Upcoming' = accepted' + 1 - (Len(tx_queue_') + Len(Line') - Whole(Under'))
          /\ PartsSent' = Done(Under')
      BY <1>3, <2>1 DEF Mapped
    <2> DEFINE m == Len(tx_queue_)
               n == Len(Line)
               w == Whole(Under)
    <2>4. Len(Append(Line, e)) = n + 1 BY <1>2, <1>5, AppendProperties
    <2>5. m \in Nat /\ n \in Nat /\ w \in Nat BY <1>1, <1>5, LenProperties DEF Whole
    <2>6. Upcoming = accepted + 1 - (m + n - w) BY <2>2
    <2>7. Upcoming' = (accepted + 1) + 1 - (m + (n + 1) - w)
      BY <1>3, <1>4, <1>6, <2>3, <2>4
    <2> HIDE DEF m, n, w
    <2>8. Upcoming' = Upcoming BY <1>1, <2>5, <2>6, <2>7
    <2> QED BY <1>6, <2>2, <2>3, <2>8
  <1>11. Contract!Accept
    <2>1. link_state = "Connected" BY <1>3 DEF LinkInv, LinkConsistent
    <2> QED BY <1>3, <1>10, <2>1 DEF Contract!Accept
  <1> QED BY <1>7, <1>8, <1>9, <1>11 DEF PacketsInv, Conforms, Contract!CNext

\* The resolver's answer.
LEMMA ResolvedPackets ==
    ASSUME TypeOK, PacketsInv, TypeOK', Resolver
    PROVE  PacketsInv' /\ Conforms
  <1>1. PICK g \in resolving, res \in {"ok", "err"} : Resolved(g, res)
    BY DEF Resolver
  <1> DEFINE e == [Op("resolve", g) EXCEPT !.res = res]
             W == Of("write", generation_)
  <1>2. e \in Ops /\ e.kind = "resolve" /\ ~Loose(e) /\ e \notin W
    BY <1>1 DEF Op, Ops, Kinds, Results, TypeOK, Loose, Of
  <1>3. /\ ready' = Append(ready, e)
        /\ UNCHANGED <<opened_, connecting_, generation_, tx_queue_, handle, link_state, inflight,
                       accepted, wire>>
    BY <1>1 DEF Resolved
  <1>4. ready \in Seq(Ops) /\ inflight \in Seq(Ops) BY DEF TypeOK
  <1> HIDE DEF e
  <1>5. Line' = Line BY <1>2, <1>3, <1>4, LineAppend DEF Line
  <1>6. Under' = Under
    <2>1. Among(inflight, Append(ready, e), W) = Among(inflight, ready, W) \union ({e} \intersect W)
      BY <1>2, <1>4, AmongAppend
    <2> HIDE DEF W
    <2>2. Among(inflight, Append(ready, e), W) = Among(inflight, ready, W)
      BY <1>2, <2>1
    <2> QED BY <1>3, <2>2 DEF Under, W
  <1>7. Numbered' BY <1>3, <1>5 DEF PacketsInv, Numbered, Line
  <1>8. PartialsFirst'
    <2>1. Partials(Append(ready, e), generation_, opened_, handle)
      BY <1>2, <1>4, PartialsAppend DEF PacketsInv, PartialsFirst
    <2> QED BY <1>3, <2>1 DEF PartialsFirst
  <1>9. Sending' BY <1>3 DEF PacketsInv, Sending
  <1>10. Upcoming' = Upcoming /\ PartsSent' = PartsSent
    BY <1>3, <1>5, <1>6, QuietMaps
  <1> QED BY <1>3, <1>7, <1>8, <1>9, <1>10, Stutters DEF PacketsInv

\* A completion moves an operation to the handlers; a write that completes is the
\* only one of its session.
LEMMA CompletesPackets ==
    ASSUME TypeOK, LinkInv, TransfersInv, PacketsInv, TypeOK', NEW i \in DOMAIN inflight,
           NEW op \in Ops, Completes(i, op), op.kind = inflight[i].kind, op.gen = inflight[i].gen,
           op.pkt = inflight[i].pkt
    PROVE  /\ PacketsInv' /\ Line' = Line
           /\ inflight[i].kind # "write" => Under' = Under
           /\ inflight[i].kind = "write" =>
                /\ opened_ /\ inflight[i].gen = generation_
                /\ Under = {inflight[i]} /\ Under' = {op}
                /\ tx_queue_ # << >> /\ inflight[i].pkt = Head(tx_queue_)
  <1> DEFINE f == inflight[i]
             w == Without(inflight, i)
             W == Of("write", generation_)
  <1>1. ready \in Seq(Ops) /\ inflight \in Seq(Ops) /\ tx_queue_ \in Seq(Nat) BY DEF TypeOK
  <1>2. f \in Ops BY <1>1, ElementTypes
  <1>3. w \in Seq(Ops) BY <1>1, WithoutFacts
  <1>4. /\ inflight' = w /\ ready' = Append(ready, op)
        /\ UNCHANGED <<opened_, connecting_, generation_, tx_queue_, handle, link_state, accepted>>
    BY DEF Completes
  <1>5. op.kind # "post" BY DEF LinkInv, DescriptorOps
  <1>6. f.kind = "write" => opened_ /\ f.gen = generation_
    BY DEF PacketsInv, Sending, Sends
  <1>7. /\ f \in W <=> f.kind = "write" /\ f.gen = generation_
        /\ op \in W <=> f.kind = "write" /\ f.gen = generation_
    BY <1>2 DEF Of
  <1>8. Line' = Line BY <1>1, <1>4, <1>5, LineAppend DEF Line
  <1>9. Sending'
    <2>1. Sends(w, generation_, opened_) BY <1>1, SendsWithout DEF PacketsInv, Sending
    <2> QED BY <1>4, <2>1 DEF Sending
  <1>10. PartialsFirst'
    <2>1. Loose(op) => opened_ /\ op.gen = generation_ BY <1>6 DEF Loose
    <2>2. opened_ => \A k \in DOMAIN ready : ~Begins(ready[k], generation_)
      BY DEF LinkInv, LinkConsistent, OneAttempt, Attempt, Begins, Current
    <2>3. Partials(Append(ready, op), generation_, opened_, handle)
      BY <1>1, <2>1, <2>2, PartialsAppend DEF PacketsInv, PartialsFirst
    <2> QED BY <1>4, <2>3 DEF PartialsFirst
  <1>11. Numbered' BY <1>4, <1>8 DEF PacketsInv, Numbered, Line
  <1>12. Under = Among(w, ready, W) \union ({f} \intersect W)
    BY <1>1, AmongWithout DEF Under
  <1>13. Under' = Among(w, ready, W) \union ({op} \intersect W)
    <2>1. Among(w, Append(ready, op), W) = Among(w, ready, W) \union ({op} \intersect W)
      BY <1>1, <1>3, AmongAppend
    <2> QED BY <1>4, <2>1 DEF Under
  <1>14. ASSUME f.kind = "write"
         PROVE  /\ Under = {f} /\ Under' = {op}
                /\ tx_queue_ # << >> /\ f.pkt = Head(tx_queue_)
    <2>1. opened_ /\ f \in W /\ op \in W BY <1>6, <1>7, <1>14
    <2>2. Total(inflight, ready, W) # 0 BY <1>1, <2>1, TotalType
    <2>3. tx_queue_ # << >> /\ Total(inflight, ready, W) = 1
      BY <2>1, <2>2 DEF TransfersInv, Writers
    <2>4. Total(w, Append(ready, op), W) = Total(inflight, ready, W)
      BY <1>1, <2>1, TotalMove
    <2>5. Total(w, Append(ready, op), W) = Total(w, ready, W) + In(op, W)
      BY <1>1, <1>3, TotalAppend
    <2>6. In(op, W) = 1 BY <2>1 DEF In
    <2>7. Total(w, ready, W) \in Nat BY <1>1, <1>3, TotalType
    <2>8. Total(w, ready, W) = 0 BY <2>3, <2>4, <2>5, <2>6, <2>7
    <2>9. Among(w, ready, W) = {} BY <1>1, <1>3, <2>8, AmongNone
    <2>10. Under = {f} /\ Under' = {op}
      <3> HIDE DEF W, w, f
      <3> QED BY <1>12, <1>13, <2>1, <2>9
    <2>11. f.pkt = Head(tx_queue_)
      <3> DEFINE T == Stray(generation_, Head(tx_queue_))
      <3>1. Total(inflight, ready, T) = 0 BY <2>1, <2>3 DEF TransfersInv, Fronts
      <3>2. f \notin T
        <4> HIDE DEF T
        <4> QED BY <1>1, <3>1, TotalType
      <3> QED BY <1>2, <1>6, <1>14, <3>2 DEF Stray
    <2> QED BY <2>3, <2>10, <2>11
  <1>15. f.kind # "write" => Under' = Under
    <2> HIDE DEF W, w, f
    <2> QED BY <1>7, <1>12, <1>13
  <1> QED BY <1>6, <1>8, <1>9, <1>10, <1>11, <1>14, <1>15 DEF PacketsInv

\* The operating system: a part that the descriptor takes is the next one of the
\* packet whose turn it is.
LEMMA SystemPackets ==
    ASSUME TypeOK, LinkInv, TransfersInv, PacketsInv, TypeOK', System
    PROVE  PacketsInv' /\ Conforms
  <1>1. PICK i \in DOMAIN inflight :
            \/ \E res \in {"ok", "err"} : IoCompletes(i, res)
            \/ \E res \in {"ok", "some"} : Transmits(i, res)
    BY DEF System
  <1> DEFINE f == inflight[i]
  <1>2. f \in Ops BY ElementTypes DEF TypeOK
  <1>3. f.res = "pending" BY DEF PacketsInv, Sending, Sends
  <1>4. accepted \in Nat /\ tx_queue_ \in Seq(Nat) /\ Line \in Seq(Ops)
    BY SelectType DEF TypeOK, Line
  <1>5. ASSUME NEW res \in {"ok", "err"}, IoCompletes(i, res)
        PROVE  PacketsInv' /\ Conforms
    <2> DEFINE op == [f EXCEPT !.res = res]
    <2>1. /\ op \in Ops /\ op.kind = f.kind /\ op.gen = f.gen /\ op.pkt = f.pkt
          /\ op.part = f.part /\ op.res = res
      BY <1>2 DEF Ops, Results
    <2>2. Completes(i, op) /\ wire' = wire /\ (res = "ok" => f.kind # "write")
      BY <1>5 DEF IoCompletes
    <2> HIDE DEF op
    <2>3. /\ PacketsInv' /\ Line' = Line
          /\ f.kind # "write" => Under' = Under
          /\ f.kind = "write" => Under = {f} /\ Under' = {op}
      BY <2>1, <2>2, CompletesPackets
    <2>4. Whole(Under') = Whole(Under) /\ Done(Under') = Done(Under)
      <3>1. CASE f.kind = "write"
        <4>1. res = "err" BY <2>2, <3>1
        <4>2. Whole({op}) = Whole({f}) /\ Done({op}) = Done({f})
          BY <1>3, <2>1, <4>1, OneWrite
        <4> QED BY <2>3, <3>1, <4>2
      <3>2. CASE f.kind # "write" BY <2>3, <3>2
      <3> QED BY <3>1, <3>2
    <2>5. UNCHANGED <<opened_, connecting_, generation_, tx_queue_, link_state, accepted>>
      BY <2>2 DEF Completes
    <2>6. Upcoming' = Upcoming /\ PartsSent' = PartsSent
      BY <2>3, <2>4, <2>5, QuietMaps
    <2> QED BY <2>2, <2>3, <2>5, <2>6, Stutters
  <1>6. ASSUME NEW res \in {"ok", "some"}, Transmits(i, res)
        PROVE  PacketsInv' /\ Conforms
    <2> DEFINE op == [f EXCEPT !.res = res, !.part = @ + 1]
               last == res = "ok"
               m == Len(tx_queue_)
               n == Len(Line)
    <2>1. f.part \in Nat BY <1>2 DEF Ops
    <2>2. /\ op \in Ops /\ op.kind = f.kind /\ op.gen = f.gen /\ op.pkt = f.pkt
          /\ op.part = f.part + 1 /\ op.res = res
      <3>1. f.part + 1 \in Nat BY <2>1
      <3>2. op \in Ops /\ op.kind = f.kind /\ op.gen = f.gen /\ op.pkt = f.pkt
        BY <1>2, <3>1 DEF Ops, Results
      <3>3. op.part = f.part + 1 /\ op.res = res
        BY <1>2 DEF Ops
      <3> QED BY <3>2, <3>3
    <2>3. /\ Completes(i, op) /\ f.kind = "write"
          /\ wire' = Append(wire, [sess |-> handle, pkt |-> f.pkt, part |-> f.part + 1,
                                   last |-> last])
      BY <1>6 DEF Transmits
    <2> HIDE DEF op
    <2>4. /\ PacketsInv' /\ Line' = Line /\ opened_ /\ Under = {f} /\ Under' = {op}
          /\ tx_queue_ # << >> /\ f.pkt = Head(tx_queue_)
      BY <2>2, <2>3, CompletesPackets
    <2>5. UNCHANGED <<opened_, connecting_, generation_, tx_queue_, link_state, accepted>>
      BY <2>3 DEF Completes
    <2>6. /\ Whole({f}) = 0 /\ Done({f}) = f.part
          /\ Whole({op}) = IF last THEN 1 ELSE 0
          /\ Done({op}) = IF last THEN 0 ELSE f.part + 1
      BY <1>3, <2>2, OneWrite
    <2>7. Upcoming = accepted + 1 - (m + n - 0) /\ PartsSent = f.part
      BY <2>4, <2>6, Mapping DEF Mapped
    <2>8. /\ Upcoming' = accepted + 1 - (m + n - (IF last THEN 1 ELSE 0))
          /\ PartsSent' = IF last THEN 0 ELSE f.part + 1
      <3>1. Mapped' BY MappingAfter
      <3>2. /\ Upcoming' = accepted' + 1 - (Len(tx_queue_') + Len(Line') - Whole(Under'))
            /\ PartsSent' = Done(Under')
        BY <2>4, <2>5, <3>1 DEF Mapped
      <3> QED BY <2>4, <2>5, <2>6, <3>2
    <2>9. Head(tx_queue_) = accepted - n - m + 1
      <3>1. Numbers(tx_queue_, Line, accepted) BY <2>4 DEF PacketsInv, Numbered, Line
      <3> QED BY <1>4, <2>4, <3>1, NumbersTail
    <2>10. m \in Nat /\ m >= 1 /\ n \in Nat
      BY <1>4, <2>4, LenProperties, EmptySeq
    <2> HIDE DEF m, n
    <2>11. f.pkt = Upcoming /\ Upcoming <= accepted
      BY <1>4, <2>4, <2>7, <2>9, <2>10
    <2>12. /\ last => Upcoming' = Upcoming + 1 /\ PartsSent' = 0
           /\ ~last => Upcoming' = Upcoming /\ PartsSent' = PartsSent + 1
      BY <1>4, <2>7, <2>8, <2>10
    <2>13. link_state = "Connected" /\ handle = generation_
      BY <2>4 DEF LinkInv, LinkConsistent
    <2>14. last \in BOOLEAN OBVIOUS
    <2> HIDE DEF last
    <2>15. Contract!Transmit(last)
      BY <2>3, <2>5, <2>7, <2>11, <2>12, <2>13 DEF Contract!Transmit
    <2> QED BY <2>4, <2>14, <2>15 DEF Conforms, Contract!CNext
  <1> QED BY <1>1, <1>5, <1>6

\* A handler that leaves the writer and the packets alone.
LEMMA OtherPackets ==
    ASSUME TypeOK, PacketsInv, TypeOK', ready # << >>, ready' = Tail(ready),
           Head(ready).kind # "post", opened_ => ~(Head(ready).kind = "write" /\ Current(Head(ready))),
           UNCHANGED <<opened_, connecting_, generation_, tx_queue_, link_state, accepted, wire>>,
           handle' = handle \/ Begins(Head(ready), generation_),
           \/ inflight' = inflight
           \/ \E e \in Ops : /\ inflight' = Append(inflight, e)
                             /\ e.kind # "write" /\ e.res = "pending"
    PROVE  PacketsInv' /\ Conforms
  <1> DEFINE h == Head(ready)
             hs == Tail(ready)
             W == Of("write", generation_)
  <1>1. ready \in Seq(Ops) /\ inflight \in Seq(Ops) /\ hs \in Seq(Ops) /\ h \in Ops
    BY TailFacts DEF TypeOK
  <1>2. Line' = Line BY <1>1, LineTail DEF Line
  <1>3. Numbered' BY <1>2 DEF PacketsInv, Numbered, Line
  <1>4. PartialsFirst'
    <2>1. Partials(hs, generation_, opened_, handle')
      BY <1>1, PartialsTail DEF PacketsInv, PartialsFirst
    <2> QED BY <2>1 DEF PartialsFirst
  <1>5. opened_ => h \notin W BY DEF Of, Current
  <1>6. Under = Among(inflight, hs, W) \union ({h} \intersect W)
    BY <1>1, AmongTail DEF Under
  <1>7. Sending' /\ Under' = Among(inflight, hs, W)
    <2>1. CASE inflight' = inflight
      BY <2>1 DEF PacketsInv, Sending, Under
    <2>2. CASE \E e \in Ops : /\ inflight' = Append(inflight, e)
                              /\ e.kind # "write" /\ e.res = "pending"
      <3>1. PICK e \in Ops : inflight' = Append(inflight, e) /\ e.kind # "write" /\ e.res = "pending"
        BY <2>2
      <3>2. Sends(Append(inflight, e), generation_, opened_)
        BY <1>1, <3>1, SendsAppend DEF PacketsInv, Sending
      <3>3. Sending' BY <3>1, <3>2 DEF Sending
      <3>4. e \notin W BY <3>1 DEF Of
      <3>5. Under' = Among(Append(inflight, e), hs, W)
        BY <3>1 DEF Under
      <3> HIDE DEF W, hs
      <3>6. Among(Append(inflight, e), hs, W) = Among(inflight, hs, W) \union ({e} \intersect W)
        BY <1>1, AmongAppend
      <3> QED BY <3>3, <3>4, <3>5, <3>6
    <2> QED BY <2>1, <2>2
  <1>8. opened_ => Under' = Under
    <2> HIDE DEF W, h, hs
    <2> QED BY <1>5, <1>6, <1>7
  <1>9. Upcoming' = Upcoming /\ PartsSent' = PartsSent
    BY <1>2, <1>8, QuietMaps
  <1> QED BY <1>3, <1>4, <1>7, <1>9, Stutters DEF PacketsInv

\* handle_io_error.
LEMMA IoErrorPackets ==
    ASSUME TypeOK', LinkInv', NEW hs, HandleIoError(hs)
    PROVE  PacketsInv' /\ Conforms
  BY DownPackets, Failed DEF HandleIoError

\* The socket is connected: the session starts with nothing posted.
LEMMA ConnectPackets ==
    ASSUME Tcp, TypeOK, LinkInv, TransfersInv, PacketsInv, TypeOK', LinkInv', TransfersInv',
           ready # << >>, RunConnect(Head(ready), Tail(ready)), Current(Head(ready)),
           Head(ready).res = "ok"
    PROVE  PacketsInv' /\ Conforms
  <1> DEFINE h == Head(ready)
             hs == Tail(ready)
  <1>1. /\ ready \in Seq(Ops) /\ inflight \in Seq(Ops) /\ h \in Ops /\ hs \in Seq(Ops)
        /\ h = ready[1] /\ 1 \in DOMAIN ready /\ generation_ \in Nat
    BY TailFacts DEF TypeOK
  <1>2. /\ h.kind = "connect" /\ opened_' /\ ~connecting_' /\ link_state' = "Connected"
        /\ inflight' = Append(inflight, ReadOp(h.gen)) /\ ready' = hs
        /\ UNCHANGED <<generation_, tx_queue_, handle, accepted, wire>>
    BY DEF RunConnect, Ignore, HandleIoError
  <1>3. Attempt(h) BY <1>2 DEF Attempt
  <1>4. connecting_ /\ ~opened_ /\ tx_queue_ = << >>
    BY <1>1, <1>3 DEF LinkInv, OneAttempt, LinkConsistent, TransfersInv, IdleDown
  <1>5. Line = << >> /\ Line' = << >>
    <2>1. \A j \in DOMAIN ready : ready[j].kind # "post"
      BY <1>1, <1>2, <1>3 DEF LinkInv, PostsFirst
    <2>2. Len(Line) = Count(ready, Posted) BY <1>1, SelectLen DEF Line
    <2>3. Count(ready, Posted) = 0 BY <1>1, <2>1, CountType DEF Posted
    <2>4. Line \in Seq(Ops) BY <1>1, SelectType DEF Line
    <2>5. Line = << >> BY <2>2, <2>3, <2>4, EmptySeq
    <2>6. Line' = Line BY <1>1, <1>2, LineTail DEF Line
    <2> QED BY <2>5, <2>6
  <1>6. ReadOp(h.gen) \in Ops /\ ReadOp(h.gen).kind = "read" /\ ReadOp(h.gen).res = "pending"
    BY <1>1, OpTypes DEF Ops, Kinds, ReadOp, Op
  <1>7. Numbered'
    <2>1. Numbers(tx_queue_', Line', accepted') BY <1>2, <1>4, <1>5, NumbersNone
    <2> QED BY <2>1 DEF Numbered, Line
  <1>8. PartialsFirst'
    <2>1. Partials(hs, generation_, opened_', handle)
      BY <1>1, <1>2, PartialsTail DEF PacketsInv, PartialsFirst
    <2> QED BY <1>2, <2>1 DEF PartialsFirst
  <1>9. Sending'
    <2>1. Sends(inflight, generation_, opened_')
      BY <1>2 DEF PacketsInv, Sending, Sends
    <2>2. Sends(Append(inflight, ReadOp(h.gen)), generation_, opened_')
      BY <1>1, <1>6, <2>1, SendsAppend
    <2> QED BY <1>2, <2>2 DEF Sending
  <1>10. Under' = {}
    <2>1. Total(inflight', ready', Of("write", generation_')) = 0
      BY <1>2, <1>4 DEF TransfersInv, Writers
    <2>2. inflight' \in Seq(Ops) /\ ready' \in Seq(Ops) BY DEF TypeOK
    <2> QED BY <2>1, <2>2, AmongNone DEF Under
  <1>11. Upcoming' = accepted + 1 /\ PartsSent' = 0
    <2>1. /\ Upcoming' = accepted' + 1 - (Len(tx_queue_') + Len(Line') - Whole(Under'))
          /\ PartsSent' = Done(Under')
      BY <1>2, MappingAfter DEF Mapped
    <2>2. Whole({}) = 0 /\ Done({}) = 0 BY OneWrite
    <2>3. Len(tx_queue_') = 0 /\ Len(Line') = 0 BY <1>2, <1>4, <1>5
    <2>4. accepted \in Nat BY DEF TypeOK
    <2> QED BY <1>2, <1>10, <2>1, <2>2, <2>3, <2>4
  <1>12. Contract!Up
    <2>1. link_state # "Connected" BY <1>4 DEF LinkInv, LinkConsistent
    <2>2. connecting_' = FALSE /\ connecting_ BY <1>2, <1>4 DEF TypeOK
    <2> QED BY <1>2, <1>11, <2>1, <2>2 DEF Contract!Up, Contract!DropPending
  <1> QED BY <1>7, <1>8, <1>9, <1>12 DEF PacketsInv, Conforms, Contract!CNext

\* The head of the queue and the writes behind it: a write of this session is the
\* only one.
LEMMA UnderHead ==
    ASSUME TypeOK, TransfersInv, ready # << >>, opened_
    PROVE  LET h == Head(ready)
               hs == Tail(ready)
               W == Of("write", generation_)
           IN /\ h \notin W => Under = Among(inflight, hs, W)
              /\ h \in W => /\ Under = {h} /\ Among(inflight, hs, W) = {}
                            /\ Total(inflight, hs, W) = 0 /\ tx_queue_ # << >>
              /\ tx_queue_ = << >> => Under = {} /\ Among(inflight, hs, W) = {}
  <1> DEFINE h == Head(ready)
             hs == Tail(ready)
             W == Of("write", generation_)
  <1>1. ready \in Seq(Ops) /\ inflight \in Seq(Ops) /\ h \in Ops /\ hs \in Seq(Ops)
    BY TailFacts DEF TypeOK
  <1>2. Under = Among(inflight, hs, W) \union ({h} \intersect W)
    BY <1>1, AmongTail DEF Under
  <1>3. Total(inflight, hs, W) + In(h, W) = IF tx_queue_ = << >> THEN 0 ELSE 1
    BY AfterHead
  <1> HIDE DEF h, hs, W
  <1>4. Total(inflight, hs, W) \in Nat /\ In(h, W) \in Nat BY <1>1, TotalType DEF In
  <1>5. h \notin W => Under = Among(inflight, hs, W) BY <1>2
  <1>6. ASSUME h \in W
        PROVE  /\ Under = {h} /\ Among(inflight, hs, W) = {}
               /\ Total(inflight, hs, W) = 0 /\ tx_queue_ # << >>
    <2>1. In(h, W) = 1 BY <1>6 DEF In
    <2>2. Total(inflight, hs, W) = 0 /\ tx_queue_ # << >> BY <1>3, <1>4, <2>1
    <2>3. Among(inflight, hs, W) = {} BY <1>1, <2>2, AmongNone
    <2> QED BY <1>2, <1>6, <2>2, <2>3
  <1>7. ASSUME tx_queue_ = << >> PROVE Under = {} /\ Among(inflight, hs, W) = {}
    <2>1. Total(inflight, hs, W) = 0 /\ In(h, W) = 0 BY <1>3, <1>4, <1>7
    <2>2. Among(inflight, hs, W) = {} BY <1>1, <2>1, AmongNone
    <2>3. h \notin W BY <2>1 DEF In
    <2> QED BY <1>2, <2>2, <2>3
  <1> QED BY <1>5, <1>6, <1>7 DEF h, hs, W

\* The composed write goes on, or fails on a closed descriptor: its packet is as far
\* as it was.
LEMMA PartialPackets ==
    ASSUME TypeOK, LinkInv, TransfersInv, PacketsInv, TypeOK',
           ready # << >>, RunPartialWrite(Head(ready), Tail(ready))
    PROVE  PacketsInv' /\ Conforms
  <1> DEFINE h == Head(ready)
             hs == Tail(ready)
             W == Of("write", generation_)
             more == [h EXCEPT !.res = "pending"]
             bad == [h EXCEPT !.res = "err"]
  <1>1. /\ ready \in Seq(Ops) /\ inflight \in Seq(Ops) /\ h \in Ops /\ hs \in Seq(Ops)
        /\ h = ready[1] /\ 1 \in DOMAIN ready
    BY TailFacts DEF TypeOK
  <1>2. /\ h.kind = "write" /\ h.res = "some"
        /\ \/ handle # Closed /\ inflight' = Append(inflight, more) /\ ready' = hs
           \/ ready' = Append(hs, bad) /\ inflight' = inflight
        /\ UNCHANGED <<opened_, connecting_, generation_, tx_queue_, handle, link_state, accepted,
                       wire>>
    BY DEF RunPartialWrite
  <1>3. /\ more \in Ops /\ more.kind = "write" /\ more.gen = h.gen /\ more.part = h.part
        /\ more.res = "pending"
        /\ bad \in Ops /\ bad.kind = "write" /\ bad.gen = h.gen /\ bad.part = h.part
        /\ bad.res = "err"
    BY <1>1, <1>2 DEF Ops, Results
  <1>4. h \in W <=> h.gen = generation_ BY <1>1, <1>2 DEF Of
  <1>5. \A e \in {more, bad} : e \in W <=> h.gen = generation_ BY <1>3 DEF Of
  <1>6. handle # Closed => opened_ /\ h.gen = generation_
    BY <1>1, <1>2 DEF PacketsInv, PartialsFirst, Partials, Loose
  <1>7. Partials(hs, generation_, opened_, handle)
    BY <1>1, PartialsTail DEF PacketsInv, PartialsFirst
  <1>8. Select(hs, Posted) = Line BY <1>1, <1>2, LineTail DEF Line
  <1>9. opened_ => /\ h \notin W => Under = Among(inflight, hs, W)
                   /\ h \in W => Under = {h} /\ Among(inflight, hs, W) = {}
    BY UnderHead
  <1> HIDE DEF h, hs, W, more, bad
  <1>10. PICK e \in {more, bad} :
             /\ Under' = Among(inflight, hs, W) \union ({e} \intersect W)
             /\ Line' = Line /\ Sending' /\ PartialsFirst'
    <2>1. CASE handle # Closed /\ inflight' = Append(inflight, more) /\ ready' = hs
      <3>1. Among(Append(inflight, more), hs, W)
              = Among(inflight, hs, W) \union ({more} \intersect W)
        BY <1>1, <1>3, AmongAppend
      <3>2. Under' = Among(inflight, hs, W) \union ({more} \intersect W)
        BY <1>2, <2>1, <3>1 DEF Under, W
      <3>3. Line' = Line BY <1>8, <2>1 DEF Line
      <3>4. Sends(Append(inflight, more), generation_, opened_)
        BY <1>1, <1>3, <1>6, <2>1, SendsAppend DEF PacketsInv, Sending
      <3>5. Sending' BY <1>2, <2>1, <3>4 DEF Sending
      <3>6. PartialsFirst' BY <1>2, <1>7, <2>1 DEF PartialsFirst
      <3> QED BY <3>2, <3>3, <3>5, <3>6
    <2>2. CASE ready' = Append(hs, bad) /\ inflight' = inflight
      <3>1. Among(inflight, Append(hs, bad), W)
              = Among(inflight, hs, W) \union ({bad} \intersect W)
        BY <1>1, <1>3, AmongAppend
      <3>2. Under' = Among(inflight, hs, W) \union ({bad} \intersect W)
        BY <1>2, <2>2, <3>1 DEF Under, W
      <3>3. Select(Append(hs, bad), Posted) = Select(hs, Posted)
        BY <1>1, <1>3, LineAppend
      <3>4. Line' = Line BY <1>8, <2>2, <3>3 DEF Line
      <3>5. Sending' BY <1>2, <2>2 DEF PacketsInv, Sending
      <3>6. ~Loose(bad) BY <1>3 DEF Loose
      <3>7. Partials(Append(hs, bad), generation_, opened_, handle)
        BY <1>1, <1>3, <1>7, <3>6, PartialsAppend
      <3>8. PartialsFirst' BY <1>2, <2>2, <3>7 DEF PartialsFirst
      <3> QED BY <3>2, <3>4, <3>5, <3>8
    <2> QED BY <1>2, <2>1, <2>2
  <1>11. opened_ => Whole(Under') = Whole(Under) /\ Done(Under') = Done(Under)
    <2>1. CASE opened_ /\ h \in W
      <3>1. Under = {h} /\ Under' = {e} BY <1>4, <1>5, <1>9, <1>10, <2>1
      <3>2. e.part = h.part /\ e.res # "ok" /\ h.res # "ok" BY <1>2, <1>3
      <3>3. Whole({e}) = Whole({h}) /\ Done({e}) = Done({h}) BY <3>2, OneWrite
      <3> QED BY <3>1, <3>3
    <2>2. CASE opened_ /\ h \notin W
      <3>1. Under' = Under BY <1>4, <1>5, <1>9, <1>10, <2>2
      <3> QED BY <3>1
    <2> QED BY <2>1, <2>2
  <1>12. Upcoming' = Upcoming /\ PartsSent' = PartsSent
    BY <1>2, <1>10, <1>11, QuietMaps
  <1>13. Numbered' BY <1>2, <1>10 DEF PacketsInv, Numbered, Line
  <1> QED BY <1>2, <1>10, <1>12, <1>13, Stutters DEF PacketsInv

\* on_write: the packet that was written whole leaves the queue, the next is begun.
LEMMA WrittenPackets ==
    ASSUME TypeOK, LinkInv, TransfersInv, PacketsInv, TypeOK', ready # << >>, opened_,
           RunWrite(Head(ready), Tail(ready)), Current(Head(ready)), Head(ready).res = "ok"
    PROVE  PacketsInv' /\ Conforms
  <1> DEFINE h == Head(ready)
             hs == Tail(ready)
             W == Of("write", generation_)
             q == Tail(tx_queue_)
  <1>1. /\ ready \in Seq(Ops) /\ inflight \in Seq(Ops) /\ h \in Ops /\ hs \in Seq(Ops)
        /\ tx_queue_ \in Seq(Nat) /\ accepted \in Nat /\ generation_ \in Nat
    BY TailFacts DEF TypeOK
  <1>2. h.kind = "write" /\ h.gen = generation_ /\ h.res = "ok"
    BY DEF RunWrite, Current
  <1>3. h \in W BY <1>1, <1>2 DEF Of
  <1>4. Under = {h} /\ Among(inflight, hs, W) = {} /\ tx_queue_ # << >>
    BY <1>3, UnderHead
  <1>5. /\ DoWrite(q) /\ ready' = hs
        /\ UNCHANGED <<opened_, connecting_, generation_, handle, link_state, accepted, wire>>
    BY <1>2, <1>4 DEF RunWrite
  <1>6. Line' = Line BY <1>1, <1>2, <1>5, LineTail DEF Line
  <1>7. Line \in Seq(Ops) BY <1>1, SelectType DEF Line
  <1>8. q \in Seq(Nat) /\ (q # << >> => Head(q) \in Nat)
    <2>1. q \in Seq(Nat) BY <1>1, <1>4, TailFacts
    <2> HIDE DEF q
    <2> QED BY <2>1, TailFacts
  <1>9. tx_queue_' = q BY <1>5 DEF DoWrite
  <1>10. Numbered'
    <2>1. Numbers(tx_queue_, Line, accepted) BY DEF PacketsInv, Numbered, Line
    <2>2. Numbers(q, Line, accepted) BY <1>1, <1>4, <1>7, <2>1, NumbersTail
    <2>3. Numbers(tx_queue_', Line', accepted') BY <1>5, <1>6, <1>9, <2>2
    <2> QED BY <2>3 DEF Numbered, Line
  <1>11. PartialsFirst'
    <2>1. Partials(hs, generation_, opened_, handle)
      BY <1>1, PartialsTail DEF PacketsInv, PartialsFirst
    <2> QED BY <1>5, <2>1 DEF PartialsFirst
  <1>12. Len(q) = Len(tx_queue_) - 1 /\ Len(tx_queue_) \in Nat
    BY <1>1, <1>4, HeadTailProperties, LenProperties
  <1> HIDE DEF h, hs, W, q
  <1>13. Sending' /\ Whole(Under') = 0 /\ Done(Under') = 0
    <2>1. CASE q = << >>
      <3>1. inflight' = inflight BY <1>5, <2>1 DEF DoWrite
      <3>2. Sending' BY <1>5, <3>1 DEF PacketsInv, Sending
      <3>3. Under' = {} BY <1>4, <1>5, <3>1 DEF Under, W
      <3> QED BY <3>2, <3>3, OneWrite
    <2>2. CASE q # << >>
      <3> DEFINE e == WriteOp(generation_, Head(q))
      <3>1. inflight' = Append(inflight, e) BY <1>5, <2>2 DEF DoWrite
      <3>2. /\ e \in Ops /\ e.kind = "write" /\ e.gen = generation_ /\ e.res = "pending"
            /\ e.part = 0
        <4>1. e \in Ops BY <1>1, <1>8, <2>2, OpTypes DEF Kinds
        <4> QED BY <4>1 DEF WriteOp, Op
      <3> HIDE DEF e
      <3>3. Sends(Append(inflight, e), generation_, opened_)
        BY <1>1, <3>2, SendsAppend DEF PacketsInv, Sending
      <3>4. Sending' BY <1>5, <3>1, <3>3 DEF Sending
      <3>5. e \in W BY <3>2 DEF W, Of
      <3>6. Among(Append(inflight, e), hs, W) = Among(inflight, hs, W) \union ({e} \intersect W)
        BY <1>1, <3>2, AmongAppend
      <3>7. Under' = {e}
        <4>1. Under' = Among(Append(inflight, e), hs, W) BY <1>5, <3>1 DEF Under, W
        <4> QED BY <1>4, <3>5, <3>6, <4>1
      <3> QED BY <3>2, <3>4, <3>7, OneWrite
    <2> QED BY <2>1, <2>2
  <1>14. Whole(Under) = 1 /\ Done(Under) = 0 BY <1>2, <1>4, OneWrite
  <1>15. Len(tx_queue_') + Len(Line') - Whole(Under') = Len(tx_queue_) + Len(Line) - Whole(Under)
    <2> DEFINE m == Len(tx_queue_)
               n == Len(Line)
    <2>1. n \in Nat BY <1>7, LenProperties
    <2>2. m \in Nat BY <1>12
    <2>3. /\ Len(tx_queue_') + Len(Line') - Whole(Under') = (m - 1) + n - 0
          /\ Len(tx_queue_) + Len(Line) - Whole(Under) = m + n - 1
      BY <1>6, <1>9, <1>12, <1>13, <1>14
    <2> HIDE DEF m, n
    <2> QED BY <2>1, <2>2, <2>3
  <1>16. Upcoming' = Upcoming /\ PartsSent' = PartsSent
    BY <1>5, <1>13, <1>14, <1>15, QuietMaps
  <1> QED BY <1>5, <1>10, <1>11, <1>13, <1>16, Stutters DEF PacketsInv

\* The posted lambda, with the link up.
LEMMA PostPackets ==
    ASSUME TypeOK, LinkInv, TransfersInv, PacketsInv, TypeOK', ready # << >>, opened_,
           RunPost(Head(ready), Tail(ready))
    PROVE  PacketsInv' /\ Conforms
  <1> DEFINE h == Head(ready)
             hs == Tail(ready)
             W == Of("write", generation_)
             t == Select(hs, Posted)
             e == WriteOp(generation_, h.pkt)
  <1>1. /\ ready \in Seq(Ops) /\ inflight \in Seq(Ops) /\ h \in Ops /\ hs \in Seq(Ops)
        /\ tx_queue_ \in Seq(Nat) /\ accepted \in Nat /\ generation_ \in Nat
    BY TailFacts DEF TypeOK
  <1>2. h.pkt \in Nat BY <1>1 DEF Ops
  <1>3. /\ h.kind = "post" /\ ready' = hs
        /\ UNCHANGED <<opened_, connecting_, generation_, handle, link_state, accepted, wire>>
        /\ IF tx_queue_ = << >>
           THEN DoWrite(<<h.pkt>>)
           ELSE tx_queue_' = Append(tx_queue_, h.pkt) /\ inflight' = inflight
    BY DEF RunPost
  <1>4. h \notin W BY <1>3 DEF Of
  <1>5. t \in Seq(Ops) BY <1>1, SelectType
  <1>6. Line = <<h>> \o t BY <1>1, <1>3, LineTail DEF Line
  <1>7. Line' = t BY <1>3 DEF Line
  <1>8. Under = Among(inflight, hs, W) /\ (tx_queue_ = << >> => Under = {})
    BY <1>4, UnderHead
  <1>9. /\ e \in Ops /\ e.kind = "write" /\ e.gen = generation_ /\ e.res = "pending"
        /\ e.part = 0
    <2>1. e \in Ops BY <1>1, <1>2, OpTypes DEF Kinds
    <2> QED BY <2>1 DEF WriteOp, Op
  <1>10. PartialsFirst'
    <2>1. Partials(hs, generation_, opened_, handle)
      BY <1>1, PartialsTail DEF PacketsInv, PartialsFirst
    <2> QED BY <1>3, <2>1 DEF PartialsFirst
  <1>11. /\ tx_queue_' = Append(tx_queue_, h.pkt)
         /\ tx_queue_ = << >> => inflight' = Append(inflight, e)
         /\ tx_queue_ # << >> => inflight' = inflight
    <2>1. CASE tx_queue_ = << >>
      <3>1. <<h.pkt>> # << >> /\ Head(<<h.pkt>>) = h.pkt /\ Append(<< >>, h.pkt) = <<h.pkt>>
        OBVIOUS
      <3>2. tx_queue_' = <<h.pkt>> /\ inflight' = Append(inflight, e)
        BY <1>3, <2>1, <3>1 DEF DoWrite
      <3> QED BY <2>1, <3>1, <3>2
    <2>2. CASE tx_queue_ # << >> BY <1>3, <2>2
    <2> QED BY <2>1, <2>2
  <1> HIDE DEF h, hs, W, t, e
  <1>12. Numbered'
    <2>1. Numbers(tx_queue_, <<h>> \o t, accepted) BY <1>6 DEF PacketsInv, Numbered, Line
    <2>2. Numbers(Append(tx_queue_, h.pkt), t, accepted)
      BY <1>1, <1>5, <2>1, NumbersPost
    <2>3. Numbers(tx_queue_', Line', accepted') BY <1>3, <1>7, <1>11, <2>2
    <2> QED BY <2>3 DEF Numbered, Line
  <1>13. Sending' /\ Whole(Under') = Whole(Under) /\ Done(Under') = Done(Under)
    <2>1. CASE tx_queue_ = << >>
      <3>1. Sends(Append(inflight, e), generation_, opened_)
        BY <1>1, <1>9, SendsAppend DEF PacketsInv, Sending
      <3>2. Sending' BY <1>3, <1>11, <2>1, <3>1 DEF Sending
      <3>3. e \in W BY <1>9 DEF W, Of
      <3>4. Among(Append(inflight, e), hs, W) = Among(inflight, hs, W) \union ({e} \intersect W)
        BY <1>1, <1>9, AmongAppend
      <3>5. Under' = Among(Append(inflight, e), hs, W) BY <1>3, <1>11, <2>1 DEF Under, W
      <3>6. Under' = {e} /\ Under = {} BY <1>8, <2>1, <3>3, <3>4, <3>5
      <3>7. Whole({e}) = Whole({}) /\ Done({e}) = Done({}) BY <1>9, OneWrite
      <3> QED BY <3>2, <3>6, <3>7
    <2>2. CASE tx_queue_ # << >>
      <3>1. Sending' BY <1>3, <1>11, <2>2 DEF PacketsInv, Sending
      <3>2. Under' = Under BY <1>3, <1>8, <1>11, <2>2 DEF Under, W
      <3> QED BY <3>1, <3>2
    <2> QED BY <2>1, <2>2
  <1>14. Len(tx_queue_') + Len(Line') - Whole(Under') = Len(tx_queue_) + Len(Line) - Whole(Under)
    <2> DEFINE m == Len(tx_queue_)
               n == Len(t)
               w == Whole(Under)
    <2>1. m \in Nat /\ n \in Nat /\ w \in Nat BY <1>1, <1>5, LenProperties DEF Whole
    <2>2. Len(Append(tx_queue_, h.pkt)) = m + 1 BY <1>1, <1>2, AppendProperties
    <2>3. Len(<<h>> \o t) = 1 + n
      <3>1. <<h>> \in Seq(Ops) /\ Len(<<h>>) = 1 BY <1>1
      <3>2. Len(<<h>> \o t) = Len(<<h>>) + Len(t) BY <1>5, <3>1, ConcatProperties
      <3> QED BY <3>1, <3>2
    <2>4. /\ Len(tx_queue_') + Len(Line') - Whole(Under') = (m + 1) + n - w
          /\ Len(tx_queue_) + Len(Line) - Whole(Under) = m + (1 + n) - w
      BY <1>6, <1>7, <1>11, <1>13, <2>2, <2>3
    <2> HIDE DEF m, n, w
    <2> QED BY <2>1, <2>4
  <1>15. Upcoming' = Upcoming /\ PartsSent' = PartsSent
    BY <1>3, <1>13, <1>14, QuietMaps
  <1> QED BY <1>3, <1>10, <1>12, <1>13, <1>15, Stutters DEF PacketsInv

\* Every handler.
LEMMA HandlerPackets ==
    ASSUME Tcp, TypeOK, LinkInv, TransfersInv, PacketsInv, TypeOK', LinkInv', TransfersInv',
           RunHandler
    PROVE  PacketsInv' /\ Conforms
  <1> DEFINE h == Head(ready)
             hs == Tail(ready)
  <1>1. ready # << >> BY DEF RunHandler
  <1>2. h \in Ops /\ hs \in Seq(Ops) /\ ready \in Seq(Ops) BY <1>1, TailFacts DEF TypeOK
  <1>3. h.gen \in Nat /\ h.res \in Results BY <1>2 DEF Ops
  <1>4. ~opened_ => tx_queue_ = << >> BY DEF TransfersInv, IdleDown
  <1> HIDE DEF h, hs
  <1>5. ASSUME Ignore(hs), h.kind # "post", opened_ => ~(h.kind = "write" /\ Current(h))
        PROVE  PacketsInv' /\ Conforms
    BY <1>1, <1>5, OtherPackets DEF Ignore, h, hs
  <1>6. ASSUME HandleIoError(hs) PROVE PacketsInv' /\ Conforms
    BY <1>6, IoErrorPackets
  <1>7. CASE RunResolve(h, hs)
    <2>1. CASE Ignore(hs) BY <1>5, <1>7, <2>1 DEF RunResolve
    <2>2. CASE HandleIoError(hs) BY <1>6, <2>2
    <2>3. CASE ~Ignore(hs) /\ ~HandleIoError(hs)
      <3> DEFINE e == Op("connect", h.gen)
      <3>1. /\ h.kind = "resolve" /\ h.gen = generation_ /\ ready' = hs
            /\ inflight' = Append(inflight, e)
            /\ UNCHANGED <<opened_, connecting_, generation_, tx_queue_, link_state, accepted, wire>>
        BY <1>7, <2>3 DEF RunResolve, Current
      <3>2. e \in Ops /\ e.kind # "write" /\ e.res = "pending"
        BY <1>3, OpTypes DEF Kinds, Op
      <3>3. Begins(h, generation_) BY <3>1 DEF Begins
      <3> HIDE DEF e
      <3> QED BY <1>1, <3>1, <3>2, <3>3, OtherPackets DEF h, hs
    <2> QED BY <2>1, <2>2, <2>3
  <1>8. CASE RunConnect(h, hs)
    <2>1. CASE Ignore(hs) BY <1>5, <1>8, <2>1 DEF RunConnect
    <2>2. CASE HandleIoError(hs) BY <1>6, <2>2
    <2>3. CASE ~Ignore(hs) /\ ~HandleIoError(hs)
      <3>1. Current(h) /\ h.res = "ok" BY <1>8, <2>3 DEF RunConnect
      <3> QED BY <1>1, <1>8, <3>1, ConnectPackets DEF h, hs
    <2> QED BY <2>1, <2>2, <2>3
  <1>9. CASE RunRead(h, hs)
    <2>1. CASE Ignore(hs) BY <1>5, <1>9, <2>1 DEF RunRead
    <2>2. CASE HandleIoError(hs) BY <1>6, <2>2
    <2>3. CASE ~Ignore(hs) /\ ~HandleIoError(hs)
      <3> DEFINE e == ReadOp(h.gen)
      <3>1. /\ h.kind = "read" /\ ready' = hs
            /\ inflight' = inflight \/ inflight' = Append(inflight, e)
            /\ UNCHANGED <<opened_, connecting_, generation_, tx_queue_, handle, link_state,
                           accepted, wire>>
        BY <1>9, <2>3 DEF RunRead
      <3>2. e \in Ops /\ e.kind # "write" /\ e.res = "pending"
        BY <1>3, OpTypes DEF Kinds, ReadOp, Op
      <3> HIDE DEF e
      <3> QED BY <1>1, <3>1, <3>2, OtherPackets DEF h, hs
    <2> QED BY <2>1, <2>2, <2>3
  <1>10. CASE RunPartialWrite(h, hs)
    BY <1>1, <1>10, PartialPackets DEF h, hs
  <1>11. CASE RunWrite(h, hs)
    <2>1. CASE ~Current(h) /\ Ignore(hs) BY <1>5, <1>11, <2>1 DEF RunWrite
    <2>2. CASE HandleIoError(hs) BY <1>6, <2>2
    <2>3. CASE ~(~Current(h) /\ Ignore(hs)) /\ ~HandleIoError(hs)
      <3>1. Current(h) /\ h.res = "ok" BY <1>11, <2>3 DEF RunWrite
      <3>2. CASE opened_ BY <1>1, <1>11, <3>1, <3>2, WrittenPackets DEF h, hs
      <3>3. CASE ~opened_
        <4>1. /\ h.kind = "write" /\ DoWrite(<< >>) /\ ready' = hs
              /\ UNCHANGED <<opened_, connecting_, generation_, handle, link_state, accepted, wire>>
          BY <1>4, <1>11, <2>3, <3>3 DEF RunWrite
        <4>2. inflight' = inflight /\ tx_queue_' = tx_queue_ BY <1>4, <3>3, <4>1 DEF DoWrite
        <4> QED BY <1>1, <3>3, <4>1, <4>2, OtherPackets DEF h, hs
      <3> QED BY <3>2, <3>3
    <2> QED BY <2>1, <2>2, <2>3
  <1>12. CASE RunPost(h, hs)
    <2>1. CASE opened_ BY <1>1, <1>12, <2>1, PostPackets DEF h, hs
    <2>2. CASE ~opened_
      <3>1. Ignore(hs) BY <1>12, <2>2 DEF RunPost
      <3>2. Sending' /\ Numbered'
        BY <2>2, <3>1 DEF Ignore, PacketsInv, Sending, Numbered
      <3>3. Partials(hs, generation_, opened_, handle)
        BY <1>1, <1>2, PartialsTail DEF PacketsInv, PartialsFirst, hs
      <3>4. PartialsFirst' BY <3>1, <3>3 DEF Ignore, PartialsFirst
      <3>5. Upcoming' = Upcoming /\ PartsSent' = PartsSent
        BY <2>2, <3>1, QuietMaps DEF Ignore
      <3> QED BY <3>1, <3>2, <3>4, <3>5, Stutters DEF Ignore, PacketsInv
    <2> QED BY <2>1, <2>2
  <1> QED BY <1>7, <1>8, <1>9, <1>10, <1>11, <1>12 DEF RunHandler, h, hs

\* Every step.
LEMMA NextPackets ==
    ASSUME Tcp, TypeOK, LinkInv, TransfersInv, PacketsInv, [Next]_vars
    PROVE  PacketsInv' /\ Conforms
  <1>1. TypeOK' /\ LinkInv' /\ TransfersInv' BY NextTypes, NextInv, NextTransfers
  <1>2. CASE Start \/ Stop \/ Restart BY <1>1, <1>2, CommandPackets
  <1>3. CASE WriteBytes BY <1>1, <1>3, AcceptPackets
  <1>4. CASE Resolver BY <1>1, <1>4, ResolvedPackets
  <1>5. CASE System BY <1>1, <1>5, SystemPackets
  <1>6. CASE RunHandler BY <1>1, <1>6, HandlerPackets
  <1>7. CASE UNCHANGED vars
    <2>1. Sending' /\ PartialsFirst' /\ Numbered'
      BY <1>7 DEF vars, PacketsInv, Sending, PartialsFirst, Numbered
    <2>2. Line' = Line /\ Under' = Under BY <1>7 DEF vars, Line, Under
    <2>3. Upcoming' = Upcoming /\ PartsSent' = PartsSent
      BY <1>1, <1>7, <2>2, QuietMaps DEF vars
    <2> QED BY <1>7, <2>1, <2>3, Stutters DEF vars, PacketsInv
  <1> QED BY <1>2, <1>3, <1>4, <1>5, <1>6, <1>7 DEF Next

\* App::run starts the attempt before anything is queued.
LEMMA InitPackets ==
    ASSUME Tcp, Init
    PROVE  PacketsInv /\ Contract!CInit
  <1>1. TypeOK BY InitTypes
  <1>2. /\ ~opened_ /\ connecting_ = TRUE /\ generation_ = 1 /\ handle = Closed
        /\ inflight = << >> /\ ready = << >> /\ link_state = "Disconnected"
        /\ accepted = 0 /\ wire = << >>
    BY DEF Init, Tcp
  <1>3. PacketsInv
    BY <1>2 DEF PacketsInv, Sending, Sends, PartialsFirst, Partials, Numbered
  <1>4. Upcoming = 1 /\ PartsSent = 0
    BY <1>1, <1>2, Mapping DEF Mapped
  <1>5. Contract!CInit
    BY <1>2, <1>4 DEF Contract!CInit, Contract!States
  <1> QED BY <1>3, <1>5

\* A TCP link, for any number of commands, packets and parts, is what LinkContract
\* promises the daemon: a session transmits a prefix of what was accepted in it, in
\* order, each packet once and in one piece, and its end drops the rest.
THEOREM TcpKeepsContract == Tcp => (Spec => ImplementsContract)
  <1> SUFFICES ASSUME Tcp PROVE Spec => ImplementsContract OBVIOUS
  <1>1. Init => PacketsInv /\ Contract!CInit BY InitPackets
  <1>2. TypeOK /\ LinkInv /\ TransfersInv /\ PacketsInv /\ [Next]_vars
          => PacketsInv' /\ [Contract!CNext]_(Contract!cvars)
    BY NextPackets DEF Conforms
  <1> QED BY <1>1, <1>2, TransfersInductive, PTL DEF Spec, ImplementsContract, Contract!CSpec

==============================================================================
