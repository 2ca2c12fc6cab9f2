---------------------------- MODULE RxPathProofs -----------------------------
(***************************************************************************)
(* Proofs about RxPath, for every size of header, packet and read, and any *)
(* number of bytes: which packets the framer finds, that no byte is lost   *)
(* or counted twice, and that IPC frames survive however the connections   *)
(* cut them.                                                               *)
(***************************************************************************)
EXTENDS RxPath, SequenceLemmas

------------------------------------------------------------------------------
(* The loop of push_bytes.                                                  *)

\* Its states, and where it stops.
Framing == [acc : Seq(Bytes), out : Seq(Seq(Bytes)), errors : Nat]
Stuck(a) == Len(a) < HdrLen \/ (VersionOk(a) /\ Len(a) < DeclaredSize(a))

\* A declared size is larger than the header.
LEMMA SizeType ==
    ASSUME NEW a \in Seq(Bytes), Len(a) >= HdrLen
    PROVE  DeclaredSize(a) \in Nat /\ DeclaredSize(a) > HdrLen /\ HdrLen \in Nat /\ HdrLen >= 2
  <1>1. HdrLen \in Nat /\ HdrLen >= 2
    BY HeaderAssumption
  <1>2. HdrLen \in 1 .. Len(a)
    BY <1>1, LenProperties
  <1>3. a[HdrLen] \in Bytes
    BY <1>2, ElementOfSeq
  <1>4. a[HdrLen] \in Nat
    BY <1>3, ByteAssumption DEF Bytes
  <1> QED BY <1>1, <1>4 DEF DeclaredSize

\* The three things a round may do.
LEMMA RoundCases ==
    ASSUME NEW r \in Framing
    PROVE  \/ Stuck(r.acc) /\ Round(r) = r
           \/ /\ Len(r.acc) >= HdrLen /\ ~VersionOk(r.acc)
              /\ Round(r) = [acc |-> Tail(r.acc), out |-> r.out, errors |-> r.errors + 1]
           \/ /\ Len(r.acc) >= HdrLen /\ VersionOk(r.acc) /\ Len(r.acc) >= DeclaredSize(r.acc)
              /\ Round(r) = [acc |-> SubSeq(r.acc, DeclaredSize(r.acc) + 1, Len(r.acc)),
                             out |-> Append(r.out, SubSeq(r.acc, 1, DeclaredSize(r.acc))),
                             errors |-> r.errors]
  <1> DEFINE a == r.acc
             size == DeclaredSize(a)
  <1>0. r = [acc |-> r.acc, out |-> r.out, errors |-> r.errors] /\ a \in Seq(Bytes)
    BY DEF Framing
  <1>1. Len(a) \in Nat /\ HdrLen \in Nat
    BY <1>0, LenProperties, HeaderAssumption
  <1>2. CASE Len(a) < HdrLen
    BY <1>2 DEF Round, Stuck
  <1>3. CASE ~(Len(a) < HdrLen) /\ ~VersionOk(a)
    <2>1. Round(r) = [r EXCEPT !.acc = Tail(@), !.errors = @ + 1]
      BY <1>3 DEF Round
    <2>2. Round(r) = [acc |-> Tail(r.acc), out |-> r.out, errors |-> r.errors + 1]
      BY <2>1 DEF Framing
    <2> QED BY <1>1, <1>3, <2>2
  <1>4. CASE ~(Len(a) < HdrLen) /\ VersionOk(a) /\ Len(a) < size
    BY <1>4 DEF Round, Stuck
  <1>5. CASE ~(Len(a) < HdrLen) /\ VersionOk(a) /\ ~(Len(a) < size)
    <2>1. Round(r) = [r EXCEPT !.acc = SubSeq(@, size + 1, Len(@)), !.out = Append(@, SubSeq(r.acc, 1, size))]
      BY <1>5 DEF Round
    <2>2. size \in Nat /\ Len(a) >= HdrLen
      BY <1>0, <1>1, <1>5, SizeType
    <2>3. Len(a) >= size
      BY <1>1, <1>5, <2>2
    <2> HIDE DEF size
    <2>4. Round(r) = [acc |-> SubSeq(r.acc, size + 1, Len(r.acc)),
                      out |-> Append(r.out, SubSeq(r.acc, 1, size)), errors |-> r.errors]
      BY <2>1 DEF Framing
    <2> QED BY <1>5, <2>2, <2>3, <2>4 DEF size
  <1> QED BY <1>2, <1>3, <1>4, <1>5

\* A round keeps the types, and takes a byte unless the loop is at its end.
LEMMA RoundType ==
    ASSUME NEW r \in Framing
    PROVE  Round(r) \in Framing /\ (Stuck(r.acc) \/ Len(Round(r).acc) < Len(r.acc))
  <1> DEFINE a == r.acc
             size == DeclaredSize(a)
  <1>0. a \in Seq(Bytes) /\ r.out \in Seq(Seq(Bytes)) /\ r.errors \in Nat /\ Len(a) \in Nat
        /\ HdrLen \in Nat /\ HdrLen >= 2
    BY LenProperties, HeaderAssumption DEF Framing
  <1>1. CASE Stuck(a) /\ Round(r) = r
    BY <1>1
  <1>2. CASE Len(a) >= HdrLen /\ Round(r) = [acc |-> Tail(a), out |-> r.out, errors |-> r.errors + 1]
    <2> HIDE DEF a
    <2>1. a # << >>
      BY <1>0, <1>2, EmptySeq
    <2>2. Tail(a) \in Seq(Bytes) /\ Len(Tail(a)) = Len(a) - 1
      BY <1>0, <2>1, HeadTailProperties
    <2>3. Round(r) \in Framing /\ Round(r).acc = Tail(a)
      BY <1>0, <1>2, <2>2 DEF Framing
    <2>4. Len(Round(r).acc) < Len(a)
      BY <1>0, <2>2, <2>3
    <2> QED BY <2>3, <2>4 DEF a
  <1>3. CASE Len(a) >= HdrLen /\ Len(a) >= size
             /\ Round(r) = [acc |-> SubSeq(a, size + 1, Len(a)), out |-> Append(r.out, SubSeq(a, 1, size)),
                            errors |-> r.errors]
    <2>1. size \in Nat /\ size > HdrLen
      BY <1>0, <1>3, SizeType
    <2> HIDE DEF a, size
    <2>2. SubSeq(a, 1, size) \in Seq(Bytes) /\ SubSeq(a, size + 1, Len(a)) \in Seq(Bytes)
          /\ Len(SubSeq(a, size + 1, Len(a))) = Len(a) - size
      BY <1>0, <1>3, <2>1
    <2>3. Round(r) \in Framing /\ Round(r).acc = SubSeq(a, size + 1, Len(a))
      <3> DEFINE p == SubSeq(a, 1, size)
                 t == SubSeq(a, size + 1, Len(a))
                 o == Append(r.out, p)
      <3>1. p \in Seq(Bytes) /\ t \in Seq(Bytes)
        BY <2>2
      <3>2. o \in Seq(Seq(Bytes))
        <4> HIDE DEF p
        <4> QED BY <1>0, <3>1, AppendProperties
      <3>3. Round(r) = [acc |-> t, out |-> o, errors |-> r.errors]
        BY <1>3
      <3> HIDE DEF t, o, p
      <3>4. Round(r) \in Framing /\ Round(r).acc = t
        BY <1>0, <3>1, <3>2, <3>3 DEF Framing
      <3> QED BY <3>4 DEF t
    <2>4. Len(Round(r).acc) < Len(a)
      BY <1>0, <1>3, <2>1, <2>2, <2>3
    <2> QED BY <2>3, <2>4 DEF a
  <1> QED BY <1>1, <1>2, <1>3, RoundCases

\* What holds before the first round and is kept by every round holds at the end
\* of the loop, and there the loop has nothing left to do.
LEMMA DrainRule ==
    ASSUME NEW a \in Seq(Bytes), NEW I, I \subseteq Framing,
           [acc |-> a, out |-> << >>, errors |-> 0] \in I,
           \A r \in I : Round(r) \in I
    PROVE  Drain(a) \in I /\ Stuck(Drain(a).acc)
  <1> DEFINE n == Len(a)
             x == [acc |-> a, out |-> << >>, errors |-> 0]
             g == [i \in Nat |-> [v \in Framing |-> Round(v)]]
             h == CHOOSE f : f = [k \in 0 .. n |-> IF k = 0 THEN x ELSE Round(f[k - 1])]
  <1>1. n \in Nat /\ x \in Framing /\ x \in I
    BY LenProperties
  <1>2. \A i \in Nat : \A v \in Framing : g[i][v] = Round(v) /\ g[i][v] \in Framing
    BY RoundType
  <1>3. Drain(a) = h[n]
    BY DEF Drain
  <1> HIDE DEF g, x, n, h
  <1>4. PICK f : Rounds(f, Framing, x, g, n)
    <2>1. Stays(Framing, g)
      BY <1>2, Zenon DEF Stays
    <2> QED BY <1>1, <2>1, Loop, Zenon
  <1>5. f = [k \in 0 .. n |-> IF k = 0 THEN x ELSE Round(f[k - 1])]
    <2>1. ASSUME NEW k \in 0 .. n PROVE f[k] = IF k = 0 THEN x ELSE Round(f[k - 1])
      <3>1. CASE k = 0
        BY <1>4, <3>1 DEF Rounds
      <3>2. CASE k # 0
        <4>1. k \in 1 .. n /\ k - 1 \in 0 .. n /\ k \in Nat
          BY <1>1, <3>2
        <4>2. f[k] = g[k][f[k - 1]] /\ f[k - 1] \in Framing
          BY <1>4, <4>1 DEF Rounds
        <4> QED BY <1>2, <3>2, <4>1, <4>2
      <3> QED BY <3>1, <3>2
    <2>2. f = [k \in 0 .. n |-> f[k]]
      BY <1>4 DEF Rounds
    <2> QED BY <2>1, <2>2, Zenon
  <1>6. h = [k \in 0 .. n |-> IF k = 0 THEN x ELSE Round(h[k - 1])]
    BY <1>5, Zenon DEF h
  <1>7. \A k \in 0 .. n : h[k] = IF k = 0 THEN x ELSE Round(h[k - 1])
    BY <1>6, Zenon
  <1> DEFINE P == {k \in Nat : k \in 0 .. n => h[k] \in I /\ (Stuck(h[k].acc) \/ Len(h[k].acc) + k <= n)}
  <1>8. 0 \in P
    <2>1. h[0] = x /\ 0 \in 0 .. n
      BY <1>1, <1>7
    <2>2. Len(x.acc) + 0 <= n
      BY <1>1 DEF x, n
    <2> QED BY <1>1, <2>1, <2>2
  <1>9. ASSUME NEW k \in Nat, k \in P PROVE k + 1 \in P
    <2> SUFFICES ASSUME k + 1 \in 0 .. n
                 PROVE  h[k + 1] \in I /\ (Stuck(h[k + 1].acc) \/ Len(h[k + 1].acc) + (k + 1) <= n)
      OBVIOUS
    <2>1. k \in 0 .. n
      BY <1>1
    <2>2. h[k] \in I /\ (Stuck(h[k].acc) \/ Len(h[k].acc) + k <= n)
      BY <1>9, <2>1
    <2>3. h[k + 1] = Round(h[k])
      <3>1. k + 1 # 0 /\ (k + 1) - 1 = k
        OBVIOUS
      <3>2. h[k + 1] = Round(h[(k + 1) - 1])
        BY <1>7, <3>1
      <3> QED BY <3>1, <3>2
    <2> DEFINE r == h[k]
    <2>4. r \in Framing /\ Round(r) \in I
      BY <2>2
    <2> HIDE DEF r
    <2>5. CASE Stuck(r.acc)
      <3>1. Round(r) = r
        BY <2>5 DEF Round, Stuck
      <3> QED BY <2>3, <2>4, <2>5, <3>1 DEF r
    <2>6. CASE ~Stuck(r.acc)
      <3> DEFINE j == Len(r.acc)
                 m == Len(Round(r).acc)
      <3>1. m < j /\ j \in Nat /\ m \in Nat
        <4>1. Round(r) \in Framing /\ m < j
          BY <2>4, <2>6, RoundType
        <4> QED BY <2>4, <4>1, LenProperties DEF Framing
      <3>2. j + k <= n
        BY <2>2, <2>6 DEF r
      <3> HIDE DEF j, m
      <3>3. m + (k + 1) <= n
        BY <1>1, <3>1, <3>2
      <3> QED BY <2>3, <2>4, <3>3 DEF r, m
    <2> QED BY <2>5, <2>6
  <1> HIDE DEF P
  <1>10. n \in P
    BY <1>1, <1>8, <1>9, Induction
  <1>11. h[n] \in I /\ (Stuck(h[n].acc) \/ Len(h[n].acc) + n <= n)
    BY <1>1, <1>10 DEF P
  <1>12. Stuck(h[n].acc)
    <2> DEFINE j == Len(h[n].acc)
    <2>1. j \in Nat
      BY <1>11, LenProperties DEF Framing
    <2>2. CASE j + n <= n
      <3>1. j = 0
        <4> HIDE DEF j
        <4> QED BY <1>1, <2>1, <2>2
      <3>2. j < HdrLen
        BY <3>1, HeaderAssumption
      <3> QED BY <3>2 DEF Stuck
    <2> QED BY <1>11, <2>2
  <1> QED BY <1>3, <1>11, <1>12

------------------------------------------------------------------------------
(* The boundaries of a stream.                                              *)

\* What is left of s from p on.
From(s, p) == SubSeq(s, p, Len(s))

\* Its bytes.
LEMMA FromBytes ==
    ASSUME NEW s \in Seq(Bytes), NEW p \in 1 .. Len(s) + 1
    PROVE  /\ From(s, p) \in Seq(Bytes) /\ Len(From(s, p)) = Len(s) - p + 1
           /\ \A i \in 1 .. Len(s) - p + 1 : From(s, p)[i] = s[p + i - 1]
           /\ Len(s) \in Nat /\ p \in Nat
  <1>1. Len(s) \in Nat /\ \A i \in 1 .. Len(s) : s[i] \in Bytes
    BY LenProperties, ElementOfSeq
  <1> DEFINE n == Len(s)
  <1>2. p \in Int /\ n \in Int /\ \A i \in p .. n : s[i] \in Bytes
    BY <1>1
  <1>3. /\ SubSeq(s, p, n) \in Seq(Bytes)
        /\ Len(SubSeq(s, p, n)) = IF p <= n THEN n - p + 1 ELSE 0
        /\ \A i \in 1 .. n - p + 1 : SubSeq(s, p, n)[i] = s[p + i - 1]
    BY <1>2, SubSeqProperties
  <1>4. (IF p <= n THEN n - p + 1 ELSE 0) = n - p + 1
    BY <1>1
  <1> QED BY <1>1, <1>3, <1>4 DEF From

\* What push_bytes does with the bytes from p on, and the boundary behind them.
LEMMA NextCases ==
    ASSUME NEW s \in Seq(Bytes), NEW p \in 1 .. Len(s) + 1
    PROVE  LET a == From(s, p)
               size == DeclaredSize(a)
           IN /\ Stuck(a) => NextBoundary(s, p) = {}
              /\ Len(a) >= HdrLen /\ ~VersionOk(a) =>
                     ~PacketAt(s, p) /\ NextBoundary(s, p) = {p + 1} /\ p + 1 \in p + 1 .. Len(s) + 1
              /\ Len(a) >= HdrLen /\ VersionOk(a) /\ Len(a) >= size =>
                     /\ PacketAt(s, p) /\ NextBoundary(s, p) = {p + size} /\ SizeAt(s, p) = size
                     /\ p + size \in p + 1 .. Len(s) + 1
  <1> DEFINE a == From(s, p)
             size == DeclaredSize(a)
  <1>1. a \in Seq(Bytes) /\ Len(a) = Len(s) - p + 1 /\ Len(s) \in Nat /\ p \in Nat
        /\ HdrLen \in Nat /\ HdrLen >= 2
    BY FromBytes, HeaderAssumption
  <1>2. VersionAt(s, p) <=> VersionOk(a)
    BY DEF VersionAt, From
  <1>3. SizeAt(s, p) = size
    BY DEF SizeAt, From
  <1> HIDE DEF a
  <1>4. Len(a) >= HdrLen <=> HeaderAt(s, p)
    BY <1>1 DEF HeaderAt
  <1>5. Len(a) >= HdrLen => size \in Nat /\ size > 0
    BY <1>1, SizeType
  <1> HIDE DEF size
  <1>6. PacketAt(s, p) <=> Len(a) >= HdrLen /\ VersionOk(a) /\ p + size - 1 <= Len(s)
    BY <1>2, <1>3, <1>4 DEF PacketAt
  <1>7. Len(a) >= HdrLen => (p + size - 1 <= Len(s) <=> Len(a) >= size)
    BY <1>1, <1>5
  <1>8. Stuck(a) => NextBoundary(s, p) = {}
    <2> SUFFICES ASSUME Stuck(a) PROVE NextBoundary(s, p) = {}
      OBVIOUS
    <2>1. ~(Len(a) >= HdrLen) \/ (VersionOk(a) /\ ~(Len(a) >= size))
      <3>1. CASE Len(a) < HdrLen
        BY <1>1, <3>1
      <3>2. CASE ~(Len(a) < HdrLen) /\ VersionOk(a) /\ Len(a) < size
        <4>1. Len(a) >= HdrLen
          BY <1>1, <3>2
        <4> QED BY <1>1, <1>5, <3>2, <4>1
      <3> QED BY <3>1, <3>2 DEF Stuck, size
    <2>2. ~PacketAt(s, p)
      BY <1>6, <1>7, <2>1
    <2>3. ~(HeaderAt(s, p) /\ ~VersionAt(s, p))
      BY <1>2, <1>4, <2>1
    <2> QED BY <2>2, <2>3 DEF NextBoundary
  <1>9. ASSUME Len(a) >= HdrLen, ~VersionOk(a)
        PROVE  ~PacketAt(s, p) /\ NextBoundary(s, p) = {p + 1} /\ p + 1 \in p + 1 .. Len(s) + 1
    <2>1. ~PacketAt(s, p) /\ HeaderAt(s, p) /\ ~VersionAt(s, p)
      BY <1>2, <1>4, <1>6, <1>9
    <2>2. p + 1 \in p + 1 .. Len(s) + 1
      BY <1>1, <1>9
    <2> QED BY <2>1, <2>2 DEF NextBoundary
  <1>10. ASSUME Len(a) >= HdrLen, VersionOk(a), Len(a) >= size
         PROVE  /\ PacketAt(s, p) /\ NextBoundary(s, p) = {p + size} /\ SizeAt(s, p) = size
                /\ p + size \in p + 1 .. Len(s) + 1
    <2>1. PacketAt(s, p)
      BY <1>6, <1>7, <1>10
    <2>2. p + size \in p + 1 .. Len(s) + 1
      BY <1>1, <1>5, <1>10
    <2> QED BY <1>3, <2>1, <2>2 DEF NextBoundary
  <1> QED BY <1>8, <1>9, <1>10 DEF a, size

\* Every boundary but the last is followed by a later one.
LEMMA NextLater ==
    ASSUME NEW s \in Seq(Bytes), NEW p \in Nat \ {0}
    PROVE  NextBoundary(s, p) \subseteq p + 1 .. Len(s) + 1
  <1>1. Len(s) \in Nat /\ HdrLen \in Nat /\ HdrLen >= 2
    BY LenProperties, HeaderAssumption
  <1>2. CASE p > Len(s) + 1
    <2>1. ~HeaderAt(s, p)
      BY <1>1, <1>2 DEF HeaderAt
    <2> QED BY <2>1 DEF PacketAt, NextBoundary
  <1>3. CASE p \in 1 .. Len(s) + 1
    <2> DEFINE a == From(s, p)
    <2>1. a \in Seq(Bytes) /\ Len(a) \in Nat
      BY <1>3, FromBytes, LenProperties
    <2>2. Stuck(a) \/ (Len(a) >= HdrLen /\ ~VersionOk(a))
          \/ (Len(a) >= HdrLen /\ VersionOk(a) /\ Len(a) >= DeclaredSize(a))
      <3> HIDE DEF a
      <3>1. Len(a) >= HdrLen => DeclaredSize(a) \in Nat
        BY <2>1, SizeType
      <3> QED BY <1>1, <2>1, <3>1 DEF Stuck
    <2> QED BY <1>3, <2>2, NextCases
  <1> QED BY <1>1, <1>2, <1>3

\* The start of a stream that goes on: its bytes, and those behind a position.
LEMMA FromExtends ==
    ASSUME NEW s \in Seq(Bytes), NEW c \in Seq(Bytes), NEW p \in 1 .. Len(s) + 1
    PROVE  /\ s \o c \in Seq(Bytes) /\ Len(s \o c) = Len(s) + Len(c) /\ Len(c) \in Nat
           /\ p \in 1 .. Len(s \o c) + 1
           /\ From(s \o c, p) = From(s, p) \o c
  <1>1. s \o c \in Seq(Bytes) /\ Len(s \o c) = Len(s) + Len(c) /\ Len(s) \in Nat /\ Len(c) \in Nat
        /\ \A i \in 1 .. Len(s) + Len(c) : (s \o c)[i] = IF i <= Len(s) THEN s[i] ELSE c[i - Len(s)]
    BY ConcatProperties, LenProperties
  <1>2. p \in 1 .. Len(s \o c) + 1
    BY <1>1
  <1> DEFINE a == From(s, p)
             b == From(s \o c, p)
             n == Len(s)
             m == Len(c)
  <1>3. a \in Seq(Bytes) /\ Len(a) = n - p + 1 /\ \A i \in 1 .. n - p + 1 : a[i] = s[p + i - 1]
    BY FromBytes
  <1>4. b \in Seq(Bytes) /\ Len(b) = n + m - p + 1
        /\ \A i \in 1 .. n + m - p + 1 : b[i] = (s \o c)[p + i - 1]
    <2> DEFINE t == s \o c
    <2>1. t \in Seq(Bytes) /\ p \in 1 .. Len(t) + 1 /\ Len(t) = n + m
      BY <1>1, <1>2
    <2> HIDE DEF t
    <2>2. From(t, p) \in Seq(Bytes) /\ Len(From(t, p)) = Len(t) - p + 1
          /\ \A i \in 1 .. Len(t) - p + 1 : From(t, p)[i] = t[p + i - 1]
      BY <2>1, FromBytes
    <2> QED BY <2>1, <2>2 DEF t
  <1> HIDE DEF a, b
  <1>5. a \o c \in Seq(Bytes) /\ Len(a \o c) = Len(a) + m
        /\ \A i \in 1 .. Len(a) + m : (a \o c)[i] = IF i <= Len(a) THEN a[i] ELSE c[i - Len(a)]
    BY <1>3, ConcatProperties
  <1>6. Len(b) = Len(a \o c)
    BY <1>1, <1>3, <1>4, <1>5
  <1>7. ASSUME NEW i \in 1 .. Len(b) PROVE b[i] = (a \o c)[i]
    <2>1. b[i] = (s \o c)[p + i - 1] /\ p + i - 1 \in 1 .. n + m /\ i \in 1 .. n + m - p + 1
      BY <1>1, <1>4
    <2>2. CASE i <= Len(a)
      <3>1. p + i - 1 <= n /\ i \in 1 .. n - p + 1 /\ i \in 1 .. Len(a) + m
        BY <1>1, <1>3, <2>1, <2>2
      <3> QED BY <1>1, <1>3, <1>5, <2>1, <2>2, <3>1
    <2>3. CASE ~(i <= Len(a))
      <3>1. ~(p + i - 1 <= n) /\ i \in 1 .. Len(a) + m /\ (p + i - 1) - n = i - Len(a)
        BY <1>1, <1>3, <2>1, <2>3
      <3> QED BY <1>1, <1>5, <2>1, <2>3, <3>1
    <2> QED BY <2>2, <2>3
  <1>8. b = a \o c
    BY <1>4, <1>5, <1>6, <1>7, SeqEqual
  <1> QED BY <1>1, <1>2, <1>8 DEF a, b

\* What follows a boundary does not depend on bytes that come later.
LEMMA NextExtends ==
    ASSUME NEW s \in Seq(Bytes), NEW c \in Seq(Bytes), NEW p \in Nat \ {0}, NEW u \in NextBoundary(s, p)
    PROVE  /\ NextBoundary(s, p) = {u} /\ NextBoundary(s \o c, p) = {u}
           /\ PacketAt(s \o c, p) <=> PacketAt(s, p)
           /\ PacketAt(s, p) =>
                  /\ SizeAt(s \o c, p) = SizeAt(s, p)
                  /\ SubSeq(s \o c, p, p + SizeAt(s, p) - 1) = SubSeq(s, p, p + SizeAt(s, p) - 1)
  <1> DEFINE a == From(s, p)
             b == From(s \o c, p)
             t == s \o c
  <1>1. HdrLen \in Nat /\ HdrLen >= 2 /\ Len(s) \in Nat
    BY HeaderAssumption, LenProperties
  <1>2. p \in 1 .. Len(s) + 1
    <2>1. u \in p + 1 .. Len(s) + 1
      BY NextLater
    <2> QED BY <1>1, <2>1
  <1>3. a \in Seq(Bytes) /\ Len(a) = Len(s) - p + 1 /\ Len(a) \in Nat
    BY <1>2, FromBytes, LenProperties
  <1>4. t \in Seq(Bytes) /\ Len(t) = Len(s) + Len(c) /\ Len(c) \in Nat /\ p \in 1 .. Len(t) + 1
        /\ b = a \o c
    BY <1>2, FromExtends
  <1>5. ~Stuck(a)
    BY <1>2, NextCases
  <1>6. Len(a) >= HdrLen /\ DeclaredSize(a) \in Nat /\ DeclaredSize(a) > HdrLen
    <2> HIDE DEF a
    <2>1. Len(a) >= HdrLen
      BY <1>1, <1>3, <1>5 DEF Stuck
    <2> QED BY <1>3, <2>1, SizeType
  <1>7. Len(b) = Len(a) + Len(c) /\ \A i \in 1 .. Len(a) : b[i] = a[i]
    <2> HIDE DEF a, b
    <2>1. Len(a \o c) = Len(a) + Len(c) /\ \A i \in 1 .. Len(a) + Len(c) :
              (a \o c)[i] = IF i <= Len(a) THEN a[i] ELSE c[i - Len(a)]
      BY <1>3, ConcatProperties
    <2>2. \A i \in 1 .. Len(a) : i \in 1 .. Len(a) + Len(c) /\ i <= Len(a)
      BY <1>3, <1>4
    <2> QED BY <1>4, <2>1, <2>2
  <1>8. (VersionOk(b) <=> VersionOk(a)) /\ DeclaredSize(b) = DeclaredSize(a)
    <2> HIDE DEF a, b
    <2>1. 1 \in 1 .. Len(a) /\ HdrLen \in 1 .. Len(a)
      BY <1>1, <1>3, <1>6
    <2>2. b[1] = a[1] /\ b[HdrLen] = a[HdrLen]
      BY <1>7, <2>1
    <2> QED BY <2>2 DEF VersionOk, DeclaredSize
  <1>9. CASE ~VersionOk(a)
    <2>1. ~PacketAt(s, p) /\ NextBoundary(s, p) = {p + 1}
      BY <1>2, <1>6, <1>9, NextCases
    <2>2. Len(b) >= HdrLen /\ ~VersionOk(b)
      <3> HIDE DEF a, b
      <3> QED BY <1>1, <1>3, <1>4, <1>6, <1>7, <1>8, <1>9
    <2> HIDE DEF t
    <2>3. ~PacketAt(t, p) /\ NextBoundary(t, p) = {p + 1}
      BY <1>4, <2>2, NextCases DEF t
    <2> QED BY <2>1, <2>3 DEF t
  <1>10. CASE VersionOk(a)
    <2> DEFINE size == DeclaredSize(a)
    <2>1. Len(a) >= size
      <3> HIDE DEF a
      <3> QED BY <1>1, <1>3, <1>5, <1>6, <1>10 DEF Stuck
    <2>2. PacketAt(s, p) /\ NextBoundary(s, p) = {p + size} /\ SizeAt(s, p) = size
          /\ p + size \in p + 1 .. Len(s) + 1
      BY <1>2, <1>6, <1>10, <2>1, NextCases
    <2>3. Len(b) >= HdrLen /\ VersionOk(b) /\ Len(b) >= DeclaredSize(b)
      <3> HIDE DEF a, b
      <3> QED BY <1>1, <1>3, <1>4, <1>6, <1>7, <1>8, <1>10, <2>1
    <2>4. PacketAt(t, p) /\ NextBoundary(t, p) = {p + size} /\ SizeAt(t, p) = size
      <3>1. b = From(t, p)
        OBVIOUS
      <3> HIDE DEF t, a
      <3> QED BY <1>4, <1>8, <2>3, <3>1, NextCases
    <2>5. SubSeq(t, p, p + size - 1) = SubSeq(s, p, p + size - 1)
      <3> HIDE DEF a, size, b
      <3>1. size \in Nat /\ size > 1
        BY <1>1, <1>6 DEF size
      <3> DEFINE q == p + size - 1
      <3>2. p \in 1 .. Len(s) /\ q \in 1 .. Len(s)
        BY <1>1, <1>2, <2>2, <3>1
      <3> HIDE DEF q
      <3>3. SubSeq(s \o c, p, q) = SubSeq(s, p, q)
        BY <3>2, SubSeqOfConcat1
      <3> QED BY <3>3 DEF q
    <2> QED BY <2>2, <2>4, <2>5
  <1> QED BY <1>9, <1>10

\* A set of positions with the first one and what follows each of its positions.
Closed(s, C) == 1 \in C /\ \A q \in C : NextBoundary(s, q) \subseteq C

\* The boundaries are the smallest such set.
LEMMA BoundariesLeast ==
    ASSUME NEW s \in Seq(Bytes)
    PROVE  Closed(s, Boundaries(s)) /\ \A C : Closed(s, C) => Boundaries(s) \subseteq C
  <1> DEFINE n == Len(s)
             Pos == Nat \ {0}
             S == SUBSET Pos
             Follow(v) == UNION {NextBoundary(s, p) : p \in v}
             g == [i \in Nat |-> [v \in S |-> Follow(v)]]
             h == CHOOSE f : f = [k \in 0 .. n |-> IF k = 0 THEN {1} ELSE Follow(f[k - 1])]
  <1>1. n \in Nat /\ {1} \in S
    BY LenProperties
  <1>2. \A i \in Nat : \A v \in S : g[i][v] = Follow(v) /\ g[i][v] \in S
    <2>1. \A p \in Pos : NextBoundary(s, p) \subseteq Pos
      <3> SUFFICES ASSUME NEW p \in Pos PROVE NextBoundary(s, p) \subseteq Pos
        OBVIOUS
      <3>1. NextBoundary(s, p) \subseteq p + 1 .. n + 1
        BY NextLater
      <3>2. p + 1 .. n + 1 \subseteq Pos
        OBVIOUS
      <3> QED BY <3>1, <3>2
    <2>2. ASSUME NEW v \in S PROVE Follow(v) \in S
      BY <2>1
    <2> HIDE DEF Follow, S
    <2> QED BY <2>2
  <1>3. Boundaries(s) = UNION {h[k] : k \in 0 .. n}
    BY DEF Boundaries
  <1> HIDE DEF g, n, h, Follow, S
  <1>4. PICK f : Rounds(f, S, {1}, g, n)
    <2>1. Stays(S, g)
      BY <1>2, Zenon DEF Stays
    <2> QED BY <1>1, <2>1, Loop, Zenon
  <1>5. f = [k \in 0 .. n |-> IF k = 0 THEN {1} ELSE Follow(f[k - 1])]
    <2>1. ASSUME NEW k \in 0 .. n PROVE f[k] = IF k = 0 THEN {1} ELSE Follow(f[k - 1])
      <3>1. CASE k = 0
        BY <1>4, <3>1 DEF Rounds
      <3>2. CASE k # 0
        <4>1. k \in 1 .. n /\ k - 1 \in 0 .. n /\ k \in Nat
          BY <1>1, <3>2
        <4>2. f[k] = g[k][f[k - 1]] /\ f[k - 1] \in S
          BY <1>4, <4>1 DEF Rounds
        <4> QED BY <1>2, <3>2, <4>1, <4>2
      <3> QED BY <3>1, <3>2
    <2>2. f = [k \in 0 .. n |-> f[k]]
      BY <1>4 DEF Rounds
    <2> QED BY <2>1, <2>2, Zenon
  <1>6. h = [k \in 0 .. n |-> IF k = 0 THEN {1} ELSE Follow(h[k - 1])]
    BY <1>5, Zenon DEF h
  <1>7. \A k \in 0 .. n : h[k] = IF k = 0 THEN {1} ELSE Follow(h[k - 1])
    BY <1>6, Zenon
  <1>8. h[0] = {1} /\ \A k \in Nat : k + 1 \in 0 .. n => k \in 0 .. n /\ h[k + 1] = Follow(h[k])
    <2>1. h[0] = {1}
      <3>1. 0 \in 0 .. n
        BY <1>1
      <3>2. h[0] = IF 0 = 0 THEN {1} ELSE Follow(h[0 - 1])
        BY <1>7, <3>1, Zenon
      <3> QED BY <3>2, Zenon
    <2>2. ASSUME NEW k \in Nat, k + 1 \in 0 .. n PROVE k \in 0 .. n /\ h[k + 1] = Follow(h[k])
      <3>1. k + 1 # 0 /\ (k + 1) - 1 = k /\ k \in 0 .. n
        BY <1>1, <2>2
      <3>2. h[k + 1] = Follow(h[(k + 1) - 1])
        BY <1>7, <2>2, <3>1
      <3> QED BY <3>1, <3>2
    <2> QED BY <2>1, <2>2
  <1>9. ASSUME NEW C, Closed(s, C) PROVE Boundaries(s) \subseteq C
    <2> DEFINE P == {k \in Nat : k \in 0 .. n => h[k] \subseteq C}
    <2>1. 0 \in P
      BY <1>8, <1>9 DEF Closed
    <2>2. ASSUME NEW k \in Nat, k \in P PROVE k + 1 \in P
      BY <1>8, <1>9, <2>2 DEF Closed, Follow
    <2> HIDE DEF P
    <2>3. \A k \in Nat : k \in P
      BY <2>1, <2>2, Induction
    <2>4. \A k \in 0 .. n : h[k] \subseteq C
      BY <1>1, <2>3 DEF P
    <2> QED BY <1>3, <2>4
  <1>10. \A k \in 0 .. n : h[k] \subseteq {q \in Nat : q >= k + 1}
    <2> DEFINE P == {k \in Nat : k \in 0 .. n => h[k] \subseteq {q \in Nat : q >= k + 1}}
    <2>1. 0 \in P
      BY <1>8
    <2>2. ASSUME NEW k \in Nat, k \in P PROVE k + 1 \in P
      <3> SUFFICES ASSUME k + 1 \in 0 .. n, NEW u \in h[k + 1]
                   PROVE  u \in Nat /\ u >= (k + 1) + 1
        OBVIOUS
      <3>0. u \in Follow(h[k])
        BY <1>8, Zenon
      <3>1. PICK q \in h[k] : u \in NextBoundary(s, q)
        BY <3>0, Zenon DEF Follow
      <3>2. q \in Nat /\ q >= k + 1
        BY <1>8, <2>2
      <3>3. q \in Nat \ {0}
        BY <3>2
      <3>4. u \in q + 1 .. n + 1
        BY <3>1, <3>3, NextLater DEF n
      <3> QED BY <1>1, <3>2, <3>4
    <2> HIDE DEF P
    <2>3. \A k \in Nat : k \in P
      BY <2>1, <2>2, Induction
    <2> QED BY <1>1, <2>3 DEF P
  <1>11. Closed(s, Boundaries(s))
    <2>1. 1 \in Boundaries(s)
      BY <1>1, <1>3, <1>8
    <2>2. ASSUME NEW q \in Boundaries(s), NEW u \in NextBoundary(s, q) PROVE u \in Boundaries(s)
      <3>1. PICK k \in 0 .. n : q \in h[k]
        BY <1>3
      <3>2. q \in Nat \ {0} /\ q >= k + 1
        BY <1>1, <1>10, <3>1
      <3>3. u \in q + 1 .. n + 1
        BY <3>2, NextLater DEF n
      <3>4. k \in Nat /\ k + 1 \in 0 .. n
        BY <1>1, <3>2, <3>3
      <3>5. u \in h[k + 1]
        BY <1>8, <3>1, <3>4 DEF Follow
      <3> QED BY <1>3, <3>4, <3>5
    <2> QED BY <2>1, <2>2 DEF Closed
  <1> QED BY <1>9, <1>11

------------------------------------------------------------------------------
(* What push_bytes has found so far.                                        *)

\* The packet at p.
Packet(s, p) == SubSeq(s, p, p + SizeAt(s, p) - 1)

\* push_bytes has come to position p of s over the boundaries T and has given out
\* the packets o, of which the i-th was found at at[i].
Walk(s, p, T, at, o) ==
    /\ p \in 1 .. Len(s) + 1 /\ p \in T /\ 1 \in T /\ T \subseteq 1 .. p
    /\ \A t \in T \ {p} : \E u \in T : NextBoundary(s, t) = {u}
    /\ \A C : Closed(s, C) => T \subseteq C
    /\ at \in [1 .. Len(o) -> T \ {p}]
    /\ \A i, j \in 1 .. Len(o) : i < j => at[i] < at[j]
    /\ \A i \in 1 .. Len(o) : PacketAt(s, at[i]) /\ o[i] = Packet(s, at[i])
    /\ \A t \in T \ {p} : PacketAt(s, t) => \E i \in 1 .. Len(o) : at[i] = t

\* It keeps the bytes from that position on.
Parsed(s, a, o) == \E p, T, at : Walk(s, p, T, at, o) /\ a = From(s, p)

\* More bytes change nothing of the way so far.
LEMMA WalkExtends ==
    ASSUME NEW s \in Seq(Bytes), NEW c \in Seq(Bytes), NEW p, NEW T, NEW at, NEW o,
           Walk(s, p, T, at, o)
    PROVE  Walk(s \o c, p, T, at, o)
  <1> DEFINE z == s \o c
  <1>1. p \in 1 .. Len(s) + 1 /\ p \in T /\ 1 \in T /\ T \subseteq 1 .. p
        /\ (\A t \in T \ {p} : \E u \in T : NextBoundary(s, t) = {u})
        /\ (\A C : Closed(s, C) => T \subseteq C)
        /\ at \in [1 .. Len(o) -> T \ {p}]
        /\ (\A i \in 1 .. Len(o) : PacketAt(s, at[i]) /\ o[i] = Packet(s, at[i]))
        /\ (\A t \in T \ {p} : PacketAt(s, t) => \E i \in 1 .. Len(o) : at[i] = t)
    BY DEF Walk
  <1>2. \A t \in T : t \in Nat \ {0}
    BY <1>1
  <1>3. p \in 1 .. Len(z) + 1
    BY <1>1, FromExtends
  <1>4. ASSUME NEW t \in T \ {p}
        PROVE  /\ \E u \in T : NextBoundary(z, t) = {u}
               /\ PacketAt(z, t) <=> PacketAt(s, t)
               /\ PacketAt(s, t) => Packet(z, t) = Packet(s, t)
    <2>1. PICK u \in T : NextBoundary(s, t) = {u}
      BY <1>1
    <2>2. t \in Nat \ {0} /\ u \in NextBoundary(s, t)
      BY <1>2, <2>1
    <2>3. /\ NextBoundary(z, t) = {u}
          /\ PacketAt(z, t) <=> PacketAt(s, t)
          /\ PacketAt(s, t) =>
                 /\ SizeAt(z, t) = SizeAt(s, t)
                 /\ SubSeq(z, t, t + SizeAt(s, t) - 1) = SubSeq(s, t, t + SizeAt(s, t) - 1)
      BY <2>2, NextExtends, ZenonT(60)
    <2> HIDE DEF z
    <2> QED BY <2>3 DEF Packet
  <1>5. ASSUME NEW C, Closed(z, C) PROVE T \subseteq C
    <2> DEFINE D == C \intersect (Nat \ {0})
    <2>1. 1 \in D
      BY <1>5 DEF Closed
    <2>2. ASSUME NEW q \in D, NEW u \in NextBoundary(s, q) PROVE u \in D
      <3>1. q \in C /\ q \in Nat \ {0}
        OBVIOUS
      <3>2. u \in NextBoundary(z, q)
        BY <2>2, <3>1, NextExtends
      <3>3. u \in C
        BY <1>5, <3>1, <3>2 DEF Closed
      <3>4. u \in q + 1 .. Len(s) + 1
        BY <2>2, <3>1, NextLater
      <3> QED BY <3>1, <3>3, <3>4
    <2>3. Closed(s, D)
      BY <2>1, <2>2 DEF Closed
    <2>4. T \subseteq D
      BY <1>1, <2>3, Zenon
    <2> QED BY <2>4
  <1> HIDE DEF z
  <1>6. \A i \in 1 .. Len(o) : at[i] \in T \ {p}
    BY <1>1
  <1>7. \A i \in 1 .. Len(o) : PacketAt(z, at[i]) /\ o[i] = Packet(z, at[i])
    BY <1>1, <1>4, <1>6, Zenon
  <1>8. \A t \in T \ {p} : PacketAt(z, t) => \E i \in 1 .. Len(o) : at[i] = t
    BY <1>1, <1>4, Zenon
  <1>9. \A i, j \in 1 .. Len(o) : i < j => at[i] < at[j]
    BY DEF Walk
  <1>10. Walk(z, p, T, at, o)
    BY <1>1, <1>3, <1>4, <1>5, <1>7, <1>8, <1>9, Zenon DEF Walk
  <1> QED BY <1>10 DEF z

\* A byte that is dropped is a step of the walk without a packet.
LEMMA WalkDrop ==
    ASSUME NEW s \in Seq(Bytes), NEW p, NEW T, NEW at, NEW o, Walk(s, p, T, at, o),
           NEW u, NextBoundary(s, p) = {u}, ~PacketAt(s, p)
    PROVE  Walk(s, u, T \union {u}, at, o)
  <1> DEFINE V == T \union {u}
  <1>1. p \in 1 .. Len(s) + 1 /\ p \in T /\ 1 \in T /\ T \subseteq 1 .. p
        /\ (\A t \in T \ {p} : \E v \in T : NextBoundary(s, t) = {v})
        /\ (\A C : Closed(s, C) => T \subseteq C)
        /\ at \in [1 .. Len(o) -> T \ {p}]
        /\ (\A t \in T \ {p} : PacketAt(s, t) => \E i \in 1 .. Len(o) : at[i] = t)
    BY DEF Walk
  <1>2. p \in Nat \ {0} /\ u \in p + 1 .. Len(s) + 1 /\ Len(s) \in Nat
    <2>1. p \in Nat \ {0} /\ Len(s) \in Nat
      BY <1>1, LenProperties
    <2> QED BY <2>1, NextLater
  <1>3. u \in 1 .. Len(s) + 1 /\ V \subseteq 1 .. u /\ V \ {u} = T
    BY <1>1, <1>2
  <1>4. \A t \in V \ {u} : \E v \in V : NextBoundary(s, t) = {v}
    BY <1>1, <1>3
  <1>5. ASSUME NEW C, Closed(s, C) PROVE V \subseteq C
    BY <1>1, <1>5 DEF Closed
  <1>6. at \in [1 .. Len(o) -> V \ {u}]
    <2> HIDE DEF V
    <2> QED BY <1>1, <1>3
  <1>7. \A t \in V \ {u} : PacketAt(s, t) => \E i \in 1 .. Len(o) : at[i] = t
    BY <1>1, <1>3
  <1>8. u \in V /\ 1 \in V
    BY <1>1
  <1> HIDE DEF V
  <1>9. (\A i, j \in 1 .. Len(o) : i < j => at[i] < at[j])
        /\ (\A i \in 1 .. Len(o) : PacketAt(s, at[i]) /\ o[i] = Packet(s, at[i]))
    BY DEF Walk
  <1>10. Walk(s, u, V, at, o)
    BY <1>3, <1>4, <1>5, <1>6, <1>7, <1>8, <1>9, Zenon DEF Walk
  <1> QED BY <1>10 DEF V

\* A packet that is given out is a step of the walk with this packet.
LEMMA WalkPacket ==
    ASSUME NEW s \in Seq(Bytes), NEW p, NEW T, NEW at, NEW o \in Seq(Seq(Bytes)),
           Walk(s, p, T, at, o), NEW u, NextBoundary(s, p) = {u}, PacketAt(s, p),
           Packet(s, p) \in Seq(Bytes)
    PROVE  \E to : Walk(s, u, T \union {u}, to, Append(o, Packet(s, p)))
  <1> DEFINE V == T \union {u}
             k == Len(o)
             e == Packet(s, p)
             w == Append(o, e)
             to == [i \in 1 .. k + 1 |-> IF i = k + 1 THEN p ELSE at[i]]
  <1>1. p \in 1 .. Len(s) + 1 /\ p \in T /\ 1 \in T /\ T \subseteq 1 .. p
        /\ (\A t \in T \ {p} : \E v \in T : NextBoundary(s, t) = {v})
        /\ (\A C : Closed(s, C) => T \subseteq C)
        /\ at \in [1 .. Len(o) -> T \ {p}]
        /\ (\A i, j \in 1 .. Len(o) : i < j => at[i] < at[j])
        /\ (\A i \in 1 .. Len(o) : PacketAt(s, at[i]) /\ o[i] = Packet(s, at[i]))
        /\ (\A t \in T \ {p} : PacketAt(s, t) => \E i \in 1 .. Len(o) : at[i] = t)
    BY DEF Walk
  <1>2. p \in Nat \ {0} /\ u \in p + 1 .. Len(s) + 1 /\ Len(s) \in Nat
    <2>1. p \in Nat \ {0} /\ Len(s) \in Nat
      BY <1>1, LenProperties
    <2> QED BY <2>1, NextLater
  <1>3. u \in 1 .. Len(s) + 1 /\ V \subseteq 1 .. u /\ V \ {u} = T
    BY <1>1, <1>2
  <1>4. \A t \in V \ {u} : \E v \in V : NextBoundary(s, t) = {v}
    BY <1>1, <1>3
  <1>5. ASSUME NEW C, Closed(s, C) PROVE V \subseteq C
    BY <1>1, <1>5 DEF Closed
  <1>6. u \in V /\ 1 \in V
    BY <1>1
  <1>7. k \in Nat /\ Len(w) = k + 1 /\ (\A i \in 1 .. k : w[i] = o[i]) /\ w[k + 1] = e
    <2> HIDE DEF e
    <2> QED BY AppendProperties, LenProperties DEF e
  <1> HIDE DEF e, w, k
  <1>8. \A i \in 1 .. k : i \in 1 .. k + 1 /\ to[i] = at[i] /\ at[i] \in T \ {p} /\ at[i] \in Nat
                          /\ at[i] < p
    <2>1. \A i \in 1 .. k : i \in 1 .. k + 1 /\ i # k + 1
      BY <1>7
    <2>2. \A i \in 1 .. k : at[i] \in T \ {p}
      BY <1>1 DEF k
    <2>3. \A t \in T \ {p} : t \in Nat /\ t < p
      BY <1>1, <1>2
    <2> QED BY <2>1, <2>2, <2>3
  <1>9. to[k + 1] = p /\ k + 1 \in 1 .. k + 1 /\ \A i \in 1 .. k + 1 : i \in 1 .. k \/ i = k + 1
    BY <1>7
  <1>10. to \in [1 .. k + 1 -> T]
    BY <1>1, <1>8, <1>9
  <1> HIDE DEF to, V
  <1>11. to \in [1 .. Len(w) -> V \ {u}]
    BY <1>3, <1>7, <1>10
  <1>12. \A i, j \in 1 .. k + 1 : i < j => to[i] < to[j]
    <2> SUFFICES ASSUME NEW i \in 1 .. k + 1, NEW j \in 1 .. k + 1, i < j PROVE to[i] < to[j]
      OBVIOUS
    <2>1. i \in 1 .. k
      BY <1>7
    <2>2. CASE j \in 1 .. k
      BY <1>1, <1>8, <2>1, <2>2 DEF k
    <2>3. CASE j = k + 1
      BY <1>8, <1>9, <2>1, <2>3
    <2> QED BY <1>9, <2>2, <2>3
  <1>13. \A i \in 1 .. k + 1 : PacketAt(s, to[i]) /\ w[i] = Packet(s, to[i])
    <2> SUFFICES ASSUME NEW i \in 1 .. k + 1 PROVE PacketAt(s, to[i]) /\ w[i] = Packet(s, to[i])
      OBVIOUS
    <2>1. CASE i \in 1 .. k
      BY <1>1, <1>7, <1>8, <2>1, Zenon DEF k
    <2>2. CASE i = k + 1
      BY <1>7, <1>9, <2>2, Zenon DEF e
    <2> QED BY <1>9, <2>1, <2>2
  <1>14. \A t \in V \ {u} : PacketAt(s, t) => \E i \in 1 .. k + 1 : to[i] = t
    <2> SUFFICES ASSUME NEW t \in T, PacketAt(s, t) PROVE \E i \in 1 .. k + 1 : to[i] = t
      BY <1>3
    <2>1. CASE t = p
      BY <1>9, <2>1, Zenon
    <2>2. CASE t # p
      <3>1. PICK i \in 1 .. k : at[i] = t
        BY <1>1, <2>2 DEF k
      <3> QED BY <1>8, <3>1, Zenon
    <2> QED BY <2>1, <2>2
  <1>15. /\ \A i, j \in 1 .. Len(w) : i < j => to[i] < to[j]
         /\ \A i \in 1 .. Len(w) : PacketAt(s, to[i]) /\ w[i] = Packet(s, to[i])
         /\ \A t \in V \ {u} : PacketAt(s, t) => \E i \in 1 .. Len(w) : to[i] = t
    BY <1>7, <1>12, <1>13, <1>14, Zenon
  <1>16. Walk(s, u, V, to, w)
    BY <1>3, <1>4, <1>5, <1>6, <1>11, <1>15, Zenon DEF Walk
  <1> QED BY <1>16 DEF V, w, e

\* A round goes on with the walk.
LEMMA ParsedRound ==
    ASSUME NEW s \in Seq(Bytes), NEW o \in Seq(Seq(Bytes)), NEW r \in Framing,
           Parsed(s, r.acc, o \o r.out)
    PROVE  Parsed(s, Round(r).acc, o \o Round(r).out)
  <1> DEFINE a == r.acc
             size == DeclaredSize(a)
             w == o \o r.out
  <1>1. PICK p, T, at : Walk(s, p, T, at, w) /\ a = From(s, p)
    BY DEF Parsed
  <1>2. p \in 1 .. Len(s) + 1 /\ Len(s) \in Nat
    BY <1>1, LenProperties DEF Walk
  <1>3. r.out \in Seq(Seq(Bytes)) /\ a \in Seq(Bytes) /\ w \in Seq(Seq(Bytes))
    BY ConcatProperties DEF Framing
  <1>4. Len(a) = Len(s) - p + 1 /\ HdrLen \in Nat /\ HdrLen >= 2 /\ Len(a) \in Nat
    <2> HIDE DEF a
    <2>1. Len(From(s, p)) = Len(s) - p + 1
      BY <1>2, FromBytes
    <2>2. Len(a) \in Nat
      BY <1>3, LenProperties
    <2> QED BY <1>1, <2>1, <2>2, HeaderAssumption
  <1>5. CASE Round(r) = r
    BY <1>5
  <1>6. CASE /\ Len(a) >= HdrLen /\ ~VersionOk(a)
             /\ Round(r) = [acc |-> Tail(a), out |-> r.out, errors |-> r.errors + 1]
    <2>1. ~PacketAt(s, p) /\ NextBoundary(s, p) = {p + 1} /\ p + 1 \in p + 1 .. Len(s) + 1
      BY <1>1, <1>2, <1>6, NextCases
    <2>2. Walk(s, p + 1, T \union {p + 1}, at, w)
      <3> HIDE DEF w
      <3> QED BY <1>1, <2>1, WalkDrop
    <2>3. Tail(a) = From(s, p + 1)
      <3>1. p \in 1 .. Len(s) /\ Len(s) \in p .. Len(s)
        BY <1>2, <2>1
      <3>2. Tail(SubSeq(s, p, Len(s))) = SubSeq(s, p + 1, Len(s))
        BY <3>1, HeadTailOfSubSeq
      <3> QED BY <1>1, <3>2 DEF From
    <2>4. Round(r).acc = Tail(a) /\ Round(r).out = r.out
      BY <1>6
    <2>5. Parsed(s, Tail(a), w)
      <3> HIDE DEF a, w
      <3> QED BY <2>2, <2>3, Zenon DEF Parsed
    <2> QED BY <2>4, <2>5
  <1>7. CASE /\ Len(a) >= HdrLen /\ VersionOk(a) /\ Len(a) >= size
             /\ Round(r) = [acc |-> SubSeq(a, size + 1, Len(a)),
                            out |-> Append(r.out, SubSeq(a, 1, size)), errors |-> r.errors]
    <2>1. /\ PacketAt(s, p) /\ NextBoundary(s, p) = {p + size} /\ SizeAt(s, p) = size
          /\ p + size \in p + 1 .. Len(s) + 1
      BY <1>1, <1>2, <1>7, NextCases
    <2>2. size \in Nat /\ size > 1
      BY <1>3, <1>4, <1>7, SizeType
    <2>3. SubSeq(a, 1, size) = Packet(s, p) /\ SubSeq(a, 1, size) \in Seq(Bytes)
          /\ SubSeq(a, size + 1, Len(a)) = From(s, p + size)
      <3> HIDE DEF size, a
      <3> DEFINE n == Len(s)
                 m == n - p + 1
      <3>0. n \in Nat /\ p \in 1 .. n /\ n \in 1 .. n /\ m \in Nat /\ size \in 1 .. m /\ Len(a) = m
        BY <1>2, <1>4, <1>7, <2>1, <2>2
      <3>1. 1 \in 1 .. n - p + 1 /\ size \in 1 .. n - p + 1
        BY <3>0
      <3>2. SubSeq(SubSeq(s, p, n), 1, size) = SubSeq(s, p + 1 - 1, p + size - 1)
        BY <3>0, <3>1, SubSeqOfSubSeq
      <3>3. p + 1 - 1 = p
        BY <1>2
      <3>4. SubSeq(a, 1, size) = Packet(s, p)
        BY <1>1, <2>1, <3>2, <3>3 DEF From, Packet
      <3>5. SubSeq(a, 1, size) \in Seq(Bytes)
        <4>1. \A i \in 1 .. size : a[i] \in Bytes
          BY <1>3, <3>0, ElementOfSeq
        <4> QED BY <2>2, <4>1, SubSeqProperties
      <3>6. SubSeq(a, size + 1, Len(a)) = From(s, p + size)
        <4>1. CASE size = m
          <5>1. SubSeq(a, size + 1, Len(a)) = << >>
            BY <1>4, <2>2, <3>0, <4>1, SubSeqEmpty
          <5>2. SubSeq(s, p + size, n) = << >>
            BY <1>2, <2>2, <3>0, <4>1, SubSeqEmpty
          <5> QED BY <5>1, <5>2 DEF From
        <4>2. CASE size # m
          <5>1. size + 1 \in 1 .. n - p + 1 /\ m \in 1 .. n - p + 1
            <6>1. size + 1 \in 1 .. m /\ m \in 1 .. m
              <7> HIDE DEF m
              <7> QED BY <3>0, <4>2
            <6> QED BY <6>1
          <5> DEFINE k == size + 1
          <5>2. p + k - 1 = p + size /\ p + m - 1 = n
            BY <1>2, <2>2, <3>0
          <5>3. k \in 1 .. n - p + 1
            BY <5>1
          <5> HIDE DEF k, m
          <5>4. SubSeq(SubSeq(s, p, n), k, m) = SubSeq(s, p + k - 1, p + m - 1)
            BY <3>0, <5>1, <5>3, SubSeqOfSubSeq
          <5>5. SubSeq(a, k, m) = From(s, p + size)
            BY <1>1, <5>2, <5>4 DEF From
          <5> QED BY <3>0, <5>5 DEF k
        <4> QED BY <4>1, <4>2
      <3> QED BY <3>4, <3>5, <3>6
    <2> DEFINE e == SubSeq(a, 1, size)
               b == SubSeq(a, size + 1, Len(a))
    <2>4. Round(r) = [acc |-> b, out |-> Append(r.out, e), errors |-> r.errors]
      BY <1>7
    <2>6. e = Packet(s, p) /\ e \in Seq(Bytes) /\ b = From(s, p + size)
      BY <2>3
    <2>5. o \o Append(r.out, e) = Append(w, e)
      <3> HIDE DEF e
      <3> QED BY <1>3, <2>6, ConcatAppend, SMTT(30)
    <2> HIDE DEF e, b, w, size, a
    <2>7. PICK to : Walk(s, p + size, T \union {p + size}, to, Append(w, e))
      BY <1>1, <1>3, <2>1, <2>6, WalkPacket
    <2>8. Parsed(s, b, Append(w, e))
      BY <2>6, <2>7, Zenon DEF Parsed
    <2>9. Round(r).acc = b /\ Round(r).out = Append(r.out, e)
      BY <2>4
    <2> QED BY <2>5, <2>8, <2>9
  <1> QED BY <1>5, <1>6, <1>7, RoundCases

\* Where nothing follows any more, all boundaries have been passed and all packets
\* given out.
LEMMA ParsedEnd ==
    ASSUME NEW s \in Seq(Bytes), NEW a, NEW o \in Seq(Seq(Bytes)), Parsed(s, a, o), Stuck(a)
    PROVE  LET starts == {p \in Boundaries(s) : PacketAt(s, p)}
           IN \E at \in [DOMAIN o -> starts] :
                 /\ \A i, j \in DOMAIN o : i < j => at[i] < at[j]
                 /\ \A p \in starts : \E i \in DOMAIN o : at[i] = p
                 /\ \A i \in DOMAIN o : o[i] = SubSeq(s, at[i], at[i] + SizeAt(s, at[i]) - 1)
  <1> DEFINE starts == {p \in Boundaries(s) : PacketAt(s, p)}
  <1>1. PICK p, T, at : Walk(s, p, T, at, o) /\ a = From(s, p)
    BY DEF Parsed
  <1>2. p \in 1 .. Len(s) + 1 /\ p \in T /\ 1 \in T
        /\ (\A t \in T \ {p} : \E u \in T : NextBoundary(s, t) = {u})
        /\ (\A C : Closed(s, C) => T \subseteq C)
        /\ at \in [1 .. Len(o) -> T \ {p}]
        /\ (\A i, j \in 1 .. Len(o) : i < j => at[i] < at[j])
        /\ (\A i \in 1 .. Len(o) : PacketAt(s, at[i]) /\ o[i] = Packet(s, at[i]))
        /\ (\A t \in T \ {p} : PacketAt(s, t) => \E i \in 1 .. Len(o) : at[i] = t)
    BY <1>1 DEF Walk
  <1>3. NextBoundary(s, p) = {}
    BY <1>1, <1>2, NextCases
  <1>4. ~PacketAt(s, p)
    BY <1>3 DEF NextBoundary
  <1>5. Closed(s, T)
    <2>1. ASSUME NEW q \in T PROVE NextBoundary(s, q) \subseteq T
      <3>1. CASE q = p
        BY <1>3, <3>1
      <3>2. CASE q # p
        <4>1. PICK u \in T : NextBoundary(s, q) = {u}
          BY <1>2, <3>2
        <4> QED BY <4>1
      <3> QED BY <3>1, <3>2
    <2> QED BY <1>2, <2>1 DEF Closed
  <1>6. T = Boundaries(s)
    <2>1. Boundaries(s) \subseteq T
      BY <1>5, BoundariesLeast, Zenon
    <2>2. T \subseteq Boundaries(s)
      BY <1>2, BoundariesLeast, Zenon
    <2> QED BY <2>1, <2>2
  <1>7. DOMAIN o = 1 .. Len(o)
    BY LenProperties
  <1>8. \A i \in 1 .. Len(o) : at[i] \in starts
    <2>1. \A i \in 1 .. Len(o) : at[i] \in T
      BY <1>2
    <2> QED BY <1>2, <1>6, <2>1, Zenon
  <1>9. \A q \in starts : q \in T \ {p} /\ PacketAt(s, q)
    BY <1>4, <1>6
  <1> HIDE DEF starts
  <1>10. at \in [DOMAIN o -> starts]
    BY <1>2, <1>7, <1>8
  <1>11. \A q \in starts : \E i \in DOMAIN o : at[i] = q
    BY <1>2, <1>7, <1>9, Zenon
  <1>12. \A i \in DOMAIN o : o[i] = SubSeq(s, at[i], at[i] + SizeAt(s, at[i]) - 1)
    BY <1>2, <1>7, Zenon DEF Packet
  <1>13. \A i, j \in DOMAIN o : i < j => at[i] < at[j]
    BY <1>2, <1>7, Zenon
  <1> QED BY <1>10, <1>11, <1>12, <1>13, Zenon DEF starts

------------------------------------------------------------------------------
(* Bytes in, packets out.                                                   *)

\* Between two reads: the types, the walk over the stream, and nothing that could
\* be given out is kept.
FramerInv ==
    /\ stream \in Seq(Bytes) /\ acc_ \in Seq(Bytes) /\ out \in Seq(Seq(Bytes))
    /\ framing_errors_ \in Nat
    /\ Parsed(stream, acc_, out) /\ Stuck(acc_)

\* A read keeps it.
LEMMA FramerRead ==
    ASSUME FramerInv, NEW c \in Seq(Bytes), Read(c)
    PROVE  FramerInv'
  <1> DEFINE a == acc_ \o c
             s == stream \o c
             r == Drain(a)
             I == {v \in Framing : Parsed(s, v.acc, out \o v.out)}
             x == [acc |-> a, out |-> << >>, errors |-> 0]
  <1>1. stream \in Seq(Bytes) /\ acc_ \in Seq(Bytes) /\ out \in Seq(Seq(Bytes)) /\ framing_errors_ \in Nat
    BY DEF FramerInv
  <1>2. a \in Seq(Bytes) /\ s \in Seq(Bytes)
    BY <1>1, ConcatProperties
  <1>3. Parsed(s, a, out)
    <2>1. PICK p, T, at : Walk(stream, p, T, at, out) /\ acc_ = From(stream, p)
      BY DEF FramerInv, Parsed
    <2>2. Walk(s, p, T, at, out)
      BY <1>1, <2>1, WalkExtends
    <2>3. p \in 1 .. Len(stream) + 1
      BY <2>1 DEF Walk
    <2>4. From(s, p) = a
      BY <1>1, <2>1, <2>3, FromExtends
    <2> HIDE DEF s, a
    <2> QED BY <2>2, <2>4, Zenon DEF Parsed
  <1>4. acc_' = r.acc /\ out' = out \o r.out /\ framing_errors_' = framing_errors_ + r.errors /\ stream' = s
    BY DEF Read, PushBytes
  <1> HIDE DEF a, s
  <1>5. x \in I
    <2>1. << >> \in Seq(Seq(Bytes)) /\ 0 \in Nat
      BY EmptySeq
    <2>2. x \in Framing
      BY <1>2, <2>1 DEF Framing
    <2>3. out \o << >> = out
      BY <1>1, ConcatEmptySeq
    <2>4. x.acc = a /\ x.out = << >>
      OBVIOUS
    <2> HIDE DEF x
    <2> QED BY <1>3, <2>2, <2>3, <2>4
  <1>6. \A v \in I : Round(v) \in I
    BY <1>1, <1>2, RoundType, ParsedRound
  <1> HIDE DEF I
  <1>7. I \subseteq Framing
    BY DEF I
  <1>8. r \in I /\ Stuck(r.acc)
    BY <1>2, <1>5, <1>6, <1>7, DrainRule
  <1> HIDE DEF r
  <1>9. r \in Framing /\ Parsed(s, r.acc, out \o r.out)
    BY <1>8 DEF I
  <1>10. r.acc \in Seq(Bytes) /\ r.out \in Seq(Seq(Bytes)) /\ r.errors \in Nat
    BY <1>9 DEF Framing
  <1>11. out \o r.out \in Seq(Seq(Bytes)) /\ framing_errors_ + r.errors \in Nat
    BY <1>1, <1>10, ConcatProperties
  <1> QED BY <1>2, <1>4, <1>8, <1>9, <1>10, <1>11 DEF FramerInv

\* It holds before the first read.
LEMMA FramerStart == Init => FramerInv
  <1> SUFFICES ASSUME Init PROVE FramerInv
    OBVIOUS
  <1> DEFINE e == << >>
             T == {1}
             at == [i \in 1 .. 0 |-> 1]
  <1>1. stream = e /\ acc_ = e /\ out = e /\ framing_errors_ = 0
    BY DEF Init
  <1>2. e \in Seq(Bytes) /\ e \in Seq(Seq(Bytes)) /\ Len(e) = 0
    BY EmptySeq
  <1>3. From(e, 1) = e
    BY <1>2, SubSeqEmpty DEF From
  <1>4. Walk(e, 1, T, at, e)
    <2>1. 1 \in 1 .. Len(e) + 1 /\ 1 \in T /\ T \subseteq 1 .. 1
      BY <1>2
    <2>2. \A C : Closed(e, C) => T \subseteq C
      BY DEF Closed
    <2>3. at \in [1 .. Len(e) -> T \ {1}] /\ \A i \in 1 .. Len(e) : FALSE
      BY <1>2
    <2>4. \A t \in T \ {1} : FALSE
      OBVIOUS
    <2> HIDE DEF e, T, at
    <2> QED BY <2>1, <2>2, <2>3, <2>4 DEF Walk
  <1>5. Parsed(e, e, e)
    <2> HIDE DEF e, T, at
    <2> QED BY <1>3, <1>4, Zenon DEF Parsed
  <1>6. Stuck(e)
    BY <1>2, HeaderAssumption DEF Stuck
  <1> HIDE DEF e
  <1> QED BY <1>1, <1>2, <1>5, <1>6 DEF FramerInv

\* Only the daemon's reads of the link touch the framer.
LEMMA FramerStep == FramerInv /\ [RxNext]_rxVars => FramerInv'
  <1> SUFFICES ASSUME FramerInv, [RxNext]_rxVars PROVE FramerInv'
    OBVIOUS
  <1>1. ASSUME NEW n \in 1 .. MaxChunk, NEW c \in [1 .. n -> Bytes], ReadLink(c) PROVE FramerInv'
    <2>1. n \in Nat
      BY StreamAssumption
    <2>2. c \in Seq(Bytes)
      BY <2>1, SeqDef
    <2>3. Read(c)
      BY <1>1 DEF ReadLink
    <2> QED BY <2>2, <2>3, FramerRead
  <1>2. ASSUME UNCHANGED <<acc_, framing_errors_, out, stream>> PROVE FramerInv'
    BY <1>2 DEF FramerInv
  <1>3. CASE Connects
    BY <1>2, <1>3 DEF Connects, vars
  <1>4. CASE SendPacket
    BY <1>2, <1>4 DEF SendPacket
  <1>5. ASSUME NEW n, Loses(n) PROVE FramerInv'
    BY <1>2, <1>5 DEF Loses, vars
  <1>9. CASE LateReadFails
    BY <1>2, <1>9 DEF LateReadFails, vars
  <1>6. ASSUME NEW n, ReadUi(n) PROVE FramerInv'
    BY <1>2, <1>6 DEF ReadUi, vars
  <1>7. ASSUME NEW n, ReadSession(n) PROVE FramerInv'
    BY <1>2, <1>7 DEF ReadSession, vars
  <1>8. CASE UNCHANGED rxVars
    BY <1>2, <1>8 DEF rxVars, vars
  <1> QED BY <1>1, <1>3, <1>4, <1>5, <1>6, <1>7, <1>8, <1>9, Zenon DEF RxNext

\* The packets handed over are those that stand in the bytes read, each once and in
\* order, for streams of any length and reads of any size.
THEOREM PacketsAreTheStreams == RxSpec => []PacketsOfStream
  <1>1. FramerInv => PacketsOfStream
    BY ParsedEnd DEF FramerInv, PacketsOfStream
  <1>2. RxInit => FramerInv
    BY FramerStart DEF RxInit
  <1> QED BY <1>1, <1>2, FramerStep, PTL DEF RxSpec

------------------------------------------------------------------------------
(* Flattening: the bytes of several packets, or of several frames.          *)

\* The loop behind FlattenSeq.
Joining(S, o) == [i \in Nat |-> [v \in Seq(S) |-> IF i \in 1 .. Len(o) THEN v \o o[i] ELSE v]]

\* What a round of it does.
LEMMA JoiningRound ==
    ASSUME NEW S, NEW o \in Seq(Seq(S))
    PROVE  /\ Stays(Seq(S), Joining(S, o))
           /\ \A i \in 1 .. Len(o) : \A v \in Seq(S) : Joining(S, o)[i][v] = v \o o[i]
  <1> DEFINE g == Joining(S, o)
  <1>1. Len(o) \in Nat /\ \A i \in 1 .. Len(o) : o[i] \in Seq(S)
    BY LenProperties, ElementOfSeq
  <1>2. \A i \in Nat : \A v \in Seq(S) : g[i][v] = IF i \in 1 .. Len(o) THEN v \o o[i] ELSE v
    BY DEF Joining
  <1> HIDE DEF g
  <1>3. \A i \in Nat : \A v \in Seq(S) : g[i][v] \in Seq(S)
    <2> SUFFICES ASSUME NEW i \in Nat, NEW v \in Seq(S) PROVE g[i][v] \in Seq(S)
      OBVIOUS
    <2>1. CASE i \in 1 .. Len(o)
      <3>1. v \o o[i] \in Seq(S)
        BY <1>1, <2>1, ConcatProperties
      <3> QED BY <1>2, <2>1, <3>1
    <2>2. CASE i \notin 1 .. Len(o)
      BY <1>2, <2>2
    <2> QED BY <2>1, <2>2
  <1>4. \A i \in 1 .. Len(o) : i \in Nat
    BY <1>1
  <1> QED BY <1>2, <1>3, <1>4 DEF Stays, g

\* FlattenSeq is what this loop ends with.
LEMMA FlattenLoop ==
    ASSUME NEW S, NEW o \in Seq(Seq(S))
    PROVE  \E f : Rounds(f, Seq(S), << >>, Joining(S, o), Len(o)) /\ FlattenSeq(o) = f[Len(o)]
  <1> DEFINE n == Len(o)
             g == Joining(S, o)
  <1>1. n \in Nat /\ << >> \in Seq(S) /\ Stays(Seq(S), g)
        /\ \A i \in 1 .. n : \A v \in Seq(S) : g[i][v] = v \o o[i]
    BY LenProperties, EmptySeq, JoiningRound
  <1>2. PICK f : Rounds(f, Seq(S), << >>, g, n)
    <2> DEFINE Q == Seq(S)
    <2>1. << >> \in Q /\ Stays(Q, g)
      BY <1>1
    <2> HIDE DEF Q, g, n
    <2>2. \E f : Rounds(f, Q, << >>, g, n)
      BY <1>1, <2>1, Loop, Zenon
    <2> QED BY <2>2 DEF Q
  <1> HIDE DEF g
  <1>3. f \in [0 .. n -> Seq(S)] /\ f[0] = << >> /\ \A i \in 1 .. n : f[i] = g[i][f[i - 1]]
    BY <1>2 DEF Rounds
  <1>4. \A i \in 1 .. n : i - 1 \in 0 .. n /\ f[i - 1] \in Seq(S) /\ f[i] = f[i - 1] \o o[i]
    <2>1. \A i \in 1 .. n : i - 1 \in 0 .. n
      BY <1>1
    <2>2. \A i \in 1 .. n : f[i - 1] \in Seq(S)
      BY <1>3, <2>1
    <2>3. \A i \in 1 .. n : f[i] = f[i - 1] \o o[i]
      BY <1>1, <1>3, <2>2
    <2> QED BY <2>1, <2>2, <2>3
  <1>5. CASE n = 0
    <2>1. o = << >>
      BY <1>5, EmptySeq
    <2>2. FlattenSeq(o) = o
      BY <1>5 DEF FlattenSeq
    <2> QED BY <1>2, <1>3, <1>5, <2>1, <2>2 DEF g
  <1>6. CASE n # 0
    <2> DEFINE h == CHOOSE w : w = [i \in 1 .. n |-> IF i = 1 THEN o[i] ELSE w[i - 1] \o o[i]]
               k == [i \in 1 .. n |-> f[i]]
    <2>1. FlattenSeq(o) = h[n]
      BY <1>6 DEF FlattenSeq
    <2> HIDE DEF h
    <2>2. k = [i \in 1 .. n |-> IF i = 1 THEN o[i] ELSE k[i - 1] \o o[i]]
      <3>1. ASSUME NEW i \in 1 .. n PROVE f[i] = IF i = 1 THEN o[i] ELSE k[i - 1] \o o[i]
        <4>1. CASE i = 1
          <5>1. f[1] = << >> \o o[1]
            <6>1. 1 \in 1 .. n /\ 1 - 1 = 0
              BY <1>1, <4>1
            <6> QED BY <1>3, <1>4, <6>1
          <5>2. o[1] \in Seq(S)
            BY <4>1, ElementOfSeq
          <5> QED BY <4>1, <5>1, <5>2, ConcatEmptySeq
        <4>2. CASE i # 1
          <5>1. i - 1 \in 1 .. n
            BY <1>1, <4>2
          <5>2. k[i - 1] = f[i - 1]
            BY <5>1
          <5> QED BY <1>4, <4>2, <5>2
        <4> QED BY <4>1, <4>2
      <3> QED BY <3>1, Zenon
    <2> HIDE DEF k
    <2>3. h = [i \in 1 .. n |-> IF i = 1 THEN o[i] ELSE h[i - 1] \o o[i]]
      BY <2>2, Zenon DEF h
    <2>4. \A i \in 1 .. n : h[i] = IF i = 1 THEN o[i] ELSE h[i - 1] \o o[i]
      BY <2>3, Zenon
    <2>5. \A i \in 1 .. n : k[i] = IF i = 1 THEN o[i] ELSE k[i - 1] \o o[i]
      BY <2>2, Zenon
    <2> DEFINE P == {i \in Nat : i + 1 \in 1 .. n => h[i + 1] = k[i + 1]}
    <2>6. 0 \in P
      <3>1. 1 \in 1 .. n
        BY <1>1, <1>6
      <3>2. h[1] = k[1]
        BY <2>4, <2>5, <3>1
      <3> QED BY <3>2
    <2>7. ASSUME NEW i \in Nat, i \in P PROVE i + 1 \in P
      <3> SUFFICES ASSUME (i + 1) + 1 \in 1 .. n PROVE h[(i + 1) + 1] = k[(i + 1) + 1]
        OBVIOUS
      <3> DEFINE j == (i + 1) + 1
      <3>1. i + 1 \in 1 .. n /\ j - 1 = i + 1 /\ j # 1 /\ j \in 1 .. n
        BY <1>1
      <3>2. h[i + 1] = k[i + 1]
        BY <2>7, <3>1
      <3> HIDE DEF j
      <3>3. h[j] = h[i + 1] \o o[j] /\ k[j] = k[i + 1] \o o[j]
        BY <2>4, <2>5, <3>1
      <3>4. h[j] = k[j]
        BY <3>2, <3>3
      <3> QED BY <3>4 DEF j
    <2> HIDE DEF P
    <2>8. n - 1 \in P
      <3>1. n - 1 \in Nat
        BY <1>1, <1>6
      <3> QED BY <2>6, <2>7, <3>1, Induction
    <2>9. h[n] = k[n]
      <3>1. n - 1 \in Nat /\ (n - 1) + 1 = n /\ n \in 1 .. n
        BY <1>1, <1>6
      <3> QED BY <2>8, <3>1 DEF P
    <2>10. k[n] = f[n]
      BY <1>1, <1>6 DEF k
    <2> QED BY <1>2, <2>1, <2>9, <2>10 DEF g
  <1> QED BY <1>5, <1>6

\* Joining nothing, and one sequence more.
LEMMA FlattenAppend ==
    ASSUME NEW S, NEW o \in Seq(Seq(S)), NEW e \in Seq(S)
    PROVE  /\ FlattenSeq(o) \in Seq(S)
           /\ FlattenSeq(Append(o, e)) = FlattenSeq(o) \o e
  <1> DEFINE n == Len(o)
             q == Append(o, e)
             g == Joining(S, o)
             d == Joining(S, q)
  <1>1. n \in Nat /\ q \in Seq(Seq(S)) /\ Len(q) = n + 1 /\ (\A i \in 1 .. n : q[i] = o[i]) /\ q[n + 1] = e
    BY AppendProperties, LenProperties
  <1> HIDE DEF q, n
  <1>2. PICK f : Rounds(f, Seq(S), << >>, g, n) /\ FlattenSeq(o) = f[n]
    BY FlattenLoop DEF n
  <1>3. PICK h : Rounds(h, Seq(S), << >>, d, n + 1) /\ FlattenSeq(q) = h[n + 1]
    BY <1>1, FlattenLoop
  <1>4. \A i \in 1 .. n : \A v \in Seq(S) : g[i][v] = v \o o[i]
    BY JoiningRound DEF n
  <1>5. \A i \in 1 .. n + 1 : \A v \in Seq(S) : d[i][v] = v \o q[i]
    <2>1. \A i \in 1 .. Len(q) : \A v \in Seq(S) : d[i][v] = v \o q[i]
      BY <1>1, JoiningRound
    <2> HIDE DEF d
    <2> QED BY <1>1, <2>1
  <1> HIDE DEF g, d
  <1>6. f \in [0 .. n -> Seq(S)] /\ f[0] = << >> /\ \A i \in 1 .. n : f[i] = g[i][f[i - 1]]
    BY <1>2 DEF Rounds
  <1>7. h \in [0 .. n + 1 -> Seq(S)] /\ h[0] = << >> /\ \A i \in 1 .. n + 1 : h[i] = d[i][h[i - 1]]
    BY <1>3 DEF Rounds
  <1> DEFINE P == {i \in Nat : i \in 0 .. n => h[i] = f[i]}
  <1>8. 0 \in P
    BY <1>6, <1>7
  <1>9. ASSUME NEW i \in Nat, i \in P PROVE i + 1 \in P
    <2> SUFFICES ASSUME i + 1 \in 0 .. n PROVE h[i + 1] = f[i + 1]
      OBVIOUS
    <2> DEFINE j == i + 1
    <2>1. j \in 1 .. n /\ j \in 1 .. n + 1 /\ j - 1 = i /\ i \in 0 .. n /\ i \in 0 .. n + 1
      BY <1>1
    <2>2. h[i] = f[i] /\ f[i] \in Seq(S)
      BY <1>6, <1>9, <2>1
    <2> HIDE DEF j
    <2>3. h[j] = d[j][h[i]] /\ f[j] = g[j][f[i]]
      BY <1>6, <1>7, <2>1
    <2>4. q[j] = o[j]
      BY <1>1, <2>1
    <2>5. d[j][f[i]] = f[i] \o q[j] /\ g[j][f[i]] = f[i] \o o[j]
      BY <1>4, <1>5, <2>1, <2>2
    <2>6. h[j] = f[j]
      BY <2>2, <2>3, <2>4, <2>5, Zenon
    <2> QED BY <2>6 DEF j
  <1> HIDE DEF P
  <1>10. n \in P
    BY <1>1, <1>8, <1>9, Induction
  <1>11. h[n] = f[n] /\ f[n] \in Seq(S)
    BY <1>1, <1>6, <1>10 DEF P
  <1>12. h[n + 1] = h[n] \o e
    <2> DEFINE j == n + 1
    <2>1. j \in 1 .. n + 1 /\ j - 1 = n
      BY <1>1
    <2> HIDE DEF j
    <2>2. h[j] = d[j][h[n]]
      BY <1>7, <2>1
    <2>3. d[j][h[n]] = h[n] \o q[j]
      BY <1>5, <1>11, <2>1
    <2> QED BY <1>1, <2>2, <2>3 DEF j
  <1> QED BY <1>2, <1>3, <1>11, <1>12 DEF q

\* Joining is joining of parts.
LEMMA FlattenConcat ==
    ASSUME NEW S, NEW o \in Seq(Seq(S)), NEW w \in Seq(Seq(S))
    PROVE  FlattenSeq(o \o w) = FlattenSeq(o) \o FlattenSeq(w)
  <1> DEFINE Q == Seq(S)
             P == {v \in Seq(Q) : FlattenSeq(o \o v) = FlattenSeq(o) \o FlattenSeq(v)}
  <1>1. << >> \in P
    <2>1. << >> \in Seq(Q) /\ o \o << >> = o
      BY EmptySeq, ConcatEmptySeq
    <2>2. FlattenSeq(<< >>) = << >>
      BY DEF FlattenSeq
    <2>3. FlattenSeq(o) \o << >> = FlattenSeq(o)
      <3>1. FlattenSeq(o) \in Seq(S)
        BY <2>1, EmptySeq, FlattenAppend
      <3> QED BY <3>1, ConcatEmptySeq
    <2> QED BY <2>1, <2>2, <2>3
  <1>2. ASSUME NEW v \in Seq(Q), NEW e \in Q, v \in P PROVE Append(v, e) \in P
    <2>1. o \o v \in Seq(Q) /\ Append(v, e) \in Seq(Q) /\ o \o Append(v, e) = Append(o \o v, e)
      BY ConcatProperties, AppendProperties, ConcatAppend, SMTT(30)
    <2>2. FlattenSeq(Append(o \o v, e)) = FlattenSeq(o \o v) \o e
      BY <2>1, FlattenAppend
    <2>3. FlattenSeq(Append(v, e)) = FlattenSeq(v) \o e /\ FlattenSeq(v) \in Seq(S)
          /\ FlattenSeq(o) \in Seq(S)
      BY FlattenAppend
    <2>4. (FlattenSeq(o) \o FlattenSeq(v)) \o e = FlattenSeq(o) \o (FlattenSeq(v) \o e)
      <3> DEFINE x == FlattenSeq(o)
                 y == FlattenSeq(v)
      <3>1. x \in Seq(S) /\ y \in Seq(S) /\ e \in Seq(S)
        BY <2>3
      <3> HIDE DEF x, y
      <3>2. (x \o y) \o e = x \o (y \o e)
        BY <3>1, ConcatAssociative, SMTT(30)
      <3> QED BY <3>2 DEF x, y
    <2>5. FlattenSeq(o \o v) = FlattenSeq(o) \o FlattenSeq(v)
      BY <1>2
    <2>6. FlattenSeq(o \o Append(v, e)) = FlattenSeq(o) \o FlattenSeq(Append(v, e))
      BY <2>1, <2>2, <2>3, <2>4, <2>5, Zenon
    <2> QED BY <2>1, <2>6
  <1>3. w \in Seq(Q)
    OBVIOUS
  <1> HIDE DEF P, Q
  <1>4. w \in P
    BY <1>1, <1>2, <1>3, SeqInduction
  <1> QED BY <1>4 DEF P

------------------------------------------------------------------------------
(* Every byte once.                                                         *)

\* The packets whose primary header is refused.
RefusedPackets == {p \in Seq(Bytes) : PrimaryRefused(p)}

\* Of n bytes, those in packets, those dropped and those kept; decode_meta accepts
\* the packets but for refused headers.
Drained(n, v) ==
    /\ n = Len(FlattenSeq(v.out)) + v.errors + Len(v.acc)
    /\ \A i \in 1 .. Len(v.out) : decode_meta(v.out[i]).ok <=> ~PrimaryRefused(v.out[i])

\* A packet that push_bytes cuts off has a header of the right version that declares
\* its length.
LEMMA CutDecodes ==
    ASSUME NEW a \in Seq(Bytes), Len(a) >= HdrLen, VersionOk(a), Len(a) >= DeclaredSize(a)
    PROVE  LET e == SubSeq(a, 1, DeclaredSize(a))
           IN /\ e \in Seq(Bytes) /\ Len(e) = DeclaredSize(a)
              /\ decode_meta(e).ok <=> ~PrimaryRefused(e)
  <1> DEFINE size == DeclaredSize(a)
             e == SubSeq(a, 1, size)
  <1>1. size \in Nat /\ size > HdrLen /\ HdrLen \in Nat /\ HdrLen >= 2
    BY SizeType
  <1> HIDE DEF size
  <1>2. \A i \in 1 .. size : a[i] \in Bytes
    BY <1>1, ElementOfSeq, LenProperties DEF size
  <1>3. e \in Seq(Bytes) /\ Len(e) = size /\ \A i \in 1 .. size : e[i] = a[i]
    <2>1. /\ e \in Seq(Bytes)
          /\ Len(e) = IF 1 <= size THEN size - 1 + 1 ELSE 0
          /\ \A i \in 1 .. size - 1 + 1 : e[i] = a[1 + i - 1]
      BY <1>1, <1>2, SubSeqProperties
    <2>2. size - 1 + 1 = size /\ 1 <= size /\ \A i \in 1 .. size : 1 + i - 1 = i
      BY <1>1
    <2> HIDE DEF e
    <2> QED BY <2>1, <2>2
  <1> HIDE DEF e
  <1>4. e[1] = a[1] /\ e[HdrLen] = a[HdrLen]
    BY <1>1, <1>3
  <1>5. VersionOk(e) /\ DeclaredSize(e) = Len(e) /\ ~(Len(e) < HdrLen)
    BY <1>1, <1>3, <1>4 DEF VersionOk, DeclaredSize, size
  <1>6. decode_meta(e).ok <=> ~PrimaryRefused(e)
    BY <1>5 DEF decode_meta
  <1> QED BY <1>3, <1>6 DEF e, size

\* A round keeps the count.
LEMMA DrainedRound ==
    ASSUME NEW n \in Nat, NEW r \in Framing, Drained(n, r)
    PROVE  Drained(n, Round(r))
  <1> DEFINE a == r.acc
             size == DeclaredSize(a)
             fl == Len(FlattenSeq(r.out))
  <1>0. a \in Seq(Bytes) /\ r.out \in Seq(Seq(Bytes)) /\ r.errors \in Nat /\ Len(a) \in Nat
        /\ HdrLen \in Nat /\ HdrLen >= 2
    BY LenProperties, HeaderAssumption DEF Framing
  <1>1. fl \in Nat
    <2>1. FlattenSeq(r.out) \in Seq(Bytes)
      BY <1>0, EmptySeq, FlattenAppend
    <2> QED BY <2>1, LenProperties
  <1>2. n = fl + r.errors + Len(a) 
        /\ \A i \in 1 .. Len(r.out) : decode_meta(r.out[i]).ok <=> ~PrimaryRefused(r.out[i])
    BY DEF Drained
  <1>3. CASE Round(r) = r
    BY <1>3
  <1>4. CASE Len(a) >= HdrLen /\ Round(r) = [acc |-> Tail(a), out |-> r.out, errors |-> r.errors + 1]
    <2>1. a # << >>
      BY <1>0, <1>4, EmptySeq
    <2>2. Len(Tail(a)) = Len(a) - 1
      BY <1>0, <2>1, HeadTailProperties
    <2>3. Round(r).acc = Tail(a) /\ Round(r).out = r.out /\ Round(r).errors = r.errors + 1
      BY <1>4
    <2> HIDE DEF a, fl
    <2>4. n = fl + (r.errors + 1) + Len(Tail(a))
      <3> DEFINE k == Len(a)
                 m == Len(Tail(a))
                 x == r.errors
      <3>1. k \in Nat /\ x \in Nat /\ m = k - 1 /\ n = fl + x + k
        BY <1>0, <1>2, <2>2
      <3> HIDE DEF k, m, x
      <3>2. n = fl + (x + 1) + m
        BY <1>1, <3>1
      <3> QED BY <3>2 DEF m, x
    <2> QED BY <1>2, <2>3, <2>4 DEF Drained, fl
  <1>5. CASE /\ Len(a) >= HdrLen /\ VersionOk(a) /\ Len(a) >= size
             /\ Round(r) = [acc |-> SubSeq(a, size + 1, Len(a)),
                            out |-> Append(r.out, SubSeq(a, 1, size)), errors |-> r.errors]
    <2> DEFINE e == SubSeq(a, 1, size)
               b == SubSeq(a, size + 1, Len(a))
               w == Append(r.out, e)
    <2>1. size \in Nat /\ size > HdrLen
      BY <1>0, <1>5, SizeType
    <2>2. e \in Seq(Bytes) /\ Len(e) = size /\ (decode_meta(e).ok <=> ~PrimaryRefused(e))
      <3> HIDE DEF a
      <3> QED BY <1>0, <1>5, CutDecodes
    <2>3. Round(r) = [acc |-> b, out |-> w, errors |-> r.errors]
      BY <1>5
    <2> HIDE DEF a, size
    <2>4. Len(b) = Len(a) - size
      BY <1>0, <1>5, <2>1
    <2> HIDE DEF e, b
    <2>5. FlattenSeq(w) = FlattenSeq(r.out) \o e /\ FlattenSeq(r.out) \in Seq(Bytes)
      BY <1>0, <2>2, FlattenAppend
    <2>6. Len(FlattenSeq(w)) = fl + size
      <3> DEFINE x == FlattenSeq(r.out)
      <3>1. x \in Seq(Bytes)
        BY <2>5
      <3> HIDE DEF x, w
      <3>2. Len(x \o e) = Len(x) + Len(e)
        BY <2>2, <3>1, ConcatProperties
      <3> QED BY <2>2, <2>5, <3>2 DEF x
    <2>7. \A i \in 1 .. Len(w) : decode_meta(w[i]).ok <=> ~PrimaryRefused(w[i])
      <3>1. Len(w) = Len(r.out) + 1 /\ Len(r.out) \in Nat /\ (\A i \in 1 .. Len(r.out) : w[i] = r.out[i])
            /\ w[Len(r.out) + 1] = e
        BY <1>0, <2>2, AppendProperties, LenProperties
      <3> HIDE DEF w
      <3>2. \A i \in 1 .. Len(w) : i \in 1 .. Len(r.out) \/ i = Len(r.out) + 1
        BY <3>1
      <3> QED BY <1>2, <2>2, <3>1, <3>2
    <2> HIDE DEF w, fl
    <2>8. n = Len(FlattenSeq(w)) + r.errors + Len(b)
      BY <1>0, <1>1, <1>2, <2>1, <2>4, <2>6
    <2>9. Round(r).acc = b /\ Round(r).out = w /\ Round(r).errors = r.errors
      BY <2>3
    <2> QED BY <2>7, <2>8, <2>9 DEF Drained
  <1> QED BY <1>3, <1>4, <1>5, RoundCases

\* So does the loop.
LEMMA DrainCounts ==
    ASSUME NEW a \in Seq(Bytes)
    PROVE  Drain(a) \in Framing /\ Drained(Len(a), Drain(a))
  <1> DEFINE n == Len(a)
             I == {v \in Framing : Drained(n, v)}
             x == [acc |-> a, out |-> << >>, errors |-> 0]
  <1>1. n \in Nat
    BY LenProperties
  <1>2. x \in I
    <2>1. << >> \in Seq(Seq(Bytes)) /\ 0 \in Nat
      BY EmptySeq
    <2>2. x \in Framing
      BY <2>1 DEF Framing
    <2>3. FlattenSeq(<< >>) = << >> /\ Len(<< >>) = 0
      BY EmptySeq DEF FlattenSeq
    <2>4. x.acc = a /\ x.out = << >> /\ x.errors = 0
      OBVIOUS
    <2>5. n = 0 + 0 + n /\ \A i \in 1 .. 0 : FALSE
      BY <1>1
    <2> HIDE DEF x
    <2>6. Drained(n, x)
      BY <2>3, <2>4, <2>5 DEF Drained
    <2> QED BY <2>2, <2>6
  <1>3. \A v \in I : Round(v) \in I
    BY <1>1, RoundType, DrainedRound
  <1>4. I \subseteq Framing
    OBVIOUS
  <1> HIDE DEF I
  <1>5. Drain(a) \in I
    BY <1>2, <1>3, <1>4, DrainRule
  <1> QED BY <1>5 DEF I

\* The last n elements: of a sequence that grows by t.
LEMMA LastNConcat ==
    ASSUME NEW S, NEW s \in Seq(S), NEW t \in Seq(S), NEW n \in Nat \ {0}
    PROVE  /\ LastN(s, n) \in Seq(S)
           /\ LastN(LastN(s, n) \o t, n) = LastN(s \o t, n)
  <1> DEFINE k == Len(s)
             m == Len(t)
             l == LastN(s, n)
             j == IF k > n THEN k - n ELSE 0
  <1>1. k \in Nat /\ m \in Nat /\ \A i \in 1 .. k : s[i] \in S
    BY LenProperties, ElementOfSeq
  <1>2. l \in Seq(S) /\ Len(l) = k - j /\ (\A i \in 1 .. k - j : l[i] = s[i + j]) /\ j \in 0 .. k
    <2>1. CASE k > n
      <3> DEFINE q == k - n + 1
      <3>1. l = SubSeq(s, q, k) /\ j = k - n
        BY <2>1 DEF LastN
      <3>2. q \in Int /\ k \in Int /\ (\A i \in q .. k : s[i] \in S) /\ q <= k
        BY <1>1, <2>1
      <3>3. k - q + 1 = k - j /\ (\A i \in 1 .. k - j : q + i - 1 = i + j) /\ j \in 0 .. k
        BY <1>1, <2>1, <3>1
      <3> HIDE DEF q, j, l
      <3>4. /\ SubSeq(s, q, k) \in Seq(S)
            /\ Len(SubSeq(s, q, k)) = IF q <= k THEN k - q + 1 ELSE 0
            /\ \A i \in 1 .. k - q + 1 : SubSeq(s, q, k)[i] = s[q + i - 1]
        BY <3>2, SubSeqProperties
      <3> QED BY <3>1, <3>2, <3>3, <3>4
    <2>2. CASE ~(k > n)
      BY <1>1, <2>2 DEF LastN
    <2> QED BY <2>1, <2>2
  <1>3. k - j <= n /\ (j > 0 => k - j = n)
    BY <1>1
  <1> DEFINE a == l \o t
             b == s \o t
  <1>4. b \in Seq(S) /\ Len(b) = k + m
        /\ \A i \in 1 .. k + m : b[i] = IF i <= k THEN s[i] ELSE t[i - k]
    BY ConcatProperties
  <1> HIDE DEF l, j
  <1>5. a \in Seq(S) /\ Len(a) = Len(l) + m
        /\ \A i \in 1 .. Len(l) + m : a[i] = IF i <= Len(l) THEN l[i] ELSE t[i - Len(l)]
    BY <1>2, ConcatProperties
  <1> HIDE DEF a, b, k, m
  <1>6. Len(a) = k - j + m /\ \A i \in 1 .. k - j + m : a[i] = b[i + j]
    <2>1. Len(a) = k - j + m
      BY <1>2, <1>5
    <2>2. ASSUME NEW i \in 1 .. k - j + m PROVE a[i] = b[i + j]
      <3>1. i + j \in 1 .. k + m /\ i \in 1 .. Len(l) + m
        BY <1>1, <1>2
      <3>2. CASE i <= k - j
        <4>1. i + j <= k /\ i \in 1 .. k - j
          BY <1>1, <1>2, <3>2
        <4> QED BY <1>2, <1>4, <1>5, <3>1, <3>2, <4>1
      <3>3. CASE ~(i <= k - j)
        <4>1. ~(i + j <= k) /\ (i + j) - k = i - (k - j)
          BY <1>1, <1>2, <3>3
        <4> QED BY <1>2, <1>4, <1>5, <3>1, <3>3, <4>1, ZenonT(60)
      <3> QED BY <3>2, <3>3
    <2> QED BY <2>1, <2>2
  <1>7. LastN(a, n) = LastN(b, n)
    <2> DEFINE x == LastN(a, n)
               y == LastN(b, n)
               u == Len(a)
               v == Len(b)
    <2>0. u = k - j + m /\ v = k + m /\ u \in Nat /\ v \in Nat /\ v = u + j /\ j \in Nat
      BY <1>1, <1>2, <1>4, <1>6, SMTT(30)
    <2> HIDE DEF u, v
    <2>3. u \in Nat /\ v \in Nat /\ v = u + j /\ j \in Nat /\ n \in Nat /\ n > 0
      BY <2>0
    <2>1. CASE u > n
      <3>1. x = SubSeq(a, u - n + 1, u) /\ y = SubSeq(b, v - n + 1, v)
        <4>1. v > n
          BY <2>0, <2>1
        <4> QED BY <2>1, <4>1 DEF LastN, u, v
      <3> DEFINE p == u - n + 1
                 q == v - n + 1
      <3> HIDE DEF x, y
      <3>2. p \in 1 .. u /\ q \in 1 .. v /\ u - p + 1 = n /\ v - q + 1 = n /\ p + j = q /\ p <= u /\ q <= v
            /\ p \in Int /\ q \in Int /\ u \in Int /\ v \in Int
        BY <2>1, <2>3
      <3>3. (\A i \in p .. u : a[i] \in S) /\ (\A i \in q .. v : b[i] \in S)
        <4>1. (\A i \in p .. u : i \in 1 .. u) /\ (\A i \in q .. v : i \in 1 .. v)
          BY <3>2
        <4> QED BY <1>4, <1>5, <4>1, ElementOfSeq DEF u, v
      <3> HIDE DEF p, q
      <3>4. /\ SubSeq(a, p, u) \in Seq(S)
            /\ Len(SubSeq(a, p, u)) = n
            /\ \A i \in 1 .. n : SubSeq(a, p, u)[i] = a[p + i - 1]
        <4>1. /\ SubSeq(a, p, u) \in Seq(S)
              /\ Len(SubSeq(a, p, u)) = IF p <= u THEN u - p + 1 ELSE 0
              /\ \A i \in 1 .. u - p + 1 : SubSeq(a, p, u)[i] = a[p + i - 1]
          BY <3>2, <3>3, SubSeqProperties
        <4> QED BY <3>2, <4>1
      <3>5. /\ SubSeq(b, q, v) \in Seq(S)
            /\ Len(SubSeq(b, q, v)) = n
            /\ \A i \in 1 .. n : SubSeq(b, q, v)[i] = b[q + i - 1]
        <4>1. /\ SubSeq(b, q, v) \in Seq(S)
              /\ Len(SubSeq(b, q, v)) = IF q <= v THEN v - q + 1 ELSE 0
              /\ \A i \in 1 .. v - q + 1 : SubSeq(b, q, v)[i] = b[q + i - 1]
          BY <3>2, <3>3, SubSeqProperties
        <4> QED BY <3>2, <4>1
      <3>6. \A i \in 1 .. n : a[p + i - 1] = b[q + i - 1]
        <4>1. \A i \in 1 .. n : p + i - 1 \in 1 .. k - j + m /\ (p + i - 1) + j = q + i - 1
          <5>1. \A i \in 1 .. n : p + i - 1 \in 1 .. u /\ (p + i - 1) + j = q + i - 1
            BY <2>3, <3>2
          <5> QED BY <2>0, <5>1
        <4> QED BY <1>6, <4>1
      <3>7. SubSeq(a, p, u) = SubSeq(b, q, v)
        <4> DEFINE x1 == SubSeq(a, p, u)
                   y1 == SubSeq(b, q, v)
        <4>1. x1 \in Seq(S) /\ y1 \in Seq(S) /\ Len(x1) = Len(y1) /\ \A i \in 1 .. Len(x1) : x1[i] = y1[i]
          BY <3>4, <3>5, <3>6
        <4> HIDE DEF x1, y1
        <4>2. x1 = y1
          BY <4>1, SeqEqual
        <4> QED BY <4>2 DEF x1, y1
      <3> QED BY <3>1, <3>7 DEF p, q, x, y
    <2>2. CASE ~(u > n)
      <3>1. x = a
        BY <2>2 DEF LastN, u
      <3>2. CASE j = 0
        <4>1. \A i \in 1 .. u : a[i] = b[i]
          BY <1>6, <2>0, <3>2
        <4>2. a = b
          BY <1>4, <1>5, <2>0, <3>2, <4>1, SeqEqual DEF u, v
        <4> QED BY <4>2
      <3>3. CASE j # 0
        <4>1. u = n /\ m = 0 /\ k - j = n /\ v > n
          BY <1>1, <1>3, <2>0, <2>2, <3>3
        <4> DEFINE q == v - n + 1
        <4>2. y = SubSeq(b, q, v)
          BY <4>1 DEF LastN, v
        <4>3. q \in 1 .. v /\ v - q + 1 = n /\ q = j + 1 /\ q <= v /\ q \in Int /\ v \in Int
          BY <2>3, <3>3, <4>1
        <4>4. \A i \in q .. v : b[i] \in S
          <5>1. \A i \in q .. v : i \in 1 .. v
            BY <2>0, <4>3
          <5> QED BY <1>4, <5>1, ElementOfSeq DEF v
        <4> HIDE DEF q
        <4>5. /\ SubSeq(b, q, v) \in Seq(S)
              /\ Len(SubSeq(b, q, v)) = n
              /\ \A i \in 1 .. n : SubSeq(b, q, v)[i] = b[q + i - 1]
          <5>1. /\ SubSeq(b, q, v) \in Seq(S)
                /\ Len(SubSeq(b, q, v)) = IF q <= v THEN v - q + 1 ELSE 0
                /\ \A i \in 1 .. v - q + 1 : SubSeq(b, q, v)[i] = b[q + i - 1]
            BY <4>3, <4>4, SubSeqProperties
          <5> QED BY <4>3, <5>1
        <4>6. \A i \in 1 .. n : a[i] = b[q + i - 1]
          <5>1. \A i \in 1 .. n : i \in 1 .. k - j + m /\ q + i - 1 = i + j
            BY <2>0, <4>1, <4>3
          <5> QED BY <1>6, <5>1
        <4>7. a = SubSeq(b, q, v)
          <5> DEFINE z == SubSeq(b, q, v)
          <5>1. z \in Seq(S) /\ Len(a) = Len(z) /\ \A i \in 1 .. Len(a) : a[i] = z[i]
            BY <4>1, <4>5, <4>6 DEF u
          <5> HIDE DEF z
          <5>2. a = z
            BY <1>5, <5>1, SeqEqual
          <5> QED BY <5>2 DEF z
        <4> QED BY <3>1, <4>2, <4>7
      <3> QED BY <3>2, <3>3
    <2> QED BY <2>1, <2>2
  <1> QED BY <1>2, <1>7 DEF l, a, b

\* The records of StateStore, and the packets in them.
Records == [dir : {"TC", "TM"}, service : Bytes, raw : Seq(Bytes)]
Raw(q) == [i \in DOMAIN q |-> q[i].raw]

\* The packet of each record.
LEMMA RawType ==
    ASSUME NEW q \in Seq(Records)
    PROVE  Raw(q) \in Seq(Seq(Bytes)) /\ Len(Raw(q)) = Len(q) /\ Len(q) \in Nat
           /\ \A i \in 1 .. Len(q) : Raw(q)[i] = q[i].raw
  <1>1. DOMAIN q = 1 .. Len(q) /\ Len(q) \in Nat
    BY LenProperties
  <1>2. \A i \in 1 .. Len(q) : q[i].raw \in Seq(Bytes)
    <2>1. \A i \in 1 .. Len(q) : q[i] \in Records
      BY ElementOfSeq
    <2> QED BY <2>1 DEF Records
  <1>3. Raw(q) \in [1 .. Len(q) -> Seq(Bytes)]
    BY <1>1, <1>2 DEF Raw
  <1>4. Raw(q) \in Seq(Seq(Bytes))
    BY <1>1, <1>3, SeqDef
  <1>5. Len(Raw(q)) = Len(q)
    BY <1>1, <1>3, <1>4, LenProperties
  <1> QED BY <1>1, <1>4, <1>5 DEF Raw

\* Records are appended and dropped as their packets.
LEMMA RawParts ==
    ASSUME NEW q \in Seq(Records), NEW w \in Seq(Records), NEW n \in Nat \ {0}
    PROVE  /\ Raw(q \o w) = Raw(q) \o Raw(w)
           /\ Raw(LastN(q, n)) = LastN(Raw(q), n)
  <1> DEFINE k == Len(q)
             m == Len(w)
  <1>1. Raw(q) \in Seq(Seq(Bytes)) /\ Len(Raw(q)) = k /\ k \in Nat
        /\ \A i \in 1 .. k : Raw(q)[i] = q[i].raw
    BY RawType
  <1>2. Raw(w) \in Seq(Seq(Bytes)) /\ Len(Raw(w)) = m /\ m \in Nat
        /\ \A i \in 1 .. m : Raw(w)[i] = w[i].raw
    BY RawType
  <1>3. Raw(q \o w) = Raw(q) \o Raw(w)
    <2> DEFINE x == q \o w
               y == Raw(q) \o Raw(w)
    <2>1. x \in Seq(Records) /\ Len(x) = k + m
          /\ \A i \in 1 .. k + m : x[i] = IF i <= k THEN q[i] ELSE w[i - k]
      BY ConcatProperties
    <2>2. y \in Seq(Seq(Bytes)) /\ Len(y) = k + m
          /\ \A i \in 1 .. k + m : y[i] = IF i <= k THEN Raw(q)[i] ELSE Raw(w)[i - k]
      <3> DEFINE b == Raw(q)
                 c == Raw(w)
      <3>1. b \in Seq(Seq(Bytes)) /\ c \in Seq(Seq(Bytes)) /\ Len(b) = k /\ Len(c) = m
        BY <1>1, <1>2
      <3> HIDE DEF b, c, k, m
      <3>2. b \o c \in Seq(Seq(Bytes)) /\ Len(b \o c) = Len(b) + Len(c)
            /\ \A i \in 1 .. Len(b) + Len(c) : (b \o c)[i] = IF i <= Len(b) THEN b[i] ELSE c[i - Len(b)]
        BY <3>1, ConcatProperties
      <3> QED BY <3>1, <3>2 DEF b, c
    <2> HIDE DEF x, y, k, m
    <2>3. Raw(x) \in Seq(Seq(Bytes)) /\ Len(Raw(x)) = k + m /\ \A i \in 1 .. k + m : Raw(x)[i] = x[i].raw
      BY <2>1, RawType
    <2>4. ASSUME NEW i \in 1 .. k + m PROVE Raw(x)[i] = y[i]
      <3>1. CASE i <= k
        <4>1. i \in 1 .. k
          BY <1>1, <3>1
        <4>2. x[i] = q[i] /\ y[i] = Raw(q)[i]
          BY <2>1, <2>2, <3>1
        <4> QED BY <1>1, <2>3, <4>1, <4>2, Zenon
      <3>2. CASE ~(i <= k)
        <4>1. i - k \in 1 .. m
          BY <1>1, <1>2, <3>2
        <4> QED BY <1>2, <2>1, <2>2, <2>3, <3>2, <4>1
      <3> QED BY <3>1, <3>2
    <2>5. Raw(x) = y
      BY <2>2, <2>3, <2>4, SeqEqual
    <2> QED BY <2>5 DEF x, y
  <1>4. Raw(LastN(q, n)) = LastN(Raw(q), n)
    <2> DEFINE b == Raw(q)
               p == k - n + 1
    <2>1. CASE k > n
      <3>1. LastN(q, n) = SubSeq(q, p, k) /\ LastN(b, n) = SubSeq(b, p, k)
        BY <1>1, <2>1 DEF LastN
      <3>2. p \in Int /\ k \in Int /\ p <= k /\ k - p + 1 = n /\ p \in 1 .. k
        BY <1>1, <2>1
      <3> HIDE DEF p, b, k
      <3>3. (\A i \in p .. k : q[i] \in Records) /\ (\A i \in p .. k : b[i] \in Seq(Bytes))
        <4>1. \A i \in p .. k : i \in 1 .. k
          BY <3>2
        <4>2. b \in Seq(Seq(Bytes)) /\ Len(b) = k
          BY <1>1 DEF b
        <4> QED BY <4>1, <4>2, ElementOfSeq DEF k
      <3>4. SubSeq(q, p, k) \in Seq(Records) /\ Len(SubSeq(q, p, k)) = n
            /\ \A i \in 1 .. n : SubSeq(q, p, k)[i] = q[p + i - 1]
        <4>1. /\ SubSeq(q, p, k) \in Seq(Records)
              /\ Len(SubSeq(q, p, k)) = IF p <= k THEN k - p + 1 ELSE 0
              /\ \A i \in 1 .. k - p + 1 : SubSeq(q, p, k)[i] = q[p + i - 1]
          BY <3>2, <3>3, SubSeqProperties
        <4> QED BY <3>2, <4>1
      <3>5. SubSeq(b, p, k) \in Seq(Seq(Bytes)) /\ Len(SubSeq(b, p, k)) = n
            /\ \A i \in 1 .. n : SubSeq(b, p, k)[i] = b[p + i - 1]
        <4>1. /\ SubSeq(b, p, k) \in Seq(Seq(Bytes))
              /\ Len(SubSeq(b, p, k)) = IF p <= k THEN k - p + 1 ELSE 0
              /\ \A i \in 1 .. k - p + 1 : SubSeq(b, p, k)[i] = b[p + i - 1]
          BY <3>2, <3>3, SubSeqProperties
        <4> QED BY <3>2, <4>1
      <3> DEFINE x == SubSeq(q, p, k)
                 y == SubSeq(b, p, k)
      <3>6. x \in Seq(Records) /\ Len(x) = n /\ (\A i \in 1 .. n : x[i] = q[p + i - 1])
        BY <3>4
      <3>7. y \in Seq(Seq(Bytes)) /\ Len(y) = n /\ (\A i \in 1 .. n : y[i] = b[p + i - 1])
        BY <3>5
      <3> HIDE DEF x, y
      <3>8. Raw(x) \in Seq(Seq(Bytes)) /\ Len(Raw(x)) = n /\ \A i \in 1 .. n : Raw(x)[i] = x[i].raw
        BY <3>6, RawType
      <3>9. \A i \in 1 .. n : Raw(x)[i] = y[i]
        <4>1. \A i \in 1 .. n : p + i - 1 \in 1 .. k
          BY <3>2
        <4> QED BY <1>1, <3>6, <3>7, <3>8, <4>1 DEF b
      <3>10. Raw(x) = y
        BY <3>7, <3>8, <3>9, SeqEqual
      <3> QED BY <3>1, <3>10 DEF x, y, b
    <2>2. CASE ~(k > n)
      BY <1>1, <2>2 DEF LastN
    <2> QED BY <2>1, <2>2
  <1> QED BY <1>3, <1>4

\* The service that decode_meta finds is a byte of the packet, or 0.
LEMMA ServiceType ==
    ASSUME NEW e \in Seq(Bytes), decode_meta(e).ok
    PROVE  decode_meta(e).meta.svc \in Bytes
  <1>1. ~(Len(e) < HdrLen \/ ~VersionOk(e) \/ DeclaredSize(e) # Len(e))
    BY DEF decode_meta
  <1> DEFINE m == IF HasService(e)
                  THEN [PrimaryMeta(e) EXCEPT !.svc = e[HdrLen + 1], !.ssvc = e[HdrLen + 2]]
                  ELSE PrimaryMeta(e)
  <1>2. decode_meta(e) = [ok |-> TRUE, meta |-> m]
    BY <1>1 DEF decode_meta
  <1>3. m.svc \in Bytes
    <2>1. CASE HasService(e)
      <3>1. Len(e) \in Nat /\ HdrLen \in Nat /\ TcHdr \in Nat /\ TmHdr \in Nat /\ TcHdr >= 2 /\ TmHdr >= 2
        BY LenProperties, HeaderAssumption, PusAssumption
      <3>2. Len(e) >= HdrLen + 1
        <4>1. Len(e) >= HdrLen + TcHdr \/ Len(e) >= HdrLen + TmHdr
          BY <2>1 DEF HasService
        <4> QED BY <3>1, <4>1
      <3>3. HdrLen + 1 \in 1 .. Len(e)
        BY <3>1, <3>2
      <3>4. e[HdrLen + 1] \in Bytes
        BY <3>3, ElementOfSeq
      <3>5. m.svc = e[HdrLen + 1]
        BY <2>1 DEF PrimaryMeta
      <3> QED BY <3>4, <3>5
    <2>2. CASE ~HasService(e)
      <3>1. m.svc = 0
        BY <2>2 DEF PrimaryMeta
      <3> QED BY <3>1, ByteAssumption DEF Bytes
    <2> QED BY <2>1, <2>2
  <1> HIDE DEF m
  <1> QED BY <1>2, <1>3

\* StateStore's counters.
Counters == {"rx_packets", "rx_bytes", "tx_packets", "tx_bytes", "decode_errors", "services"}

\* What StateStore and the framer know of the bytes of the link.
AccountInv ==
    /\ snap_ = [f \in Counters |-> snap_[f]]
    /\ snap_.rx_bytes \in Nat
    /\ Len(stream) = snap_.rx_bytes + framing_errors_ + Len(acc_)
    /\ snap_.rx_packets = Len(out) /\ snap_.decode_errors = Count(out, RefusedPackets)
    /\ ring_ \in Seq(Records) /\ Raw(ring_) = LastN(out, RingCap)

\* The end of a sequence behind its first part.
LEMMA RestConcat ==
    ASSUME NEW S, NEW s \in Seq(S), NEW t \in Seq(S)
    PROVE  Rest(s \o t, Len(s)) = t
  <1> DEFINE k == Len(s)
             m == Len(t)
             z == s \o t
             y == SubSeq(z, k + 1, k + m)
  <1>1. k \in Nat /\ m \in Nat /\ z \in Seq(S) /\ Len(z) = k + m
        /\ \A i \in 1 .. k + m : z[i] = IF i <= k THEN s[i] ELSE t[i - k]
    BY ConcatProperties, LenProperties
  <1> HIDE DEF k, m, z
  <1>2. k + 1 \in Int /\ k + m \in Int /\ \A i \in k + 1 .. k + m : z[i] \in S
    <2>1. \A i \in k + 1 .. k + m : i \in 1 .. k + m
      BY <1>1
    <2> QED BY <1>1, <2>1, ElementOfSeq
  <1>3. y \in Seq(S) /\ Len(y) = m /\ \A i \in 1 .. m : y[i] = z[k + i]
    <2> DEFINE p == k + 1
               q == k + m
    <2>1. p \in Int /\ q \in Int /\ \A i \in p .. q : z[i] \in S
      BY <1>2
    <2>2. (IF p <= q THEN q - p + 1 ELSE 0) = m /\ q - p + 1 = m /\ \A i \in 1 .. m : p + i - 1 = k + i
      BY <1>1
    <2>3. y = SubSeq(z, p, q)
      OBVIOUS
    <2> HIDE DEF p, q, y
    <2>4. /\ SubSeq(z, p, q) \in Seq(S)
          /\ Len(SubSeq(z, p, q)) = IF p <= q THEN q - p + 1 ELSE 0
          /\ \A i \in 1 .. q - p + 1 : SubSeq(z, p, q)[i] = z[p + i - 1]
      BY <2>1, SubSeqProperties
    <2> QED BY <2>2, <2>3, <2>4
  <1>4. \A i \in 1 .. m : k + i \in 1 .. k + m /\ ~(k + i <= k) /\ (k + i) - k = i
    BY <1>1
  <1>5. \A i \in 1 .. m : y[i] = t[i]
    BY <1>1, <1>3, <1>4
  <1>6. Rest(z, k) = y
    BY <1>1 DEF Rest
  <1> HIDE DEF y
  <1>7. y = t
    BY <1>3, <1>5, SeqEqual DEF m
  <1> QED BY <1>6, <1>7 DEF z, k

\* set_on_packet for packets that decode_meta rejects only for their primary header:
\* they are counted and kept.
LEMMA PacketsCounted ==
    ASSUME NEW ps \in Seq(Seq(Bytes)),
           \A i \in 1 .. Len(ps) : decode_meta(ps[i]).ok <=> ~PrimaryRefused(ps[i]),
           AccountInv, OnPackets(ps)
    PROVE  /\ snap_' = [f \in Counters |-> snap_'[f]]
           /\ snap_'.rx_packets = snap_.rx_packets + Len(ps)
           /\ snap_'.rx_bytes = snap_.rx_bytes + Len(FlattenSeq(ps))
           /\ snap_'.decode_errors = snap_.decode_errors + Count(ps, RefusedPackets)
           /\ \E q \in Seq(Records) : Raw(q) = ps /\ ring_' = LastN(ring_ \o q, RingCap)
  <1> DEFINE decoded == [i \in DOMAIN ps |-> decode_meta(ps[i])]
             rec(i) == [dir |-> IF decoded[i].ok /\ decoded[i].meta.typ = 1 THEN "TC" ELSE "TM",
                        service |-> IF decoded[i].ok THEN decoded[i].meta.svc ELSE 0,
                        raw |-> ps[i]]
             q == [i \in DOMAIN ps |-> rec(i)]
             n == Len(ps)
             bad == {i \in DOMAIN ps : ~decoded[i].ok}
             b == Len(FlattenSeq([i \in DOMAIN q |-> q[i].raw]))
             srv == snap_.services \union {q[i].service : i \in DOMAIN q}
  <1>1. n \in Nat /\ DOMAIN ps = 1 .. n /\ \A i \in 1 .. n : ps[i] \in Seq(Bytes)
    BY LenProperties, ElementOfSeq
  <1>2. OnPacket(q, Cardinality(bad))
    BY DEF OnPackets
  <1>3. \A i \in 1 .. n : ~decoded[i].ok <=> ps[i] \in RefusedPackets
    BY <1>1 DEF RefusedPackets
  <1>4. Cardinality(bad) = Count(ps, RefusedPackets)
    <2> HIDE DEF decoded
    <2>1. bad = Where(ps, RefusedPackets)
      BY <1>1, <1>3 DEF Where
    <2> QED BY <2>1 DEF Count
  <1>5. ASSUME NEW i \in 1 .. n PROVE q[i] \in Records /\ q[i].raw = ps[i]
    <2>1. ps[i] \in Seq(Bytes) /\ 0 \in Bytes
      BY <1>1, ByteAssumption DEF Bytes
    <2>2. decode_meta(ps[i]).ok => decode_meta(ps[i]).meta.svc \in Bytes
      BY <2>1, ServiceType
    <2>3. decoded[i] = decode_meta(ps[i])
      BY <1>1
    <2>4. q[i] = rec(i)
      BY <1>1
    <2> HIDE DEF decoded, q
    <2> QED BY <2>1, <2>2, <2>3, <2>4 DEF Records
  <1> HIDE DEF decoded, bad
  <1>6. q \in [1 .. n -> Records] /\ DOMAIN q = 1 .. n
    <2>1. DOMAIN q = 1 .. n /\ q = [i \in 1 .. n |-> q[i]]
      BY <1>1
    <2> HIDE DEF q
    <2> QED BY <1>5, <2>1
  <1> HIDE DEF q
  <1>7. q \in Seq(Records) /\ Len(q) = n
    <2>1. q \in Seq(Records)
      BY <1>1, <1>6, SeqDef, SMTT(30)
    <2>2. DOMAIN q = 1 .. Len(q) /\ Len(q) \in Nat
      BY <2>1, LenProperties
    <2> QED BY <1>1, <1>6, <2>1, <2>2
  <1>8. Raw(q) = ps
    <2>1. Raw(q) \in Seq(Seq(Bytes)) /\ Len(Raw(q)) = n /\ \A i \in 1 .. n : Raw(q)[i] = q[i].raw
      BY <1>7, RawType
    <2>2. \A i \in 1 .. n : Raw(q)[i] = ps[i]
      BY <1>5, <2>1
    <2> QED BY <2>1, <2>2, SeqEqual
  <1>9. b = Len(FlattenSeq(ps))
    BY <1>8 DEF Raw
  <1>10. snap_' = [snap_ EXCEPT !.rx_packets = @ + Len(q), !.rx_bytes = @ + b, !.services = srv,
                                !.decode_errors = @ + Cardinality(bad)]
    BY <1>2 DEF OnPacket
  <1>11. ring_' = LastN(ring_ \o q, RingCap)
    BY <1>2 DEF OnPacket
  <1> HIDE DEF b, srv
  <1>12. snap_ = [f \in Counters |-> snap_[f]]
    BY DEF AccountInv
  <1>13. DOMAIN snap_ = Counters
    BY <1>12
  <1>14. snap_' = [f \in Counters |-> snap_'[f]]
    BY <1>10, <1>13
  <1>15. snap_'.rx_packets = snap_.rx_packets + n
    BY <1>7, <1>10, <1>13 DEF Counters
  <1>16. snap_'.rx_bytes = snap_.rx_bytes + b
    BY <1>10, <1>13 DEF Counters
  <1>17. snap_'.decode_errors = snap_.decode_errors + Count(ps, RefusedPackets)
    BY <1>4, <1>10, <1>13 DEF Counters
  <1> QED BY <1>7, <1>8, <1>9, <1>11, <1>14, <1>15, <1>16, <1>17

\* A read of the link keeps the account.
LEMMA AccountRead ==
    ASSUME FramerInv, AccountInv, NEW c \in Seq(Bytes), ReadLink(c)
    PROVE  AccountInv'
  <1> DEFINE a == acc_ \o c
             r == Drain(a)
  <1>1. stream \in Seq(Bytes) /\ acc_ \in Seq(Bytes) /\ out \in Seq(Seq(Bytes)) /\ framing_errors_ \in Nat
    BY DEF FramerInv
  <1>2. Read(c) /\ OnPackets(Rest(out', Len(out)))
    BY DEF ReadLink
  <1>3. acc_' = r.acc /\ out' = out \o r.out /\ framing_errors_' = framing_errors_ + r.errors
        /\ stream' = stream \o c
    BY <1>2 DEF Read, PushBytes
  <1>4. a \in Seq(Bytes) /\ Len(a) = Len(acc_) + Len(c)
    BY <1>1, ConcatProperties
  <1>5. Len(stream') = Len(stream) + Len(c)
    BY <1>1, <1>3, ConcatProperties
  <1> HIDE DEF a
  <1>6. r \in Framing /\ Drained(Len(a), r)
    BY <1>4, DrainCounts
  <1> DEFINE ps == r.out
             e == r.errors
  <1>7. ps \in Seq(Seq(Bytes)) /\ e \in Nat /\ r.acc \in Seq(Bytes)
    BY <1>6 DEF Framing
  <1>8. Len(a) = Len(FlattenSeq(ps)) + e + Len(r.acc)
        /\ \A i \in 1 .. Len(ps) : decode_meta(ps[i]).ok <=> ~PrimaryRefused(ps[i])
    BY <1>6 DEF Drained
  <1> HIDE DEF r, ps, e
  <1>9. Rest(out', Len(out)) = ps
    BY <1>1, <1>3, <1>7, RestConcat DEF ps
  <1>10. /\ snap_' = [f \in Counters |-> snap_'[f]]
         /\ snap_'.rx_packets = snap_.rx_packets + Len(ps)
         /\ snap_'.rx_bytes = snap_.rx_bytes + Len(FlattenSeq(ps))
         /\ snap_'.decode_errors = snap_.decode_errors + Count(ps, RefusedPackets)
         /\ \E q \in Seq(Records) : Raw(q) = ps /\ ring_' = LastN(ring_ \o q, RingCap)
    <2>1. OnPackets(ps)
      BY <1>2, <1>9
    <2> QED BY <1>7, <1>8, <2>1, PacketsCounted
  <1>11. snap_.rx_bytes \in Nat /\ Len(stream) = snap_.rx_bytes + framing_errors_ + Len(acc_)
         /\ snap_.rx_packets = Len(out) /\ ring_ \in Seq(Records) /\ Raw(ring_) = LastN(out, RingCap)
    BY DEF AccountInv
  <1>12. Len(FlattenSeq(ps)) \in Nat
    <2>1. FlattenSeq(ps) \in Seq(Bytes)
      BY <1>7, EmptySeq, FlattenAppend
    <2> QED BY <2>1, LenProperties
  <1>13. snap_'.rx_bytes \in Nat /\ Len(stream') = snap_'.rx_bytes + framing_errors_' + Len(acc_')
    <2> DEFINE n == Len(stream)
               m == Len(c)
               x == snap_.rx_bytes
               y == Len(FlattenSeq(ps))
               k == Len(acc_)
               l == Len(r.acc)
               z == framing_errors_
    <2>1. n \in Nat /\ m \in Nat /\ x \in Nat /\ y \in Nat /\ k \in Nat /\ l \in Nat /\ z \in Nat /\ e \in Nat
      BY <1>1, <1>7, <1>11, <1>12, LenProperties
    <2>2. n = x + z + k /\ k + m = y + e + l
      BY <1>4, <1>8, <1>11
    <2>3. Len(stream') = n + m /\ snap_'.rx_bytes = x + y /\ framing_errors_' = z + e /\ Len(acc_') = l
      BY <1>3, <1>5, <1>10 DEF e
    <2> HIDE DEF n, m, x, y, k, l, z
    <2>4. n + m = (x + y) + (z + e) + l /\ x + y \in Nat
      BY <2>1, <2>2
    <2> QED BY <2>3, <2>4
  <1>14. snap_'.rx_packets = Len(out')
    <2>1. Len(out \o ps) = Len(out) + Len(ps)
      BY <1>1, <1>7, ConcatProperties
    <2> QED BY <1>3, <1>10, <1>11, <2>1 DEF ps
  <1>15. ring_' \in Seq(Records) /\ Raw(ring_') = LastN(out', RingCap)
    <2>0. RingCap \in Nat \ {0}
      BY CapsAssumption
    <2>1. PICK q \in Seq(Records) : Raw(q) = ps /\ ring_' = LastN(ring_ \o q, RingCap)
      BY <1>10
    <2> DEFINE w == ring_ \o q
    <2>2. w \in Seq(Records)
      BY <1>11, ConcatProperties
    <2>3. Raw(w) = LastN(out, RingCap) \o ps
      <3>1. Raw(w) = Raw(ring_) \o Raw(q)
        BY <1>11, <2>0, RawParts
      <3> QED BY <1>11, <2>1, <3>1
    <2> HIDE DEF w
    <2>4. LastN(w, RingCap) \in Seq(Records)
      BY <2>0, <2>2, LastNConcat
    <2>5. Raw(LastN(w, RingCap)) = LastN(Raw(w), RingCap)
      BY <2>0, <2>2, RawParts
    <2>6. LastN(LastN(out, RingCap) \o ps, RingCap) = LastN(out \o ps, RingCap)
      BY <1>1, <1>7, <2>0, LastNConcat
    <2>7. ring_' = LastN(w, RingCap)
      BY <2>1 DEF w
    <2> QED BY <1>3, <2>3, <2>4, <2>5, <2>6, <2>7 DEF ps
  <1>16. snap_'.decode_errors = Count(out', RefusedPackets)
    <2>1. Count(out \o ps, RefusedPackets) = Count(out, RefusedPackets) + Count(ps, RefusedPackets)
      BY <1>1, <1>7, CountConcat
    <2>2. snap_.decode_errors = Count(out, RefusedPackets)
      BY DEF AccountInv
    <2> QED BY <1>3, <1>10, <2>1, <2>2 DEF ps
  <1> QED BY <1>10, <1>13, <1>14, <1>15, <1>16 DEF AccountInv

\* The rest leaves it alone; on_tx has its own counters.
LEMMA AccountStep == FramerInv /\ AccountInv /\ [RxNext]_rxVars => AccountInv'
  <1> SUFFICES ASSUME FramerInv, AccountInv, [RxNext]_rxVars PROVE AccountInv'
    OBVIOUS
  <1>1. ASSUME NEW n \in 1 .. MaxChunk, NEW c \in [1 .. n -> Bytes], ReadLink(c) PROVE AccountInv'
    <2>1. n \in Nat
      BY StreamAssumption
    <2>2. c \in Seq(Bytes)
      BY <2>1, SeqDef
    <2> QED BY <1>1, <2>2, AccountRead
  <1>2. ASSUME UNCHANGED <<acc_, framing_errors_, out, stream, ring_, snap_>> PROVE AccountInv'
    BY <1>2 DEF AccountInv
  <1>3. CASE Connects
    BY <1>2, <1>3 DEF Connects, vars, storeVars
  <1>4. CASE SendPacket
    BY <1>2, <1>4 DEF SendPacket, storeVars
  <1>5. ASSUME NEW n, Loses(n) PROVE AccountInv'
    BY <1>2, <1>5 DEF Loses, vars, storeVars
  <1>9. CASE LateReadFails
    BY <1>2, <1>9 DEF LateReadFails, vars, storeVars
  <1>6. ASSUME NEW n, ReadUi(n) PROVE AccountInv'
    BY <1>2, <1>6 DEF ReadUi, vars, storeVars
  <1>7. ASSUME NEW n, ReadSession(n) PROVE AccountInv'
    <2>1. UNCHANGED <<acc_, framing_errors_, out, stream, ring_>>
      BY <1>7 DEF ReadSession, vars
    <2>2. PICK sent : OnTx(sent)
      BY <1>7 DEF ReadSession, Route
    <2> DEFINE x == snap_.tx_packets + Len(sent)
               y == snap_.tx_bytes + Len(FlattenSeq([i \in DOMAIN sent |-> sent[i].payload]))
    <2>3. snap_' = [snap_ EXCEPT !.tx_packets = x, !.tx_bytes = y]
      BY <2>2 DEF OnTx
    <2> HIDE DEF x, y
    <2>4. snap_ = [f \in Counters |-> snap_[f]]
      BY DEF AccountInv
    <2>5. DOMAIN snap_ = Counters
      BY <2>4
    <2>6. snap_' = [f \in Counters |-> snap_'[f]]
      BY <2>3, <2>5
    <2>7. snap_'.rx_packets = snap_.rx_packets /\ snap_'.rx_bytes = snap_.rx_bytes
          /\ snap_'.decode_errors = snap_.decode_errors
      BY <2>3, <2>5 DEF Counters
    <2> QED BY <2>1, <2>6, <2>7 DEF AccountInv
  <1>8. CASE UNCHANGED rxVars
    BY <1>2, <1>8 DEF rxVars, vars, storeVars
  <1> QED BY <1>1, <1>3, <1>4, <1>5, <1>6, <1>7, <1>8, <1>9, Zenon DEF RxNext

\* Every byte of the link is in a packet that was counted, was dropped as a framing
\* error, or is kept; decode_meta rejects a packet the framer cut off exactly if its
\* primary header is refused, and each is counted; the history has the latest ones:
\* for any stream, fragmentation, size of the history and set of refused headers.
THEOREM BytesAllAccounted == RxSpec => []BytesAccounted
  <1>1. FramerInv /\ AccountInv => BytesAccounted
    <2> SUFFICES ASSUME FramerInv, AccountInv PROVE BytesAccounted
      OBVIOUS
    <2>1. acc_ = Rest(stream, Len(stream) - Len(acc_))
      <3>1. PICK p, T, at : Walk(stream, p, T, at, out) /\ acc_ = From(stream, p)
        BY DEF FramerInv, Parsed
      <3>2. p \in 1 .. Len(stream) + 1 /\ stream \in Seq(Bytes)
        BY <3>1 DEF Walk, FramerInv
      <3>3. Len(From(stream, p)) = Len(stream) - p + 1 /\ Len(stream) \in Nat /\ p \in Nat
        BY <3>2, FromBytes
      <3> DEFINE n == Len(stream)
                 k == Len(acc_)
      <3>4. k = n - p + 1 /\ n \in Nat /\ p \in Nat
        BY <3>1, <3>3
      <3> HIDE DEF n, k
      <3>5. (n - k) + 1 = p
        BY <3>4
      <3>6. acc_ = SubSeq(stream, (n - k) + 1, n)
        BY <3>1, <3>5 DEF From, n
      <3> QED BY <3>6 DEF Rest, n, k
    <2>2. Where(out, RefusedPackets) = {i \in DOMAIN out : PrimaryRefused(out[i])}
      <3>1. \A i \in DOMAIN out : out[i] \in Seq(Bytes)
        BY LenProperties, ElementOfSeq DEF FramerInv
      <3> QED BY <3>1 DEF Where, RefusedPackets
    <2>3. snap_.decode_errors = Cardinality({i \in DOMAIN out : PrimaryRefused(out[i])})
      BY <2>2 DEF AccountInv, Count
    <2> QED BY <2>1, <2>3 DEF AccountInv, BytesAccounted, Raw
  <1>2. RxInit => FramerInv /\ AccountInv
    <2> SUFFICES ASSUME RxInit PROVE AccountInv
      BY FramerStart DEF RxInit
    <2> DEFINE e == << >>
    <2>1. stream = e /\ acc_ = e /\ out = e /\ framing_errors_ = 0 /\ ring_ = e
          /\ snap_ = [rx_packets |-> 0, rx_bytes |-> 0, tx_packets |-> 0, tx_bytes |-> 0,
                      decode_errors |-> 0, services |-> {}]
      BY DEF RxInit, Init
    <2>2. e \in Seq(Records) /\ Len(e) = 0
      BY EmptySeq
    <2>3. Raw(e) = e
      BY DEF Raw
    <2>4. LastN(e, RingCap) = e
      <3>1. ~(Len(e) > RingCap)
        BY <2>2, CapsAssumption
      <3> QED BY <3>1 DEF LastN
    <2>5. snap_ = [f \in Counters |-> snap_[f]]
      BY <2>1 DEF Counters
    <2>6. snap_.rx_bytes = 0 /\ snap_.rx_packets = 0 /\ snap_.decode_errors = 0
      BY <2>1
    <2>7. Count(e, RefusedPackets) = 0
      BY CountEmpty
    <2> HIDE DEF e
    <2> QED BY <2>1, <2>2, <2>3, <2>4, <2>5, <2>6, <2>7 DEF AccountInv
  <1> QED BY <1>1, <1>2, FramerStep, AccountStep, PTL DEF RxSpec

------------------------------------------------------------------------------
(* Numbers as bytes.                                                        *)

\* The loop of append_u16, append_u32, append_u64, and that of read_u16, read_u32.
AppendBy(f, x, n) ==
    /\ f \in [0 .. n - 1 -> Nat] /\ f[0] = x
    /\ \A k \in 1 .. n - 1 : f[k] = f[k - 1] \div 256
    /\ \A i \in 1 .. n : Append_u(x, n)[i] = f[n - i] % 256
ReadBy(f, p, off, n) ==
    /\ f \in [0 .. n -> Nat] /\ f[0] = 0
    /\ \A k \in 1 .. n : f[k] = 256 * f[k - 1] + p[off + k]
    /\ Read_u(p, off, n) = f[n]

\* append_u16, append_u32, append_u64 give as many bytes as they say.
LEMMA AppendUType ==
    ASSUME NEW x \in Nat, NEW n \in Nat \ {0}
    PROVE  /\ Append_u(x, n) \in Seq(Nat) /\ Len(Append_u(x, n)) = n
           /\ \E f : AppendBy(f, x, n)
  <1> DEFINE g == [i \in Nat |-> [v \in Nat |-> v \div 256]]
             h == CHOOSE f : f = [k \in 0 .. n - 1 |-> IF k = 0 THEN x ELSE f[k - 1] \div 256]
             m == n - 1
  <1>0. m \in Nat /\ n = m + 1
    OBVIOUS
  <1>1. \A i \in Nat : \A v \in Nat : g[i][v] = v \div 256 /\ g[i][v] \in Nat
    OBVIOUS
  <1>2. Append_u(x, n) = [i \in 1 .. n |-> h[n - i] % 256]
    BY DEF Append_u
  <1> HIDE DEF h, g, m
  <1>3. PICK f : Rounds(f, Nat, x, g, m)
    <2>1. Stays(Nat, g)
      BY <1>1 DEF Stays
    <2> QED BY <1>0, <2>1, Loop, Zenon
  <1>4. f \in [0 .. m -> Nat] /\ f[0] = x /\ \A i \in 1 .. m : f[i] = g[i][f[i - 1]]
    BY <1>3 DEF Rounds
  <1>5. f = [k \in 0 .. m |-> IF k = 0 THEN x ELSE f[k - 1] \div 256]
    <2>1. ASSUME NEW k \in 0 .. m PROVE f[k] = IF k = 0 THEN x ELSE f[k - 1] \div 256
      <3>1. CASE k = 0
        BY <1>4, <3>1
      <3>2. CASE k # 0
        <4>1. k \in 1 .. m /\ k - 1 \in 0 .. m /\ k \in Nat
          BY <1>0, <3>2
        <4>2. f[k] = g[k][f[k - 1]] /\ f[k - 1] \in Nat
          BY <1>4, <4>1
        <4> QED BY <1>1, <3>2, <4>1, <4>2
      <3> QED BY <3>1, <3>2
    <2>2. f = [k \in 0 .. m |-> f[k]]
      BY <1>4
    <2> QED BY <2>1, <2>2, Zenon
  <1>6. h = [k \in 0 .. m |-> IF k = 0 THEN x ELSE h[k - 1] \div 256]
    BY <1>5, ZenonT(60) DEF h, m
  <1>7. \A k \in 0 .. m : h[k] = IF k = 0 THEN x ELSE h[k - 1] \div 256
    BY <1>6, Zenon
  <1>8. \A k \in 0 .. m : f[k] = IF k = 0 THEN x ELSE f[k - 1] \div 256
    BY <1>5, Zenon
  <1> DEFINE P == {k \in Nat : k \in 0 .. m => h[k] = f[k]}
  <1>9. 0 \in P
    BY <1>0, <1>7, <1>8
  <1>10. ASSUME NEW k \in Nat, k \in P PROVE k + 1 \in P
    <2> SUFFICES ASSUME k + 1 \in 0 .. m PROVE h[k + 1] = f[k + 1]
      OBVIOUS
    <2> DEFINE j == k + 1
    <2>1. j # 0 /\ j - 1 = k /\ k \in 0 .. m /\ j \in 0 .. m
      BY <1>0
    <2>2. h[k] = f[k]
      BY <1>10, <2>1
    <2> HIDE DEF j
    <2>3. h[j] = h[k] \div 256 /\ f[j] = f[k] \div 256
      BY <1>7, <1>8, <2>1
    <2>4. h[j] = f[j]
      BY <2>2, <2>3
    <2> QED BY <2>4 DEF j
  <1> HIDE DEF P
  <1>11. \A k \in 0 .. m : h[k] = f[k]
    <2>1. \A k \in Nat : k \in P
      BY <1>9, <1>10, Induction
    <2> QED BY <1>0, <2>1 DEF P
  <1>12. \A i \in 1 .. n : n - i \in 0 .. m
    BY <1>0
  <1>13. \A i \in 1 .. n : Append_u(x, n)[i] = f[n - i] % 256
    BY <1>2, <1>11, <1>12
  <1>14. \A i \in 1 .. n : Append_u(x, n)[i] \in Nat
    <2> SUFFICES ASSUME NEW i \in 1 .. n PROVE f[n - i] % 256 \in Nat
      BY <1>13
    <2>1. f[n - i] \in Nat
      BY <1>4, <1>12
    <2> QED BY <2>1
  <1>15. Append_u(x, n) \in [1 .. n -> Nat]
    BY <1>2, <1>14
  <1>16. Append_u(x, n) \in Seq(Nat) /\ Len(Append_u(x, n)) = n
    <2>1. Append_u(x, n) \in Seq(Nat)
      BY <1>15, SeqDef
    <2>2. DOMAIN Append_u(x, n) = 1 .. n
      BY <1>15
    <2>3. DOMAIN Append_u(x, n) = 1 .. Len(Append_u(x, n)) /\ Len(Append_u(x, n)) \in Nat
      BY <2>1, LenProperties
    <2> QED BY <2>1, <2>2, <2>3
  <1>17. \A k \in 1 .. m : f[k] = f[k - 1] \div 256
    <2> SUFFICES ASSUME NEW k \in 1 .. m PROVE f[k] = f[k - 1] \div 256
      OBVIOUS
    <2>1. k \in 0 .. m /\ k # 0
      BY <1>0
    <2> QED BY <1>8, <2>1
  <1>18. AppendBy(f, x, n)
    BY <1>4, <1>13, <1>17, Zenon DEF AppendBy, m
  <1> QED BY <1>16, <1>18

\* read_u16 and read_u32 of the bytes behind the first off.
LEMMA ReadULoop ==
    ASSUME NEW p \in Seq(Nat), NEW off \in Nat, NEW n \in Nat, off + n <= Len(p)
    PROVE  \E f : ReadBy(f, p, off, n)
  <1> DEFINE g == [i \in Nat |-> [v \in Nat |-> IF i \in 1 .. n THEN 256 * v + p[off + i] ELSE v]]
             h == CHOOSE f : f = [k \in 0 .. n |-> IF k = 0 THEN 0 ELSE 256 * f[k - 1] + p[off + k]]
  <1>0. \A i \in 1 .. n : p[off + i] \in Nat
    <2>1. Len(p) \in Nat
      BY LenProperties
    <2>2. \A i \in 1 .. n : off + i \in 1 .. Len(p)
      BY <2>1
    <2> QED BY <2>2, ElementOfSeq
  <1>1. \A i \in Nat : \A v \in Nat :
            g[i][v] \in Nat /\ (i \in 1 .. n => g[i][v] = 256 * v + p[off + i])
    <2> SUFFICES ASSUME NEW i \in Nat, NEW v \in Nat
                 PROVE  g[i][v] \in Nat /\ (i \in 1 .. n => g[i][v] = 256 * v + p[off + i])
      OBVIOUS
    <2>1. g[i][v] = IF i \in 1 .. n THEN 256 * v + p[off + i] ELSE v
      OBVIOUS
    <2> HIDE DEF g
    <2> QED BY <1>0, <2>1
  <1>2. Read_u(p, off, n) = h[n]
    BY DEF Read_u
  <1> HIDE DEF h, g
  <1>3. PICK f : Rounds(f, Nat, 0, g, n)
    <2>1. Stays(Nat, g)
      BY <1>1 DEF Stays
    <2>2. 0 \in Nat
      OBVIOUS
    <2> QED BY <2>1, <2>2, Loop, Zenon
  <1>4. f \in [0 .. n -> Nat] /\ f[0] = 0 /\ \A i \in 1 .. n : f[i] = g[i][f[i - 1]]
    BY <1>3 DEF Rounds
  <1>5. \A k \in 1 .. n : f[k] = 256 * f[k - 1] + p[off + k]
    <2> SUFFICES ASSUME NEW k \in 1 .. n PROVE f[k] = 256 * f[k - 1] + p[off + k]
      OBVIOUS
    <2>1. k - 1 \in 0 .. n /\ k \in Nat
      OBVIOUS
    <2>2. f[k] = g[k][f[k - 1]] /\ f[k - 1] \in Nat
      BY <1>4, <2>1
    <2> QED BY <1>1, <2>1, <2>2, ZenonT(60)
  <1>6. f = [k \in 0 .. n |-> IF k = 0 THEN 0 ELSE 256 * f[k - 1] + p[off + k]]
    <2>1. ASSUME NEW k \in 0 .. n PROVE f[k] = IF k = 0 THEN 0 ELSE 256 * f[k - 1] + p[off + k]
      <3>1. CASE k = 0
        BY <1>4, <3>1
      <3>2. CASE k # 0
        <4>1. k \in 1 .. n
          BY <3>2
        <4> QED BY <1>5, <3>2, <4>1
      <3> QED BY <3>1, <3>2
    <2>2. f = [k \in 0 .. n |-> f[k]]
      BY <1>4
    <2> QED BY <2>1, <2>2, Zenon
  <1>7. h = [k \in 0 .. n |-> IF k = 0 THEN 0 ELSE 256 * h[k - 1] + p[off + k]]
    BY <1>6, ZenonT(60) DEF h
  <1>8. \A k \in 0 .. n : h[k] = IF k = 0 THEN 0 ELSE 256 * h[k - 1] + p[off + k]
    BY <1>7, Zenon
  <1> DEFINE P == {k \in Nat : k \in 0 .. n => h[k] = f[k]}
  <1>9. 0 \in P
    BY <1>4, <1>8
  <1>10. ASSUME NEW k \in Nat, k \in P PROVE k + 1 \in P
    <2> SUFFICES ASSUME k + 1 \in 0 .. n PROVE h[k + 1] = f[k + 1]
      OBVIOUS
    <2> DEFINE j == k + 1
    <2>1. j # 0 /\ j - 1 = k /\ k \in 0 .. n /\ j \in 0 .. n /\ j \in 1 .. n
      OBVIOUS
    <2>2. h[k] = f[k]
      BY <1>10, <2>1
    <2> HIDE DEF j
    <2>3. h[j] = 256 * h[k] + p[off + j] /\ f[j] = 256 * f[k] + p[off + j]
      BY <1>5, <1>8, <2>1
    <2>4. h[j] = f[j]
      BY <2>2, <2>3
    <2> QED BY <2>4 DEF j
  <1> HIDE DEF P
  <1>11. n \in P
    BY <1>9, <1>10, Induction
  <1>12. h[n] = f[n]
    BY <1>11 DEF P
  <1>13. ReadBy(f, p, off, n)
    BY <1>2, <1>4, <1>5, <1>12, Zenon DEF ReadBy
  <1> QED BY <1>13

\* The number that four bytes, and that two bytes are.
Num4(a, b, c, d) == 256 * (256 * (256 * a + b) + c) + d
Num2(a, b) == 256 * a + b

\* The length and the type of a frame, as try_decode reads them.
LEMMA ReadHeader ==
    ASSUME NEW p \in Seq(Nat)
    PROVE  /\ Len(p) >= 4 => Read_u(p, 0, 4) = Num4(p[1], p[2], p[3], p[4]) /\ Read_u(p, 0, 4) \in Nat
           /\ Len(p) >= 6 => Read_u(p, 4, 2) = Num2(p[5], p[6])
  <1>0. Len(p) \in Nat /\ \A i \in 1 .. Len(p) : p[i] \in Nat
    BY LenProperties, ElementOfSeq
  <1>1. ASSUME Len(p) >= 4
        PROVE  Read_u(p, 0, 4) = Num4(p[1], p[2], p[3], p[4]) /\ Read_u(p, 0, 4) \in Nat
    <2>1. 0 + 4 <= Len(p) /\ 0 \in Nat /\ 4 \in Nat
      BY <1>0, <1>1
    <2>2. PICK f : ReadBy(f, p, 0, 4)
      BY <2>1, ReadULoop, Zenon
    <2>a. f[0] = 0 /\ Read_u(p, 0, 4) = f[4]
          /\ \A k \in 1 .. 4 : f[k] = 256 * f[k - 1] + p[0 + k]
      BY <2>2, Zenon DEF ReadBy
    <2>3. f[1] = 256 * f[0] + p[1] /\ f[2] = 256 * f[1] + p[2]
      BY <2>a
    <2>b. f[3] = 256 * f[2] + p[3] /\ f[4] = 256 * f[3] + p[4]
      BY <2>a
    <2>4. p[1] \in Nat /\ p[2] \in Nat /\ p[3] \in Nat /\ p[4] \in Nat
      BY <1>0, <1>1
    <2>5. f[1] = p[1]
      BY <2>a, <2>3, <2>4
    <2> DEFINE u == p[1]
               v == p[2]
               w == p[3]
               x == p[4]
               f2 == f[2]
               f3 == f[3]
               f4 == f[4]
    <2>6. f2 = 256 * u + v /\ f3 = 256 * f2 + w /\ f4 = 256 * f3 + x
          /\ u \in Nat /\ v \in Nat /\ w \in Nat /\ x \in Nat
      BY <2>3, <2>b, <2>4, <2>5
    <2>7. Read_u(p, 0, 4) = f4 /\ Num4(p[1], p[2], p[3], p[4]) = Num4(u, v, w, x)
      BY <2>a
    <2> HIDE DEF u, v, w, x, f2, f3, f4
    <2>8. f4 = Num4(u, v, w, x) /\ f4 \in Nat
      BY <2>6 DEF Num4
    <2> QED BY <2>7, <2>8
  <1>2. ASSUME Len(p) >= 6
        PROVE  Read_u(p, 4, 2) = Num2(p[5], p[6])
    <2>1. 4 + 2 <= Len(p) /\ 4 \in Nat /\ 2 \in Nat
      BY <1>0, <1>2
    <2>2. PICK f : ReadBy(f, p, 4, 2)
      BY <2>1, ReadULoop, Zenon
    <2>3. f[1] = 256 * f[0] + p[5] /\ f[2] = 256 * f[1] + p[6]
          /\ f[0] = 0 /\ Read_u(p, 4, 2) = f[2]
      BY <2>2, SMTT(30) DEF ReadBy
    <2>4. p[5] \in Nat /\ p[6] \in Nat
      BY <1>0, <1>2
    <2> QED BY <2>3, <2>4 DEF Num2
  <1> QED BY <1>1, <1>2

\* The numbers that fit in two bytes and in four.
Short == 256 * 256
Wide == 256 * (256 * Short)

\* Dividing by 256.
LEMMA Bytewise ==
    ASSUME NEW x \in Nat
    PROVE  x = 256 * (x \div 256) + (x % 256) /\ x \div 256 \in Nat /\ x % 256 \in 0 .. 255
  <1>1. x = 256 * (x \div 256) + (x % 256)
    OBVIOUS
  <1>2. x \div 256 \in Nat /\ x % 256 \in 0 .. 255
    OBVIOUS
  <1> QED BY <1>1, <1>2

\* A number is read as it was appended, if it fits.
LEMMA RoundTrip4 ==
    ASSUME NEW x \in Nat, x < Wide
    PROVE  LET b == Append_u(x, 4) IN Num4(b[1], b[2], b[3], b[4]) = x
  <1> DEFINE b == Append_u(x, 4)
  <1>1. PICK f : AppendBy(f, x, 4)
    <2>1. 4 \in Nat \ {0}
      OBVIOUS
    <2> QED BY <2>1, AppendUType, Zenon
  <1>2. f[1] = x \div 256 /\ f[2] = f[1] \div 256 /\ f[3] = f[2] \div 256
        /\ f[1] \in Nat /\ f[2] \in Nat /\ f[3] \in Nat
        /\ b[1] = f[3] % 256 /\ b[2] = f[2] % 256 /\ b[3] = f[1] % 256 /\ b[4] = x % 256
    BY <1>1 DEF AppendBy
  <1> DEFINE q == f[1]
             r == f[2]
             t == f[3]
             x0 == x % 256
             q0 == q % 256
             r0 == r % 256
  <1>3. x = 256 * q + x0 /\ x0 \in 0 .. 255
    BY <1>2, Bytewise
  <1>4. q = 256 * r + q0 /\ q0 \in 0 .. 255
    BY <1>2, Bytewise
  <1>5. r = 256 * t + r0 /\ r0 \in 0 .. 255
    BY <1>2, Bytewise
  <1>6. b[1] = t % 256 /\ b[2] = r0 /\ b[3] = q0 /\ b[4] = x0 /\ q \in Nat /\ r \in Nat /\ t \in Nat
    BY <1>2
  <1> HIDE DEF q, r, t, b, x0, q0, r0
  <1>7. t < 256
    BY <1>3, <1>4, <1>5, <1>6 DEF Wide, Short
  <1>8. b[1] = t
    BY <1>6, <1>7
  <1>9. Num4(t, r0, q0, x0) = x
    BY <1>3, <1>4, <1>5, <1>6 DEF Num4
  <1>10. Num4(b[1], b[2], b[3], b[4]) = x
    BY <1>6, <1>8, <1>9
  <1> QED BY <1>10 DEF b

\* The same for two bytes.
LEMMA RoundTrip2 ==
    ASSUME NEW x \in Nat, x < Short
    PROVE  LET b == Append_u(x, 2) IN Num2(b[1], b[2]) = x
  <1> DEFINE b == Append_u(x, 2)
  <1>1. PICK f : AppendBy(f, x, 2)
    <2>1. 2 \in Nat \ {0}
      OBVIOUS
    <2> QED BY <2>1, AppendUType, Zenon
  <1>2. f[1] = x \div 256 /\ f[1] \in Nat /\ b[1] = f[1] % 256 /\ b[2] = x % 256
    BY <1>1 DEF AppendBy
  <1> DEFINE q == f[1]
             x0 == x % 256
  <1>3. x = 256 * q + x0 /\ x0 \in 0 .. 255
    BY <1>2, Bytewise
  <1>4. b[1] = q % 256 /\ b[2] = x0 /\ q \in Nat
    BY <1>2
  <1> HIDE DEF q, b, x0
  <1>5. q < 256
    BY <1>3, <1>4 DEF Short
  <1>6. b[1] = q
    BY <1>4, <1>5
  <1>7. Num2(b[1], b[2]) = x
    BY <1>3, <1>4, <1>6 DEF Num2
  <1> QED BY <1>7 DEF b

------------------------------------------------------------------------------
(* Frames.                                                                  *)

\* u is s with t behind it, place by place.
Joins(u, s, t, m, n) ==
    /\ Len(u) = m + n
    /\ \A i \in 1 .. m : u[i] = s[i]
    /\ \A i \in 1 .. n : u[m + i] = t[i]

\* Concatenation joins.
LEMMA Joined ==
    ASSUME NEW S, NEW s \in Seq(S), NEW t \in Seq(S)
    PROVE  s \o t \in Seq(S) /\ Joins(s \o t, s, t, Len(s), Len(t))
  <1> DEFINE m == Len(s)
             n == Len(t)
  <1>0. m \in Nat /\ n \in Nat
    BY LenProperties
  <1>1. s \o t \in Seq(S) /\ Len(s \o t) = m + n
    BY ConcatProperties
  <1>2. \A i \in 1 .. m : (s \o t)[i] = s[i]
    BY <1>0, ConcatProperties
  <1>3. \A i \in 1 .. n : (s \o t)[m + i] = t[i]
    <2> SUFFICES ASSUME NEW i \in 1 .. n PROVE (s \o t)[m + i] = t[i]
      OBVIOUS
    <2> DEFINE j == m + i
    <2>1. j \in 1 .. Len(s) + Len(t) /\ ~(j <= Len(s)) /\ j - Len(s) = i
      BY <1>0
    <2> HIDE DEF j
    <2>2. (s \o t)[j] = t[i]
      BY <2>1, ConcatProperties
    <2> QED BY <2>2 DEF j
  <1> QED BY <1>1, <1>2, <1>3 DEF Joins

\* The frames whose type and length fit in their fields.
Frames == [type : {t \in Nat : t < Short}, payload : {p \in Seq(Nat) : 2 + Len(p) < Wide}]

\* encode: the length counts type and payload, the type and the payload follow it.
LEMMA EncodeType ==
    ASSUME NEW f \in Frames
    PROVE  LET e == encode(f) IN
           /\ e \in Seq(Nat) /\ Len(e) = 6 + Len(f.payload)
           /\ Num4(e[1], e[2], e[3], e[4]) = 2 + Len(f.payload)
           /\ Num2(e[5], e[6]) = f.type
           /\ \A i \in 1 .. Len(f.payload) : e[6 + i] = f.payload[i]
  <1> DEFINE pl == f.payload
             ty == f.type
             n == Len(pl)
             m == 2 + n
             a == Append_u(m, 4)
             b == Append_u(ty, 2)
             e == encode(f)
  <1>1. pl \in Seq(Nat) /\ ty \in Nat /\ m < Wide /\ ty < Short
    BY DEF Frames
  <1>2. n \in Nat
    BY <1>1, LenProperties
  <1>3. m \in Nat
    BY <1>2
  <1>4. e = a \o b \o pl
    BY DEF encode
  <1> HIDE DEF pl, ty, n, m, a, b, e
  <1>5. a \in Seq(Nat) /\ Len(a) = 4
    <2>1. 4 \in Nat \ {0}
      OBVIOUS
    <2> QED BY <1>3, <2>1, AppendUType, Zenon DEF a
  <1>6. b \in Seq(Nat) /\ Len(b) = 2
    <2>1. 2 \in Nat \ {0}
      OBVIOUS
    <2> QED BY <1>1, <2>1, AppendUType, Zenon DEF b
  <1>7. Num4(a[1], a[2], a[3], a[4]) = m
    BY <1>1, <1>3, RoundTrip4 DEF a
  <1>8. Num2(b[1], b[2]) = ty
    BY <1>1, RoundTrip2 DEF b
  <1>9. Len(pl) = n
    BY DEF n
  <1> DEFINE c == a \o b
  <1>a. c \in Seq(Nat) /\ Len(c) = 4 + 2
        /\ (\A i \in 1 .. 4 : c[i] = a[i]) /\ (\A i \in 1 .. 2 : c[4 + i] = b[i])
    <2>1. c \in Seq(Nat) /\ Joins(c, a, b, Len(a), Len(b))
      BY <1>5, <1>6, Joined
    <2> HIDE DEF c
    <2> QED BY <1>5, <1>6, <2>1, Zenon DEF Joins
  <1>11. e = c \o pl
    BY <1>4
  <1> HIDE DEF c
  <1>10. Len(c) = 6 /\ c[1] = a[1] /\ c[2] = a[2] /\ c[3] = a[3] /\ c[4] = a[4]
         /\ c[5] = b[1] /\ c[6] = b[2]
    <2>1. c[4 + 1] = b[1] /\ c[4 + 2] = b[2]
      BY <1>a
    <2> QED BY <1>a, <2>1
  <1>b. e \in Seq(Nat) /\ Len(e) = 6 + n
        /\ (\A i \in 1 .. 6 : e[i] = c[i]) /\ (\A i \in 1 .. n : e[6 + i] = pl[i])
    <2>1. e \in Seq(Nat) /\ Joins(e, c, pl, Len(c), Len(pl))
      BY <1>1, <1>a, <1>11, Joined
    <2> QED BY <1>9, <1>10, <2>1, Zenon DEF Joins
  <1>12. e[1] = c[1] /\ e[2] = c[2] /\ e[3] = c[3] /\ e[4] = c[4] /\ e[5] = c[5] /\ e[6] = c[6]
    BY <1>b
  <1>14. Num4(e[1], e[2], e[3], e[4]) = m /\ Num2(e[5], e[6]) = ty
    BY <1>7, <1>8, <1>10, <1>12
  <1> QED BY <1>b, <1>14 DEF e, n, m, ty, pl

\* try_decode takes from a buffer that begins with a frame that very frame, and
\* leaves what follows it.
LEMMA EncodeTaken ==
    ASSUME NEW f \in Frames, NEW x \in Seq(Nat)
    PROVE  LET b == encode(f) \o x IN
           /\ b \in Seq(Nat) /\ HasFrame(b)
           /\ TakeFrame(b).frame = f /\ TakeFrame(b).rest = x
  <1> DEFINE pl == f.payload
             ty == f.type
             n == Len(pl)
             l == Len(x)
             e == encode(f)
             b == e \o x
  <1>1. pl \in Seq(Nat) /\ f = [type |-> ty, payload |-> pl]
    BY DEF Frames
  <1>2. n \in Nat /\ l \in Nat
    BY <1>1, LenProperties
  <1>3. /\ e \in Seq(Nat) /\ Len(e) = 6 + n
        /\ Num4(e[1], e[2], e[3], e[4]) = 2 + n /\ Num2(e[5], e[6]) = ty
        /\ \A i \in 1 .. n : e[6 + i] = pl[i]
    BY EncodeType
  <1>4. Len(x) = l /\ Len(pl) = n /\ b = e \o x
    OBVIOUS
  <1> HIDE DEF pl, ty, n, l, e, b
  <1>5. b \in Seq(Nat) /\ Len(b) = 6 + n + l
        /\ (\A i \in 1 .. 6 + n : b[i] = e[i]) /\ (\A i \in 1 .. l : b[6 + n + i] = x[i])
    <2>1. b \in Seq(Nat) /\ Joins(b, e, x, Len(e), Len(x))
      BY <1>3, <1>4, Joined
    <2> QED BY <1>3, <1>4, <2>1, Zenon DEF Joins
  <1>6. b[1] = e[1] /\ b[2] = e[2] /\ b[3] = e[3] /\ b[4] = e[4] /\ b[5] = e[5] /\ b[6] = e[6]
    BY <1>2, <1>5
  <1>7. Len(b) >= 4 /\ Len(b) >= 6
    BY <1>2, <1>5
  <1>8. Read_u(b, 0, 4) = 2 + n
    BY <1>3, <1>5, <1>6, <1>7, ReadHeader
  <1>9. Read_u(b, 4, 2) = ty
    BY <1>3, <1>5, <1>6, <1>7, ReadHeader
  <1>10. HasFrame(b)
    BY <1>2, <1>5, <1>7, <1>8 DEF HasFrame
  <1> DEFINE s == SubSeq(b, 7, 6 + n)
             r == SubSeq(b, 6 + n + 1, Len(b))
  <1>11. s = pl
    <2>1. s \in Seq(Nat) /\ Len(s) = n /\ \A i \in 1 .. n : s[i] = b[7 + i - 1]
      BY <1>2, <1>5, SubSeqProperties
    <2> HIDE DEF s
    <2>2. \A i \in 1 .. n : 7 + i - 1 = 6 + i /\ 6 + i \in 1 .. 6 + n
      BY <1>2
    <2>3. \A i \in 1 .. n : s[i] = pl[i]
      <3> SUFFICES ASSUME NEW i \in 1 .. n PROVE s[i] = pl[i]
        OBVIOUS
      <3>1. s[i] = b[6 + i]
        BY <2>1, <2>2
      <3>2. b[6 + i] = e[6 + i]
        BY <1>5, <2>2
      <3> QED BY <1>3, <3>1, <3>2
    <2> QED BY <1>1, <1>4, <2>1, <2>3, SeqEqual
  <1>12. r = x
    <2>1. r \in Seq(Nat) /\ Len(r) = l /\ \A i \in 1 .. l : r[i] = b[6 + n + 1 + i - 1]
      BY <1>2, <1>5, SubSeqProperties
    <2> HIDE DEF r
    <2>2. \A i \in 1 .. l : 6 + n + 1 + i - 1 = 6 + n + i
      BY <1>2
    <2>3. \A i \in 1 .. l : r[i] = x[i]
      BY <1>5, <2>1, <2>2
    <2> QED BY <1>4, <2>1, <2>3, SeqEqual
  <1>13. 4 + (2 + n) = 6 + n
    BY <1>2
  <1>14. TakeFrame(b).frame = [type |-> ty, payload |-> s] /\ TakeFrame(b).rest = r
    BY <1>8, <1>9, <1>13 DEF TakeFrame, Rest, s, r
  <1> QED BY <1>1, <1>5, <1>10, <1>11, <1>12, <1>14 DEF b, e

\* b and then d is the same as e and then y.
Same(b, d, e, y) == b \o d = e \o y
Splits(c, b, d, e, y) == c \in Seq(Nat) /\ b = e \o c /\ c \o d = y

\* Of two ways to cut a sequence the later cut has the earlier part in front.
LEMMA CutLater ==
    ASSUME NEW b \in Seq(Nat), NEW d \in Seq(Nat), NEW e \in Seq(Nat), NEW y \in Seq(Nat),
           Same(b, d, e, y), Len(b) >= Len(e)
    PROVE  \E c : Splits(c, b, d, e, y)
  <1> DEFINE S == Nat
             k == Len(b)
             m == Len(e)
             l == Len(d)
             z == Len(y)
             j == k - m
             c == SubSeq(b, m + 1, k)
             t == e \o c
             w == c \o d
             u == b \o d
  <1>1. k \in Nat /\ m \in Nat /\ l \in Nat /\ z \in Nat /\ k >= m
    BY LenProperties
  <1>2. j \in Nat /\ k = m + j
    BY <1>1
  <1>3. Joins(u, b, d, k, l) /\ Joins(u, e, y, m, z)
    <2>1. Joins(b \o d, b, d, k, l) /\ Joins(e \o y, e, y, m, z)
      BY Joined
    <2> QED BY <2>1 DEF Same
  <1>4. Len(b) = k /\ Len(e) = m /\ Len(d) = l /\ Len(y) = z /\ \A i \in 1 .. k : b[i] \in S
    BY ElementOfSeq
  <1> HIDE DEF k, m, l, z, j, u
  <1>5. c \in Seq(S) /\ Len(c) = j /\ \A i \in 1 .. j : c[i] = b[m + i]
    <2>1. m + 1 \in Int /\ k \in Int /\ \A i \in m + 1 .. k : b[i] \in S
      BY <1>1, <1>4
    <2>2. c \in Seq(S) /\ Len(c) = (IF m + 1 <= k THEN k - (m + 1) + 1 ELSE 0)
          /\ \A i \in 1 .. k - (m + 1) + 1 : c[i] = b[m + 1 + i - 1]
      BY <2>1, SubSeqProperties
    <2> HIDE DEF c
    <2>3. k - (m + 1) + 1 = j /\ \A i \in 1 .. j : m + 1 + i - 1 = m + i
      BY <1>1, <1>2
    <2>4. Len(c) = j
      BY <1>1, <1>2, <2>2
    <2> QED BY <2>2, <2>3, <2>4
  <1> HIDE DEF c
  <1>6. t \in Seq(S) /\ Joins(t, e, c, m, j)
    BY <1>4, <1>5, Joined
  <1>7. w \in Seq(S) /\ Joins(w, c, d, j, l)
    BY <1>4, <1>5, Joined
  <1> HIDE DEF t, w
  <1>8. b = t
    <2>1. \A i \in 1 .. k : b[i] = t[i]
      <3> SUFFICES ASSUME NEW i \in 1 .. k PROVE b[i] = t[i]
        OBVIOUS
      <3>1. CASE i <= m
        <4>1. i \in 1 .. m
          BY <1>1, <3>1
        <4> QED BY <1>3, <1>6, <4>1 DEF Joins
      <3>2. CASE ~(i <= m)
        <4> DEFINE a == i - m
        <4>1. a \in 1 .. j /\ i = m + a
          BY <1>1, <1>2, <3>2
        <4> HIDE DEF a
        <4> QED BY <1>5, <1>6, <4>1 DEF Joins
      <3> QED BY <3>1, <3>2
    <2>2. Len(t) = k
      BY <1>2, <1>6 DEF Joins
    <2> QED BY <1>4, <1>6, <2>1, <2>2, SeqEqual
  <1>9. w = y
    <2>1. z = j + l
      <3>1. Len(u) = k + l /\ Len(u) = m + z
        BY <1>3 DEF Joins
      <3> QED BY <1>1, <1>2, <3>1
    <2>2. \A i \in 1 .. z : w[i] = y[i]
      <3> SUFFICES ASSUME NEW i \in 1 .. z PROVE w[i] = y[i]
        OBVIOUS
      <3>0. y[i] = u[m + i]
        BY <1>3 DEF Joins
      <3>1. CASE i <= j
        <4>1. i \in 1 .. j /\ m + i \in 1 .. k
          BY <1>1, <1>2, <3>1
        <4>2. w[i] = c[i] /\ c[i] = b[m + i] /\ b[m + i] = u[m + i]
          BY <1>3, <1>5, <1>7, <4>1 DEF Joins
        <4> QED BY <3>0, <4>2
      <3>2. CASE ~(i <= j)
        <4> DEFINE a == i - j
        <4>1. a \in 1 .. l /\ i = j + a /\ m + i = k + a
          BY <1>1, <1>2, <2>1, <3>2
        <4> HIDE DEF a
        <4>2. w[j + a] = d[a] /\ d[a] = u[k + a]
          BY <1>3, <1>7, <4>1 DEF Joins
        <4> QED BY <3>0, <4>1, <4>2
      <3> QED BY <3>1, <3>2
    <2>3. Len(w) = z
      BY <1>7, <2>1 DEF Joins
    <2> QED BY <1>4, <1>7, <2>2, <2>3, SeqEqual
  <1>10. b = e \o c /\ c \o d = y
    BY <1>8, <1>9 DEF t, w
  <1>11. Splits(c, b, d, e, y)
    BY <1>5, <1>10 DEF Splits
  <1> QED BY <1>11

\* A buffer that try_decode takes a frame from, of a stream that begins with one,
\* holds all of it.
LEMMA FrameWhole ==
    ASSUME NEW f \in Frames, NEW b \in Seq(Nat), NEW d \in Seq(Nat), NEW y \in Seq(Nat),
           Same(b, d, encode(f), y), HasFrame(b)
    PROVE  \E c : Splits(c, b, d, encode(f), y)
  <1> DEFINE n == Len(f.payload)
             e == encode(f)
             k == Len(b)
             l == Len(d)
             z == Len(y)
             u == b \o d
  <1>1. e \in Seq(Nat) /\ Len(e) = 6 + n /\ Num4(e[1], e[2], e[3], e[4]) = 2 + n
    BY EncodeType
  <1>2. n \in Nat /\ k \in Nat /\ l \in Nat /\ z \in Nat
    BY LenProperties DEF Frames
  <1>3. Joins(u, b, d, k, l) /\ Joins(u, e, y, Len(e), z)
    <2>1. Joins(b \o d, b, d, k, l) /\ Joins(e \o y, e, y, Len(e), z)
      BY <1>1, Joined
    <2> QED BY <2>1 DEF Same
  <1>4. k >= 4 /\ k >= 4 + Read_u(b, 0, 4) /\ Read_u(b, 0, 4) = Num4(b[1], b[2], b[3], b[4])
    BY ReadHeader DEF HasFrame
  <1>5. Len(b) = k /\ Same(b, d, e, y)
    OBVIOUS
  <1> HIDE DEF n, e, k, l, z, u
  <1>6. b[1] = e[1] /\ b[2] = e[2] /\ b[3] = e[3] /\ b[4] = e[4]
    <2> DEFINE m == Len(e)
    <2>0. m = 6 + n
      BY <1>1
    <2> HIDE DEF m
    <2>a. \A i \in 1 .. 4 : i \in 1 .. k /\ i \in 1 .. m
      BY <1>2, <1>4, <2>0
    <2>1. \A i \in 1 .. 4 : i \in 1 .. k /\ i \in 1 .. Len(e)
      BY <2>a DEF m
    <2>2. \A i \in 1 .. 4 : b[i] = e[i]
      BY <1>3, <2>1 DEF Joins
    <2> QED BY <2>2
  <1>7. k >= Len(e)
    <2>1. k >= 4 + (2 + n)
      BY <1>1, <1>4, <1>6
    <2> QED BY <1>1, <1>2, <2>1
  <1>8. \E c : Splits(c, b, d, e, y)
    <2>1. Len(b) >= Len(e)
      BY <1>5, <1>7
    <2> QED BY <1>1, <1>5, <2>1, CutLater, Zenon
  <1> QED BY <1>8 DEF e

\* A frame takes six bytes at least.
LEMMA TakeShrinks ==
    ASSUME NEW b \in Seq(Nat), HasFrame(b)
    PROVE  TakeFrame(b).rest \in Seq(Nat) /\ Len(TakeFrame(b).rest) + 6 <= Len(b)
  <1> DEFINE k == Len(b)
             n == Read_u(b, 0, 4)
             r == SubSeq(b, 4 + n + 1, k)
  <1>1. k \in Nat /\ k >= 4 /\ n >= 2 /\ k >= 4 + n /\ \A i \in 1 .. k : b[i] \in Nat
    BY LenProperties, ElementOfSeq DEF HasFrame
  <1>2. n \in Nat
    BY <1>1, ReadHeader
  <1>3. TakeFrame(b).rest = r
    BY DEF TakeFrame, Rest
  <1> HIDE DEF k, n
  <1>4. r \in Seq(Nat) /\ Len(r) = IF 4 + n + 1 <= k THEN k - (4 + n + 1) + 1 ELSE 0
    <2>1. 4 + n + 1 \in Int /\ k \in Int /\ \A i \in 4 + n + 1 .. k : b[i] \in Nat
      BY <1>1, <1>2
    <2> QED BY <2>1, SubSeqProperties
  <1> HIDE DEF r
  <1>5. Len(r) + 6 <= k
    BY <1>1, <1>2, <1>4
  <1> QED BY <1>3, <1>4, <1>5 DEF k

\* What holds before the first try_decode and is kept by every one holds when the
\* loop ends, and there no frame is left in the buffer.
LEMMA DecodeRule ==
    ASSUME NEW a \in Seq(Nat), NEW I, [frames |-> << >>, rest |-> a] \in I,
           \A r \in I : r.rest \in Seq(Nat) /\ TryDecode(r) \in I
    PROVE  DecodeAll(a) \in I /\ ~HasFrame(DecodeAll(a).rest)
  <1> DEFINE l == Len(a)
             n == l \div 6
             x == [frames |-> << >>, rest |-> a]
             g == [i \in Nat |-> [v \in I |-> TryDecode(v)]]
             h == CHOOSE f : f = [k \in 0 .. n |-> IF k = 0 THEN x ELSE TryDecode(f[k - 1])]
  <1>1. l \in Nat /\ x \in I /\ x.rest = a
    BY LenProperties
  <1>0. n \in Nat /\ l < 6 * n + 6
    <2>1. l \in Nat
      BY <1>1
    <2> HIDE DEF l
    <2> QED BY <2>1
  <1>2. \A i \in Nat : \A v \in I : g[i][v] = TryDecode(v) /\ g[i][v] \in I
    OBVIOUS
  <1>3. DecodeAll(a) = h[n]
    BY DEF DecodeAll
  <1> HIDE DEF h, g, x, n
  <1>4. PICK f : Rounds(f, I, x, g, n)
    <2>1. Stays(I, g)
      BY <1>2 DEF Stays
    <2> QED BY <1>0, <1>1, <2>1, Loop, Zenon
  <1>5. f = [k \in 0 .. n |-> IF k = 0 THEN x ELSE TryDecode(f[k - 1])]
    <2>1. ASSUME NEW k \in 0 .. n PROVE f[k] = IF k = 0 THEN x ELSE TryDecode(f[k - 1])
      <3>1. CASE k = 0
        BY <1>4, <3>1 DEF Rounds
      <3>2. CASE k # 0
        <4>1. k \in 1 .. n /\ k - 1 \in 0 .. n /\ k \in Nat
          BY <1>0, <3>2
        <4>2. f[k] = g[k][f[k - 1]] /\ f[k - 1] \in I
          BY <1>4, <4>1 DEF Rounds
        <4> QED BY <1>2, <3>2, <4>1, <4>2
      <3> QED BY <3>1, <3>2
    <2>2. f = [k \in 0 .. n |-> f[k]]
      BY <1>4 DEF Rounds
    <2> QED BY <2>1, <2>2, Zenon
  <1>6. h = [k \in 0 .. n |-> IF k = 0 THEN x ELSE TryDecode(h[k - 1])]
    BY <1>5, Zenon DEF h
  <1>7. \A k \in 0 .. n : h[k] = IF k = 0 THEN x ELSE TryDecode(h[k - 1])
    BY <1>6, Zenon
  <1> DEFINE P == {k \in Nat : k \in 0 .. n =>
                       h[k] \in I /\ (~HasFrame(h[k].rest) \/ Len(h[k].rest) + 6 * k <= l)}
  <1>8. 0 \in P
    <2>1. h[0] = x /\ 0 \in 0 .. n
      BY <1>0, <1>7
    <2>2. Len(x.rest) + 6 * 0 <= l
      BY <1>1
    <2> QED BY <1>1, <2>1, <2>2
  <1>9. ASSUME NEW k \in Nat, k \in P PROVE k + 1 \in P
    <2> SUFFICES ASSUME k + 1 \in 0 .. n
                 PROVE  h[k + 1] \in I /\ (~HasFrame(h[k + 1].rest) \/ Len(h[k + 1].rest) + 6 * (k + 1) <= l)
      OBVIOUS
    <2>1. k \in 0 .. n
      BY <1>0
    <2>2. h[k] \in I /\ (~HasFrame(h[k].rest) \/ Len(h[k].rest) + 6 * k <= l)
      BY <1>9, <2>1
    <2>3. h[k + 1] = TryDecode(h[k])
      <3>1. k + 1 # 0 /\ (k + 1) - 1 = k
        OBVIOUS
      <3>2. h[k + 1] = TryDecode(h[(k + 1) - 1])
        BY <1>7, <3>1
      <3> QED BY <3>1, <3>2
    <2> DEFINE r == h[k]
    <2>4. r \in I /\ r.rest \in Seq(Nat) /\ TryDecode(r) \in I
      BY <2>2
    <2> HIDE DEF r
    <2>5. CASE ~HasFrame(r.rest)
      <3>1. TryDecode(r) = r
        BY <2>5 DEF TryDecode
      <3> QED BY <2>3, <2>4, <2>5, <3>1 DEF r
    <2>6. CASE HasFrame(r.rest)
      <3> DEFINE j == Len(r.rest)
                 t == TakeFrame(r.rest).rest
                 m == Len(t)
      <3>1. t \in Seq(Nat) /\ m + 6 <= j /\ TryDecode(r).rest = t
        BY <2>4, <2>6, TakeShrinks DEF TryDecode
      <3>2. m \in Nat /\ j \in Nat
        BY <2>4, <3>1, LenProperties
      <3>3. j + 6 * k <= l
        BY <2>2, <2>6 DEF r
      <3>4. Len(TryDecode(r).rest) = m
        BY <3>1
      <3> HIDE DEF j, m, t
      <3>5. m + 6 * (k + 1) <= l
        BY <1>1, <3>1, <3>2, <3>3
      <3> QED BY <2>3, <2>4, <3>4, <3>5 DEF r
    <2> QED BY <2>5, <2>6
  <1> HIDE DEF P
  <1>10. n \in P
    BY <1>0, <1>8, <1>9, Induction
  <1>11. h[n] \in I /\ (~HasFrame(h[n].rest) \/ Len(h[n].rest) + 6 * n <= l)
    <2>1. n \in 0 .. n
      BY <1>0
    <2> QED BY <1>10, <2>1, Zenon DEF P
  <1>12. ~HasFrame(h[n].rest)
    <2> DEFINE q == h[n].rest
               j == Len(q)
    <2>1. q \in Seq(Nat)
      BY <1>11
    <2>2. j \in Nat
      BY <2>1, LenProperties
    <2> HIDE DEF q
    <2>3. ASSUME HasFrame(q) PROVE j >= 6
      <3>1. j >= 4 /\ Read_u(q, 0, 4) >= 2 /\ j >= 4 + Read_u(q, 0, 4) /\ Read_u(q, 0, 4) \in Nat
        BY <2>1, <2>3, ReadHeader DEF HasFrame
      <3> DEFINE v == Read_u(q, 0, 4)
      <3>2. v >= 2 /\ j >= 4 + v /\ v \in Nat
        BY <3>1
      <3> HIDE DEF v, j
      <3> QED BY <2>2, <3>2
    <2>4. ~HasFrame(q) \/ j + 6 * n <= l
      BY <1>11 DEF q
    <2> HIDE DEF j
    <2>5. ~HasFrame(q)
      BY <1>0, <1>1, <2>2, <2>3, <2>4
    <2> QED BY <2>5 DEF q
  <1> QED BY <1>3, <1>11, <1>12

------------------------------------------------------------------------------
(* A stream of frames.                                                      *)

Coded(fs) == [i \in DOMAIN fs |-> encode(fs[i])]

\* The frames, each as its bytes.
LEMMA CodedType ==
    ASSUME NEW fs \in Seq(Frames)
    PROVE  /\ Coded(fs) \in Seq(Seq(Nat)) /\ Len(Coded(fs)) = Len(fs)
           /\ \A i \in 1 .. Len(fs) : Coded(fs)[i] = encode(fs[i])
           /\ EncodeAll(fs) = FlattenSeq(Coded(fs))
  <1>1. DOMAIN fs = 1 .. Len(fs) /\ Len(fs) \in Nat /\ \A i \in 1 .. Len(fs) : fs[i] \in Frames
    BY LenProperties, ElementOfSeq
  <1>2. \A i \in 1 .. Len(fs) : encode(fs[i]) \in Seq(Nat)
    BY <1>1, EncodeType
  <1>3. Coded(fs) \in [1 .. Len(fs) -> Seq(Nat)] /\ \A i \in 1 .. Len(fs) : Coded(fs)[i] = encode(fs[i])
    BY <1>1, <1>2 DEF Coded
  <1>4. EncodeAll(fs) = FlattenSeq(Coded(fs))
    BY DEF EncodeAll, Coded
  <1> DEFINE c == Coded(fs)
             n == Len(fs)
  <1>5. c \in [1 .. n -> Seq(Nat)] /\ n \in Nat
    BY <1>1, <1>3
  <1> HIDE DEF c, n
  <1>6. c \in Seq(Seq(Nat)) /\ Len(c) = n
    <2>1. c \in Seq(Seq(Nat))
      BY <1>5, SeqDef
    <2>2. DOMAIN c = 1 .. n
      BY <1>5
    <2>3. DOMAIN c = 1 .. Len(c) /\ Len(c) \in Nat
      BY <2>1, LenProperties
    <2> QED BY <1>5, <2>1, <2>2, <2>3
  <1> QED BY <1>3, <1>4, <1>6 DEF c, n

\* Encoding is encoding of parts.
LEMMA EncodeConcat ==
    ASSUME NEW fs \in Seq(Frames), NEW gs \in Seq(Frames)
    PROVE  /\ EncodeAll(fs) \in Seq(Nat)
           /\ EncodeAll(fs \o gs) = EncodeAll(fs) \o EncodeAll(gs)
  <1> DEFINE hs == fs \o gs
             a == Coded(fs)
             b == Coded(gs)
             c == Coded(hs)
             d == a \o b
             m == Len(fs)
             n == Len(gs)
  <1>1. m \in Nat /\ n \in Nat
    BY LenProperties
  <1>2. hs \in Seq(Frames) /\ Joins(hs, fs, gs, m, n)
    BY Joined
  <1>3. /\ a \in Seq(Seq(Nat)) /\ Len(a) = m /\ \A i \in 1 .. m : a[i] = encode(fs[i])
        /\ EncodeAll(fs) = FlattenSeq(a)
    BY CodedType
  <1>4. /\ b \in Seq(Seq(Nat)) /\ Len(b) = n /\ \A i \in 1 .. n : b[i] = encode(gs[i])
        /\ EncodeAll(gs) = FlattenSeq(b)
    BY CodedType
  <1> HIDE DEF hs, a, b
  <1>5. /\ c \in Seq(Seq(Nat)) /\ Len(c) = Len(hs) /\ \A i \in 1 .. Len(hs) : c[i] = encode(hs[i])
        /\ EncodeAll(hs) = FlattenSeq(c)
    BY <1>2, CodedType
  <1>6. d \in Seq(Seq(Nat)) /\ Joins(d, a, b, m, n)
    BY <1>3, <1>4, Joined
  <1> HIDE DEF c, d, m, n
  <1>7. Len(hs) = m + n /\ Len(d) = m + n
    BY <1>2, <1>6 DEF Joins
  <1>8. c = d
    <2>1. \A i \in 1 .. m + n : c[i] = d[i]
      <3> SUFFICES ASSUME NEW i \in 1 .. m + n PROVE c[i] = d[i]
        OBVIOUS
      <3>0. c[i] = encode(hs[i])
        BY <1>5, <1>7
      <3>1. CASE i <= m
        <4>1. i \in 1 .. m
          BY <1>1, <3>1
        <4>2. hs[i] = fs[i] /\ d[i] = a[i] /\ a[i] = encode(fs[i])
          BY <1>2, <1>3, <1>6, <4>1 DEF Joins
        <4> QED BY <3>0, <4>2
      <3>2. CASE ~(i <= m)
        <4> DEFINE j == i - m
        <4>1. j \in 1 .. n /\ i = m + j
          BY <1>1, <3>2
        <4> HIDE DEF j
        <4>2. hs[m + j] = gs[j] /\ d[m + j] = b[j] /\ b[j] = encode(gs[j])
          BY <1>2, <1>4, <1>6, <4>1 DEF Joins
        <4> QED BY <3>0, <4>1, <4>2
      <3> QED BY <3>1, <3>2
    <2>2. Len(c) = Len(d) /\ \A i \in 1 .. Len(c) : c[i] = d[i]
      BY <1>5, <1>7, <2>1
    <2> QED BY <1>5, <1>6, <2>2, SeqEqual
  <1>9. FlattenSeq(d) = FlattenSeq(a) \o FlattenSeq(b)
    BY <1>3, <1>4, FlattenConcat DEF d
  <1>10. FlattenSeq(a) \in Seq(Nat)
    BY <1>3, EmptySeq, FlattenAppend
  <1> QED BY <1>3, <1>4, <1>5, <1>8, <1>9, <1>10 DEF hs

\* No frames, and one, as bytes.
LEMMA EncodeOne ==
    ASSUME NEW f \in Frames
    PROVE  EncodeAll(<< >>) = << >> /\ EncodeAll(<<f>>) = encode(f)
  <1> DEFINE e == encode(f)
             z == << >>
  <1>1. EncodeAll(<< >>) = << >>
    BY DEF EncodeAll, FlattenSeq
  <1>2. EncodeAll(<<f>>) = FlattenSeq(<<e>>)
    <2>1. [i \in DOMAIN <<f>> |-> encode(<<f>>[i])] = <<encode(f)>>
      OBVIOUS
    <2> QED BY <2>1 DEF EncodeAll
  <1>3. e \in Seq(Nat)
    BY EncodeType
  <1> HIDE DEF e
  <1>4. <<e>> = Append(z, e) /\ z \in Seq(Seq(Nat)) /\ FlattenSeq(z) = << >>
    <2>1. FlattenSeq(<< >>) = << >>
      BY DEF FlattenSeq
    <2> QED BY <2>1
  <1>5. FlattenSeq(Append(z, e)) = FlattenSeq(z) \o e
    BY <1>3, <1>4, FlattenAppend
  <1>6. << >> \o e = e
    BY <1>3, ConcatEmptySeq
  <1> QED BY <1>1, <1>2, <1>4, <1>5, <1>6 DEF e

\* fs are the frames still to be seen: those seen and these are all, and the bytes
\* kept and under way are theirs.
Ahead(fs, b, d, seen, all) == fs \in Seq(Frames) /\ all = seen \o fs /\ b \o d = EncodeAll(fs)

\* A stream of frames between the two ends of a connection.
Pipe(b, d, seen, all) ==
    /\ b \in Seq(Nat) /\ d \in Seq(Nat) /\ seen \in Seq(Frames) /\ ~HasFrame(b)
    /\ \E fs : Ahead(fs, b, d, seen, all)

\* Frames after the first one.
LEMMA EncodeTail ==
    ASSUME NEW v \in Seq(Frames), v # << >>
    PROVE  EncodeAll(v) = encode(Head(v)) \o EncodeAll(Tail(v))
  <1> DEFINE h == Head(v)
             t == Tail(v)
             u == <<h>>
  <1>1. h \in Frames /\ t \in Seq(Frames) /\ v = u \o t
    BY HeadTailProperties
  <1> HIDE DEF h, t
  <1>2. u \in Seq(Frames)
    BY <1>1
  <1> HIDE DEF u
  <1>3. EncodeAll(v) = EncodeAll(u) \o EncodeAll(t)
    BY <1>1, <1>2, EncodeConcat
  <1>4. EncodeAll(u) = encode(h)
    BY <1>1, EncodeOne DEF u
  <1> QED BY <1>3, <1>4 DEF h, t

\* try_decode on a stream of frames takes the first of them.
LEMMA AheadTake ==
    ASSUME NEW a \in Seq(Nat), NEW d \in Seq(Nat), NEW s \in Seq(Frames), NEW all,
           NEW v, Ahead(v, a, d, s, all), HasFrame(a)
    PROVE  /\ TakeFrame(a).frame \in Frames /\ TakeFrame(a).rest \in Seq(Nat)
           /\ Ahead(Tail(v), TakeFrame(a).rest, d, Append(s, TakeFrame(a).frame), all)
  <1> DEFINE h == Head(v)
             t == Tail(v)
             e == encode(h)
             y == EncodeAll(t)
  <1>1. v \in Seq(Frames) /\ all = s \o v /\ a \o d = EncodeAll(v)
    BY DEF Ahead
  <1>2. v # << >>
    <2> SUFFICES ASSUME v = << >> PROVE FALSE
      OBVIOUS
    <2>1. EncodeAll(v) = << >>
      BY DEF EncodeAll, FlattenSeq
    <2>2. a \o d = << >>
      BY <1>1, <2>1
    <2>3. Len(a \o d) = Len(a) + Len(d) /\ Len(a) \in Nat /\ Len(d) \in Nat
      BY ConcatProperties, LenProperties
    <2>4. Len(a) >= 4
      BY DEF HasFrame
    <2> QED BY <2>2, <2>3, <2>4
  <1>3. h \in Frames /\ t \in Seq(Frames) /\ v = <<h>> \o t
    BY <1>1, <1>2, HeadTailProperties
  <1>4. Same(a, d, e, y)
    BY <1>1, <1>2, EncodeTail DEF Same
  <1>5. y \in Seq(Nat)
    BY <1>3, EncodeConcat
  <1> HIDE DEF h, t, e, y
  <1>6. PICK c : Splits(c, a, d, e, y)
    BY <1>3, <1>4, <1>5, FrameWhole DEF e
  <1>7. c \in Seq(Nat) /\ a = e \o c /\ c \o d = y
    BY <1>6 DEF Splits
  <1>8. TakeFrame(a).frame = h /\ TakeFrame(a).rest = c
    BY <1>3, <1>7, EncodeTaken DEF e
  <1>9. all = Append(s, h) \o t
    <2>1. s \o (<<h>> \o t) = (s \o <<h>>) \o t
      BY <1>3, ConcatAssociative, SMTT(30)
    <2>2. s \o <<h>> = Append(s, h)
      BY <1>3
    <2> QED BY <1>1, <1>3, <2>1, <2>2
  <1>10. Ahead(t, c, d, Append(s, h), all)
    BY <1>3, <1>7, <1>9 DEF Ahead, y
  <1> QED BY <1>3, <1>7, <1>8, <1>10 DEF t

\* The loop of try_decode on a stream of frames finds the first of them, as they
\* were sent, and keeps the beginning of the next.
LEMMA StreamDecode ==
    ASSUME NEW a \in Seq(Nat), NEW d \in Seq(Nat), NEW fs \in Seq(Frames), a \o d = EncodeAll(fs)
    PROVE  /\ DecodeAll(a).frames \in Seq(Frames)
           /\ Pipe(DecodeAll(a).rest, d, DecodeAll(a).frames, fs)
  <1> DEFINE I == {r \in [frames : Seq(Frames), rest : Seq(Nat)] :
                       \E v : Ahead(v, r.rest, d, r.frames, fs)}
             x == [frames |-> << >>, rest |-> a]
  <1>1. x \in I
    <2>1. Ahead(fs, x.rest, d, x.frames, fs)
      BY ConcatEmptySeq DEF Ahead
    <2>2. x \in [frames : Seq(Frames), rest : Seq(Nat)]
      BY EmptySeq
    <2> QED BY <2>1, <2>2, Zenon
  <1>2. ASSUME NEW r \in I PROVE r.rest \in Seq(Nat) /\ TryDecode(r) \in I
    <2>1. r.rest \in Seq(Nat) /\ r.frames \in Seq(Frames)
      OBVIOUS
    <2>2. PICK v : Ahead(v, r.rest, d, r.frames, fs)
      OBVIOUS
    <2>3. CASE ~HasFrame(r.rest)
      BY <2>1, <2>3 DEF TryDecode
    <2>4. CASE HasFrame(r.rest)
      <3> DEFINE f == TakeFrame(r.rest).frame
                 c == TakeFrame(r.rest).rest
                 q == Append(r.frames, f)
                 w == Tail(v)
                 y == [frames |-> q, rest |-> c]
      <3>1. TryDecode(r) = y
        BY <2>4 DEF TryDecode
      <3>2. f \in Frames /\ c \in Seq(Nat) /\ Ahead(w, c, d, q, fs)
        BY <2>1, <2>2, <2>4, AheadTake
      <3>3. q \in Seq(Frames)
        BY <2>1, <3>2, AppendProperties
      <3> HIDE DEF f, c, q, w
      <3>4. y \in [frames : Seq(Frames), rest : Seq(Nat)] /\ y.rest = c /\ y.frames = q
        BY <3>2, <3>3
      <3> HIDE DEF y
      <3>5. y \in I
        <4>1. \E u : Ahead(u, y.rest, d, y.frames, fs)
          BY <3>2, <3>4, Zenon
        <4> QED BY <3>4, <4>1, Zenon
      <3> QED BY <2>1, <3>1, <3>5
    <2> QED BY <2>3, <2>4
  <1> HIDE DEF I
  <1>3. DecodeAll(a) \in I /\ ~HasFrame(DecodeAll(a).rest)
    BY <1>1, <1>2, DecodeRule
  <1> DEFINE z == DecodeAll(a)
  <1>4. z.frames \in Seq(Frames) /\ z.rest \in Seq(Nat) /\ ~HasFrame(z.rest)
        /\ \E v : Ahead(v, z.rest, d, z.frames, fs)
    BY <1>3 DEF I
  <1> HIDE DEF z
  <1>5. Pipe(z.rest, d, z.frames, fs)
    BY <1>4 DEF Pipe
  <1> QED BY <1>4, <1>5 DEF z

\* What a read takes and what it leaves are what there was.
LEMMA ReadParts ==
    ASSUME NEW S, NEW d \in Seq(S), NEW n \in Nat
    PROVE  FirstN(d, n) \in Seq(S) /\ Rest(d, n) \in Seq(S) /\ FirstN(d, n) \o Rest(d, n) = d
  <1> DEFINE l == Len(d)
             a == SubSeq(d, 1, n)
             b == SubSeq(d, n + 1, l)
             u == a \o b
  <1>1. l \in Nat /\ \A i \in 1 .. l : d[i] \in S
    BY LenProperties, ElementOfSeq
  <1>2. Rest(d, n) = b /\ Len(d) = l
    BY DEF Rest
  <1>3. CASE l > n
    <2> HIDE DEF l
    <2>1. a \in Seq(S) /\ Len(a) = n /\ \A i \in 1 .. n : a[i] = d[i]
      <3>1. 1 \in Int /\ n \in Int /\ \A i \in 1 .. n : d[i] \in S
        BY <1>1, <1>3
      <3>2. a \in Seq(S) /\ Len(a) = (IF 1 <= n THEN n - 1 + 1 ELSE 0)
            /\ \A i \in 1 .. n - 1 + 1 : a[i] = d[1 + i - 1]
        BY <3>1, SubSeqProperties
      <3> HIDE DEF a
      <3>3. n - 1 + 1 = n /\ \A i \in 1 .. n : 1 + i - 1 = i
        OBVIOUS
      <3>4. Len(a) = n
        BY <3>2
      <3> QED BY <3>2, <3>3, <3>4
    <2> DEFINE m == l - n
    <2>2. m \in Nat /\ l = n + m
      BY <1>1, <1>3
    <2>3. b \in Seq(S) /\ Len(b) = m /\ \A i \in 1 .. m : b[i] = d[n + i]
      <3>1. n + 1 \in Int /\ l \in Int /\ \A i \in n + 1 .. l : d[i] \in S
        BY <1>1, <1>3
      <3>2. b \in Seq(S) /\ Len(b) = (IF n + 1 <= l THEN l - (n + 1) + 1 ELSE 0)
            /\ \A i \in 1 .. l - (n + 1) + 1 : b[i] = d[n + 1 + i - 1]
        BY <3>1, SubSeqProperties
      <3> HIDE DEF b, m
      <3>3. l - (n + 1) + 1 = m /\ \A i \in 1 .. m : n + 1 + i - 1 = n + i
        BY <1>1, <2>2
      <3>4. Len(b) = m
        BY <1>1, <2>2, <3>2
      <3> QED BY <3>2, <3>3, <3>4
    <2> HIDE DEF a, b, m
    <2>4. u \in Seq(S) /\ Joins(u, a, b, n, m)
      BY <2>1, <2>3, Joined
    <2> HIDE DEF u
    <2>5. \A i \in 1 .. l : u[i] = d[i]
      <3> SUFFICES ASSUME NEW i \in 1 .. l PROVE u[i] = d[i]
        OBVIOUS
      <3>1. CASE i <= n
        <4>1. i \in 1 .. n
          BY <3>1
        <4> QED BY <2>1, <2>4, <4>1 DEF Joins
      <3>2. CASE ~(i <= n)
        <4> DEFINE j == i - n
        <4>1. j \in 1 .. m /\ i = n + j
          BY <1>1, <2>2, <3>2
        <4> HIDE DEF j
        <4> QED BY <2>3, <2>4, <4>1 DEF Joins
      <3> QED BY <3>1, <3>2
    <2>6. Len(u) = l
      BY <2>2, <2>4 DEF Joins
    <2>7. u = d
      BY <1>2, <2>4, <2>5, <2>6, SeqEqual
    <2>8. FirstN(d, n) = a
      BY <1>2, <1>3 DEF FirstN, a
    <2> QED BY <1>2, <2>1, <2>3, <2>7, <2>8 DEF u
  <1>4. CASE ~(l > n)
    <2>1. FirstN(d, n) = d
      BY <1>2, <1>4 DEF FirstN
    <2>2. b = << >>
      <3> HIDE DEF l
      <3>1. l < n + 1 /\ n + 1 \in Int /\ l \in Int
        BY <1>1, <1>4
      <3> QED BY <3>1, SubSeqEmpty
    <2>3. d \o << >> = d
      BY ConcatEmptySeq
    <2> QED BY <1>2, <2>1, <2>2, <2>3, EmptySeq
  <1> QED BY <1>3, <1>4

\* A read, wherever it cuts the bytes.
LEMMA PipeRead ==
    ASSUME NEW b, NEW d, NEW seen, NEW all, Pipe(b, d, seen, all), NEW n \in Nat
    PROVE  LET r == DecodeAll(b \o FirstN(d, n)) IN
           r.frames \in Seq(Frames) /\ Pipe(r.rest, Rest(d, n), seen \o r.frames, all)
  <1> DEFINE p == FirstN(d, n)
             q == Rest(d, n)
             a == b \o p
             r == DecodeAll(a)
  <1>1. b \in Seq(Nat) /\ d \in Seq(Nat) /\ seen \in Seq(Frames)
    BY DEF Pipe
  <1>2. PICK fs : Ahead(fs, b, d, seen, all)
    BY DEF Pipe
  <1>3. fs \in Seq(Frames) /\ all = seen \o fs /\ b \o d = EncodeAll(fs)
    BY <1>2 DEF Ahead
  <1>4. p \in Seq(Nat) /\ q \in Seq(Nat) /\ p \o q = d
    BY <1>1, ReadParts
  <1> HIDE DEF p, q
  <1>5. a \in Seq(Nat)
    BY <1>1, <1>4, ConcatProperties
  <1>6. a \o q = b \o (p \o q)
    <2> DEFINE N == Nat
    <2>1. b \in Seq(N) /\ p \in Seq(N) /\ q \in Seq(N)
      BY <1>1, <1>4
    <2> HIDE DEF N
    <2> QED BY <2>1, ConcatAssociative
  <1> HIDE DEF a
  <1>7. a \o q = EncodeAll(fs)
    BY <1>3, <1>4, <1>6
  <1>8. r.frames \in Seq(Frames) /\ Pipe(r.rest, q, r.frames, fs)
    BY <1>3, <1>4, <1>5, <1>7, StreamDecode
  <1> DEFINE g == r.frames
             c == r.rest
             t == seen \o g
  <1>9. g \in Seq(Frames) /\ Pipe(c, q, g, fs)
    BY <1>8
  <1> HIDE DEF g, c
  <1>10. PICK v : Ahead(v, c, q, g, fs)
    BY <1>9 DEF Pipe
  <1>11. v \in Seq(Frames) /\ fs = g \o v /\ c \o q = EncodeAll(v)
    BY <1>10 DEF Ahead
  <1>12. t \in Seq(Frames)
    BY <1>1, <1>9, ConcatProperties
  <1>13. all = t \o v
    <2>1. (seen \o g) \o v = seen \o (g \o v)
      BY <1>1, <1>9, <1>11, ConcatAssociative, SMTT(30)
    <2> QED BY <1>3, <1>11, <2>1
  <1> HIDE DEF t
  <1>14. Ahead(v, c, q, t, all)
    BY <1>11, <1>13 DEF Ahead
  <1>15. Pipe(c, q, t, all)
    BY <1>9, <1>12, <1>14 DEF Pipe
  <1> QED BY <1>9, <1>15 DEF t, c, g, q, a, p

\* More frames are sent.
LEMMA PipeSend ==
    ASSUME NEW b, NEW d, NEW seen, NEW all, Pipe(b, d, seen, all), NEW gs \in Seq(Frames)
    PROVE  Pipe(b, d \o EncodeAll(gs), seen, all \o gs)
  <1> DEFINE e == EncodeAll(gs)
             t == d \o e
  <1>1. b \in Seq(Nat) /\ d \in Seq(Nat) /\ seen \in Seq(Frames)
    BY DEF Pipe
  <1>2. PICK fs : Ahead(fs, b, d, seen, all)
    BY DEF Pipe
  <1>3. fs \in Seq(Frames) /\ all = seen \o fs /\ b \o d = EncodeAll(fs)
    BY <1>2 DEF Ahead
  <1> DEFINE v == fs \o gs
  <1>4. v \in Seq(Frames)
    BY <1>3, ConcatProperties
  <1>5. e \in Seq(Nat) /\ EncodeAll(v) = EncodeAll(fs) \o e
    BY <1>3, EncodeConcat
  <1> HIDE DEF e
  <1>6. t \in Seq(Nat)
    BY <1>1, <1>5, ConcatProperties
  <1>7. (b \o d) \o e = b \o (d \o e)
    <2> DEFINE N == Nat
    <2>1. b \in Seq(N) /\ d \in Seq(N) /\ e \in Seq(N)
      BY <1>1, <1>5
    <2> HIDE DEF N, t, v
    <2> QED BY <2>1, ConcatAssociative, SMTT(30)
  <1>8. b \o t = EncodeAll(v)
    BY <1>3, <1>5, <1>7
  <1>9. all \o gs = seen \o v
    <2>1. (seen \o fs) \o gs = seen \o (fs \o gs)
      BY <1>1, <1>3, ConcatAssociative, SMTT(30)
    <2> QED BY <1>3, <2>1
  <1> DEFINE w == all \o gs
  <1> HIDE DEF t, v, w
  <1>10. Ahead(v, b, t, seen, w)
    BY <1>4, <1>8, <1>9 DEF Ahead, w
  <1>11. Pipe(b, t, seen, w)
    BY <1>1, <1>6, <1>10 DEF Pipe
  <1> QED BY <1>11 DEF t, w, e

\* A connection that was just made.
LEMMA PipeFresh ==
    ASSUME NEW gs \in Seq(Frames)
    PROVE  Pipe(<< >>, EncodeAll(gs), << >>, gs)
  <1> DEFINE e == EncodeAll(gs)
  <1>1. e \in Seq(Nat)
    BY EncodeConcat
  <1>2. << >> \o e = e /\ << >> \o gs = gs
    BY <1>1, ConcatEmptySeq
  <1>3. Ahead(gs, << >>, e, << >>, gs)
    BY <1>2 DEF Ahead
  <1>4. ~HasFrame(<< >>)
    BY DEF HasFrame
  <1> HIDE DEF e
  <1>5. Pipe(<< >>, e, << >>, gs)
    BY <1>1, <1>3, <1>4, EmptySeq DEF Pipe
  <1> QED BY <1>5 DEF e

\* What was seen of such a stream was sent, in this order, and all of it once no
\* byte is under way.
LEMMA PipeSays ==
    ASSUME NEW b, NEW d, NEW seen, NEW all, Pipe(b, d, seen, all)
    PROVE  /\ IsPrefix(seen, all) /\ b \o d = EncodeAll(Rest(all, Len(seen)))
           /\ d = << >> => seen = all
  <1>1. b \in Seq(Nat) /\ d \in Seq(Nat) /\ seen \in Seq(Frames) /\ ~HasFrame(b)
    BY DEF Pipe
  <1>2. PICK fs : Ahead(fs, b, d, seen, all)
    BY DEF Pipe
  <1>3. fs \in Seq(Frames) /\ all = seen \o fs /\ b \o d = EncodeAll(fs)
    BY <1>2 DEF Ahead
  <1>4. Rest(all, Len(seen)) = fs
    BY <1>1, <1>3, RestConcat
  <1>5. IsPrefix(seen, all)
    <2> DEFINE m == Len(seen)
               n == Len(fs)
    <2>1. m \in Nat /\ n \in Nat
      BY <1>1, <1>3, LenProperties
    <2>2. all \in Seq(Frames) /\ Joins(all, seen, fs, m, n)
      BY <1>1, <1>3, Joined
    <2>3. Len(all) = m + n /\ Len(seen) = m /\ \A i \in 1 .. m : all[i] = seen[i]
      BY <2>2 DEF Joins
    <2>4. \A i \in 1 .. Len(all) : all[i] \in Frames
      BY <2>2, ElementOfSeq
    <2>5. \A i \in 1 .. m : seen[i] \in Frames
      BY <1>1, ElementOfSeq
    <2> HIDE DEF m, n
    <2> DEFINE s == SubSeq(seen, 1, m)
               t == SubSeq(all, 1, m)
    <2>6. s \in Seq(Frames) /\ Len(s) = (IF 1 <= m THEN m - 1 + 1 ELSE 0)
          /\ \A i \in 1 .. m - 1 + 1 : s[i] = seen[1 + i - 1]
      <3>1. 1 \in Int /\ m \in Int
        BY <2>1
      <3> QED BY <3>1, <2>5, SubSeqProperties
    <2>7. t \in Seq(Frames) /\ Len(t) = (IF 1 <= m THEN m - 1 + 1 ELSE 0)
          /\ \A i \in 1 .. m - 1 + 1 : t[i] = all[1 + i - 1]
      <3>1. 1 \in Int /\ m \in Int /\ \A i \in 1 .. m : all[i] \in Frames
        BY <2>1, <2>3, <2>5
      <3> QED BY <3>1, SubSeqProperties
    <2> HIDE DEF s, t
    <2>8. m - 1 + 1 = m /\ \A i \in 1 .. m : 1 + i - 1 = i
      BY <2>1
    <2>9. Len(s) = Len(t) /\ Len(s) = m
      BY <2>1, <2>6, <2>7
    <2>10. \A i \in 1 .. Len(s) : s[i] = t[i]
      BY <2>3, <2>6, <2>7, <2>8, <2>9
    <2>11. s = t
      BY <2>6, <2>7, <2>9, <2>10, SeqEqual
    <2>12. Len(seen) <= Len(all)
      BY <2>1, <2>3
    <2> QED BY <2>3, <2>11, <2>12 DEF IsPrefix, s, t
  <1>6. ASSUME d = << >> PROVE seen = all
    <2>1. b = EncodeAll(fs)
      BY <1>1, <1>3, <1>6, ConcatEmptySeq
    <2>2. CASE fs # << >>
      <3> DEFINE h == Head(fs)
                 t == Tail(fs)
      <3>1. h \in Frames /\ t \in Seq(Frames)
        BY <1>3, <2>2, HeadTailProperties
      <3>2. EncodeAll(fs) = encode(h) \o EncodeAll(t)
        BY <1>3, <2>2, EncodeTail
      <3>3. EncodeAll(t) \in Seq(Nat)
        BY <3>1, EncodeConcat
      <3> HIDE DEF h, t
      <3>4. HasFrame(encode(h) \o EncodeAll(t))
        BY <3>1, <3>3, EncodeTaken
      <3> QED BY <1>1, <2>1, <3>2, <3>4
    <2>3. CASE fs = << >>
      BY <1>1, <1>3, <2>3, ConcatEmptySeq
    <2> QED BY <2>2, <2>3
  <1> QED BY <1>3, <1>4, <1>5, <1>6

------------------------------------------------------------------------------
(* The frames that are sent.                                                *)

Sized(s, n) == s \in Seq(Nat) /\ Len(s) = n
Metas == [ts_ns : Nat, ver : Nat, typ : Nat, shf : Nat, seqf : Nat, apid : Nat, seq : Nat,
          len : Nat, svc : Nat, ssvc : Nat]

\* Bytes behind bytes.
LEMMA SizedConcat ==
    ASSUME NEW s, NEW t, NEW m, NEW n, Sized(s, m), Sized(t, n)
    PROVE  Sized(s \o t, m + n)
  BY ConcatProperties DEF Sized

\* A number in n bytes.
LEMMA SizedNumber ==
    ASSUME NEW x \in Nat, NEW n \in Nat \ {0}
    PROVE  Sized(Append_u(x, n), n)
  BY AppendUType DEF Sized

\* Bytes that are all zero.
LEMMA SizedZeros ==
    ASSUME NEW n \in Nat
    PROVE  Sized([i \in 1 .. n |-> 0], n)
  <1> DEFINE z == [i \in 1 .. n |-> 0]
  <1>1. z \in [1 .. n -> Nat]
    OBVIOUS
  <1> HIDE DEF z
  <1>2. z \in Seq(Nat)
    BY <1>1, SeqDef
  <1>3. DOMAIN z = 1 .. n
    BY <1>1
  <1>4. DOMAIN z = 1 .. Len(z) /\ Len(z) \in Nat
    BY <1>2, LenProperties
  <1>5. Len(z) = n
    BY <1>3, <1>4
  <1> QED BY <1>2, <1>5 DEF Sized, z

\* A payload whose length fits makes a frame.
LEMMA FrameType ==
    ASSUME NEW t \in Nat, NEW p, NEW n \in Nat, t < Short, Sized(p, n), 2 + n < Wide
    PROVE  [type |-> t, payload |-> p] \in Frames
  BY DEF Frames, Sized

\* decode_meta gives numbers.
LEMMA MetaType ==
    ASSUME NEW p \in Seq(Nat), decode_meta(p).ok
    PROVE  decode_meta(p).meta \in Metas
  <1> DEFINE n == Len(p)
  <1>0. n \in Nat /\ \A i \in 1 .. n : p[i] \in Nat
    BY LenProperties, ElementOfSeq
  <1>1. n >= HdrLen
    <2>1. ~(Len(p) < HdrLen)
      BY DEF decode_meta
    <2> QED BY <1>0, <2>1, HeaderAssumption
  <1>2. decode_meta(p).meta = IF HasService(p)
                              THEN [PrimaryMeta(p) EXCEPT !.svc = p[HdrLen + 1], !.ssvc = p[HdrLen + 2]]
                              ELSE PrimaryMeta(p)
    BY DEF decode_meta
  <1>3. p[1] \in Nat /\ p[HdrLen] \in Nat
    <2>1. 1 \in 1 .. n /\ HdrLen \in 1 .. n
      BY <1>0, <1>1, HeaderAssumption
    <2> QED BY <1>0, <2>1
  <1>4. Typ(p) \in Nat /\ Shf(p) \in Nat
    BY <1>3 DEF Typ, Shf
  <1>5. PrimaryMeta(p) \in Metas
    BY <1>3, <1>4, ByteAssumption DEF PrimaryMeta, Metas
  <1>6. CASE HasService(p)
    <2>1. HdrLen + 1 \in 1 .. n /\ HdrLen + 2 \in 1 .. n
      <3> DEFINE k == IF Typ(p) = 1 THEN TcHdr ELSE TmHdr
      <3>1. k \in Nat /\ k >= 2
        BY PusAssumption
      <3>2. n >= HdrLen + k
        BY <1>6 DEF HasService
      <3> HIDE DEF k, n
      <3> QED BY <1>0, <3>1, <3>2, HeaderAssumption
    <2>2. p[HdrLen + 1] \in Nat /\ p[HdrLen + 2] \in Nat
      BY <1>0, <2>1
    <2> DEFINE a == PrimaryMeta(p)
               u == p[HdrLen + 1]
               v == p[HdrLen + 2]
    <2>3. decode_meta(p).meta = [a EXCEPT !.svc = u, !.ssvc = v]
      BY <1>2, <1>6
    <2>4. a \in Metas /\ u \in Nat /\ v \in Nat
      BY <1>5, <2>2
    <2> HIDE DEF a, u, v
    <2>5. [a EXCEPT !.svc = u, !.ssvc = v] \in Metas
      BY <2>4 DEF Metas
    <2> QED BY <2>3, <2>5
  <1>7. CASE ~HasService(p)
    BY <1>2, <1>5, <1>7
  <1> QED BY <1>6, <1>7

\* pack_packet_meta: 22 bytes and the description.
LEMMA PacketFrameType ==
    ASSUME NEW t \in Nat, t < Short, NEW m \in Metas
    PROVE  PacketFrame(t, m) \in Frames
  <1> DEFINE a == Append_u(m.ts_ns, 8)
             b == <<m.ver, m.typ, m.shf, m.seqf>>
             c == Append_u(m.apid, 2)
             d == Append_u(m.seq, 2)
             e == Append_u(m.len, 2)
             f == <<m.svc, m.ssvc>>
             g == Append_u(Len(<<t>>), 2)
             h == <<t>>
  <1>0. m.ts_ns \in Nat /\ m.ver \in Nat /\ m.typ \in Nat /\ m.shf \in Nat /\ m.seqf \in Nat
        /\ m.apid \in Nat /\ m.seq \in Nat /\ m.len \in Nat /\ m.svc \in Nat /\ m.ssvc \in Nat
    BY DEF Metas
  <1>1. 8 \in Nat \ {0} /\ 2 \in Nat \ {0} /\ Len(<<t>>) \in Nat
    OBVIOUS
  <1>2. Sized(a, 8) /\ Sized(c, 2) /\ Sized(d, 2) /\ Sized(e, 2) /\ Sized(g, 2)
    BY <1>0, <1>1, SizedNumber, Zenon
  <1>3. Sized(b, 4) /\ Sized(f, 2) /\ Sized(h, 1)
    BY <1>0 DEF Sized
  <1>4. PacketFrame(t, m) = [type |-> t, payload |-> a \o b \o c \o d \o e \o f \o g \o h]
    BY DEF PacketFrame, pack_packet_meta
  <1> HIDE DEF a, b, c, d, e, f, g, h
  <1>5. Sized(a \o b \o c \o d, 8 + 4 + 2 + 2)
    BY <1>2, <1>3, SizedConcat, Zenon
  <1>6. Sized(a \o b \o c \o d \o e \o f, 8 + 4 + 2 + 2 + 2 + 2)
    BY <1>2, <1>3, <1>5, SizedConcat, Zenon
  <1>7. Sized(a \o b \o c \o d \o e \o f \o g \o h, 8 + 4 + 2 + 2 + 2 + 2 + 2 + 1)
    BY <1>2, <1>3, <1>6, SizedConcat, Zenon
  <1> DEFINE n == 8 + 4 + 2 + 2 + 2 + 2 + 2 + 1
             p == a \o b \o c \o d \o e \o f \o g \o h
  <1>8. n \in Nat /\ 2 + n < Wide
    BY DEF Wide, Short
  <1>9. Sized(p, n) /\ PacketFrame(t, m) = [type |-> t, payload |-> p]
    BY <1>4, <1>7, Zenon
  <1> HIDE DEF n, p
  <1>10. [type |-> t, payload |-> p] \in Frames
    BY <1>8, <1>9, FrameType
  <1> QED BY <1>9, <1>10

\* pack_string of one byte.
LEMMA TextFrameType ==
    ASSUME NEW t \in Nat, t < Short, NEW c \in Nat
    PROVE  TextFrame(t, c) \in Frames
  <1> DEFINE a == Append_u(Len(<<c>>), 4)
             b == <<c>>
             n == 4 + 1
             p == a \o b
  <1>1. 4 \in Nat \ {0} /\ Len(<<c>>) \in Nat
    OBVIOUS
  <1>2. Sized(a, 4)
    BY <1>1, SizedNumber, Zenon
  <1>3. Sized(b, 1)
    BY DEF Sized
  <1>4. TextFrame(t, c) = [type |-> t, payload |-> p]
    BY DEF TextFrame, pack_string
  <1> HIDE DEF a, b
  <1>5. Sized(p, n)
    BY <1>2, <1>3, SizedConcat, Zenon
  <1>6. n \in Nat /\ 2 + n < Wide
    BY DEF Wide, Short
  <1> HIDE DEF n, p
  <1>7. [type |-> t, payload |-> p] \in Frames
    BY <1>5, <1>6, FrameType
  <1> QED BY <1>4, <1>7

\* build_pus_c_tc of a housekeeping request.
LEMMA HkFrameType == [type |-> MsgType.PacketSend, payload |-> HkRequest] \in Frames
  <1> DEFINE h == HdrLen - 2
             k == TcHdr - 2
             zh == [i \in 1 .. h |-> 0]
             zk == [i \in 1 .. k |-> 0]
             field == <<1, 0>> \o zk \o << >> \o <<0>>
             l == Len(field) - 1
             p == <<1>> \o zh \o <<l>> \o field
             n == 1 + h + 1 + (2 + k + 0 + 1)
  <1>1. h \in Nat /\ k \in Nat
    BY HeaderAssumption, PusAssumption
  <1>2. HkRequest = p
    BY DEF HkRequest, build_pus_c_tc
  <1>3. n \in Nat /\ 2 + n < Wide
    BY HeaderAssumption, PusAssumption, FieldAssumption DEF Wide, Short
  <1>4. 13 \in Nat /\ 13 < Short /\ MsgType.PacketSend = 13
    BY DEF Short, MsgType
  <1> HIDE DEF h, k
  <1>5. Sized(zh, h) /\ Sized(zk, k)
    BY <1>1, SizedZeros
  <1> HIDE DEF zh, zk
  <1>6. Sized(<<1, 0>>, 2) /\ Sized(<< >>, 0) /\ Sized(<<0>>, 1) /\ Sized(<<1>>, 1)
    BY DEF Sized
  <1>7. Sized(field, 2 + k + 0 + 1)
    BY <1>5, <1>6, SizedConcat, Zenon
  <1> HIDE DEF field
  <1>8. l \in Nat
    BY <1>1, <1>7 DEF Sized
  <1> HIDE DEF l
  <1>9. Sized(<<l>>, 1)
    BY <1>8 DEF Sized
  <1>10. Sized(p, n)
    BY <1>5, <1>6, <1>7, <1>9, SizedConcat, Zenon
  <1> HIDE DEF p, n
  <1>11. [type |-> 13, payload |-> p] \in Frames
    BY <1>3, <1>4, <1>10, FrameType
  <1> QED BY <1>2, <1>4, <1>11

\* What Broadcast is given for the packets of a read or of a session.
LEMMA AnnouncedType ==
    ASSUME NEW t \in Nat, t < Short, NEW n \in Nat, NEW q, \A i \in 1 .. n : q[i] \in Seq(Nat)
    PROVE  [i \in 1 .. n |-> IF decode_meta(q[i]).ok THEN PacketFrame(t, decode_meta(q[i]).meta)
                             ELSE ErrorFrame] \in Seq(Frames)
  <1> DEFINE F(i) == IF decode_meta(q[i]).ok THEN PacketFrame(t, decode_meta(q[i]).meta) ELSE ErrorFrame
  <1>1. ErrorFrame \in Frames
    <2>1. 255 \in Nat /\ 255 < Short /\ 3 \in Nat /\ MsgType.Error = 255
      BY DEF Short, MsgType
    <2> QED BY <2>1, TextFrameType DEF ErrorFrame
  <1>2. ASSUME NEW i \in 1 .. n PROVE F(i) \in Frames
    <2>1. CASE decode_meta(q[i]).ok
      BY <2>1, MetaType, PacketFrameType
    <2>2. CASE ~decode_meta(q[i]).ok
      BY <1>1, <2>2
    <2> QED BY <2>1, <2>2
  <1> HIDE DEF F
  <1>3. [i \in 1 .. n |-> F(i)] \in [1 .. n -> Frames]
    BY <1>2
  <1>4. [i \in 1 .. n |-> F(i)] \in Seq(Frames)
    BY <1>3, SeqDef
  <1> QED BY <1>4 DEF F

\* Each connection is a pipe in both directions, and there is none without it; once
\* the last read of a lost one is handled, its bytes and the device's state are gone.
PipesInv ==
    /\ connected_ \in BOOLEAN
    /\ connected_ = TRUE => Pipe(rxbuf_, down, got, cast) /\ Pipe(inbuf_, up, served, asked)
    /\ connected_ = FALSE => down = << >> /\ up = << >>
    /\ late \in BOOLEAN /\ (late = TRUE => connected_ = FALSE)
    /\ connected_ = FALSE /\ late = FALSE => rxbuf_ = << >> /\ device_line_ = << >>

\* The types of the frames that the daemon announces packets with.
LEMMA PacketTypes ==
    /\ MsgType.PacketRx \in Nat /\ MsgType.PacketRx < Short
    /\ MsgType.PacketTx \in Nat /\ MsgType.PacketTx < Short
  BY DEF MsgType, Short

\* set_on_packet broadcasts frames.
LEMMA OnPacketsSends ==
    ASSUME NEW ps \in Seq(Seq(Nat)), OnPackets(ps)
    PROVE  \E fs \in Seq(Frames) : Broadcast(fs)
  <1> DEFINE n == Len(ps)
             dec == [i \in DOMAIN ps |-> decode_meta(ps[i])]
             F == [i \in DOMAIN ps |->
                      IF dec[i].ok THEN PacketFrame(MsgType.PacketRx, dec[i].meta) ELSE ErrorFrame]
             G == [i \in 1 .. n |-> IF decode_meta(ps[i]).ok
                                    THEN PacketFrame(MsgType.PacketRx, decode_meta(ps[i]).meta)
                                    ELSE ErrorFrame]
  <1>1. DOMAIN ps = 1 .. n /\ n \in Nat /\ \A i \in 1 .. n : ps[i] \in Seq(Nat)
    BY LenProperties, ElementOfSeq
  <1>2. Broadcast(F)
    BY DEF OnPackets
  <1>3. F = G
    <2>1. \A i \in 1 .. n : dec[i] = decode_meta(ps[i])
      BY <1>1
    <2> HIDE DEF dec, n
    <2> QED BY <1>1, <2>1, Zenon
  <1>4. G \in Seq(Frames)
    BY <1>1, PacketTypes, AnnouncedType
  <1> HIDE DEF F, G
  <1> QED BY <1>2, <1>3, <1>4

\* on_frame of App broadcasts frames.
LEMMA RouteSends ==
    ASSUME NEW q \in Seq(Frames), Route(q)
    PROVE  \E fs \in Seq(Frames) : Broadcast(fs)
  <1> DEFINE n == Len(q)
             ps == [i \in 1 .. n |-> q[i].payload]
             dec == [i \in DOMAIN q |-> decode_meta(q[i].payload)]
             F == [i \in DOMAIN q |->
                      IF dec[i].ok THEN PacketFrame(MsgType.PacketTx, dec[i].meta) ELSE ErrorFrame]
             G == [i \in 1 .. n |-> IF decode_meta(ps[i]).ok
                                    THEN PacketFrame(MsgType.PacketTx, decode_meta(ps[i]).meta)
                                    ELSE ErrorFrame]
  <1>1. DOMAIN q = 1 .. n /\ n \in Nat /\ \A i \in 1 .. n : q[i] \in Frames
    BY LenProperties, ElementOfSeq
  <1>2. Broadcast(F)
    BY DEF Route
  <1>3. \A i \in 1 .. n : ps[i] = q[i].payload /\ ps[i] \in Seq(Nat)
    BY <1>1 DEF Frames
  <1>4. F = G
    <2>1. \A i \in 1 .. n : dec[i] = decode_meta(ps[i])
      BY <1>1, <1>3
    <2> HIDE DEF dec, n, ps
    <2> QED BY <1>1, <2>1, Zenon
  <1> HIDE DEF ps
  <1>5. G \in Seq(Frames)
    BY <1>1, <1>3, PacketTypes, AnnouncedType
  <1> HIDE DEF F, G
  <1> QED BY <1>2, <1>4, <1>5

\* A read of the link sends more frames to the UI.
LEMMA PipesReadLink ==
    ASSUME FramerInv, PipesInv, NEW c \in Seq(Bytes), ReadLink(c)
    PROVE  PipesInv'
  <1> DEFINE ps == Rest(out', Len(out))
  <1>1. Read(c) /\ OnPackets(ps) /\ UNCHANGED <<rxbuf_, got, up, inbuf_, asked, served, connected_>>
        /\ UNCHANGED <<late, device_line_>>
    BY DEF ReadLink, upVars, uiVars, lossVars
  <1>2. FramerInv'
    BY <1>1, FramerRead
  <1>3. out' \in Seq(Seq(Bytes)) /\ Len(out) \in Nat
    BY <1>2, LenProperties DEF FramerInv
  <1>4. ps \in Seq(Seq(Bytes))
    BY <1>3, ReadParts
  <1>5. Seq(Bytes) \subseteq Seq(Nat)
    <2>1. Bytes \subseteq Nat
      BY ByteAssumption DEF Bytes
    <2> SUFFICES ASSUME NEW s \in Seq(Bytes) PROVE s \in Seq(Nat)
      OBVIOUS
    <2>2. Len(s) \in Nat /\ s \in [1 .. Len(s) -> Bytes]
      BY LenProperties
    <2>3. s \in [1 .. Len(s) -> Nat]
      BY <2>1, <2>2
    <2> QED BY <2>2, <2>3, SeqDef
  <1> HIDE DEF ps
  <1>6. ps \in Seq(Seq(Nat))
    BY <1>4, <1>5
  <1>7. PICK fs \in Seq(Frames) : Broadcast(fs)
    BY <1>1, <1>6, OnPacketsSends
  <1>8. CASE connected_ = TRUE
    <2>1. Pipe(rxbuf_, down, got, cast) /\ Pipe(inbuf_, up, served, asked)
      BY <1>8 DEF PipesInv
    <2>2. down' = down \o EncodeAll(fs) /\ cast' = cast \o fs
      BY <1>7, <1>8 DEF Broadcast
    <2>3. Pipe(rxbuf_, down \o EncodeAll(fs), got, cast \o fs)
      BY <2>1, PipeSend
    <2> QED BY <1>1, <1>8, <2>1, <2>2, <2>3 DEF PipesInv
  <1>9. CASE connected_ = FALSE
    <2>1. down' = down /\ down = << >> /\ up = << >>
      BY <1>7, <1>9 DEF Broadcast, PipesInv
    <2> QED BY <1>1, <1>9, <2>1 DEF PipesInv
  <1> QED BY <1>8, <1>9 DEF PipesInv

\* A new connection, which the daemon greets.
LEMMA PipesConnects ==
    ASSUME PipesInv, Connects
    PROVE  PipesInv'
  <1> DEFINE gs == <<Hello, LinkFrame>>
  <1>1. Hello \in Frames /\ LinkFrame \in Frames
    <2>1. 1 \in Nat /\ 1 < Short /\ MsgType.Hello = 1
      BY DEF Short, MsgType
    <2>2. 2 \in Nat /\ 2 < Short /\ MsgType.LinkState = 2
      BY DEF Short, MsgType
    <2> QED BY <2>1, <2>2, TextFrameType DEF Hello, LinkFrame
  <1>2. gs \in Seq(Frames)
    BY <1>1
  <1>3. connected_' = TRUE /\ rxbuf_' = << >> /\ cast' = gs /\ down' = EncodeAll(gs) /\ got' = << >>
        /\ asked' = << >> /\ up' = << >> /\ served' = << >> /\ inbuf_' = << >>
        /\ late = FALSE /\ late' = FALSE
    BY DEF Connects, Fresh, lossVars, PipesInv
  <1> HIDE DEF gs
  <1>4. Pipe(<< >>, EncodeAll(gs), << >>, gs)
    BY <1>2, PipeFresh
  <1>5. Pipe(<< >>, << >>, << >>, << >>)
    <2>1. << >> \in Seq(Frames) /\ EncodeAll(<< >>) = << >>
      BY EmptySeq DEF EncodeAll, FlattenSeq
    <2>2. Pipe(<< >>, EncodeAll(<< >>), << >>, << >>)
      BY <2>1, PipeFresh
    <2> QED BY <2>1, <2>2
  <1> QED BY <1>3, <1>4, <1>5 DEF PipesInv

\* The UI sends a telecommand.
LEMMA PipesSends ==
    ASSUME PipesInv, SendPacket
    PROVE  PipesInv'
  <1> DEFINE f == [type |-> MsgType.PacketSend, payload |-> HkRequest]
             gs == <<f>>
  <1>1. connected_ /\ asked' = Append(asked, f) /\ up' = up \o encode(f)
        /\ UNCHANGED <<down, rxbuf_, cast, got, inbuf_, served, connected_, late>>
    BY DEF SendPacket, downVars, lossVars
  <1>2. f \in Frames
    BY HkFrameType
  <1> HIDE DEF f
  <1>3. gs \in Seq(Frames) /\ EncodeAll(gs) = encode(f)
    BY <1>2, EncodeOne
  <1>4. connected_ = TRUE
    BY <1>1 DEF PipesInv
  <1>5. Pipe(rxbuf_, down, got, cast) /\ Pipe(inbuf_, up, served, asked)
    BY <1>4 DEF PipesInv
  <1>6. Append(asked, f) = asked \o gs
    <2>1. PICK fs : Ahead(fs, inbuf_, up, served, asked)
      BY <1>5 DEF Pipe
    <2>2. asked \in Seq(Frames)
      <3>1. served \in Seq(Frames) /\ fs \in Seq(Frames) /\ asked = served \o fs
        BY <1>5, <2>1 DEF Pipe, Ahead
      <3> QED BY <3>1, ConcatProperties
    <2> QED BY <1>2, <2>2
  <1> HIDE DEF gs
  <1>7. Pipe(inbuf_, up \o EncodeAll(gs), served, asked \o gs)
    BY <1>3, <1>5, PipeSend
  <1>8. Pipe(inbuf_, up', served, asked')
    BY <1>1, <1>3, <1>6, <1>7
  <1> QED BY <1>1, <1>4, <1>5, <1>8 DEF PipesInv

\* A lost connection leaves nothing under way.
LEMMA PipesLoses ==
    ASSUME PipesInv, NEW n, Loses(n)
    PROVE  PipesInv'
  <1>1. connected_' = FALSE /\ down' = EncodeAll(<< >>) /\ up' = << >>
    BY DEF Loses, Fresh
  <1>2. EncodeAll(<< >>) = << >>
    BY DEF EncodeAll, FlattenSeq
  <1>3. late' = TRUE \/ (late' = FALSE /\ rxbuf_' = << >> /\ device_line_' = << >>)
    BY DEF Loses, Clears
  <1> QED BY <1>1, <1>2, <1>3 DEF PipesInv

\* Its last do_read fails.
LEMMA PipesLateReadFails ==
    ASSUME PipesInv, LateReadFails
    PROVE  PipesInv'
  <1>1. late' = FALSE /\ rxbuf_' = << >> /\ device_line_' = << >>
        /\ UNCHANGED <<down, up, connected_>>
    BY DEF LateReadFails, Clears, upVars
  <1>2. connected_ = FALSE
    BY DEF LateReadFails, PipesInv
  <1> QED BY <1>1, <1>2 DEF PipesInv

\* The UI reads.
LEMMA PipesReadUi ==
    ASSUME PipesInv, NEW n \in Nat, ReadUi(n)
    PROVE  PipesInv'
  <1> DEFINE r == DecodeAll(rxbuf_ \o FirstN(down, n))
  <1>1. down # << >> /\ rxbuf_' = r.rest /\ got' = got \o r.frames /\ down' = Rest(down, n)
        /\ UNCHANGED <<cast, connected_, up, inbuf_, asked, served, late>>
    BY DEF ReadUi, upVars, lossVars
  <1>2. connected_ = TRUE
    BY <1>1 DEF PipesInv
  <1>3. Pipe(rxbuf_, down, got, cast) /\ Pipe(inbuf_, up, served, asked)
    BY <1>2 DEF PipesInv
  <1>4. Pipe(r.rest, Rest(down, n), got \o r.frames, cast)
    BY <1>3, PipeRead
  <1> HIDE DEF r
  <1>5. Pipe(rxbuf_', down', got', cast)
    BY <1>1, <1>4
  <1> QED BY <1>1, <1>2, <1>3, <1>5 DEF PipesInv

\* The session reads, and what it routes is announced to the UI.
LEMMA PipesReadSession ==
    ASSUME PipesInv, NEW n \in Nat, ReadSession(n)
    PROVE  PipesInv'
  <1> DEFINE r == DecodeAll(inbuf_ \o FirstN(up, n))
  <1>1. up # << >> /\ inbuf_' = r.rest /\ served' = served \o r.frames /\ Route(r.frames)
        /\ up' = Rest(up, n) /\ UNCHANGED <<rxbuf_, got, asked, connected_, late>>
    BY DEF ReadSession, lossVars
  <1>2. connected_ = TRUE
    BY <1>1 DEF PipesInv
  <1>3. Pipe(rxbuf_, down, got, cast) /\ Pipe(inbuf_, up, served, asked)
    BY <1>2 DEF PipesInv
  <1>4. r.frames \in Seq(Frames) /\ Pipe(r.rest, Rest(up, n), served \o r.frames, asked)
    BY <1>3, PipeRead
  <1> HIDE DEF r
  <1>5. Pipe(inbuf_', up', served', asked)
    BY <1>1, <1>4
  <1>6. PICK fs \in Seq(Frames) : Broadcast(fs)
    BY <1>1, <1>4, RouteSends
  <1>7. down' = down \o EncodeAll(fs) /\ cast' = cast \o fs
    BY <1>2, <1>6 DEF Broadcast
  <1>8. Pipe(rxbuf_, down \o EncodeAll(fs), got, cast \o fs)
    BY <1>3, PipeSend
  <1> QED BY <1>1, <1>2, <1>5, <1>7, <1>8 DEF PipesInv

\* Every step keeps the pipes.
LEMMA PipesStep == FramerInv /\ PipesInv /\ [RxNext]_rxVars => PipesInv'
  <1> SUFFICES ASSUME FramerInv, PipesInv, [RxNext]_rxVars PROVE PipesInv'
    OBVIOUS
  <1>1. ASSUME NEW n \in 1 .. MaxChunk, NEW c \in [1 .. n -> Bytes], ReadLink(c) PROVE PipesInv'
    <2>1. n \in Nat
      BY StreamAssumption
    <2>2. c \in Seq(Bytes)
      BY <2>1, SeqDef
    <2> QED BY <1>1, <2>2, PipesReadLink
  <1>2. CASE Connects
    BY <1>2, PipesConnects
  <1>3. CASE SendPacket
    BY <1>3, PipesSends
  <1>4. ASSUME NEW n, Loses(n) PROVE PipesInv'
    BY <1>4, PipesLoses
  <1>5. ASSUME NEW n \in ReadSizes, ReadUi(n) PROVE PipesInv'
    BY <1>5, SizesAssumption, PipesReadUi
  <1>6. ASSUME NEW n \in ReadSizes, ReadSession(n) PROVE PipesInv'
    BY <1>6, SizesAssumption, PipesReadSession
  <1>7. CASE LateReadFails
    BY <1>7, PipesLateReadFails
  <1>8. CASE UNCHANGED rxVars
    BY <1>8 DEF PipesInv, rxVars, downVars, upVars, uiVars, lossVars
  <1> QED BY <1>1, <1>2, <1>3, <1>4, <1>5, <1>6, <1>7, <1>8, Zenon DEF RxNext

\* On every connection of the UI and in both directions the receiver sees the frames
\* that were sent, each once and in order, wherever reads of any size cut the bytes
\* and whatever an earlier connection left, and none that has arrived is kept back;
\* a lost connection leaves nothing once its last read is handled.
THEOREM FramesSurvive == RxSpec => []FramesConserved
  <1>1. PipesInv => FramesConserved
    <2>0. PipesInv /\ ~connected_ /\ ~late => rxbuf_ = << >> /\ device_line_ = << >>
      BY DEF PipesInv
    <2> SUFFICES ASSUME PipesInv, connected_
                 PROVE  /\ IsPrefix(got, cast) /\ IsPrefix(served, asked)
                        /\ rxbuf_ \o down = EncodeAll(Rest(cast, Len(got)))
                        /\ inbuf_ \o up = EncodeAll(Rest(asked, Len(served)))
                        /\ down = << >> => got = cast
                        /\ up = << >> => served = asked
      BY <2>0 DEF FramesConserved
    <2>1. Pipe(rxbuf_, down, got, cast) /\ Pipe(inbuf_, up, served, asked)
      BY DEF PipesInv
    <2> QED BY <2>1, PipeSays
  <1>2. RxInit => FramerInv /\ PipesInv
    <2>1. RxInit => PipesInv
      BY DEF RxInit, PipesInv
    <2> QED BY <2>1, FramerStart DEF RxInit
  <1> QED BY <1>1, <1>2, FramerStep, PipesStep, PTL DEF RxSpec

==============================================================================
