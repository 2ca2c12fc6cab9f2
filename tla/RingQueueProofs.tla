--------------------------- MODULE RingQueueProofs ---------------------------
(***************************************************************************)
(* Proofs about RingQueue, for every size N of buf_ and every number of    *)
(* items.  The inductive invariant is RingInv of RingQueue: head_ and      *)
(* tail_ are the remainders of two counts that only grow and never are     *)
(* further apart than N - 1.  What is modular in the code is then linear   *)
(* in the counts; the first lemmas carry the one over to the other.        *)
(***************************************************************************)
EXTENDS RingQueue, SequenceTheorems, TLAPS

\* What % and \div mean: quotient and remainder of a division.
LEMMA DivMod ==
    ASSUME NEW n \in Nat \ {0}, NEW a \in Int
    PROVE  /\ a % n \in 0 .. n - 1
           /\ a \div n \in Int
           /\ a = (n * (a \div n)) + (a % n)
    OBVIOUS

\* The remainder is the only one of its range.
LEMMA ModUnique ==
    ASSUME NEW n \in Nat \ {0}, NEW a \in Int, NEW q \in Int, NEW r \in 0 .. n - 1,
           a = (n * q) + r
    PROVE  a % n = r
    OBVIOUS

\* Succ may be taken of an index or of the count behind it.
LEMMA ModPlus ==
    ASSUME NEW n \in Nat \ {0}, NEW a \in Int, NEW k \in Int
    PROVE  ((a % n) + k) % n = (a + k) % n
    <1> DEFINE p == a \div n
               c == a + k
               q == c \div n
    <1>1. a % n \in 0 .. n - 1 /\ p \in Int /\ a = (n * p) + (a % n)
          BY DivMod
    <1>2. c \in Int
          OBVIOUS
    <1> HIDE DEF c
    <1>3. c % n \in 0 .. n - 1 /\ q \in Int /\ c = (n * q) + (c % n)
          BY <1>2, DivMod
    <1> HIDE DEF p, q
    <1>4. n * (q - p) = (n * q) - (n * p)
          BY <1>1, <1>3
    <1>5. (a % n) + k = (c - a) + (a % n)
          BY <1>1 DEF c
    <1>6. (a % n) + k = (n * (q - p)) + (c % n)
          BY <1>1, <1>2, <1>3, <1>4, <1>5
    <1>7. ((a % n) + k) \in Int /\ q - p \in Int
          BY <1>1, <1>3
    <1>8. ((a % n) + k) % n = c % n
          BY <1>3, <1>6, <1>7, ModUnique
    <1> QED  BY <1>8 DEF c

\* Two counts less than n apart have different slots.
LEMMA ModApart ==
    ASSUME NEW n \in Nat \ {0}, NEW a \in Int, NEW b \in Int,
           a < b, b < a + n
    PROVE  a % n # b % n
    <1> DEFINE p == a \div n
               q == b \div n
    <1> SUFFICES ASSUME a % n = b % n PROVE FALSE
        OBVIOUS
    <1>1. a % n \in 0 .. n - 1 /\ p \in Int /\ a = (n * p) + (a % n)
          BY DivMod
    <1>2. b % n \in 0 .. n - 1 /\ q \in Int /\ b = (n * q) + (b % n)
          BY DivMod
    <1> HIDE DEF p, q
    <1>3. n * (q - p) = (n * q) - (n * p)
          BY <1>1, <1>2
    <1>4. n * (q - p) = b - a
          BY <1>1, <1>2, <1>3
    <1>5. ASSUME q - p <= 0 PROVE n * (q - p) <= 0
          BY <1>1, <1>2, <1>5
    <1>6. ASSUME q - p >= 1 PROVE n * (q - p) >= n
          BY <1>1, <1>2, <1>6
    <1> QED  BY <1>1, <1>2, <1>4, <1>5, <1>6

\* n further on is the same slot.
LEMMA ModWrap ==
    ASSUME NEW n \in Nat \ {0}, NEW a \in Int
    PROVE  (a + n) % n = a % n
    <1> DEFINE p == a \div n
    <1>1. a % n \in 0 .. n - 1 /\ p \in Int /\ a = (n * p) + (a % n)
          BY DivMod
    <1> HIDE DEF p
    <1>2. n * (p + 1) = (n * p) + n
          BY <1>1
    <1>3. a + n = (n * (p + 1)) + (a % n) /\ p + 1 \in Int /\ a + n \in Int
          BY <1>1, <1>2
    <1> QED  BY <1>1, <1>3, ModUnique

\* The difference of two slots gives back the difference of the counts.
LEMMA ModBack ==
    ASSUME NEW n \in Nat \ {0}, NEW a \in Int, NEW b \in Int,
           b - a \in 0 .. n - 1
    PROVE  ((b % n) - (a % n)) % n = b - a
    <1>1. a % n \in 0 .. n - 1 /\ (b % n) \in 0 .. n - 1
          BY DivMod
    <1> DEFINE p == a \div n
               q == b \div n
    <1>2. /\ p \in Int /\ a = (n * p) + (a % n)
          /\ q \in Int /\ b = (n * q) + (b % n)
          BY DivMod
    <1> HIDE DEF p, q
    <1>3. n * (p - q) = (n * p) - (n * q)
          BY <1>2
    <1>4. (b % n) - (a % n) = (n * (p - q)) + (b - a)
          BY <1>1, <1>2, <1>3
    <1>5. (b % n) - (a % n) \in Int /\ p - q \in Int
          BY <1>1, <1>2
    <1> QED  BY <1>4, <1>5, ModUnique

\* The next index of either side is the slot of the next item, and every
\* item in the ring is in the slot of its number.
LEMMA Indices ==
    ASSUME TypeOK, RingInv
    PROVE  /\ Succ(head_) = (produced + 1) % N
           /\ Succ(tail_) = (consumed + 1) % N
           /\ Succ(head_) \in 0 .. N - 1 /\ Succ(tail_) \in 0 .. N - 1
           /\ \A j \in consumed .. produced - 1 :
                 j % N \in 0 .. N - 1 /\ buf_[j % N] = j + 1
    <1>1. produced \in Int /\ consumed \in Int /\ 1 \in Int /\ N \in Nat \ {0}
          BY SizeAssumption DEF TypeOK
    <1>2. ((produced % N) + 1) % N = (produced + 1) % N
          BY <1>1, ModPlus
    <1>3. ((consumed % N) + 1) % N = (consumed + 1) % N
          BY <1>1, ModPlus
    <1>4. produced + 1 \in Int /\ consumed + 1 \in Int
          BY <1>1
    <1>5. (produced + 1) % N \in 0 .. N - 1 /\ (consumed + 1) % N \in 0 .. N - 1
          BY <1>1, <1>4, DivMod
    <1>6. ASSUME NEW j \in consumed .. produced - 1
          PROVE  j % N \in 0 .. N - 1 /\ buf_[j % N] = j + 1
          <2> DEFINE k == (j - consumed) + 1
          <2>1. j \in Int /\ k \in 1 .. N - 1 /\ consumed + k <= produced
                BY <1>1, <1>6 DEF RingInv
          <2>2. (consumed + k) - 1 = j /\ consumed + k = j + 1
                BY <1>1, <2>1
          <2> HIDE DEF k
          <2>3. buf_[(consumed + k - 1) % N] = consumed + k
                BY <2>1, Zenon DEF RingInv
          <2>4. j % N \in 0 .. N - 1
                BY <1>1, <2>1, DivMod
          <2>5. buf_[j % N] = j + 1
                BY <1>1, <2>1, <2>2, <2>3
          <2> QED  BY <2>4, <2>5
    <1> QED  BY <1>2, <1>3, <1>5, <1>6 DEF Succ, RingInv

\* try_push's test for a full ring is exact: succ(head_) = tail_ exactly when
\* N - 1 items wait.
LEMMA Room ==
    ASSUME TypeOK, RingInv
    PROVE  (Succ(head_) = tail_) <=> (produced - consumed = N - 1)
    <1>1. produced \in Int /\ consumed \in Int /\ N \in Nat \ {0} /\ produced + 1 \in Int
          BY SizeAssumption DEF TypeOK
    <1>2. Succ(head_) = (produced + 1) % N /\ tail_ = consumed % N
          BY Indices DEF RingInv
    <1>3. CASE produced - consumed = N - 1
          <2>1. produced + 1 = consumed + N
                BY <1>1, <1>3
          <2>2. (consumed + N) % N = consumed % N
                BY <1>1, ModWrap
          <2> QED  BY <1>2, <1>3, <2>1, <2>2
    <1>4. CASE produced - consumed < N - 1
          <2>1. consumed < produced + 1 /\ produced + 1 < consumed + N
                BY <1>1, <1>4 DEF RingInv
          <2>2. consumed % N # (produced + 1) % N
                BY <1>1, <2>1, ModApart
          <2> QED  BY <1>1, <1>2, <1>4, <2>2
    <1> QED  BY <1>1, <1>3, <1>4 DEF RingInv

\* Every step of either task preserves the types; consumed stays a number
\* because what PopRelease stores is the item that was copied.
LEMMA TypeStep ==
    ASSUME TypeOK, RingInv, [Next]_vars
    PROVE  TypeOK'
    <1>1. /\ Succ(head_) \in 0 .. N - 1 /\ Succ(tail_) \in 0 .. N - 1
          /\ N \in Nat \ {0, 1}
          BY Indices, SizeAssumption
    <1>2. ASSUME Producer PROVE TypeOK'
          <2>1. CASE PushLoadHead  BY <2>1 DEF PushLoadHead, TypeOK
          <2>2. CASE PushCheck     BY <2>2 DEF PushCheck, TypeOK
          <2>3. CASE PushStore     BY <2>3 DEF PushStore, TypeOK
          <2>4. CASE PushPublish   BY <1>1, <2>4 DEF PushPublish, TypeOK, RingInv
          <2> QED  BY <1>2, <2>1, <2>2, <2>3, <2>4 DEF Producer
    <1>3. ASSUME Consumer PROVE TypeOK'
          <2>1. CASE PopLoadTail   BY <2>1 DEF PopLoadTail, TypeOK
          <2>2. CASE PopCheck      BY <2>2 DEF PopCheck, TypeOK
          <2>3. CASE PopCopy       BY <2>3 DEF PopCopy, TypeOK
          <2>4. CASE PopRelease    BY <1>1, <2>4 DEF PopRelease, TypeOK, RingInv
          <2> QED  BY <1>3, <2>1, <2>2, <2>3, <2>4 DEF Consumer
    <1>4. CASE UNCHANGED vars      BY <1>4 DEF vars, TypeOK
    <1> QED  BY <1>2, <1>3, <1>4 DEF Next

\* Every step of either task preserves RingInv: a check that succeeded stays
\* true until its own side moves on.
LEMMA RingStep ==
    ASSUME TypeOK, RingInv, [Next]_vars
    PROVE  RingInv'
    <1> USE SizeAssumption
    <1>1. /\ Succ(head_) = (produced + 1) % N
          /\ Succ(tail_) = (consumed + 1) % N
          /\ \A j \in consumed .. produced - 1 :
                 j % N \in 0 .. N - 1 /\ buf_[j % N] = j + 1
          BY Indices
    <1>2. CASE PushLoadHead  BY <1>2 DEF PushLoadHead, TypeOK, RingInv
    <1>3. CASE PushCheck
          <2>1. ppc' = "store" => produced - consumed < N - 1
                BY <1>3, Room, SMTT(30) DEF PushCheck, TypeOK, RingInv
          <2> QED  BY <1>3, <2>1 DEF PushCheck, TypeOK, RingInv
    <1>4. CASE PushStore
          <2>1. h = produced % N /\ h \in 0 .. N - 1
                BY <1>4 DEF PushStore, TypeOK, RingInv
          <2>2. ASSUME NEW k \in 1 .. N - 1, consumed + k <= produced
                PROVE  buf_'[(consumed + k - 1) % N] = consumed + k
                <3> DEFINE j == consumed + k - 1
                <3>1. /\ j \in Int /\ produced \in Int /\ j < produced /\ produced < j + N
                      /\ j \in consumed .. produced - 1
                      /\ N \in Nat \ {0}
                      BY <2>2 DEF TypeOK, RingInv
                <3> HIDE DEF j
                <3>2. j % N # produced % N
                      BY <3>1, ModApart
                <3>3. j % N \in 0 .. N - 1
                      BY <3>1, DivMod
                <3>4. buf_'[j % N] = buf_[j % N]
                      BY <1>4, <2>1, <3>2, <3>3 DEF PushStore, TypeOK
                <3>5. buf_[j % N] = consumed + k
                      BY <2>2 DEF RingInv, j
                <3> QED  BY <3>4, <3>5 DEF j
          <2>3. buf_'[h] = produced + 1
                BY <1>4, <2>1 DEF PushStore, TypeOK
          <2> QED  BY <1>4, <2>2, <2>3 DEF PushStore, TypeOK, RingInv
    <1>5. CASE PushPublish
          <2>1. /\ h = produced % N /\ buf_[produced % N] = produced + 1
                /\ produced - consumed < N - 1
                /\ head_' = (produced + 1) % N
                BY <1>1, <1>5 DEF PushPublish, RingInv
          <2>2. ASSUME NEW k \in 1 .. N - 1, consumed + k <= produced + 1
                PROVE  buf_[(consumed + k - 1) % N] = consumed + k
                <3>1. CASE consumed + k <= produced
                      BY <3>1 DEF RingInv
                <3>2. CASE consumed + k = produced + 1
                      <4>1. consumed + k - 1 = produced
                            BY <3>2 DEF TypeOK
                      <4> QED  BY <2>1, <3>2, <4>1
                <3> QED  BY <2>2, <3>1, <3>2 DEF TypeOK
          <2> QED  BY <1>5, <2>1, <2>2 DEF PushPublish, TypeOK, RingInv
    <1>6. CASE PopLoadTail   BY <1>6 DEF PopLoadTail, TypeOK, RingInv
    <1>7. CASE PopCheck
          <2>1. cpc' = "copy" => consumed < produced
                BY <1>7 DEF PopCheck, TypeOK, RingInv
          <2> QED  BY <1>7, <2>1 DEF PopCheck, TypeOK, RingInv
    <1>8. CASE PopCopy
          <2>1. consumed \in consumed .. produced - 1 /\ t = consumed % N
                BY <1>8 DEF PopCopy, TypeOK, RingInv
          <2>2. buf_[consumed % N] = consumed + 1
                BY <1>1, <2>1
          <2>3. item' = consumed + 1
                BY <1>8, <2>1, <2>2 DEF PopCopy
          <2> QED  BY <1>8, <2>3 DEF PopCopy, TypeOK, RingInv
    <1>9. CASE PopRelease
          <2>1. /\ consumed' = consumed + 1 /\ consumed < produced
                /\ tail_' = (consumed + 1) % N
                BY <1>1, <1>9 DEF PopRelease, RingInv
          <2>2. ASSUME NEW k \in 1 .. N - 1, (consumed + 1) + k <= produced
                PROVE  buf_[((consumed + 1) + k - 1) % N] = (consumed + 1) + k
                <3> DEFINE j == consumed + k
                <3>1. j \in consumed .. produced - 1 /\ (consumed + 1) + k - 1 = j
                      /\ (consumed + 1) + k = j + 1
                      BY <2>2 DEF TypeOK
                <3> HIDE DEF j
                <3> QED  BY <1>1, <3>1
          <2> QED  BY <1>9, <2>1, <2>2 DEF PopRelease, TypeOK, RingInv
    <1>10. CASE UNCHANGED vars  BY <1>10 DEF vars, RingInv
    <1> QED  BY <1>2, <1>3, <1>4, <1>5, <1>6, <1>7, <1>8, <1>9, <1>10
             DEF Next, Producer, Consumer

\* The empty ring satisfies the invariant.
LEMMA InitHolds ==
    ASSUME Init
    PROVE  TypeOK /\ RingInv
    <1>1. 0 % N = 0
          BY SizeAssumption
    <1> QED  BY <1>1, SizeAssumption DEF Init, TypeOK, RingInv

\* RingInv, with the types, is an inductive invariant of try_push and try_pop
\* for every size of buf_ and every number of items.
THEOREM Inductive == Spec => [](TypeOK /\ RingInv)
    <1>1. Init => TypeOK /\ RingInv
          BY InitHolds
    <1>2. TypeOK /\ RingInv /\ [Next]_vars => TypeOK' /\ RingInv'
          BY TypeStep, RingStep
    <1> QED  BY <1>1, <1>2, PTL DEF Spec

\* Every variable of the ring keeps its type: no index ever leaves buf_.
THEOREM TypeCorrect == Spec => []TypeOK
    BY Inductive, PTL

\* The producer never writes the slot the consumer copies, and the consumer
\* copies the item it expects, whatever the size of the ring.
THEOREM RaceFree == Spec => []NoDataRace
    <1>1. ASSUME TypeOK, RingInv PROVE NoDataRace
          <2>1. ASSUME ppc = "store", cpc \in {"copy", "release"} PROVE h # t
                <3>1. /\ consumed \in Int /\ produced \in Int /\ N \in Nat \ {0}
                      /\ consumed < produced /\ produced < consumed + N
                      BY <1>1, <2>1, SizeAssumption DEF TypeOK, RingInv
                <3>2. consumed % N # produced % N
                      BY <3>1, ModApart
                <3> QED  BY <1>1, <2>1, <3>2 DEF RingInv
          <2> QED  BY <1>1, <2>1 DEF NoDataRace, RingInv
    <1> QED  BY <1>1, Inductive, PTL

\* The queue of the refinement mapping, and the numbers it should hold.
Slots(b, hd, tl) == [i \in 1 .. (hd - tl) % N |-> b[(tl + i - 1) % N]]

Window(c, p) == [i \in 1 .. p - c |-> c + i]

\* The slots between tail_ and head_ hold the items not consumed yet, in order.
LEMMA Contents ==
    ASSUME NEW p \in Nat, NEW c \in Nat, NEW b,
           c <= p, p - c <= N - 1,
           \A k \in 1 .. N - 1 : c + k <= p => b[(c + k - 1) % N] = c + k
    PROVE  Slots(b, p % N, c % N) = Window(c, p)
    <1>1. N \in Nat \ {0} /\ p \in Int /\ c \in Int /\ p - c \in 0 .. N - 1
          BY SizeAssumption
    <1>2. ((p % N) - (c % N)) % N = p - c
          BY <1>1, ModBack
    <1>3. ASSUME NEW i \in 1 .. p - c
          PROVE  b[((c % N) + i - 1) % N] = c + i
          <2> DEFINE k == i - 1
          <2>1. k \in Int /\ c % N \in Int
                BY <1>1, DivMod
          <2>2. ((c % N) + k) % N = (c + k) % N
                BY <1>1, <2>1, ModPlus
          <2>3. c + k = c + i - 1 /\ (c % N) + k = (c % N) + i - 1
                BY <1>1, <2>1
          <2>4. i \in 1 .. N - 1 /\ c + i <= p
                BY <1>1
          <2>5. b[(c + i - 1) % N] = c + i
                BY <2>4
          <2> HIDE DEF k
          <2>6. ((c % N) + i - 1) % N = (c + i - 1) % N
                BY <2>2, <2>3, Zenon
          <2> QED  BY <2>5, <2>6, Zenon
    <1> QED  BY <1>2, <1>3, Zenon DEF Slots, Window

\* One more item produced is an Append, one more consumed a Tail.
LEMMA WindowMoves ==
    ASSUME NEW p \in Nat, NEW c \in Nat, c <= p
    PROVE  /\ Window(c, p) \in Seq(Nat) /\ Len(Window(c, p)) = p - c
           /\ Window(c, p + 1) = Append(Window(c, p), p + 1)
           /\ c < p => /\ Window(c, p) # << >> /\ Head(Window(c, p)) = c + 1
                       /\ Window(c + 1, p) = Tail(Window(c, p))
    <1> DEFINE w == Window(c, p)
    <1>1. p - c \in Nat
          OBVIOUS
    <1>2. /\ w \in Seq(Nat) /\ Len(w) = p - c /\ DOMAIN w = 1 .. p - c
          /\ \A i \in 1 .. p - c : w[i] = c + i
          BY <1>1 DEF Window
    <1> HIDE DEF w
    <1>3. Window(c, p + 1) = Append(w, p + 1)
          <2>1. /\ Append(w, p + 1) \in Seq(Nat) /\ Len(Append(w, p + 1)) = (p - c) + 1
                /\ \A i \in 1 .. p - c : Append(w, p + 1)[i] = c + i
                /\ Append(w, p + 1)[(p - c) + 1] = p + 1
                BY <1>1, <1>2
          <2>2. (p + 1) - c = (p - c) + 1 /\ c + ((p - c) + 1) = p + 1
                OBVIOUS
          <2>3. /\ Window(c, p + 1) \in Seq(Nat) /\ Len(Window(c, p + 1)) = (p - c) + 1
                /\ \A i \in 1 .. (p - c) + 1 : Window(c, p + 1)[i] = c + i
                BY <1>1, <2>2 DEF Window
          <2>4. \A i \in 1 .. (p - c) + 1 : Append(w, p + 1)[i] = c + i
                BY <1>1, <2>1, <2>2
          <2>5. \A i \in 1 .. Len(Window(c, p + 1)) : Window(c, p + 1)[i] = Append(w, p + 1)[i]
                BY <2>3, <2>4
          <2> QED  BY <2>1, <2>3, <2>5, SeqEqual, Zenon
    <1>4. ASSUME c < p
          PROVE  w # << >> /\ Head(w) = c + 1 /\ Window(c + 1, p) = Tail(w)
          <2>1. w # << >> /\ Head(w) = c + 1
                BY <1>2, <1>4
          <2>2. /\ Tail(w) \in Seq(Nat) /\ Len(Tail(w)) = (p - c) - 1
                /\ \A i \in 1 .. (p - c) - 1 : Tail(w)[i] = w[i + 1]
                BY <1>2, <1>4, <2>1
          <2>3. p - (c + 1) = (p - c) - 1 /\ (p - c) - 1 \in Nat
                BY <1>4
          <2>4. /\ Window(c + 1, p) \in Seq(Nat) /\ Len(Window(c + 1, p)) = (p - c) - 1
                /\ \A i \in 1 .. (p - c) - 1 : Window(c + 1, p)[i] = (c + 1) + i
                BY <2>3 DEF Window
          <2>5. \A i \in 1 .. (p - c) - 1 : Tail(w)[i] = (c + 1) + i
                BY <1>2, <2>2, <2>3
          <2>6. \A i \in 1 .. Len(Window(c + 1, p)) : Window(c + 1, p)[i] = Tail(w)[i]
                BY <2>4, <2>5
          <2>7. Window(c + 1, p) = Tail(w)
                BY <2>2, <2>4, <2>6, SeqEqual, Zenon
          <2> QED  BY <2>1, <2>7
    <1> QED  BY <1>2, <1>3, <1>4 DEF w

\* RingQueue implements the bounded queue of BoundedFifo for every N: publishing
\* head_ is Put, releasing tail_ is Take, everything else is invisible.
THEOREM Refinement == Spec => ImplementsFifo
    <1> DEFINE Q == Slots(buf_, head_, tail_)
               W == Window(consumed, produced)
    <1>1. ASSUME TypeOK, RingInv
          PROVE  Q = W
          <2>1. Slots(buf_, produced % N, consumed % N) = W
                BY <1>1, Contents, Zenon DEF TypeOK, RingInv
          <2> QED  BY <1>1, <2>1 DEF RingInv
    <1>2. ASSUME TypeOK', RingInv'
          PROVE  Q' = W'
          <2>1. Slots(buf_', produced' % N, consumed' % N) = W'
                BY <1>2, Contents, Zenon DEF TypeOK, RingInv
          <2> QED  BY <1>2, <2>1 DEF RingInv
    <1>3. ASSUME Init PROVE Fifo!FInit
          <2>1. TypeOK /\ RingInv
                BY <1>3, InitHolds
          <2>2. W = << >>
                BY <1>3 DEF Init, Window
          <2>3. Q = << >>
                BY <1>1, <2>1, <2>2
          <2> QED  BY <1>3, <2>3 DEF Init, Fifo!FInit, Slots
    <1>4. ASSUME TypeOK, RingInv, TypeOK', RingInv', [Next]_vars
          PROVE  [Fifo!FNext]_(Fifo!fvars)
          <2>1. Q = W /\ Q' = W'
                BY <1>1, <1>2, <1>4
          <2>2. ASSUME PushPublish PROVE Fifo!Put
                <3>1. /\ produced \in Nat /\ consumed \in Nat /\ consumed <= produced
                      /\ produced - consumed < N - 1
                      /\ produced' = produced + 1 /\ consumed' = consumed
                      BY <1>4, <2>2 DEF PushPublish, TypeOK, RingInv
                <3>2. Len(W) = produced - consumed /\ W' = Append(W, produced + 1)
                      BY <3>1, WindowMoves
                <3>3. Len(Q) < N - 1 /\ Q' = Append(Q, produced + 1)
                      BY <2>1, <3>1, <3>2
                <3> QED  BY <3>1, <3>3 DEF Fifo!Put, Slots
          <2>3. ASSUME PopRelease PROVE Fifo!Take
                <3>1. /\ produced \in Nat /\ consumed \in Nat /\ consumed < produced
                      /\ consumed <= produced
                      /\ produced' = produced /\ consumed' = consumed + 1
                      BY <1>4, <2>3 DEF PopRelease, TypeOK, RingInv
                <3>2. W # << >> /\ Head(W) = consumed + 1 /\ W' = Tail(W)
                      BY <3>1, WindowMoves
                <3>3. Q # << >> /\ Head(Q) = consumed + 1 /\ Q' = Tail(Q)
                      BY <2>1, <3>2
                <3> QED  BY <3>1, <3>3 DEF Fifo!Take, Slots
          <2>4. ASSUME UNCHANGED <<produced, consumed>> PROVE UNCHANGED Fifo!fvars
                <3>1. Q' = Q
                      BY <2>1, <2>4
                <3> QED  BY <2>4, <3>1 DEF Fifo!fvars, Slots
          <2>5. \/ PushPublish \/ PopRelease \/ UNCHANGED <<produced, consumed>>
                BY <1>4 DEF Next, Producer, Consumer, PushLoadHead, PushCheck, PushStore,
                            PopLoadTail, PopCheck, PopCopy, vars
          <2> QED  BY <2>2, <2>3, <2>4, <2>5 DEF Fifo!FNext
    <1> QED  BY <1>3, <1>4, Inductive, PTL DEF Spec, ImplementsFifo, Fifo!FSpec
=============================================================================
