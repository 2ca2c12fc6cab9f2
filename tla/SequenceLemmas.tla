--------------------------- MODULE SequenceLemmas ----------------------------
(***************************************************************************)
(* Which elements of a sequence belong to a set, and how many: how that    *)
(* changes when a queue of the event loop grows, shrinks or is emptied.    *)
(* The models count handlers with Cardinality and pick them with Select;   *)
(* their proofs do with these lemmas.  At the end, subsequences and loops. *)
(***************************************************************************)
EXTENDS Selections, FiniteSets, FiniteSetTheorems, SequenceTheorems,
        WellFoundedInduction, TLAPS

------------------------------------------------------------------------------
(* Counting.                                                                *)

Where(s, A) == {i \in DOMAIN s : s[i] \in A}

Count(s, A) == Cardinality(Where(s, A))

\* 1 if e is one of those counted.
In(e, A) == IF e \in A THEN 1 ELSE 0

\* A one-to-one renumbering keeps the number of elements.
LEMMA Renumber ==
    ASSUME NEW X, NEW Y, IsFiniteSet(X), NEW f \in [X -> Y],
           \A i, j \in X : f[i] = f[j] => i = j,
           \A k \in Y : \E i \in X : f[i] = k
    PROVE  IsFiniteSet(Y) /\ Cardinality(Y) = Cardinality(X)
  <1>1. f \in Injection(X, Y)
    BY DEF Injection, IsInjective
  <1>2. f \in Surjection(X, Y)
    BY DEF Surjection
  <1>3. ExistsBijection(X, Y)
    BY <1>1, <1>2 DEF ExistsBijection, Bijection
  <1> QED BY <1>3, FS_Bijection

\* A count is a number, zero when no element is counted.
LEMMA CountType ==
    ASSUME NEW S, NEW s \in Seq(S), NEW A
    PROVE  /\ IsFiniteSet(Where(s, A))
           /\ Count(s, A) \in Nat
           /\ Count(s, A) = 0 <=> \A i \in DOMAIN s : s[i] \notin A
  <1>1. Len(s) \in Int /\ DOMAIN s = 1 .. Len(s)
    BY LenProperties
  <1>2. IsFiniteSet(DOMAIN s)
    BY <1>1, FS_Interval
  <1>3. Where(s, A) \in SUBSET (DOMAIN s)
    BY DEF Where
  <1>4. IsFiniteSet(Where(s, A))
    BY <1>2, <1>3, FS_Subset
  <1>5. Count(s, A) \in Nat
    BY <1>4, FS_CardinalityType DEF Count
  <1>6. Count(s, A) = 0 <=> Where(s, A) = {}
    BY <1>4, FS_EmptySet DEF Count
  <1> QED BY <1>4, <1>5, <1>6 DEF Where

\* An empty queue counts nothing.
LEMMA CountEmpty ==
    ASSUME NEW A
    PROVE  Count(<< >>, A) = 0
  <1>1. Where(<< >>, A) = {}
    BY DEF Where
  <1> QED BY <1>1, FS_EmptySet DEF Count

\* Queueing one element.
LEMMA CountAppend ==
    ASSUME NEW S, NEW s \in Seq(S), NEW e \in S, NEW A
    PROVE  Count(Append(s, e), A) = Count(s, A) + In(e, A)
  <1> DEFINE n == Len(s) + 1
             t == Append(s, e)
  <1>1. Len(s) \in Nat /\ DOMAIN s = 1 .. Len(s)
    BY LenProperties
  <1>2. t \in Seq(S) /\ Len(t) = n /\ t[n] = e /\ \A i \in 1 .. Len(s) : t[i] = s[i]
    BY AppendProperties
  <1>3. DOMAIN t = 1 .. n
    BY <1>2, LenProperties
  <1> HIDE DEF t
  <1>4. /\ \A i \in Where(t, A) : i \in Where(s, A) \/ (i = n /\ e \in A)
        /\ \A i \in Where(s, A) : i \in Where(t, A)
        /\ e \in A => n \in Where(t, A)
        /\ n \notin Where(s, A)
    BY <1>1, <1>2, <1>3 DEF Where
  <1> HIDE DEF n
  <1>5. Count(s, A) \in Nat /\ IsFiniteSet(Where(s, A))
    BY CountType
  <1>6. CASE e \in A
    <2>1. Where(t, A) = Where(s, A) \cup {n}
      BY <1>4, <1>6
    <2>2. Cardinality(Where(s, A) \cup {n}) = Cardinality(Where(s, A)) + 1
      BY <1>4, <1>5, FS_AddElement
    <2> QED BY <1>6, <2>1, <2>2 DEF Count, In, t
  <1>7. CASE e \notin A
    <2>1. Where(t, A) = Where(s, A)
      BY <1>4, <1>7
    <2> QED BY <1>5, <1>7, <2>1 DEF Count, In, t
  <1> QED BY <1>6, <1>7

\* Two queues, one behind the other.
LEMMA CountConcat ==
    ASSUME NEW S, NEW s \in Seq(S), NEW r \in Seq(S), NEW A
    PROVE  Count(s \o r, A) = Count(s, A) + Count(r, A)
  <1> DEFINE n == Len(s)
             t == s \o r
             X == Where(r, A)
             Y == Where(t, A) \ Where(s, A)
             f == [i \in X |-> i + n]
  <1>1. n \in Nat /\ DOMAIN s = 1 .. n /\ Len(r) \in Nat /\ DOMAIN r = 1 .. Len(r)
    BY LenProperties
  <1>2. /\ t \in Seq(S) /\ Len(t) = n + Len(r)
        /\ \A i \in 1 .. n + Len(r) : t[i] = IF i <= n THEN s[i] ELSE r[i - n]
    BY ConcatProperties
  <1>3. DOMAIN t = 1 .. n + Len(r)
    BY <1>2, LenProperties
  <1> HIDE DEF t, n
  <1>4. \A i \in 1 .. n : i \in 1 .. n + Len(r) /\ t[i] = s[i]
    BY <1>1, <1>2
  <1>5. \A i \in 1 .. Len(r) : i + n \in 1 .. n + Len(r) /\ ~(i + n <= n) /\ (i + n) - n = i
    BY <1>1
  <1>6. \A i \in 1 .. Len(r) : t[i + n] = r[i]
    BY <1>2, <1>5
  <1>7. Where(s, A) \subseteq Where(t, A)
    BY <1>1, <1>3, <1>4 DEF Where
  <1>8. \A i \in X : i \in 1 .. Len(r) /\ i + n \in Y
    <2> TAKE i \in X
    <2>1. i \in 1 .. Len(r) /\ r[i] \in A
      BY <1>1 DEF Where
    <2>2. i + n \in Where(t, A)
      BY <1>3, <1>5, <1>6, <2>1 DEF Where
    <2>3. i + n \notin DOMAIN s
      BY <1>1, <2>1
    <2> QED BY <2>1, <2>2, <2>3 DEF Where
  <1>9. \A k \in Y : \E i \in X : i + n = k
    <2> TAKE k \in Y
    <2>1. k \in 1 .. n + Len(r) /\ t[k] \in A
      BY <1>3 DEF Where
    <2>2. k > n
      <3> SUFFICES ASSUME ~(k > n) PROVE FALSE
        OBVIOUS
      <3>1. k \in 1 .. n
        BY <1>1, <2>1
      <3>2. k \in Where(s, A)
        BY <1>1, <1>4, <2>1, <3>1 DEF Where
      <3> QED BY <3>2
    <2>3. k - n \in 1 .. Len(r) /\ (k - n) + n = k
      BY <1>1, <2>1, <2>2
    <2>4. t[(k - n) + n] = r[k - n]
      BY <1>6, <2>3
    <2>5. k - n \in X
      BY <1>1, <2>1, <2>3, <2>4 DEF Where
    <2> QED BY <2>3, <2>5
  <1>10. IsFiniteSet(X) /\ IsFiniteSet(Where(s, A)) /\ IsFiniteSet(Where(t, A))
         /\ Count(s, A) \in Nat /\ Count(r, A) \in Nat /\ Count(t, A) \in Nat
    BY <1>2, CountType
  <1>11. Cardinality(Y) = Cardinality(X)
    <2>1. f \in [X -> Y] /\ (\A i \in X : f[i] = i + n)
      BY <1>8
    <2>2. \A i, j \in X : f[i] = f[j] => i = j
      BY <1>1, <1>8
    <2>3. \A k \in Y : \E i \in X : f[i] = k
      BY <1>9, <2>1
    <2> HIDE DEF f, X, Y
    <2> QED BY <1>10, <2>1, <2>2, <2>3, Renumber
  <1>12. Cardinality(Y) = Cardinality(Where(t, A)) - Cardinality(Where(t, A) \cap Where(s, A))
    BY <1>10, FS_Difference
  <1>13. Where(t, A) \cap Where(s, A) = Where(s, A)
    BY <1>7
  <1>14. Count(r, A) = Count(t, A) - Count(s, A)
    BY <1>11, <1>12, <1>13 DEF Count
  <1>15. Count(t, A) = Count(s, A) + Count(r, A)
    BY <1>10, <1>14
  <1> QED BY <1>15 DEF t

\* A queue of one element.
LEMMA CountOne ==
    ASSUME NEW e, NEW A
    PROVE  Count(<<e>>, A) = In(e, A)
  <1> DEFINE z == << >>
             c == Count(z, A)
  <1>1. z \in Seq({e}) /\ e \in {e} /\ <<e>> = Append(z, e)
    OBVIOUS
  <1>2. c = 0
    BY CountEmpty
  <1> HIDE DEF z
  <1>3. Count(Append(z, e), A) = c + In(e, A)
    BY <1>1, CountAppend
  <1> HIDE DEF c
  <1>4. c + In(e, A) = In(e, A)
    BY <1>2 DEF In
  <1> QED BY <1>1, <1>3, <1>4, Zenon

\* Taking the first element off a queue.
LEMMA CountTail ==
    ASSUME NEW S, NEW s \in Seq(S), s # << >>, NEW A
    PROVE  Count(s, A) = Count(Tail(s), A) + In(Head(s), A)
  <1> DEFINE u == <<Head(s)>>
             t == Tail(s)
  <1>1. Head(s) \in S /\ t \in Seq(S) /\ s = u \o t
    BY HeadTailProperties
  <1>2. u \in Seq(S)
    BY <1>1
  <1>3. Count(u, A) = In(Head(s), A)
    BY CountOne, Zenon
  <1> HIDE DEF u, t
  <1>4. Count(u \o t, A) = Count(u, A) + Count(t, A)
    BY <1>1, <1>2, CountConcat
  <1>5. Count(t, A) \in Nat /\ In(Head(s), A) \in Nat
    BY <1>1, CountType DEF In
  <1>6. Count(s, A) = In(Head(s), A) + Count(t, A)
    BY <1>1, <1>3, <1>4, Zenon
  <1>7. In(Head(s), A) + Count(t, A) = Count(t, A) + In(Head(s), A)
    BY <1>5
  <1> QED BY <1>6, <1>7, Zenon DEF t

\* Taking element i out of the middle of a queue.
LEMMA CountRemove ==
    ASSUME NEW S, NEW s \in Seq(S), NEW i \in DOMAIN s, NEW A, NEW r \in Seq(S),
           r = [j \in 1 .. Len(s) - 1 |-> IF j < i THEN s[j] ELSE s[j + 1]]
    PROVE  Count(s, A) = Count(r, A) + In(s[i], A)
  <1> DEFINE X == Where(r, A)
             Y == Where(s, A) \ {i}
             f == [j \in X |-> IF j < i THEN j ELSE j + 1]
  <1>1. Len(s) \in Nat /\ DOMAIN s = 1 .. Len(s) /\ i \in 1 .. Len(s)
    BY LenProperties
  <1>2. /\ DOMAIN r = 1 .. Len(s) - 1
        /\ \A j \in 1 .. Len(s) - 1 : r[j] = IF j < i THEN s[j] ELSE s[j + 1]
    OBVIOUS
  <1>3. \A j \in X : j \in 1 .. Len(s) - 1 /\ (IF j < i THEN j ELSE j + 1) \in Y
    <2> TAKE j \in X
    <2>1. j \in 1 .. Len(s) - 1 /\ r[j] \in A
      BY <1>2 DEF Where
    <2>2. CASE j < i
      BY <1>1, <1>2, <2>1, <2>2 DEF Where
    <2>3. CASE ~(j < i)
      <3>1. j + 1 \in 1 .. Len(s) /\ j + 1 # i /\ r[j] = s[j + 1]
        BY <1>1, <1>2, <2>1, <2>3
      <3> QED BY <1>1, <2>1, <2>3, <3>1 DEF Where
    <2> QED BY <2>2, <2>3
  <1>4. \A k \in Y : \E j \in X : (IF j < i THEN j ELSE j + 1) = k
    <2> TAKE k \in Y
    <2>1. k \in 1 .. Len(s) /\ s[k] \in A /\ k # i
      BY <1>1 DEF Where
    <2>2. CASE k < i
      <3>1. k \in 1 .. Len(s) - 1 /\ r[k] = s[k]
        BY <1>1, <1>2, <2>1, <2>2
      <3>2. k \in X
        BY <1>2, <2>1, <3>1 DEF Where
      <3> QED BY <2>2, <3>2
    <2>3. CASE ~(k < i)
      <3>1. k - 1 \in 1 .. Len(s) - 1 /\ ~(k - 1 < i) /\ (k - 1) + 1 = k
        BY <1>1, <2>1, <2>3
      <3>2. r[k - 1] = s[k]
        BY <1>2, <3>1
      <3>3. k - 1 \in X
        BY <1>2, <2>1, <3>1, <3>2 DEF Where
      <3> QED BY <3>1, <3>3
    <2> QED BY <2>2, <2>3
  <1>5. IsFiniteSet(X) /\ IsFiniteSet(Where(s, A)) /\ Count(s, A) \in Nat /\ Count(r, A) \in Nat
    BY CountType
  <1>6. Cardinality(Y) = Cardinality(X)
    <2>1. f \in [X -> Y] /\ (\A j \in X : f[j] = IF j < i THEN j ELSE j + 1)
      BY <1>3
    <2>2. \A j, k \in X : f[j] = f[k] => j = k
      BY <1>1, <1>3
    <2>3. \A k \in Y : \E j \in X : f[j] = k
      BY <1>4, <2>1
    <2> HIDE DEF f, X, Y
    <2> QED BY <1>5, <2>1, <2>2, <2>3, Renumber
  <1>7. Cardinality(Y) = IF i \in Where(s, A) THEN Cardinality(Where(s, A)) - 1
                                              ELSE Cardinality(Where(s, A))
    BY <1>5, FS_RemoveElement
  <1>8. i \in Where(s, A) <=> s[i] \in A
    BY DEF Where
  <1>9. Count(r, A) = Count(s, A) - In(s[i], A)
    BY <1>5, <1>6, <1>7, <1>8 DEF Count, In
  <1> QED BY <1>5, <1>9 DEF In

------------------------------------------------------------------------------
(* Selecting.                                                               *)

\* Induction on the natural numbers, for a set instead of a predicate: the provers
\* cannot instantiate the library's NatInduction.
LEMMA Induction ==
    ASSUME NEW P, 0 \in P, \A n \in Nat : n \in P => n + 1 \in P
    PROVE  \A n \in Nat : n \in P
  <1> SUFFICES ASSUME NEW n \in Nat, n \notin P PROVE FALSE
    OBVIOUS
  <1> DEFINE T == Nat \ P
  <1>1. T \subseteq Nat /\ T # {}
    OBVIOUS
  <1> HIDE DEF T
  <1>2. PICK m \in T : \A y \in T : ~(<<y, m>> \in OpToRel(<, Nat))
    BY <1>1, NatLessThanWellFounded, WFMin
  <1>3. m \in Nat /\ m \notin P
    BY <1>2 DEF T
  <1>4. m # 0 /\ m - 1 \in Nat /\ (m - 1) + 1 = m
    BY <1>3
  <1>5. m - 1 \in P
    <2>1. <<m - 1, m>> \in OpToRel(<, Nat)
      BY <1>3, <1>4 DEF OpToRel
    <2> QED BY <1>2, <1>4, <2>1 DEF T
  <1> QED BY <1>3, <1>4, <1>5

\* One step of Select: the elements of A among the first i of s, given f[i - 1].
SelectStep(s, A, f, i) == IF i = 0 THEN << >>
            ELSE IF s[i] \in A THEN Append(f[i - 1], s[i]) ELSE f[i - 1]

\* The recursive function of Select exists.
LEMMA SelectExists ==
    ASSUME NEW S, NEW s \in Seq(S), NEW A
    PROVE  \E f : f = [i \in 0 .. Len(s) |-> SelectStep(s, A, f, i)]
  <1> DEFINE P == {n \in Nat : \E f : f = [i \in 0 .. n |-> SelectStep(s, A, f, i)]}
  <1>1. 0 \in P
    <2> DEFINE f == [i \in 0 .. 0 |-> << >>]
    <2>1. f = [i \in 0 .. 0 |-> SelectStep(s, A, f, i)]
      BY DEF SelectStep
    <2> HIDE DEF f
    <2> QED BY <2>1
  <1>2. \A n \in Nat : n \in P => n + 1 \in P
    <2> SUFFICES ASSUME NEW n \in Nat, NEW f, f = [i \in 0 .. n |-> SelectStep(s, A, f, i)]
                 PROVE  \E g : g = [i \in 0 .. n + 1 |-> SelectStep(s, A, g, i)]
      OBVIOUS
    <2> DEFINE g == [i \in 0 .. n + 1 |-> IF i = n + 1 THEN SelectStep(s, A, f, i) ELSE f[i]]
    <2>0. \A i \in 0 .. n : f[i] = SelectStep(s, A, f, i)
      BY Zenon
    <2>1. \A i \in 0 .. n + 1 : g[i] = SelectStep(s, A, f, i)
      <3> TAKE i \in 0 .. n + 1
      <3>1. CASE i = n + 1
        BY <3>1
      <3>2. CASE i # n + 1
        <4>1. i \in 0 .. n
          BY <3>2
        <4> QED BY <2>0, <3>2, <4>1, Zenon
      <3> QED BY <3>1, <3>2
    <2>2. \A i \in 0 .. n : g[i] = f[i]
      OBVIOUS
    <2>3. \A i \in 0 .. n + 1 : SelectStep(s, A, g, i) = SelectStep(s, A, f, i)
      <3> TAKE i \in 0 .. n + 1
      <3> HIDE DEF g
      <3>1. i = 0 \/ i - 1 \in 0 .. n
        OBVIOUS
      <3>2. i = 0 \/ g[i - 1] = f[i - 1]
        BY <2>2, <3>1
      <3> QED BY <3>2, Zenon DEF SelectStep
    <2>4. g = [i \in 0 .. n + 1 |-> g[i]]
      OBVIOUS
    <2> HIDE DEF g
    <2>5. g = [i \in 0 .. n + 1 |-> SelectStep(s, A, g, i)]
      BY <2>1, <2>3, <2>4, Zenon
    <2> QED BY <2>5
  <1> HIDE DEF P
  <1>3. Len(s) \in P
    BY <1>1, <1>2, Induction, LenProperties
  <1> QED BY <1>3 DEF P

\* What Select computes, step by step.
LEMMA Selecting ==
    ASSUME NEW S, NEW s \in Seq(S), NEW A
    PROVE  \E f : f = [i \in 0 .. Len(s) |-> SelectStep(s, A, f, i)] /\ Select(s, A) = f[Len(s)]
  <1> DEFINE f == CHOOSE f : f = [i \in 0 .. Len(s) |-> SelectStep(s, A, f, i)]
  <1>1. f = [i \in 0 .. Len(s) |-> SelectStep(s, A, f, i)]
    BY SelectExists, Zenon
  <1>2. Select(s, A) = f[Len(s)]
    BY DEF Select, SelectStep
  <1> HIDE DEF f
  <1> QED BY <1>1, <1>2
\* Induction on sequences that grow at their end.
LEMMA SeqInduction ==
    ASSUME NEW S, NEW P, << >> \in P,
           \A s \in Seq(S) : \A e \in S : s \in P => Append(s, e) \in P
    PROVE  \A s \in Seq(S) : s \in P
  <1> DEFINE Q == {n \in Nat : \A s \in Seq(S) : Len(s) = n => s \in P}
  <1>1. 0 \in Q
    BY EmptySeq
  <1>2. \A n \in Nat : n \in Q => n + 1 \in Q
    <2> SUFFICES ASSUME NEW n \in Nat, n \in Q, NEW s \in Seq(S), Len(s) = n + 1
                 PROVE  s \in P
      OBVIOUS
    <2> DEFINE u == SubSeq(s, 1, n)
               e == s[n + 1]
    <2>1. u \in Seq(S) /\ Len(u) = n /\ \A i \in 1 .. n : u[i] = s[i]
      BY SubSeqProperties
    <2>2. e \in S
      OBVIOUS
    <2>3. u \in P
      BY <2>1
    <2> HIDE DEF u, e
    <2>4. Append(u, e) \in P
      BY <2>1, <2>2, <2>3
    <2>5. s = Append(u, e)
      <3> DEFINE t == Append(u, e)
      <3>1. t \in Seq(S) /\ Len(t) = n + 1
        BY <2>1, <2>2
      <3>2. \A i \in 1 .. n + 1 : t[i] = s[i]
        BY <2>1, <2>2 DEF e
      <3> HIDE DEF t
      <3>3. s = t
        BY <3>1, <3>2, SeqEqual
      <3> QED BY <3>3 DEF t
    <2> QED BY <2>4, <2>5
  <1> HIDE DEF Q
  <1>3. \A n \in Nat : n \in Q
    BY <1>1, <1>2, Induction
  <1> QED BY <1>3, LenProperties DEF Q

\* Nothing is selected from an empty queue.
LEMMA SelectEmpty ==
    ASSUME NEW A
    PROVE  Select(<< >>, A) = << >>
  <1> DEFINE z == << >>
  <1>1. z \in Seq({}) /\ Len(z) = 0
    OBVIOUS
  <1> HIDE DEF z
  <1>2. PICK f : f = [i \in 0 .. Len(z) |-> SelectStep(z, A, f, i)] /\ Select(z, A) = f[Len(z)]
    BY <1>1, Selecting
  <1>3. f[0] = SelectStep(z, A, f, 0)
    BY <1>1, <1>2
  <1>4. f[0] = << >>
    BY <1>3 DEF SelectStep
  <1> QED BY <1>1, <1>2, <1>4 DEF z

\* Queueing one element.
LEMMA SelectAppend ==
    ASSUME NEW S, NEW s \in Seq(S), NEW e \in S, NEW A
    PROVE  Select(Append(s, e), A) = IF e \in A THEN Append(Select(s, A), e) ELSE Select(s, A)
  <1> DEFINE t == Append(s, e)
             n == Len(s)
  <1>1. n \in Nat /\ t \in Seq(S) /\ Len(t) = n + 1 /\ t[n + 1] = e /\ \A i \in 1 .. n : t[i] = s[i]
    BY AppendProperties, LenProperties
  <1> HIDE DEF t
  <1>2. PICK f : f = [i \in 0 .. n |-> SelectStep(s, A, f, i)] /\ Select(s, A) = f[n]
    BY Selecting
  <1> HIDE DEF n
  <1>3. PICK g : g = [i \in 0 .. Len(t) |-> SelectStep(t, A, g, i)] /\ Select(t, A) = g[Len(t)]
    BY <1>1, Selecting
  <1>4. \A i \in 0 .. n : f[i] = SelectStep(s, A, f, i)
    BY <1>2, Zenon
  <1>5. \A i \in 0 .. Len(t) : g[i] = SelectStep(t, A, g, i)
    BY <1>3, Zenon
  <1> DEFINE P == {i \in Nat : i <= n => g[i] = f[i]}
  <1>6. 0 \in P
    <2>1. 0 \in 0 .. n /\ 0 \in 0 .. Len(t)
      BY <1>1
    <2>2. f[0] = SelectStep(s, A, f, 0) /\ g[0] = SelectStep(t, A, g, 0)
      BY <1>4, <1>5, <2>1
    <2> QED BY <2>2 DEF SelectStep
  <1>7. \A i \in Nat : i \in P => i + 1 \in P
    <2> SUFFICES ASSUME NEW i \in Nat, i \in P, i + 1 <= n PROVE g[i + 1] = f[i + 1]
      OBVIOUS
    <2> DEFINE k == i + 1
    <2>1. k \in 0 .. n /\ k \in 0 .. Len(t) /\ k \in 1 .. n /\ k # 0 /\ k - 1 = i
      BY <1>1
    <2>2. g[i] = f[i]
      BY <1>1
    <2>3. t[k] = s[k]
      BY <1>1, <2>1
    <2> HIDE DEF k
    <2>4. f[k] = SelectStep(s, A, f, k) /\ g[k] = SelectStep(t, A, g, k)
      BY <1>4, <1>5, <2>1
    <2>5. SelectStep(s, A, f, k) = SelectStep(t, A, g, k)
      BY <2>1, <2>2, <2>3, Zenon DEF SelectStep
    <2> QED BY <2>4, <2>5 DEF k
  <1> HIDE DEF P
  <1>8. n \in P
    BY <1>1, <1>6, <1>7, Induction
  <1>9. g[n] = f[n]
    BY <1>1, <1>8 DEF P
  <1> DEFINE m == n + 1
  <1>10. m \in 0 .. Len(t) /\ m # 0 /\ m - 1 = n /\ t[m] = e /\ Len(t) = m
    BY <1>1
  <1> HIDE DEF m
  <1>11. g[m] = SelectStep(t, A, g, m)
    BY <1>5, <1>10
  <1>12. SelectStep(t, A, g, m) = IF e \in A THEN Append(f[n], e) ELSE f[n]
    BY <1>9, <1>10, Zenon DEF SelectStep
  <1> QED BY <1>2, <1>3, <1>10, <1>11, <1>12, Zenon DEF t

\* What is selected are elements of the sequence and of the set.
LEMMA SelectType ==
    ASSUME NEW S, NEW A
    PROVE  \A s \in Seq(S) : Select(s, A) \in Seq(S) /\ Select(s, A) \in Seq(A)
  <1> DEFINE P == {s \in Seq(S) : Select(s, A) \in Seq(S) /\ Select(s, A) \in Seq(A)}
  <1>1. << >> \in P
    <2>1. Select(<< >>, A) = << >>
      BY SelectEmpty
    <2>2. << >> \in Seq(S) /\ << >> \in Seq(A)
      OBVIOUS
    <2> QED BY <2>1, <2>2, Zenon
  <1>2. \A s \in Seq(S) : \A e \in S : s \in P => Append(s, e) \in P
    <2> SUFFICES ASSUME NEW s \in Seq(S), NEW e \in S, s \in P PROVE Append(s, e) \in P
      OBVIOUS
    <2> DEFINE v == Select(s, A)
    <2>1. v \in Seq(S) /\ v \in Seq(A)
      OBVIOUS
    <2> HIDE DEF v
    <2>2. Select(Append(s, e), A) = IF e \in A THEN Append(v, e) ELSE v
      BY SelectAppend DEF v
    <2>3. Append(v, e) \in Seq(S) /\ (e \in A => Append(v, e) \in Seq(A)) /\ Append(s, e) \in Seq(S)
      BY <2>1
    <2> QED BY <2>1, <2>2, <2>3, Zenon
  <1> HIDE DEF P
  <1>3. \A s \in Seq(S) : s \in P
    BY <1>1, <1>2, SeqInduction
  <1> QED BY <1>3 DEF P

\* Appending to the second of two queues.
LEMMA ConcatAppend ==
    ASSUME NEW S, NEW s \in Seq(S), NEW t \in Seq(S), NEW e \in S
    PROVE  s \o Append(t, e) = Append(s \o t, e)
  OBVIOUS

\* Selecting from two queues, one behind the other.
LEMMA SelectConcat ==
    ASSUME NEW S, NEW A, NEW s \in Seq(S)
    PROVE  \A t \in Seq(S) : Select(s \o t, A) = Select(s, A) \o Select(t, A)
  <1> DEFINE P == {t \in Seq(S) : Select(s \o t, A) = Select(s, A) \o Select(t, A)}
             v == Select(s, A)
  <1>0. v \in Seq(S)
    BY SelectType
  <1>1. << >> \in P
    <2>1. Select(<< >>, A) = << >>
      BY SelectEmpty
    <2>2. s \o << >> = s
      BY ConcatEmptySeq
    <2> HIDE DEF v
    <2>3. v \o << >> = v
      BY <1>0, ConcatEmptySeq
    <2>4. << >> \in Seq(S)
      OBVIOUS
    <2> QED BY <2>1, <2>2, <2>3, <2>4, Zenon DEF v
  <1>2. \A t \in Seq(S) : \A e \in S : t \in P => Append(t, e) \in P
    <2> SUFFICES ASSUME NEW t \in Seq(S), NEW e \in S, t \in P PROVE Append(t, e) \in P
      OBVIOUS
    <2> DEFINE w == Select(t, A)
               u == s \o t
    <2>1. w \in Seq(S) /\ u \in Seq(S) /\ Append(t, e) \in Seq(S)
      BY SelectType
    <2>2. Select(u, A) = v \o w
      OBVIOUS
    <2>3. Select(Append(t, e), A) = IF e \in A THEN Append(w, e) ELSE w
      BY SelectAppend
    <2> HIDE DEF u
    <2>4. Select(Append(u, e), A) = IF e \in A THEN Append(Select(u, A), e) ELSE Select(u, A)
      BY <2>1, SelectAppend
    <2>5. s \o Append(t, e) = Append(u, e)
      BY ConcatAppend DEF u
    <2> HIDE DEF v, w
    <2>6. v \o Append(w, e) = Append(v \o w, e)
      BY <1>0, <2>1, ConcatAppend
    <2>7. Select(s \o Append(t, e), A) = v \o Select(Append(t, e), A)
      BY <2>2, <2>3, <2>4, <2>5, <2>6, Zenon
    <2> QED BY <2>1, <2>7, Zenon DEF v
  <1> HIDE DEF P
  <1>3. \A t \in Seq(S) : t \in P
    BY <1>1, <1>2, SeqInduction
  <1> QED BY <1>3 DEF P

\* Selecting from a queue of one element.
LEMMA SelectOne ==
    ASSUME NEW e, NEW A
    PROVE  Select(<<e>>, A) = IF e \in A THEN <<e>> ELSE << >>
  <1> DEFINE z == << >>
  <1>1. z \in Seq({e}) /\ e \in {e} /\ <<e>> = Append(z, e)
    OBVIOUS
  <1>2. Select(z, A) = z
    BY SelectEmpty
  <1> HIDE DEF z
  <1>3. Select(Append(z, e), A) = IF e \in A THEN Append(Select(z, A), e) ELSE Select(z, A)
    BY <1>1, SelectAppend
  <1>4. Select(<<e>>, A) = IF e \in A THEN <<e>> ELSE z
    BY <1>1, <1>2, <1>3, Zenon
  <1> QED BY <1>4 DEF z

\* Taking the first element off a queue.
LEMMA SelectTail ==
    ASSUME NEW S, NEW s \in Seq(S), s # << >>, NEW A
    PROVE  Select(s, A) = (IF Head(s) \in A THEN <<Head(s)>> ELSE << >>) \o Select(Tail(s), A)
  <1> DEFINE u == <<Head(s)>>
             t == Tail(s)
  <1>1. Head(s) \in S /\ t \in Seq(S) /\ s = u \o t
    BY HeadTailProperties
  <1>2. u \in Seq(S)
    BY <1>1
  <1>3. Select(u, A) = IF Head(s) \in A THEN <<Head(s)>> ELSE << >>
    BY SelectOne, Zenon
  <1> HIDE DEF u, t
  <1>4. Select(u \o t, A) = Select(u, A) \o Select(t, A)
    BY <1>1, <1>2, SelectConcat
  <1> QED BY <1>1, <1>3, <1>4, Zenon DEF t

\* How many elements are selected.
LEMMA SelectLen ==
    ASSUME NEW S, NEW A
    PROVE  \A s \in Seq(S) : Len(Select(s, A)) = Count(s, A)
  <1> DEFINE P == {s \in Seq(S) : Len(Select(s, A)) = Count(s, A)}
  <1>1. << >> \in P
    <2>1. Select(<< >>, A) = << >> /\ Count(<< >>, A) = 0
      BY SelectEmpty, CountEmpty
    <2>2. << >> \in Seq(S) /\ Len(<< >>) = 0
      OBVIOUS
    <2> QED BY <2>1, <2>2
  <1>2. ASSUME NEW s \in Seq(S), NEW e \in S, s \in P
        PROVE  Append(s, e) \in P
    <2> DEFINE t == Append(s, e)
               u == Select(s, A)
    <2>1. t \in Seq(S)
      BY AppendProperties
    <2>2. u \in Seq(S) /\ Len(u) = Count(s, A)
      BY <1>2, SelectType
    <2>3. Count(t, A) = Count(s, A) + In(e, A) /\ Count(s, A) \in Nat
      BY CountAppend, CountType
    <2>4. Select(t, A) = IF e \in A THEN Append(u, e) ELSE u
      BY SelectAppend
    <2> HIDE DEF t, u
    <2>5. Len(Append(u, e)) = Len(u) + 1
      BY <2>2, AppendProperties
    <2>6. CASE e \in A
      <3>1. In(e, A) = 1 BY <2>6 DEF In
      <3>2. Len(Select(t, A)) = Count(t, A)
        BY <2>2, <2>3, <2>4, <2>5, <2>6, <3>1
      <3> QED BY <2>1, <3>2 DEF t
    <2>7. CASE e \notin A
      <3>1. In(e, A) = 0 BY <2>7 DEF In
      <3>2. Len(Select(t, A)) = Count(t, A)
        BY <2>2, <2>3, <2>4, <2>7, <3>1
      <3> QED BY <2>1, <3>2 DEF t
    <2> QED BY <2>6, <2>7
  <1> HIDE DEF P
  <1>3. \A s \in Seq(S) : s \in P
    BY <1>1, <1>2, SeqInduction
  <1> QED BY <1>3 DEF P

\* Every element of the set that occurs in the sequence is selected, and no other.
LEMMA SelectRange ==
    ASSUME NEW S, NEW A
    PROVE  \A s \in Seq(S) : \A x :
              (\E i \in DOMAIN Select(s, A) : Select(s, A)[i] = x)
                <=> x \in A /\ \E i \in DOMAIN s : s[i] = x
  <1> DEFINE Has(s, x) == \E i \in DOMAIN s : s[i] = x
             P == {s \in Seq(S) : \A x : Has(Select(s, A), x) <=> x \in A /\ Has(s, x)}
  <1>1. << >> \in P
    <2>1. Select(<< >>, A) = << >>
      BY SelectEmpty
    <2>2. << >> \in Seq(S) /\ \A x : ~Has(<< >>, x)
      OBVIOUS
    <2> HIDE DEF Has
    <2> QED BY <2>1, <2>2, Zenon
  <1>2. ASSUME NEW T, NEW s \in Seq(T), NEW e \in T, NEW x PROVE Has(Append(s, e), x) <=> Has(s, x) \/ x = e
    <2> DEFINE t == Append(s, e)
    <2>1. t \in Seq(T) /\ Len(t) = Len(s) + 1 /\ t[Len(s) + 1] = e /\ (\A i \in 1 .. Len(s) : t[i] = s[i])
          /\ Len(s) \in Nat /\ DOMAIN s = 1 .. Len(s) /\ DOMAIN t = 1 .. Len(s) + 1
      BY AppendProperties, LenProperties
    <2> HIDE DEF t
    <2>2. Has(t, x) => Has(s, x) \/ x = e
      BY <2>1
    <2>3. Has(s, x) => Has(t, x)
      BY <2>1
    <2>4. x = e => Has(t, x)
      BY <2>1
    <2> HIDE DEF Has
    <2> QED BY <2>2, <2>3, <2>4 DEF t
  <1>3. \A s \in Seq(S) : \A e \in S : s \in P => Append(s, e) \in P
    <2> SUFFICES ASSUME NEW s \in Seq(S), NEW e \in S, s \in P PROVE Append(s, e) \in P
      OBVIOUS
    <2> DEFINE v == Select(s, A)
    <2>1. v \in Seq(S) /\ \A x : Has(v, x) <=> x \in A /\ Has(s, x)
      BY SelectType
    <2> HIDE DEF v
    <2>2. Select(Append(s, e), A) = IF e \in A THEN Append(v, e) ELSE v
      BY SelectAppend DEF v
    <2>3. \A x : Has(Append(v, e), x) <=> Has(v, x) \/ x = e
      <3> HIDE DEF Has
      <3> QED BY <1>2, <2>1
    <2>4. \A x : Has(Append(s, e), x) <=> Has(s, x) \/ x = e
      BY <1>2
    <2>5. Append(s, e) \in Seq(S)
      OBVIOUS
    <2> HIDE DEF Has
    <2>6. \A x : Has(Select(Append(s, e), A), x) <=> x \in A /\ Has(Append(s, e), x)
      BY <2>1, <2>2, <2>3, <2>4, Zenon
    <2> QED BY <2>5, <2>6
  <1> HIDE DEF P
  <1>4. \A s \in Seq(S) : s \in P
    BY <1>1, <1>3, SeqInduction
  <1> QED BY <1>4 DEF P

\* The same, with the range of the indices written out.
LEMMA SelectHas ==
    ASSUME NEW S, NEW s \in Seq(S), NEW A, NEW x
    PROVE  (\E i \in 1 .. Len(Select(s, A)) : Select(s, A)[i] = x)
             <=> x \in A /\ \E i \in 1 .. Len(s) : s[i] = x
  <1> DEFINE v == Select(s, A)
  <1>1. v \in Seq(S)
    BY SelectType
  <1>2. (\E i \in DOMAIN v : v[i] = x) <=> x \in A /\ \E i \in DOMAIN s : s[i] = x
    <2>1. v = Select(s, A)
      OBVIOUS
    <2> HIDE DEF v
    <2> QED BY <2>1, SelectRange
  <1> HIDE DEF v
  <1>3. DOMAIN v = 1 .. Len(v) /\ DOMAIN s = 1 .. Len(s)
    BY <1>1, LenProperties
  <1> QED BY <1>2, <1>3, Zenon DEF v

\* Selecting all of a sequence.
LEMMA SelectAll ==
    ASSUME NEW A
    PROVE  \A s \in Seq(A) : Select(s, A) = s
  <1> DEFINE P == {s \in Seq(A) : Select(s, A) = s}
  <1>1. << >> \in P
    <2>1. Select(<< >>, A) = << >>
      BY SelectEmpty
    <2>2. << >> \in Seq(A)
      OBVIOUS
    <2> QED BY <2>1, <2>2, Zenon
  <1>2. \A s \in Seq(A) : \A e \in A : s \in P => Append(s, e) \in P
    <2> SUFFICES ASSUME NEW s \in Seq(A), NEW e \in A, s \in P PROVE Append(s, e) \in P
      OBVIOUS
    <2>1. Select(Append(s, e), A) = Append(Select(s, A), e)
      BY SelectAppend
    <2>2. Select(s, A) = s /\ Append(s, e) \in Seq(A)
      OBVIOUS
    <2> QED BY <2>1, <2>2, Zenon
  <1> HIDE DEF P
  <1>3. \A s \in Seq(A) : s \in P
    BY <1>1, <1>2, SeqInduction
  <1> QED BY <1>3 DEF P

\* A queue stays free of duplicates when a new element joins it.
LEMMA DistinctAppend ==
    ASSUME NEW S, NEW s \in Seq(S), NEW e \in S
    PROVE  Distinct(Append(s, e)) <=> Distinct(s) /\ \A i \in DOMAIN s : s[i] # e
  <1> DEFINE t == Append(s, e)
  <1>1. t \in Seq(S) /\ Len(t) = Len(s) + 1 /\ t[Len(s) + 1] = e /\ (\A i \in 1 .. Len(s) : t[i] = s[i])
        /\ Len(s) \in Nat /\ DOMAIN s = 1 .. Len(s) /\ DOMAIN t = 1 .. Len(s) + 1
    BY AppendProperties, LenProperties
  <1> HIDE DEF t
  <1>2. ASSUME Distinct(t) PROVE Distinct(s) /\ \A i \in DOMAIN s : s[i] # e
    <2>1. Distinct(s)
      BY <1>1, <1>2 DEF Distinct
    <2>2. ASSUME NEW i \in DOMAIN s, s[i] = e PROVE FALSE
      <3>1. i \in DOMAIN t /\ Len(s) + 1 \in DOMAIN t /\ t[i] = t[Len(s) + 1] /\ i # Len(s) + 1
        BY <1>1, <2>2
      <3> QED BY <1>2, <3>1 DEF Distinct
    <2> QED BY <2>1, <2>2
  <1>3. ASSUME Distinct(s), \A i \in DOMAIN s : s[i] # e PROVE Distinct(t)
    <2> SUFFICES ASSUME NEW i \in DOMAIN t, NEW j \in DOMAIN t, t[i] = t[j] PROVE i = j
      BY DEF Distinct
    <2>1. i \in DOMAIN s \/ i = Len(s) + 1
      BY <1>1
    <2>2. j \in DOMAIN s \/ j = Len(s) + 1
      BY <1>1
    <2>3. CASE i \in DOMAIN s /\ j \in DOMAIN s
      BY <1>1, <1>3, <2>3 DEF Distinct
    <2>4. CASE i \in DOMAIN s /\ j = Len(s) + 1
      BY <1>1, <1>3, <2>4
    <2>5. CASE i = Len(s) + 1 /\ j \in DOMAIN s
      BY <1>1, <1>3, <2>5
    <2> QED BY <2>1, <2>2, <2>3, <2>4, <2>5
  <1> QED BY <1>2, <1>3 DEF t

\* Selecting makes no duplicates.
LEMMA SelectDistinct ==
    ASSUME NEW S, NEW A
    PROVE  \A s \in Seq(S) : Distinct(s) => Distinct(Select(s, A))
  <1> DEFINE P == {s \in Seq(S) : Distinct(s) => Distinct(Select(s, A))}
  <1>1. << >> \in P
    <2>1. Select(<< >>, A) = << >>
      BY SelectEmpty
    <2>2. << >> \in Seq(S)
      OBVIOUS
    <2> QED BY <2>1, <2>2, Zenon
  <1>2. \A s \in Seq(S) : \A e \in S : s \in P => Append(s, e) \in P
    <2> SUFFICES ASSUME NEW s \in Seq(S), NEW e \in S, s \in P PROVE Append(s, e) \in P
      OBVIOUS
    <2> DEFINE v == Select(s, A)
    <2>1. v \in Seq(S) /\ Append(s, e) \in Seq(S)
      BY SelectType
    <2>2. (\E i \in DOMAIN v : v[i] = e) => \E i \in DOMAIN s : s[i] = e
      <3>1. v = Select(s, A)
        OBVIOUS
      <3> HIDE DEF v, P
      <3>2. (\E i \in 1 .. Len(v) : v[i] = e) <=> e \in A /\ \E i \in 1 .. Len(s) : s[i] = e
        BY <3>1, SelectHas, SMTT(30)
      <3>3. DOMAIN v = 1 .. Len(v) /\ DOMAIN s = 1 .. Len(s)
        BY <2>1
      <3> QED BY <3>2, <3>3, Zenon
    <2>3. Distinct(s) => Distinct(v)
      OBVIOUS
    <2> HIDE DEF v
    <2>4. Select(Append(s, e), A) = IF e \in A THEN Append(v, e) ELSE v
      BY SelectAppend DEF v
    <2>5. Distinct(Append(v, e)) <=> Distinct(v) /\ \A i \in DOMAIN v : v[i] # e
      BY <2>1, DistinctAppend
    <2>6. Distinct(Append(s, e)) <=> Distinct(s) /\ \A i \in DOMAIN s : s[i] # e
      BY DistinctAppend
    <2>7. Distinct(Append(s, e)) => Distinct(Select(Append(s, e), A))
      <3> HIDE DEF P
      <3> QED BY <2>2, <2>3, <2>4, <2>5, <2>6, Zenon
    <2> QED BY <2>1, <2>7
  <1> HIDE DEF P
  <1>3. \A s \in Seq(S) : s \in P
    BY <1>1, <1>2, SeqInduction
  <1> QED BY <1>3 DEF P

------------------------------------------------------------------------------
(* Subsequences.                                                            *)

\* The elements of s are elements of t, in the order they have there.
Embeds(s, t) ==
    \E f \in [DOMAIN s -> DOMAIN t] :
        /\ \A i \in DOMAIN s : t[f[i]] = s[i]
        /\ \A i, j \in DOMAIN s : i < j => f[i] < f[j]

\* The elements of two queues, one behind the other.
LEMMA ConcatElements ==
    ASSUME NEW S, NEW s \in Seq(S), NEW u \in Seq(S)
    PROVE  /\ s \o u \in Seq(S) /\ Len(s) \in Nat /\ Len(u) \in Nat
           /\ DOMAIN s = 1 .. Len(s) /\ DOMAIN u = 1 .. Len(u)
           /\ Len(s \o u) = Len(s) + Len(u)
           /\ DOMAIN (s \o u) = 1 .. Len(s) + Len(u)
           /\ \A i \in 1 .. Len(s) : (s \o u)[i] = s[i]
           /\ \A i \in 1 .. Len(u) : (s \o u)[Len(s) + i] = u[i]
  BY ConcatProperties, LenProperties

\* The same elements may be added to both.
LEMMA EmbedsConcat ==
    ASSUME NEW S, NEW s \in Seq(S), NEW t \in Seq(S), NEW u \in Seq(S), Embeds(s, t)
    PROVE  Embeds(s \o u, t \o u)
  <1> DEFINE m == Len(s)
             n == Len(t)
             k == Len(u)
             a == s \o u
             b == t \o u
  <1>1. /\ m \in Nat /\ n \in Nat /\ k \in Nat
        /\ DOMAIN s = 1 .. m /\ DOMAIN t = 1 .. n /\ DOMAIN a = 1 .. m + k /\ DOMAIN b = 1 .. n + k
        /\ \A i \in 1 .. m : a[i] = s[i]
        /\ \A i \in 1 .. k : a[m + i] = u[i]
        /\ \A i \in 1 .. n : b[i] = t[i]
        /\ \A i \in 1 .. k : b[n + i] = u[i]
    BY ConcatElements
  <1> HIDE DEF m, n, k, a, b
  <1>2. PICK f \in [1 .. m -> 1 .. n] :
            /\ \A i \in 1 .. m : t[f[i]] = s[i]
            /\ \A i, j \in 1 .. m : i < j => f[i] < f[j]
    BY <1>1 DEF Embeds
  <1> DEFINE g == [i \in 1 .. m + k |-> IF i <= m THEN f[i] ELSE n + (i - m)]
  <1>3. g \in [1 .. m + k -> 1 .. n + k]
    BY <1>1, <1>2
  <1>4. ASSUME NEW i \in 1 .. m + k PROVE b[g[i]] = a[i]
    <2>1. CASE i <= m
      BY <1>1, <1>2, <2>1
    <2>2. CASE ~(i <= m)
      <3>1. i - m \in 1 .. k /\ g[i] = n + (i - m) /\ i = m + (i - m)
        BY <1>1, <2>2
      <3>2. PICK p \in 1 .. k : g[i] = n + p /\ i = m + p
        BY <3>1
      <3> HIDE DEF g
      <3> QED BY <1>1, <3>2
    <2> QED BY <2>1, <2>2
  <1>5. ASSUME NEW i \in 1 .. m + k, NEW j \in 1 .. m + k, i < j PROVE g[i] < g[j]
    BY <1>1, <1>2, <1>5
  <1> HIDE DEF g
  <1>6. /\ g \in [DOMAIN a -> DOMAIN b]
        /\ \A i \in DOMAIN a : b[g[i]] = a[i]
        /\ \A i, j \in DOMAIN a : i < j => g[i] < g[j]
    BY <1>1, <1>3, <1>4, <1>5
  <1>7. Embeds(a, b)
    BY <1>6, Zenon DEF Embeds
  <1> QED BY <1>7 DEF a, b

\* Elements may be dropped from the shorter one.
LEMMA EmbedsDrop ==
    ASSUME NEW S, NEW s \in Seq(S), NEW u \in Seq(S), NEW r \in Seq(S), NEW t \in Seq(S),
           Embeds(s \o u \o r, t)
    PROVE  Embeds(s \o r, t)
  <1> DEFINE m == Len(s)
             d == Len(u)
             k == Len(r)
             n == Len(t)
             a == s \o u \o r
             b == s \o r
             v == s \o u
  <1>1. /\ m \in Nat /\ d \in Nat /\ k \in Nat /\ n \in Nat
        /\ DOMAIN t = 1 .. n /\ DOMAIN b = 1 .. m + k
        /\ \A i \in 1 .. m : b[i] = s[i]
        /\ \A i \in 1 .. k : b[m + i] = r[i]
    BY ConcatElements
  <1>2. /\ v \in Seq(S) /\ Len(v) = m + d
        /\ \A i \in 1 .. m : v[i] = s[i]
    BY ConcatElements
  <1>3. a = v \o r
    OBVIOUS
  <1>4. /\ DOMAIN a = 1 .. m + d + k
        /\ \A i \in 1 .. m + d : a[i] = v[i]
        /\ \A i \in 1 .. k : a[m + d + i] = r[i]
    <2> HIDE DEF a, v
    <2>0. v \in Seq(S) /\ r \in Seq(S)
      BY <1>2
    <2>1. /\ DOMAIN (v \o r) = 1 .. Len(v) + Len(r)
          /\ \A i \in 1 .. Len(v) : (v \o r)[i] = v[i]
          /\ \A i \in 1 .. Len(r) : (v \o r)[Len(v) + i] = r[i]
      BY <2>0, ConcatElements
    <2>2. k = Len(r)
      BY DEF k
    <2> QED BY <1>2, <1>3, <2>1, <2>2
  <1>5. Embeds(a, t)
    OBVIOUS
  <1> HIDE DEF m, d, k, n, a, b, v
  <1>6. PICK f \in [1 .. m + d + k -> 1 .. n] :
            /\ \A i \in 1 .. m + d + k : t[f[i]] = a[i]
            /\ \A i, j \in 1 .. m + d + k : i < j => f[i] < f[j]
    <2>1. PICK f \in [DOMAIN a -> DOMAIN t] :
              /\ \A i \in DOMAIN a : t[f[i]] = a[i]
              /\ \A i, j \in DOMAIN a : i < j => f[i] < f[j]
      BY <1>5, Zenon DEF Embeds
    <2> QED BY <1>1, <1>4, <2>1
  <1> DEFINE g == [i \in 1 .. m + k |-> IF i <= m THEN f[i] ELSE f[d + i]]
  <1>7. g \in [1 .. m + k -> 1 .. n]
    BY <1>1, <1>6
  <1>8. ASSUME NEW i \in 1 .. m + k PROVE t[g[i]] = b[i]
    <2>1. CASE i <= m
      <3>1. i \in 1 .. m /\ i \in 1 .. m + d /\ i \in 1 .. m + d + k
        BY <1>1, <2>1
      <3> QED BY <1>1, <1>2, <1>4, <1>6, <3>1
    <2>2. CASE ~(i <= m)
      <3>1. i - m \in 1 .. k /\ d + i \in 1 .. m + d + k /\ i = m + (i - m) /\ d + i = m + d + (i - m)
        BY <1>1, <2>2, SMTT(30)
      <3>2. b[i] = r[i - m] /\ a[d + i] = r[i - m]
        BY <1>1, <1>4, <3>1
      <3> QED BY <1>6, <2>2, <3>1, <3>2
    <2> QED BY <2>1, <2>2
  <1>9. ASSUME NEW i \in 1 .. m + k, NEW j \in 1 .. m + k, i < j PROVE g[i] < g[j]
    BY <1>1, <1>6, <1>9
  <1> HIDE DEF g
  <1>10. /\ g \in [DOMAIN b -> DOMAIN t]
         /\ \A i \in DOMAIN b : t[g[i]] = b[i]
         /\ \A i, j \in DOMAIN b : i < j => g[i] < g[j]
    BY <1>1, <1>7, <1>8, <1>9
  <1>11. Embeds(b, t)
    BY <1>10, Zenon DEF Embeds
  <1> QED BY <1>11 DEF b

------------------------------------------------------------------------------
(* Loops.                                                                   *)

\* Round i of a loop takes the state v to g[i][v]; f has the states of n rounds
\* from x on.
Stays(S, g) == \A i \in Nat : \A v \in S : g[i][v] \in S
Rounds(f, S, x, g, n) == f \in [0 .. n -> S] /\ f[0] = x /\ \A i \in 1 .. n : f[i] = g[i][f[i - 1]]

\* A loop has its states: the recursive function that describes it exists.
LEMMA Loop ==
    ASSUME NEW S, NEW x \in S, NEW g, NEW n \in Nat, Stays(S, g)
    PROVE  \E f : Rounds(f, S, x, g, n)
  <1> DEFINE St(f, i) == IF i = 0 THEN x ELSE g[i][f[i - 1]]
             P == {m \in Nat : \E f \in [0 .. m -> S] : f = [i \in 0 .. m |-> St(f, i)]}
  <1>1. 0 \in P
    <2> DEFINE f == [i \in 0 .. 0 |-> x]
    <2>1. f \in [0 .. 0 -> S] /\ f = [i \in 0 .. 0 |-> St(f, i)]
      OBVIOUS
    <2> HIDE DEF f
    <2> QED BY <2>1
  <1>2. \A m \in Nat : m \in P => m + 1 \in P
    <2> SUFFICES ASSUME NEW m \in Nat, NEW f \in [0 .. m -> S], f = [i \in 0 .. m |-> St(f, i)]
                 PROVE  \E h \in [0 .. m + 1 -> S] : h = [i \in 0 .. m + 1 |-> St(h, i)]
      OBVIOUS
    <2> DEFINE y == g[m + 1][f[m]]
               h == [i \in 0 .. m + 1 |-> IF i = m + 1 THEN y ELSE f[i]]
    <2>0. \A i \in 0 .. m : f[i] = St(f, i)
      BY Zenon
    <2>1. y \in S
      BY DEF Stays
    <2>2. h[m + 1] = y /\ \A i \in 0 .. m : h[i] = f[i]
      OBVIOUS
    <2>3. h \in [0 .. m + 1 -> S]
      <3> HIDE DEF y
      <3>1. \A i \in 0 .. m + 1 : i # m + 1 => f[i] \in S
        OBVIOUS
      <3> QED BY <2>1, <3>1
    <2>4. ASSUME NEW i \in 0 .. m + 1 PROVE h[i] = St(h, i)
      <3> HIDE DEF h
      <3>1. CASE i = 0
        <4>1. i \in 0 .. m
          BY <3>1
        <4> QED BY <2>0, <2>2, <3>1, <4>1
      <3>2. CASE i = m + 1
        <4>1. i - 1 = m /\ i # 0 /\ m \in 0 .. m
          BY <3>2
        <4> QED BY <2>2, <3>2, <4>1
      <3>3. CASE i # 0 /\ i # m + 1
        <4>1. i \in 0 .. m /\ i - 1 \in 0 .. m
          BY <3>3
        <4>2. h[i] = f[i] /\ h[i - 1] = f[i - 1] /\ f[i] = St(f, i)
          BY <2>0, <2>2, <4>1
        <4> QED BY <3>3, <4>2
      <3> QED BY <3>1, <3>2, <3>3
    <2>5. h = [i \in 0 .. m + 1 |-> h[i]]
      OBVIOUS
    <2> HIDE DEF h, St
    <2>6. h = [i \in 0 .. m + 1 |-> St(h, i)]
      BY <2>4, <2>5, Zenon
    <2> QED BY <2>3, <2>6
  <1> HIDE DEF P
  <1>3. n \in P
    BY <1>1, <1>2, Induction
  <1>4. PICK f \in [0 .. n -> S] : f = [i \in 0 .. n |-> St(f, i)]
    BY <1>3 DEF P
  <1>5. \A i \in 0 .. n : f[i] = St(f, i)
    BY <1>4, Zenon
  <1>6. 0 \in 0 .. n /\ \A i \in 1 .. n : i \in 0 .. n /\ i # 0
    OBVIOUS
  <1>7. f[0] = x /\ \A i \in 1 .. n : f[i] = g[i][f[i - 1]]
    BY <1>5, <1>6
  <1> QED BY <1>4, <1>7 DEF Rounds

==============================================================================
