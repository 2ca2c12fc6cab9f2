----------------------------- MODULE Selections -----------------------------
(***************************************************************************)
(* The elements of a sequence that belong to a set, in their order.  It is *)
(* SelectSeq with a set for the test, which makes it a first-order         *)
(* definition: SequenceLemmas proves what it does.  And sequences without  *)
(* repetition.                                                             *)
(***************************************************************************)
EXTENDS Integers, Sequences

Distinct(s) == \A i, j \in DOMAIN s : s[i] = s[j] => i = j

Select(s, A) ==
    LET upto[i \in 0 .. Len(s)] ==
            IF i = 0 THEN << >>
            ELSE IF s[i] \in A THEN Append(upto[i - 1], s[i]) ELSE upto[i - 1]
    IN upto[Len(s)]
=============================================================================
