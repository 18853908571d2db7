------------------------------- MODULE Lists -------------------------------
(***************************************************************************)
(* Operations on lists that the standard modules only offer recursively,   *)
(* written so that facts about them can be proved (ListProofs):            *)
(* Vec::retain, with explicit positions, and the sum of a list of numbers. *)
(***************************************************************************)
EXTENDS Integers, Sequences, FiniteSets, SequencesExt

\* The positions of s that hold a member of S.
Kept(s, S) == {i \in DOMAIN s : s[i] \in S}

\* The position of the k-th kept element.
Nth(s, S, k) ==
    CHOOSE i \in Kept(s, S) : Cardinality({j \in Kept(s, S) : j <= i}) = k

\* s without the elements outside S, the others in their order.
Retain(s, S) == [k \in 1..Cardinality(Kept(s, S)) |-> s[Nth(s, S, k)]]

\* The sum of a list of numbers.
Total(s) ==
    LET sum[i \in 0..Len(s)] == IF i = 0 THEN 0 ELSE sum[i - 1] + s[i]
    IN  sum[Len(s)]

\* No element occurs twice in s.
Distinct(s) == \A i, j \in DOMAIN s : s[i] = s[j] => i = j
=============================================================================
