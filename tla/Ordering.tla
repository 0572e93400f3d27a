------------------------------ MODULE Ordering ------------------------------
(***************************************************************************)
(* Python's list.sort and sorted with key=, as the agents, the anomaly     *)
(* pass and the event extractor use them: the keys are pairs compared from *)
(* the left, and elements with equal keys stay in the order they were in.  *)
(***************************************************************************)
EXTENDS Integers, Sequences, FiniteSets

\* The members of a set one after the other, given the members before each.
Ranked(members, before) ==
    [k \in 1..Cardinality(members) |->
        CHOOSE i \in members : Cardinality(before[i]) = k - 1]

\* The elements of a sequence at some of its indices.
Subsequence(s, indices) ==
    LET order == Ranked(indices, [i \in indices |-> {j \in indices : j < i}])
    IN  [k \in 1..Cardinality(indices) |-> s[order[k]]]

Below(a, b) == a[1] < b[1] \/ (a[1] = b[1] /\ a[2] < b[2])

\* The indices of the elements that go before the i-th.
Preceding(key, i) ==
    {j \in DOMAIN key : Below(key[j], key[i]) \/ (~Below(key[i], key[j]) /\ j < i)}

\* A sequence in the order of its keys: key[i] is that of s[i].
Rearranged(s, key) ==
    LET order == Ranked(DOMAIN s, [i \in DOMAIN s |-> Preceding(key, i)])
    IN  [k \in DOMAIN s |-> s[order[k]]]

SortBy(s, KeyOf(_)) == Rearranged(s, [i \in DOMAIN s |-> KeyOf(s[i])])
=============================================================================
