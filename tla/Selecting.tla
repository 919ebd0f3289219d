------------------------------- MODULE Selecting -------------------------------
(***************************************************************************)
(* What std::erase_if leaves of a vector, and what a loop that skips some   *)
(* of its elements collects: the members that are in S, in their order.     *)
(* What std::sort makes of a set of elements, sums and concatenations.  All *)
(* recursions are functions, so that the proofs can follow them.            *)
(***************************************************************************)
EXTENDS Integers, Sequences, FiniteSets

\* What is kept of the first k members.
KeptOf(s, S) ==
  LET kept[k \in 0..Len(s)] ==
        IF k = 0 THEN <<>>
        ELSE IF s[k] \in S THEN Append(kept[k - 1], s[k])
        ELSE kept[k - 1]
  IN  kept

Selected(s, S) == KeptOf(s, S)[Len(s)]

\* The elements of a finite set as a sequence, in the strict order R.
OrderedBy(S, R) ==
  CHOOSE s \in [1..Cardinality(S) -> S] :
    \A i, k \in 1..Cardinality(S) : i < k => <<s[i], s[k]>> \in R

\* The sum of the first k numbers, for each k, and of all of them.
SumTo(s) == LET sum[k \in 0..Len(s)] == IF k = 0 THEN 0 ELSE sum[k - 1] + s[k] IN sum
Total(s) == SumTo(s)[Len(s)]

\* The first k sequences one after the other, for each k, and all of them.
ChainTo(s) == LET chain[k \in 0..Len(s)] == IF k = 0 THEN <<>> ELSE chain[k - 1] \o s[k] IN chain
Chained(s) == ChainTo(s)[Len(s)]
=============================================================================
