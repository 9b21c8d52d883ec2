------------------------------- MODULE Ranking -------------------------------
(***************************************************************************)
(* What the sorts and the filters of the code do to the places of a list.  *)
(* An order is a set of pairs, the first of which comes first.             *)
(***************************************************************************)
EXTENDS Integers, Sequences, FiniteSets

\* The elements of a set in order: the k-th has k - 1 others before it.
InOrder(S, order) ==
  [k \in 1..Cardinality(S) |->
     CHOOSE i \in S : Cardinality({j \in S : <<j, i>> \in order}) = k - 1]

\* What a list has at some of its places, in the order of the list.
Filtered(list, places) ==
  LET at == InOrder(places, {p \in places \X places : p[1] < p[2]})
  IN [k \in DOMAIN at |-> list[at[k]]]

\* What a list has at some of its places, sorted stably by falling score.
Sorted(list, places, score) ==
  LET at == InOrder(places, {p \in places \X places :
                               \/ score[p[1]] > score[p[2]]
                               \/ score[p[1]] = score[p[2]] /\ p[1] < p[2]})
  IN [k \in DOMAIN at |-> list[at[k]]]
=============================================================================
