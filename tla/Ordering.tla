------------------------------ MODULE Ordering ------------------------------
(***************************************************************************)
(* Finite sets of numbers in order: positions of a sequence, or times.     *)
(***************************************************************************)
EXTENDS Integers, FiniteSets

\* How many numbers of K are smaller than k.
Rank(K, k) == Cardinality({j \in K : j < k})

\* The numbers of K, from the smallest up.
InOrder(K) == [i \in 1 .. Cardinality(K) |-> CHOOSE k \in K : Rank(K, k) = i - 1]
=============================================================================
