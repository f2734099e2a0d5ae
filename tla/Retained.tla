------------------------------ MODULE Retained ------------------------------
(***************************************************************************)
(* VecDeque::retain of the standard library, as the caches of the proxy    *)
(* use it: the elements that belong to a set, in the order they had.  It   *)
(* is written with positions, not by recursion, so that it can be reasoned *)
(* about.                                                                  *)
(***************************************************************************)
EXTENDS Naturals, Sequences, FiniteSets

\* Where the elements that stay are, and where the n-th of them is.
Places(seq, S) == { i \in 1..Len(seq) : seq[i] \in S }
Rank(seq, S, i) == Cardinality({ j \in Places(seq, S) : j <= i })
Place(seq, S, n) == CHOOSE i \in Places(seq, S) : Rank(seq, S, i) = n

Retain(seq, S) == [n \in 1..Cardinality(Places(seq, S)) |-> seq[Place(seq, S, n)]]
=============================================================================
