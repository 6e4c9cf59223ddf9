-------------------------------- MODULE Lists --------------------------------
(***************************************************************************)
(* Picking out of a list or a set of numbers, by counting: what a filter   *)
(* keeps, and what an order puts first.                                    *)
(***************************************************************************)
EXTENDS Naturals, Sequences, FiniteSets

Upto(K, n) == {j \in K : j <= n}

(* The k-th smallest number of K.                                          *)
Nth(K, k) == CHOOSE i \in K : Cardinality(Upto(K, i)) = k

(* The members of a list that are in S, in their order.                    *)
Only(s, S) ==
  LET kept == {i \in DOMAIN s : s[i] \in S}
  IN  [k \in 1..Cardinality(kept) |-> s[Nth(kept, k)]]
=============================================================================
