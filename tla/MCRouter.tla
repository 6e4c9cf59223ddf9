------------------------------ MODULE MCRouter ------------------------------
(* Instances of Router for TLC. *)
EXTENDS Router, TLC

CONSTANTS q1, q2, q3

Interchangeable == Permutations(Requests)

(* Health: every route can serve every request, and none carries a price.  *)
AllOffer == [r \in Routes |-> {}]
NoNeeds  == [q \in Requests |-> {}]
Unrated  == [r \in Routes |-> "unrated"]
Free     == [r \in Routes |-> 0]

(* Retry: the first route has no tools, and one request needs them.        *)
SomeOffer == [r \in Routes |-> IF r = 1 THEN {} ELSE {"tools"}]
SomeNeed  == [q \in Requests |-> IF q = q2 THEN {"tools"} ELSE {}]

(* Budget: a route nobody can price, a dear one, a cheap one and one that  *)
(* is priced in another currency.                                          *)
Mixed  == <<"unrated", "rated", "rated", "foreign">>
Rates  == <<0, 3, 2, 1>>
Bounds == <<1, 2, 1, 1>>

(* The provider of the cheap route may answer with a dearer model.         *)
Costs  == <<1, 2, 2, 1>>
=============================================================================
