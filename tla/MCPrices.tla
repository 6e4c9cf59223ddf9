------------------------------ MODULE MCPrices ------------------------------
(* One model with two parts to its price, on the vendor's own endpoint and  *)
(* on another.  The near rate is twice the base in one part, the far one    *)
(* twice that, and drops the other part: up from the base either is a large *)
(* move, and down again one step at a time is none.                         *)
EXTENDS Prices

CONSTANTS h1, model, vendor, reseller

Base == <<2, 4>>
Near == <<4, 4>>
Far  == <<8, 0>>

AllRates == {Base, Near, Far}

Shipped == {[m \in Models |-> NoRate], [m \in Models |-> Base]}

Asked ==
  {Sync, [do |-> "accept", m |-> model], [do |-> "reject", m |-> model],
   [do |-> "put_price", p |-> reseller, m |-> model, rate |-> Near],
   [do |-> "delete_price", p |-> reseller, m |-> model]}
=============================================================================
