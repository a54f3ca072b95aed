-------------------------------- MODULE MCShop --------------------------------
(* Shop for TLC.  Small instances:                                           *)
(*  - a sale order of two products, each bought by a purchase order of its    *)
(*    own, and one warehouse;                                                *)
(*  - a sale order of two boxes, of which DHL ships the one and GLS the other; *)
(*  - a method by weight, cargo, and EMS;                                    *)
(*  - a product that both the shop and the vendor have, used in an order, and *)
(*    one that only the vendor has;                                          *)
(*  - the builder and one node that is fetched.                              *)
EXTENDS Shop, TLC

CONSTANTS w1, w2, o1, o2, p1, p2, x, s1, u1, u2, dhl, gls, j1

Symmetry == Permutations(Workers)

ProductDef == [o \in OrderProducts |-> x]
QuantityDef == [o \in OrderProducts |-> IF o = o1 THEN 1 ELSE 2]
SuborderDef == [o \in OrderProducts |-> IF o = o1 THEN p1 ELSE p2]

UnitsDef == <<u1, u2>>

KindDef == [w |-> "weight_based", c |-> "cargo", e |-> "ems"]
Charges == [charges |-> (2000 :> 30), weight_limit |-> 0, extra |-> 5]
Rate == [minimum_weight |-> 1000, maximum_weight |-> 2000, weight_step |-> 500,
         cost_per_kg |-> 10]
TariffDef == [w |-> Rate, c |-> 0 :> 0, e |-> Charges]
CarrierTellsDef == {<<>>, [Charges EXCEPT !.weight_limit = 1]}
NewTariffsDef == {[Rate EXCEPT !.cost_per_kg = 20], [Rate EXCEPT !.minimum_weight = 3000]}
QuestionsDef == {<<"rate", "w", 1500>>, <<"rate", "all", 1500>>, <<"methods", "all", 1500>>}

Offer == [price |-> 1, available |-> TRUE]
GoodsFirstDef == [a |-> [price |-> 1, available |-> TRUE, synchronize |-> TRUE],
                  b |-> [absent |-> TRUE]]
VendorsFirstDef == [a |-> Offer, b |-> Offer]
==============================================================================
