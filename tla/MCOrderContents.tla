-------------------------- MODULE MCOrderContents --------------------------
(* Two products, one of them shipped on its own, and two subcustomers, one   *)
(* of them known at first.                                                   *)
EXTENDS OrderContents

CONSTANTS a, b, s1, s2

PriceDef == [p \in Products |-> IF p = a THEN 2 ELSE 3]
WeightDef == [p \in Products |-> IF p = a THEN 1000 ELSE 2000]
SeparateDef == [p \in Products |-> p = b]
RatesDef == (1500 :> 10) @@ (6000 :> 20)

Item(p, n) == [item_code |-> p, quantity |-> n]
Suborder(n, name, items) == [seq_num |-> n, subcustomer |-> name, items |-> items]

\* Two suborders; and one that is split in two, one of whose products nobody
\* knows, with one that is empty.
PayloadsDef == {<<Suborder(1, s1, <<Item(a, 1)>>), Suborder(2, s2, <<Item(b, 1)>>)>>,
                <<Suborder(1, s1, <<Item(a, 1), Item("x", 1), Item(a, 1)>>),
                  Suborder(3, s2, <<Item("", 1)>>)>>}
\* The table of tests/shipping/test_dhl.py, and what its test expects.
DHLRows == (500 :> 44339) @@ (10000 :> 180919) @@ (99999000 :> 13975)
ASSUME DHLTest == dhl_cost(DHLRows, 100) = 44339 /\ dhl_cost(DHLRows, 100000) = 1397500

BoxesDef == {<<[weight |-> 500, quantity |-> 2]>>}
=============================================================================
