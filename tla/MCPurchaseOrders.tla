-------------------------- MODULE MCPurchaseOrders --------------------------
(***************************************************************************)
(* PurchaseOrders for TLC: the purchase orders of one order, or of two.    *)
(***************************************************************************)
EXTENDS PurchaseOrders

CONSTANTS o1, o2, p1

MCOneOrder == [p \in POs |-> o1]
MCTwoOrders == [p \in POs |-> IF p = p1 THEN o1 ELSE o2]

=============================================================================
