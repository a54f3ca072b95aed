---------------------------- MODULE MCQuickOrder ----------------------------
(***************************************************************************)
(* QuickOrder for TLC: four lines, one that is not purchased and one with  *)
(* options, and amounts around the limit of free delivery.                 *)
(***************************************************************************)
EXTENDS QuickOrder

CONSTANTS a, b, c, d

MCOrderProducts == <<d, a, b, c>>
MCQuantity == (a :> 2) @@ (b :> 1) @@ (c :> 3) @@ (d :> 1)
MCPrice == (a :> 2) @@ (b :> 5) @@ (c :> 1) @@ (d :> 9)
MCDueIn == {-3, 0, 2}

=============================================================================
