------------------------------ MODULE Posting ------------------------------
(***************************************************************************)
(* What posting a purchase order promises, whatever form it fills in: the  *)
(* vendor gets at most one order, and the caller learns whether there is   *)
(* one, unless the posting broke and nobody knows.                         *)
(***************************************************************************)
EXTENDS Naturals

VARIABLES
    result,   \* what the caller has been told
    orders    \* orders placed at the vendor for the call

vars == <<result, orders>>

Init == result = "open" /\ orders = 0

Order == result = "open" /\ orders = 0 /\ orders' = 1 /\ UNCHANGED result

Answer(r) ==
    /\ result = "open"
    /\ r = "posted" => orders = 1
    /\ r \in {"refused", "skipped"} => orders = 0
    /\ result' = r
    /\ UNCHANGED orders

Next == Order \/ \E r \in {"posted", "refused", "skipped", "broken"} : Answer(r)

Spec == Init /\ [][Next]_vars

=============================================================================
