----------------------------- MODULE Statement -----------------------------
(***************************************************************************)
(* What the accounts promise a customer: a statement that only grows, in   *)
(* which every row shows the balance it led to, and a balance that is the  *)
(* last one shown.  A single database transaction may post to several      *)
(* customers, because shipping an order charges the customers of the       *)
(* orders attached to it as well.                                          *)
(***************************************************************************)
EXTENDS RunningBalance

CONSTANT Customers

VARIABLES balance,     \* User.balance of every customer
          statement    \* the customer's rows of the table transactions

vars == <<balance, statement>>

Init == /\ balance = [c \in Customers |-> 0]
        /\ statement = [c \in Customers |-> <<>>]

Post == \A c \in Customers :
            /\ PrefixOf(statement[c], statement'[c])
            /\ Chained(statement'[c], 0)
            /\ balance'[c] = EndOf(statement'[c], 0)

Spec == Init /\ [][Post]_vars

=============================================================================
