--------------------------- MODULE RunningBalance ---------------------------
(***************************************************************************)
(* The arithmetic of a customer's statement: a sequence of rows, each with *)
(* an amount and the customer's balance after that amount was booked.      *)
(***************************************************************************)
EXTENDS Integers, Sequences

\* Every row's balance is the balance before it plus its own amount.
Chained(rows, start) ==
    \A i \in 1..Len(rows) :
        rows[i].balance = (IF i = 1 THEN start ELSE rows[i - 1].balance) + rows[i].amount

\* The balance a statement that began at start ends in.
EndOf(rows, start) ==
    IF rows = <<>> THEN start ELSE rows[Len(rows)].balance

\* No row from the given one on moved money.
StillFrom(rows, first) == \A i \in first..Len(rows) : rows[i].amount = 0

\* balance is what the last row that moved money shows, start if none did.
EndsIn(rows, start, balance) ==
    \/ balance = start /\ StillFrom(rows, 1)
    \/ \E i \in 1..Len(rows) : rows[i].balance = balance /\ StillFrom(rows, i + 1)

\* longer is shorter with rows added at its end.
PrefixOf(shorter, longer) ==
    /\ Len(shorter) <= Len(longer)
    /\ \A i \in 1..Len(shorter) : longer[i] = shorter[i]

=============================================================================
