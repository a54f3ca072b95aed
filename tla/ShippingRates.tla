---------------------------- MODULE ShippingRates ----------------------------
(* What the shipping methods of the application charge for a parcel          *)
(* (src/app/shipping).  Weights are grams; NoRate stands for the exception   *)
(* NoShippingRateError.                                                      *)
EXTENDS Integers

NoRate == -1

Smallest(S) == CHOOSE x \in S : \A y \in S : x <= y
Larger(a, b) == IF a >= b THEN a ELSE b
Ceil(a, b) == (a + b - 1) \div b

-----------------------------------------------------------------------------
(* A table of rates to one destination is a function from the weights of its *)
(* rows to the rates.                                                        *)

RowsFor(rows, weight) == {x \in DOMAIN rows : x >= weight}

\* The lightest row that covers the parcel.
table_cost(rows, weight) ==
    IF RowsFor(rows, weight) = {} THEN NoRate ELSE rows[Smallest(RowsFor(rows, weight))]

\* DHL compares strictly, and a parcel of more than 30 kg is charged per kilogram
\* begun.  Its rows and rates are fractions in the code: here rows are grams, too,
\* and a rate is counted in the smallest unit that the table uses.
dhl_cost(rows, weight) ==
    LET above == {x \in DOMAIN rows : x > weight}
        rate == rows[Smallest(above)]
    IN  IF above = {} THEN NoRate
        ELSE IF weight > 30000 THEN rate * Ceil(weight, 1000) ELSE rate

\* Cargo lists the destinations it serves; nothing is charged.
cargo_cost(rows) == IF rows = <<>> THEN NoRate ELSE 0

\* A rate by weight: whole steps, of at least the minimum weight.  The result
\* is in thousandths of the currency, as the code computes with fractions.
weight_based_cost(r, weight) ==
    IF weight > r.maximum_weight THEN NoRate
    ELSE r.cost_per_kg * r.weight_step * Ceil(Larger(weight, r.minimum_weight), r.weight_step)

\* What EMS tells of a destination: the charges, and the most it takes there, in
\* kilograms (0: no such limit).
ems_rows(t) == {x \in DOMAIN t.charges : t.weight_limit = 0 \/ x <= 1000 * t.weight_limit}

ems_can_ship(t, weight) == weight <= 30000 /\ \E x \in ems_rows(t) : x >= weight

\* EMS computes the price of a parcel, which may have a surcharge.
ems_cost(t, weight) ==
    IF RowsFor(t.charges, weight) = {} THEN NoRate ELSE table_cost(t.charges, weight) + t.extra

-----------------------------------------------------------------------------
(* The weight of the box a parcel is packed in.                              *)

\* Parcels below the weight of a row take its box.
box_weights == [x \in {2000, 5000, 10000, 15000, 20000, 30000} |->
                   CASE x = 2000 -> 250   [] x = 5000 -> 500
                     [] x = 10000 -> 1000 [] x = 15000 -> 1400
                     [] x = 20000 -> 1900 [] x = 30000 -> 2200]

\* Nothing is added for a parcel of 30 kg and more.
get_box_weight(weight) ==
    LET above == {x \in DOMAIN box_weights : weight < x}
    IN  IF weight <= 0 \/ above = {} THEN 0 ELSE box_weights[Smallest(above)]

=============================================================================
