--------------------------- MODULE MCConsignments ---------------------------
(* An order that is shipped with EMS and one that is shipped with FedEx. *)
EXTENDS Consignments
CarrierDef == [o \in Parcels |-> IF o = "o1" THEN "ems" ELSE "fedex"]
=============================================================================
