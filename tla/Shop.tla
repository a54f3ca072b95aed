--------------------------------- MODULE Shop ---------------------------------
(* Five parts of the shop that share no state: the warehouse, the shipments   *)
(* service, the shipping methods with their cache, the catalogue, and the     *)
(* network manager.                                                           *)
(* A behaviour is one of a single part: which one is chosen at the start, and *)
(* the others stay as they begin.                                             *)
EXTENDS Warehouse

CONSTANTS Units, Carriers, Rated, Consigning, Users,    \* Shipments
          MaxRequests, MaxFaults, MaxMultiplier,
          Shippings, Kind, Tariff, InOrders,            \* ShippingMethods
          NewTariffs, CarrierTells, Questions, MaxTariffs,
          Goods, Prices, Ordered,                       \* Catalogue
          GoodsFirst, VendorsFirst, MaxEdits,
          Fetched, MaxStarts, MaxNodes                  \* NetworkManager

VARIABLES part,
          shipment, invoice, labels, users, multiplier, stx, net, client, order,
          requests, faults, consigned, explained, doubtful, late,
          shop, answers, desk, changes, outdated,
          rows, vendor, import, edits, told, saved, touched,
          box, caller, started, nodes, quantity, wrongly

Ship == INSTANCE Shipments WITH tx <- stx

Methods == INSTANCE ShippingMethods
               WITH Desks <- Workers, Used <- InOrders, MaxChanges <- MaxTariffs

Import == INSTANCE Catalogue
              WITH Products <- Goods, Used <- Ordered, AtFirst <- GoodsFirst,
                   MaxChanges <- MaxEdits

Network == INSTANCE NetworkManager WITH Callers <- Workers, NoContainer <- None

\* The boxes of an order are told apart, a row or a container from none, and the
\* builder's container from those of fetched nodes; the first rows of the catalogue
\* and the vendor's are rows and offers.
ASSUME ShopAssumption ==
    /\ Units \in Seq(Ship!Ids) /\ Units # <<>>
    /\ \A i, j \in DOMAIN Units : Units[i] = Units[j] => i = j
    /\ None \notin Ship!Ids \cup Nat
    /\ None \notin Ship!ShipmentRows /\ None \notin Ship!InvoiceRows
    /\ \A kind \in Ship!Kinds : None \notin Ship!RequestsOf(kind)
    /\ Rated \subseteq Carriers /\ MaxMultiplier \in Nat \ {0}
    /\ GoodsFirst \in [Goods -> Import!Rows \cup {Import!Absent}]
    /\ Network!Builder \notin Fetched
    /\ VendorsFirst \in [Goods -> Import!Offers \cup {Import!Absent}]

shipvars == <<shipment, invoice, labels, users, multiplier, stx, net, client, order,
              requests, faults, consigned, explained, doubtful, late>>
methodvars == <<shop, answers, desk, changes, outdated>>
cataloguevars == <<rows, vendor, import, edits, told, saved, touched>>
networkvars == <<box, caller, started, nodes, quantity, wrongly>>
shopvars == <<vars, shipvars, methodvars, cataloguevars, networkvars, part>>

ShopInit ==
    /\ part \in {"warehouse", "shipments", "methods", "catalogue", "network"}
    /\ Init /\ Ship!Init /\ Methods!Init /\ Import!Init /\ Network!Init
    \* A part that stays as it begins begins in one way.
    /\ part # "warehouse" => \A po \in PurchaseOrders : db.link[po] # None
    /\ part # "shipments" => ~order.shipped /\ order.valid

ShopNext ==
    /\ part' = part
    /\ \/ part = "warehouse" /\ Next
       \/ part = "shipments" /\ Ship!Next
       \/ part = "methods" /\ Methods!Next
       \/ part = "catalogue" /\ Import!Next
       \/ part = "network" /\ Network!Next
    /\ part # "warehouse" => UNCHANGED vars
    /\ part # "shipments" => UNCHANGED shipvars
    /\ part # "methods" => UNCHANGED methodvars
    /\ part # "catalogue" => UNCHANGED cataloguevars
    /\ part # "network" => UNCHANGED networkvars

ShopSpec == ShopInit /\ [][ShopNext]_shopvars

-----------------------------------------------------------------------------
\* The properties of the other parts; each is explained in its module.

\* Invoices are numbered without gaps or doubles (_next_invoice_number).
NumbersHaveNoGaps == Ship!NumbersHaveNoGaps

\* DHL gets a second order only for a reason (create_consignment).
ConsignedOnce == Ship!ConsignedOnce

\* A shipped order that the service takes has all its shipments and their link
\* (on_sale_order_shipped).
ShippedIsAnnounced == Ship!ShippedIsAnnounced

\* What a paid shipment costs does not change (set_shipment_type).
PaidIsFinal == Ship!PaidIsFinal

\* The cache answers what the database says (cache.clear after a change).
AnswersAreCurrent == Methods!AnswersAreCurrent

\* What an import has synchronised is as the vendor told it (import_products).
SyncedIsAsTold == Import!SyncedIsAsTold

\* A start that overlaps with no other, and whose check Docker has answered,
\* removes no builder that runs (start_builder).
StartedIsKept == Network!StartedIsKept
==============================================================================
