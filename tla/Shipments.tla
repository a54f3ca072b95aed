------------------------------ MODULE Shipments ------------------------------
(* Separate shipping: when a sale order is shipped, the application creates  *)
(* a shipment for each of its boxes in the shipment service                  *)
(* (src/app/shipping/methods/separate -> src/eurocargo_management/backend).  *)
(* There a customer chooses a carrier and gets an invoice, and an            *)
(* administrator follows the parcel and orders consignments from DHL.        *)
(*                                                                           *)
(* The service runs under READ COMMITTED: a request decides on the rows it   *)
(* loaded when it began and its commit writes the fields it has changed.     *)
EXTENDS Integers, Sequences, FiniteSets, FiniteSetsExt, SequencesExt

CONSTANTS Units,        \* the boxes of the sale order, in their order
          Workers,      \* concurrent requests to the shipment service
          Carriers,
          Rated,        \* those with a rate for the shipment's country
          Consigning,   \* those whose API creates consignments (DHL)
          Users,
          MaxRequests,  \* bound on the requests to the service
          MaxFaults,    \* bound on lost messages, rollbacks and crashes
          MaxMultiplier, \* bound on a carrier's multiplier
          None

Ids == Range(Units)
Statuses == {"incoming", "at_warehouse", "shipped"}
\* What a carrier costs depends on its multiplier only: the weight, the country
\* and the tables stay the same.
Costs == [carrier : Carriers, multiplier : 1..MaxMultiplier]

VARIABLES shipment,     \* the shipments of the service, None before creation
          invoice,      \* and their invoices
          labels,       \* and the labels and files attached to them
          users, multiplier,
          tx,           \* the request each worker executes
          net,          \* requests of the application that are on their way
          client,       \* the application's transaction that ships the order
          order,        \* the committed sale order
          requests, faults,
          (* history *)
          consigned,    \* the consignments DHL made for each shipment
          explained,    \* shipments with a second consignment that has a cause
          doubtful,     \* an answer was lost, or the shipment left "shipped"
          late          \* shipments priced by a request older than the payment

service == <<shipment, invoice, labels, users, multiplier, tx, requests>>
app == <<net, client, order>>
history == <<consigned, explained, doubtful, late>>
vars == <<service, app, faults, history>>

New(carrier) == [carrier |-> carrier,
                 amount |-> IF carrier = None THEN None
                            ELSE [carrier |-> carrier, multiplier |-> 1],
                 tracking |-> None, status |-> "incoming", paid |-> FALSE, user |-> None]

Idle == [pc |-> "idle", left |-> <<>>, store |-> FALSE, url |-> None, answer |-> None]

\* valid: the order's data are such that the service takes them; one without an
\* e-mail address or a name is not, and the application ships it as any other.
\* Either the order has not been shipped, or its shipments have been created,
\* with or without a carrier.
Init ==
    /\ \/ /\ shipment = [u \in Ids |-> None]
          /\ \E valid \in BOOLEAN :
                order = [shipped |-> FALSE, url |-> None, attempts |-> 0, valid |-> valid]
       \/ /\ shipment \in [Ids -> {New(c) : c \in Rated \cup {None}}]
          /\ order = [shipped |-> TRUE, url |-> Units[1], attempts |-> 1, valid |-> TRUE]
    /\ invoice = [u \in Ids |-> None]
    /\ labels = [u \in Ids |-> {}]
    /\ users = {} /\ multiplier = [c \in Carriers |-> 1]
    /\ tx = [w \in Workers |-> None]
    /\ net = {} /\ client = Idle
    /\ requests = 0 /\ faults = 0
    /\ consigned = [u \in Ids |-> {}]
    /\ explained = {} /\ doubtful = {} /\ late = {}

-----------------------------------------------------------------------------
(* The application ships the order.                                          *)

\* on_sale_order_shipped, inside the transaction that ships the order.
StartShipping ==
    /\ client.pc = "idle" /\ ~order.shipped /\ order.attempts <= MaxFaults
    /\ order' = [order EXCEPT !.attempts = @ + 1]
    /\ client' = [pc |-> "post", left |-> Units, store |-> TRUE, url |-> order.url,
                  answer |-> None]
    /\ UNCHANGED <<service, net, faults, history>>

PostShipment ==
    /\ client.pc = "post" /\ client.left # <<>>
    /\ net' = net \cup {<<Head(client.left), order.attempts>>}
    /\ client' = [client EXCEPT !.pc = "wait"]
    /\ UNCHANGED <<service, order, faults, history>>

\* The data are validated first (422), then the number is looked up (409).
MayCreate(u) == order.valid /\ shipment[u] = None

Awaited(m) == client.pc = "wait" /\ m = <<Head(client.left), order.attempts>>

create_shipment == \E m \in net :
    LET u == m[1] IN
    /\ net' = net \ {m}
    /\ shipment' = IF MayCreate(u) THEN [shipment EXCEPT ![u] = New(None)] ELSE shipment
    /\ client' = IF Awaited(m)
                 THEN [client EXCEPT !.pc = "answer",
                                     !.answer = IF MayCreate(u) THEN "created" ELSE "refused"]
                 ELSE client
    /\ UNCHANGED <<invoice, labels, users, multiplier, tx, requests, order, faults, history>>

\* A plausible mistake: the link of the last shipment is kept.
StoreLast == TRUE

StoreUrl == client.store

\* Failures are logged and the next box goes on; the link is kept for the
\* first box only, whether its request succeeded or not.
ReadAnswer ==
    /\ client.pc = "answer"
    /\ client' = [client EXCEPT !.pc = "post", !.left = Tail(@), !.store = FALSE, !.answer = None,
                     !.url = IF client.answer = "created" /\ StoreUrl THEN Head(client.left) ELSE @]
    /\ UNCHANGED <<service, net, order, faults, history>>

\* The request or its answer is lost, or comes after the timeout.
PostTimesOut ==
    /\ client.pc = "wait" /\ faults < MaxFaults
    /\ faults' = faults + 1
    /\ \/ net' = net \ {<<Head(client.left), order.attempts>>} \/ net' = net
    /\ client' = [client EXCEPT !.pc = "post", !.left = Tail(@), !.store = FALSE]
    /\ UNCHANGED <<service, order, history>>

CommitShipping ==
    /\ client.pc = "post" /\ client.left = <<>>
    /\ order' = [order EXCEPT !.shipped = TRUE, !.url = client.url]
    /\ client' = Idle
    /\ UNCHANGED <<service, net, faults, history>>

\* The application's transaction fails after the service was called.
RollbackShipping ==
    /\ client.pc = "post" /\ client.left = <<>> /\ faults < MaxFaults
    /\ faults' = faults + 1
    /\ client' = Idle
    /\ UNCHANGED <<service, net, order, history>>

-----------------------------------------------------------------------------
(* The requests to the service: what they load, and what they refuse.        *)

Begin(w, kind, u, arg) ==
    /\ tx[w] = None /\ requests < MaxRequests
    /\ requests' = requests + 1
    /\ tx' = [tx EXCEPT ![w] =
                [kind |-> kind, unit |-> u, arg |-> arg, pc |-> "commit", row |-> shipment[u],
                 invoices |-> Cardinality({v \in Ids : invoice[v] # None}),
                 had |-> consigned[u] \ {tx[v].number : v \in {x \in Workers : tx[x] # None}},
                 known |-> users, number |-> None]]
    /\ UNCHANGED <<shipment, invoice, labels, users, multiplier, app, faults, history>>

\* A plausible mistake: a paid shipment is priced again.
EvenPaid(row) == TRUE

MayChangeType(row) == ~row.paid

Created == {u \in Ids : shipment[u] # None}

BeginSetType(w) == \E u \in Created, c \in Rated :
    MayChangeType(shipment[u]) /\ Begin(w, "type", u, c)

\* An existing invoice is returned as it is.
BeginInvoice(w) == \E u \in Created :
    shipment[u].amount # None /\ invoice[u] = None /\ Begin(w, "invoice", u, None)

BeginPaid(w) == \E u \in Created, b \in BOOLEAN : Begin(w, "paid", u, b)

BeginTracking(w) == \E u \in Created : Begin(w, "tracking", u, None)

BeginUpload(w) == \E u \in Created : Begin(w, "upload", u, "file")

BeginDelete(w) == \E u \in Created : \E l \in labels[u] : Begin(w, "delete", u, l)

\* get_shipment with a user registers the user and hands him the shipment.
BeginGet(w) == \E u \in Created, x \in Users : Begin(w, "get", u, x)

\* A plausible mistake: the status it had is not looked at.
ToShipped(t) == t.arg = "shipped"

\* A status change to "shipped" orders a consignment.
Transition(t) == t.arg = "shipped" /\ t.row.status # "shipped"

BeginStatus(w) == \E u \in Created, s \in {"at_warehouse", "shipped"} :
    Begin(w, "status", u, s)

BeginConsign(w) == \E u \in Created, force \in {"force", "ask"} :
    /\ force = "force" \/ (shipment[u].tracking = None /\ shipment[u].status # "shipped")
    /\ shipment[u].carrier \in Consigning
    /\ Begin(w, "consign", u, force)

update_multiplier == \E c \in Carriers, m \in 1..MaxMultiplier :
    /\ requests < MaxRequests /\ m # multiplier[c]
    /\ requests' = requests + 1
    /\ multiplier' = [multiplier EXCEPT ![c] = m]
    /\ UNCHANGED <<shipment, invoice, labels, users, tx, app, faults, history>>

-----------------------------------------------------------------------------
(* DHL. The number of a consignment tells when it was made.                  *)

Calls(t) == /\ t.pc = "commit" /\ t.number = None
            /\ \/ t.kind = "consign"
               \/ t.kind = "status" /\ Transition(t) /\ t.row.carrier \in Consigning

Issued == Cardinality(UNION {consigned[u] : u \in Ids}) + 1

\* The call succeeds, and its answer arrives or is lost.
CallCarrier(w) ==
    LET t == tx[w]
        u == t.unit
    IN  /\ t # None /\ Calls(t)
        /\ consigned' = [consigned EXCEPT ![u] = @ \cup {Issued}]
        /\ explained' = IF (t.kind = "consign" /\ t.arg = "force") \/ u \in doubtful \/ t.had # consigned[u]
                        THEN explained \cup {u} ELSE explained
        /\ \/ /\ tx' = [tx EXCEPT ![w].number = Issued]
              /\ UNCHANGED <<faults, doubtful>>
           \/ /\ faults < MaxFaults /\ faults' = faults + 1
              /\ tx' = [tx EXCEPT ![w].pc = "failed"]
              /\ doubtful' = doubtful \cup {u}
        /\ UNCHANGED <<shipment, invoice, labels, users, multiplier, requests, app, late>>

\* The call fails before a consignment is made; a configuration is missing.
CarrierFails(w) ==
    /\ tx[w] # None /\ Calls(tx[w]) /\ faults < MaxFaults
    /\ faults' = faults + 1
    /\ tx' = [tx EXCEPT ![w].pc = "failed"]
    /\ UNCHANGED <<shipment, invoice, labels, users, multiplier, requests, app, history>>

-----------------------------------------------------------------------------
(* The end of a request: what it writes to the row, and the rows it adds.    *)

Changed(t) ==
    LET r == t.row IN
    CASE t.kind = "type" -> [r EXCEPT !.carrier = t.arg,
                               !.amount = [carrier |-> t.arg, multiplier |-> multiplier[t.arg]]]
      [] t.kind = "paid" -> [r EXCEPT !.paid = t.arg]
      [] t.kind = "tracking" -> [r EXCEPT !.tracking = t.arg]
      [] t.kind = "status" /\ t.number = None -> [r EXCEPT !.status = t.arg]
      [] t.number # None -> [r EXCEPT !.status = "shipped", !.tracking = t.number]
      [] t.kind = "get" /\ r.user = None -> [r EXCEPT !.user = t.arg]
      [] OTHER -> r

\* Only the fields that differ from the ones loaded are written.
Written(t) ==
    [f \in DOMAIN t.row |-> IF Changed(t)[f] # t.row[f] THEN Changed(t)[f]
                            ELSE shipment[t.unit][f]]

\* A plausible mistake: numbers start with the invoices there are.
CountOfInvoices(n) == n

next_invoice_number(n) == n + 1

\* The number, the shipment's second invoice or the user is already there.
Duplicate(t) ==
    \/ t.kind = "invoice" /\ \E u \in Ids :
          invoice[u] # None /\
              (u = t.unit \/ invoice[u].number = next_invoice_number(t.invoices))
    \/ t.kind = "get" /\ t.arg \in users \ t.known

Commit(w) ==
    LET t == tx[w]
        u == t.unit
    IN  /\ t # None /\ ~Calls(t) /\ ~Duplicate(t)
        /\ t.kind = "consign" => t.number # None
        /\ tx' = [tx EXCEPT ![w] = None]
        /\ shipment' = [shipment EXCEPT ![u] = Written(t)]
        /\ invoice' = IF t.kind # "invoice" THEN invoice
                      ELSE [invoice EXCEPT ![u] = [number |-> next_invoice_number(t.invoices),
                                                   amount |-> t.row.amount]]
        /\ \/ labels' = [labels EXCEPT ![u] = CASE t.number # None -> @ \cup {t.number}
                                                [] t.kind = "upload" -> @ \cup {0}
                                                [] t.kind = "delete" -> @ \ {t.arg}
                                                [] OTHER -> @]
           \/ t.number # None /\ UNCHANGED labels   \* DHL sent no label
        /\ users' = IF t.kind = "get" THEN users \cup {t.arg} ELSE users
        /\ doubtful' = IF shipment[u].status = "shipped" /\ Written(t).status # "shipped"
                       THEN doubtful \cup {u} ELSE doubtful
        /\ late' = IF t.kind = "type" /\ shipment[u].paid THEN late \cup {u} ELSE late
        /\ UNCHANGED <<multiplier, requests, app, faults, consigned, explained>>

\* A constraint of the database, or the failure of the carrier, ends a request.
Refused(w) ==
    /\ tx[w] # None
    /\ \/ Duplicate(tx[w])
       \/ tx[w].kind = "consign" /\ tx[w].pc = "failed"
    /\ tx' = [tx EXCEPT ![w] = None]
    /\ UNCHANGED <<shipment, invoice, labels, users, multiplier, requests, app, faults, history>>

\* The service stops in the middle of a request.
Crash(w) ==
    /\ tx[w] # None /\ faults < MaxFaults
    /\ faults' = faults + 1
    /\ tx' = [tx EXCEPT ![w] = None]
    /\ doubtful' = IF tx[w].number # None THEN doubtful \cup {tx[w].unit} ELSE doubtful
    /\ UNCHANGED <<shipment, invoice, labels, users, multiplier, requests, app,
                   consigned, explained, late>>

App == \/ StartShipping \/ PostShipment \/ create_shipment \/ ReadAnswer
       \/ PostTimesOut \/ CommitShipping \/ RollbackShipping

Service == \/ update_multiplier
           \/ \E w \in Workers :
                 \/ BeginSetType(w) \/ BeginInvoice(w) \/ BeginPaid(w) \/ BeginTracking(w)
                 \/ BeginUpload(w) \/ BeginDelete(w) \/ BeginGet(w) \/ BeginStatus(w)
                 \/ BeginConsign(w) \/ CallCarrier(w) \/ CarrierFails(w)
                 \/ Commit(w) \/ Refused(w) \/ Crash(w)

Next == App \/ Service

Spec == Init /\ [][Next]_vars

-----------------------------------------------------------------------------
ShipmentRows == [carrier : Carriers \cup {None}, amount : Costs \cup {None},
                 tracking : Nat \cup {None}, status : Statuses, paid : BOOLEAN,
                 user : Users \cup {None}]
InvoiceRows == [number : Nat, amount : Costs]
Kinds == {"type", "invoice", "paid", "tracking", "upload", "delete", "get", "status", "consign"}
ArgumentsOf(kind) == CASE kind = "type" -> Rated
                       [] kind = "paid" -> BOOLEAN
                       [] kind = "upload" -> {"file"}
                       [] kind = "delete" -> Nat
                       [] kind = "get" -> Users
                       [] kind = "status" -> {"at_warehouse", "shipped"}
                       [] kind = "consign" -> {"force", "ask"}
                       [] OTHER -> {None}
RequestsOf(kind) ==
    [kind : {kind}, unit : Ids, arg : ArgumentsOf(kind), pc : {"commit", "failed"},
     row : ShipmentRows, invoices : Nat, had : SUBSET Nat, known : SUBSET Users,
     number : Nat \cup {None}]

\* The shape of the rows, of the requests and of the history.
TypeOK ==
    /\ shipment \in [Ids -> ShipmentRows \cup {None}]
    /\ invoice \in [Ids -> InvoiceRows \cup {None}]
    /\ \A w \in Workers : tx[w] # None => tx[w].kind \in Kinds /\ tx[w] \in RequestsOf(tx[w].kind)
    /\ \A u \in Ids : labels[u] \subseteq Nat
    /\ users \subseteq Users /\ multiplier \in [Carriers -> 1..MaxMultiplier]
    /\ net \subseteq Ids \X (1..MaxFaults + 1)
    /\ order.url \in Ids \cup {None}
    /\ requests \in 0..MaxRequests /\ faults \in 0..MaxFaults

\* _next_invoice_number counts the invoices: with the unique constraint their
\* numbers have neither gaps nor doubles, however many requests ran at once.
NumbersHaveNoGaps ==
    LET numbers == {invoice[u].number : u \in {v \in Ids : invoice[v] # None}}
    IN  numbers = 1..Cardinality({v \in Ids : invoice[v] # None})

\* create_consignment and the status change: DHL gets a second order for a
\* shipment only when an administrator forced it, when the shipment had left
\* "shipped", when an answer was lost, or when two requests ran at once.
ConsignedOnce == \A u \in Ids \ explained : Cardinality(consigned[u]) <= 1

\* set_shipment_type: what a paid shipment costs never changes, except by a
\* request that had begun before the payment was noted.
PaidIsFinal == [][ \A u \in Ids :
    shipment[u] # None /\ shipment[u].paid /\ shipment'[u].amount # shipment[u].amount =>
        \E w \in Workers : tx[w] # None /\ tx[w].kind = "type" /\ tx[w].unit = u /\ ~tx[w].row.paid ]_vars

\* on_sale_order_shipped: when nothing was lost and the service takes the order's
\* data, a shipped order has a shipment for each of its boxes and the link of the
\* first one; an order whose first attempt failed may have no link, never that of
\* another box.
ShippedIsAnnounced ==
    order.shipped => /\ order.url \in {Units[1], None}
                     /\ faults = 0 /\ order.valid => order.url = Units[1] /\ Created = Ids

\* "When a SeparateShipping order is shipped, create one or more shipment records"
\* (signal_handlers.py:25): whatever the data of the order.
EveryShippedIsAnnounced == order.shipped /\ faults = 0 => Created = Ids

=============================================================================
