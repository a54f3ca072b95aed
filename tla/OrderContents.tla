---------------------------- MODULE OrderContents ----------------------------
(* What is in a sale order and what it comes to: suborders, order products,  *)
(* weights and totals (src/app/orders), drafts, postponed products, and the  *)
(* invoices made of orders (src/app/invoices).                               *)
(*                                                                           *)
(* A request is one transaction and one action here; requests that overlap   *)
(* are the subject of Accounts and Warehouse.  One customer is modelled, and *)
(* orders are not attached to each other (see Accounts).                     *)
EXTENDS ShippingRates, FiniteSets, SequencesExt, TLC

CONSTANTS Methods,              \* shipping methods
          Products, Price, Weight, Separate,    \* the catalogue
          Subcustomers, Registered,             \* and who is known at first
          Payloads,             \* the suborders of an order as they are sent
          ItemsPerSuborder,     \* 10 in the code
          LocalShippingCost, FreeLocalShipping, ServiceFee,  \* settings
          Rates,                \* the table of the shipping method "table"
          Boxes, ManualWeights, Quantities, Prices,          \* what is entered
          LineStatuses, AdminStatuses,
          MaxRequests, MaxLines, MaxInvoices,   \* bounds
          None

NoShipping == {"noshipping", "postpone"}
OrderStatuses == {"draft", "pending", "can_be_paid", "po_created", "shipped"}
ProductStatuses == {"pending", "po_created", "unavailable", "purchased"}

\* What is sent of a suborder.
ItemData == [item_code : Products \cup STRING, quantity : Nat]
SuborderData == [seq_num : Nat, subcustomer : Subcustomers, items : Seq(ItemData)]

ASSUME OrderAssumption ==
    /\ "postpone" \in Methods
    /\ Price \in [Products -> Nat] /\ Weight \in [Products -> Nat]
    /\ Separate \in [Products -> BOOLEAN]
    /\ Registered \subseteq Subcustomers
    /\ Payloads \subseteq Seq(SuborderData) /\ ItemsPerSuborder \in Nat \ {0}
    /\ {LocalShippingCost, FreeLocalShipping, ServiceFee} \subseteq Nat
    /\ DOMAIN Rates \subseteq Nat /\ Rates \in [DOMAIN Rates -> Nat]
    /\ ManualWeights \cup Quantities \cup Prices \subseteq Nat
    /\ LineStatuses \subseteq ProductStatuses /\ AdminStatuses \subseteq OrderStatuses

VARIABLE db

(* orders: by number, the drafts of the customer by the negative of theirs;  *)
(* suborders: the subcustomer of suborder n of order o; lines: the table of  *)
(* order products; unpriced (history): orders whose products have changed in *)
(* a way that does not update the total; requests: how many there have been.   *)
Init == db = [orders |-> <<>>, suborders |-> <<>>, lines |-> <<>>, invoices |-> <<>>,
              subcustomers |-> Registered, unpriced |-> {}, requests |-> 0]

With(f, k, v) == [x \in DOMAIN f \cup {k} |-> IF x = k THEN v ELSE f[x]]
Without(f, S) == Restrict(f, DOMAIN f \ S)

\* The numbers the database gives out; ids of deleted rows are taken again.
NextId(f) == Smallest(1 .. Cardinality(DOMAIN f) + 1 \ DOMAIN f)
LastNumber(S) == Max({0} \cup S)

SubordersOf(d, o) == {s \in DOMAIN d.suborders : s[1] = o}
LinesOf(d, s) == {l \in DOMAIN d.lines : d.lines[l].suborder = s}
LinesOfOrder(d, o) == UNION {LinesOf(d, s) : s \in SubordersOf(d, o)}

-----------------------------------------------------------------------------
(* Totals.                                                                   *)

Amount(d, l) == d.lines[l].price * d.lines[l].quantity
Grams(d, l) == Weight[d.lines[l].product] * d.lines[l].quantity

\* A plausible mistake: products the vendor has not got are charged.
AllOrderProducts(d, s) == LinesOf(d, s)

get_order_products(d, s) == {l \in LinesOf(d, s) : d.lines[l].status # "unavailable"}

get_subtotal(d, s) == SumFunction([l \in get_order_products(d, s) |-> Amount(d, l)])

\* Products that are not shipped on their own are delivered free of charge
\* from an amount on.
local_shipping(d, s) ==
    LET bulk == {l \in get_order_products(d, s) : ~Separate[d.lines[l].product]}
    IN  IF bulk # {} /\ SumFunction([l \in bulk |-> Amount(d, l)]) < FreeLocalShipping
        THEN LocalShippingCost ELSE 0

get_shipping_cost(method, weight) ==
    IF method \in NoShipping THEN 0 ELSE table_cost(Rates, weight)

\* The weight of the boxes entered, whatever their quantity.
BoxesWeight(boxes) == FoldLeft(LAMBDA sum, b : sum + b.weight, 0, boxes)

\* fee: Order.service_fee is no column; it is zero unless the request sets it.
update_total(d, o, fee) ==
    LET r == d.orders[o]
        goods == UNION {get_order_products(d, s) : s \in SubordersOf(d, o)}
        weight == IF r.manual THEN r.total_weight
                  ELSE SumFunction([l \in goods |-> Grams(d, l)])
        box == IF r.manual THEN 0
               ELSE IF r.boxes # <<>> THEN BoxesWeight(r.boxes)
               ELSE IF r.shipping \in NoShipping THEN 0 ELSE get_box_weight(weight)
        subtotal == SumFunction([s \in SubordersOf(d, o) |->
                                    get_subtotal(d, s) + local_shipping(d, s)])
        cost == get_shipping_cost(r.shipping, weight + box)
    IN  [d EXCEPT !.orders[o] = [r EXCEPT !.total_weight = weight, !.subtotal = subtotal,
                                          !.cost = cost, !.total = subtotal + cost + fee],
                  !.unpriced = @ \ {o}]

HasRate(d, o) == d.orders[o].cost # NoRate

-----------------------------------------------------------------------------
(* Contents.                                                                 *)

NewOrder(d, method, status) ==
    [status |-> status, shipping |-> method, manual |-> FALSE, total_weight |-> 0,
     boxes |-> <<>>, subtotal |-> 0, cost |-> 0, total |-> 0, invoice |-> None,
     when_created |-> 1 + LastNumber({d.orders[o].when_created : o \in DOMAIN d.orders})]

get_new_id(d) == 1 + LastNumber({o \in DOMAIN d.orders : o > 0})

_set_draft(d) ==
    -Smallest({n \in 1 .. Cardinality(DOMAIN d.orders) + 1 : -n \notin DOMAIN d.orders})

AddOrder(d, o, row) == [d EXCEPT !.orders = With(@, o, row)]

\* A suborder's number is the last one of its order plus one.
AddSuborder(d, o, subcustomer) ==
    [d EXCEPT !.suborders =
        With(@, <<o, 1 + LastNumber({s[2] : s \in SubordersOf(d, o)})>>, subcustomer)]
LastSuborder(d, o) == <<o, LastNumber({s[2] : s \in SubordersOf(d, o)})>>

AddLine(d, s, product, price, quantity) ==
    [d EXCEPT !.lines = With(@, NextId(@), [suborder |-> s, product |-> product,
                price |-> price, quantity |-> quantity, status |-> "pending"])]

\* A product nobody knows is left out; a weight entered by hand grows.
add_order_product(d, s, product, quantity) ==
    IF product \notin Products THEN d
    ELSE [AddLine(d, s, product, Price[product], quantity) EXCEPT
             !.orders[s[1]].total_weight = @ + Weight[product] * quantity,
             !.orders[s[1]].subtotal = @ + Price[product] * quantity]

parse_subcustomer(d, name) == [d EXCEPT !.subcustomers = @ \cup {name}]

\* map_reduce: the quantities of a product are added up.
Grouped(items) ==
    [p \in {items[i].item_code : i \in DOMAIN items} |->
        FoldLeft(LAMBDA n, item : IF item.item_code = p THEN n + item.quantity ELSE n,
                 0, items)]

IsBlank(items) == Len(items) = 1 /\ items[1].item_code = ""

\* EmptySuborderError leaves the subcustomer it has found or made.
_add_suborder(d, o, data) ==
    LET e == parse_subcustomer(d, data.subcustomer)
        f == AddSuborder(e, o, data.subcustomer)
        wanted == Grouped(data.items)
    IN  IF IsBlank(data.items) THEN e
        ELSE FoldLeft(LAMBDA g, p : add_order_product(g, LastSuborder(f, o), p, wanted[p]),
                      f, SetToSeq(DOMAIN wanted))

Chunks(data) ==
    [i \in 1 .. Ceil(Len(data.items), ItemsPerSuborder) |->
        [data EXCEPT !.items = SubSeq(@, (i - 1) * ItemsPerSuborder + 1,
                                      Min({i * ItemsPerSuborder, Len(@)}))]]

add_suborders(d, o, suborders) ==
    FoldLeft(LAMBDA e, data : _add_suborder(e, o, data), d,
             FlattenSeq([i \in DOMAIN suborders |-> Chunks(suborders[i])]))

DeleteLines(d, S) == [d EXCEPT !.lines = Without(@, S)]

\* Order.delete, and what the handlers that delete an order do.
DeleteOrder(d, o) ==
    [DeleteLines(d, LinesOfOrder(d, o)) EXCEPT
        !.suborders = Without(@, SubordersOf(d, o)), !.orders = Without(@, {o}),
        !.unpriced = @ \ {o}]

-----------------------------------------------------------------------------
(* The requests about orders.                                                *)

\* The bounds of the instance.
Commit(d) == /\ Cardinality(DOMAIN d.lines) <= MaxLines
             /\ db' = [d EXCEPT !.requests = @ + 1]

\* A request that would store a total without a rate raises
\* NoShippingRateError instead.
Save(d, o) == HasRate(d, o) /\ Commit(d)

Created(d, o, method, status, suborders) ==
    update_total(add_suborders(AddOrder(d, o, NewOrder(d, method, status)), o, suborders),
                 o, ServiceFee)

\* Nothing is saved of an order without suborders.
SaveNew(d, o) == SubordersOf(d, o) # {} /\ Save(d, o)

Place(d, o, method, status, suborders) ==
    SaveNew(Created(d, o, method, status, suborders), o)

user_create_order(method, suborders) == Place(db, get_new_id(db), method, "pending", suborders)
CreateDraft(method, suborders) == Place(db, _set_draft(db), method, "draft", suborders)

\* A draft saved for good is deleted and made anew.
PlaceDraft(o, method, suborders) ==
    LET d == DeleteOrder(db, o)
    IN  db.orders[o].status = "draft" /\ Place(d, get_new_id(d), method, "pending", suborders)

UpdateProduct(acc, s, product, quantity) ==
    LET same == {l \in LinesOf(acc.d, s) : acc.d.lines[l].product = product}
    IN  IF same = {} THEN [acc EXCEPT !.d = add_order_product(@, s, product, quantity)]
        ELSE [acc EXCEPT !.d.lines[Smallest(same)].quantity = quantity,
                         !.left = @ \ {Smallest(same)}]

\* left: the order products the request has not mentioned so far.
_update_suborder(acc, o, data) ==
    LET s == <<o, data.seq_num>>
        known == [parse_subcustomer(acc.d, data.subcustomer) EXCEPT
                     !.suborders[s] = data.subcustomer]
        wanted == Grouped(data.items)
    IN  IF s \notin DOMAIN acc.d.suborders
        THEN [acc EXCEPT !.d = _add_suborder(@, o, data)]
        ELSE FoldLeft(LAMBDA a, p : UpdateProduct(a, s, p, wanted[p]),
                      [acc EXCEPT !.d = known], SetToSeq(DOMAIN wanted))

\* What is not mentioned goes, and so do the suborders left without products.
Updated(d, o, suborders) ==
    LET acc == FoldLeft(LAMBDA a, data : _update_suborder(a, o, data),
                        [d |-> d, left |-> LinesOfOrder(d, o)], suborders)
        e == DeleteLines(acc.d, acc.left)
    IN  IF suborders = <<>> THEN d
        ELSE [e EXCEPT !.suborders = Without(@, {s \in SubordersOf(e, o) : LinesOf(e, s) = {}})]

\* The owner edits a draft, an administrator any order.  A new suborder that
\* is empty fails the request.
user_save_order(o, method, suborders) ==
    LET d == Updated([db EXCEPT !.orders[o].shipping = method], o, suborders)
    IN  /\ \A i \in DOMAIN suborders :
              <<o, suborders[i].seq_num>> \in DOMAIN db.suborders \/ ~IsBlank(suborders[i].items)
        /\ Save(update_total(d, o, ServiceFee), o)

\* A plausible mistake: an order in an invoice is deleted.
DeleteInvoiced(o) ==
    /\ db.orders[o].status \notin {"po_created", "shipped"}
    /\ Commit(DeleteOrder(db, o))

admin_delete_order(o) ==
    /\ db.orders[o].status \notin {"po_created", "shipped"}
    /\ db.orders[o].invoice = None
    /\ Commit(DeleteOrder(db, o))

user_delete_order(o) ==
    /\ db.orders[o].status = "draft"
    /\ Commit(DeleteOrder(db, o))

\* Boxes alone do not update the total, and neither does a status.
admin_save_order(o) ==
    \/ \E boxes \in Boxes : Commit([db EXCEPT !.orders[o].boxes = boxes])
    \/ \E weight \in ManualWeights :
          LET d == update_total([db EXCEPT !.orders[o].total_weight = weight,
                                           !.orders[o].manual = TRUE], o, 0)
          IN  weight # db.orders[o].total_weight /\ Save(d, o)
    \/ \E status \in AdminStatuses \ {db.orders[o].status} :
          Commit([db EXCEPT !.orders[o].status = status])

-----------------------------------------------------------------------------
(* The requests about order products.                                        *)

OrderOf(l) == db.lines[l].suborder[1]

\* A plausible mistake: the total is not updated.
DeleteOnly(l) == Commit(DeleteLines(db, {l}))

user_delete_order_product(l) ==
    Save(update_total(DeleteLines(db, {l}), OrderOf(l), 0), OrderOf(l))

WithStatus(l, status) ==
    [db EXCEPT !.lines[l].status = status, !.unpriced = @ \cup {OrderOf(l)}]

admin_save_order_product(l) ==
    \/ \E d \in {[db EXCEPT !.lines[l].product = p] : p \in Products}
                \cup {[db EXCEPT !.lines[l].price = p] : p \in Prices}
                \cup {[db EXCEPT !.lines[l].quantity = n] : n \in Quantities} :
          d # db /\ Save(update_total(d, OrderOf(l), 0), OrderOf(l))
    \/ \E status \in LineStatuses \ {db.lines[l].status} : Commit(WithStatus(l, status))

\* Only a product that becomes unavailable updates the total.
admin_set_order_product_status(l, status) ==
    LET d == IF status = "unavailable" THEN update_total(WithStatus(l, status), OrderOf(l), 0)
             ELSE WithStatus(l, status)
    IN  Save(d, OrderOf(l))

Postponed(d) == {o \in DOMAIN d.orders : /\ d.orders[o].shipping = "postpone"
                                         /\ d.orders[o].status \in {"pending", "can_be_paid"}}

\* The customer's latest postponed order that is open, or a new one.
PostponedOrder(d) ==
    LET open == Postponed(d)
    IN  IF open = {} THEN get_new_id(d)
        ELSE CHOOSE o \in open :
                \A x \in open : d.orders[x].when_created <= d.orders[o].when_created

\* A plausible mistake: the suborder is not looked for by its subcustomer.
OfAnySubcustomer(d, o, name) == {s \in SubordersOf(d, o) : s[2] = 1}

OfSubcustomer(d, o, name) == {s \in SubordersOf(d, o) : d.suborders[s] = name}

WithSuborderFor(d, o, name) ==
    IF OfSubcustomer(d, o, name) = {} THEN AddSuborder(d, o, name) ELSE d

\* The product moves to the suborder of its subcustomer in the postponed order,
\* which must not have two of them.  Postponed within one order, it is counted
\* twice: the session has not deleted it yet when it adds up.
postpone_order_product(l) ==
    LET line == db.lines[l]
        name == db.suborders[line.suborder]
        o == PostponedOrder(db)
        d == IF o \in DOMAIN db.orders THEN db
             ELSE AddOrder(db, o, NewOrder(db, "postpone", "pending"))
        e == WithSuborderFor(d, o, name)
        s == CHOOSE x \in OfSubcustomer(e, o, name) : TRUE
        f == update_total(AddLine(e, s, line.product, line.price, line.quantity), o, 0)
        g == IF o = OrderOf(l)
             THEN [DeleteLines(f, {l}) EXCEPT !.unpriced = @ \cup {o}]
             ELSE update_total(DeleteLines(f, {l}), OrderOf(l), 0)
    IN  Cardinality(OfSubcustomer(d, o, name)) <= 1 /\ Save(g, OrderOf(l))

-----------------------------------------------------------------------------
(* Subcustomers and invoices.                                                *)

admin_create_subcustomer(name) ==
    /\ name \notin db.subcustomers
    /\ Commit([db EXCEPT !.subcustomers = @ \cup {name}])

admin_delete_subcustomer(name) ==
    /\ name \in db.subcustomers
    /\ \A s \in DOMAIN db.suborders : db.suborders[s] # name
    /\ Commit([db EXCEPT !.subcustomers = @ \ {name}])

\* One item per product and price, and one for the shipping; products that
\* are not available count.  Drafts and orders in other invoices are taken.
ItemsOf(orders) ==
    LET lines == UNION {LinesOfOrder(db, o) : o \in orders}
        key(l) == <<db.lines[l].product, db.lines[l].price>>
        items == [k \in {key(l) : l \in lines} |->
            SumFunction([l \in {x \in lines : key(x) = k} |-> db.lines[l].quantity])]
    IN  With(items, <<"SHIPPING", SumFunction([o \in orders |-> db.orders[o].cost])>>, 1)

create_invoice(orders) ==
    LET i == 1 + LastNumber(DOMAIN db.invoices)
    IN  /\ i <= MaxInvoices
        /\ Commit([db EXCEPT !.invoices = With(@, i, ItemsOf(orders)),
                             !.orders = [o \in DOMAIN @ |->
                                 IF o \in orders THEN [@[o] EXCEPT !.invoice = i] ELSE @[o]]])

\* Without stored items an invoice shows those of its orders, which are not saved.
save_invoice_item(i) ==
    \/ \E k \in DOMAIN db.invoices[i], n \in Quantities :
          Commit([db EXCEPT !.invoices[i][k] = n])
    \/ \E p \in Products, price \in Prices, n \in Quantities :
          /\ <<p, price>> \notin DOMAIN db.invoices[i]
          /\ Commit([db EXCEPT !.invoices[i] = With(@, <<p, price>>, n)])

delete_invoice_item(i) ==
    \E k \in DOMAIN db.invoices[i] : Commit([db EXCEPT !.invoices[i] = Without(@, {k})])

-----------------------------------------------------------------------------
OrderRequest(o) ==
    \/ \E method \in Methods, suborders \in Payloads :
          \/ PlaceDraft(o, method, suborders)
          \/ user_save_order(o, method, suborders)
    \/ admin_delete_order(o)
    \/ user_delete_order(o)
    \/ admin_save_order(o)

ProductRequest(l) ==
    \/ user_delete_order_product(l)
    \/ admin_save_order_product(l)
    \/ \E status \in LineStatuses : admin_set_order_product_status(l, status)
    \/ postpone_order_product(l)

Request ==
    \/ \E method \in Methods, suborders \in Payloads :
          user_create_order(method, suborders) \/ CreateDraft(method, suborders)
    \/ \E o \in DOMAIN db.orders : OrderRequest(o)
    \/ \E l \in DOMAIN db.lines : ProductRequest(l)
    \/ \E name \in Subcustomers : admin_create_subcustomer(name) \/ admin_delete_subcustomer(name)
    \/ \E orders \in SUBSET DOMAIN db.orders \ {{}} : create_invoice(orders)
    \/ \E i \in DOMAIN db.invoices : save_invoice_item(i) \/ delete_invoice_item(i)

Next == db.requests < MaxRequests /\ Request

Spec == Init /\ [][Next]_db

-----------------------------------------------------------------------------
(* Properties.                                                               *)

\* The rows have their types, and they refer to rows that are there: an order
\* to its invoice, an order product to its suborder, a suborder to its order
\* and to a subcustomer who has not been deleted.
TypeOK ==
    /\ \A o \in DOMAIN db.orders :
          LET r == db.orders[o]
          IN  /\ r.status \in OrderStatuses /\ r.shipping \in Methods
              /\ r.manual \in BOOLEAN /\ r.total_weight \in Nat
              /\ r.boxes \in Boxes \cup {<<>>} /\ {r.subtotal, r.cost, r.total} \subseteq Nat
              /\ r.invoice \in DOMAIN db.invoices \cup {None}
    /\ \A s \in DOMAIN db.suborders : /\ s[1] \in DOMAIN db.orders
                                      /\ db.suborders[s] \in db.subcustomers
    /\ \A l \in DOMAIN db.lines :
          /\ db.lines[l].suborder \in DOMAIN db.suborders
          /\ db.lines[l].product \in Products /\ db.lines[l].quantity \in Nat
          /\ db.lines[l].status \in ProductStatuses
    /\ db.subcustomers \subseteq Subcustomers
    /\ db.unpriced \subseteq DOMAIN db.orders

Available(d, s) == {l \in LinesOf(d, s) : d.lines[l].status # "unavailable"}
Bulk(d, s) == {l \in Available(d, s) : ~Separate[d.lines[l].product]}
Worth(d, S) == SumFunction([l \in S |-> Amount(d, l)])

\* What an order should come to, product by product.
DueFor(d, o) ==
    SumFunction([s \in SubordersOf(d, o) |-> Worth(d, Available(d, s))])
    + LocalShippingCost * Cardinality({s \in SubordersOf(d, o) :
          Bulk(d, s) # {} /\ Worth(d, Bulk(d, s)) < FreeLocalShipping})

\* However an order has been created, edited, postponed from and had its
\* products changed, its stored subtotal is what its available products and
\* their local shipping come to, and its total adds the shipping; except for
\* the handlers that leave the total behind (unpriced), which the totals of
\* Order.update_total do not catch up with.
AddsUp(d, o) ==
    /\ d.orders[o].subtotal = DueFor(d, o)
    /\ d.orders[o].total - d.orders[o].subtotal - d.orders[o].cost \in {0, ServiceFee}

SubtotalIsSum == \A o \in DOMAIN db.orders \ db.unpriced : AddsUp(db, o)

WantedLines(d, name, p) ==
    {l \in DOMAIN d.lines : /\ d.suborders[d.lines[l].suborder] = name
                            /\ d.lines[l].product = p}
Wanted(d, name, p) == SumFunction([l \in WantedLines(d, name, p) |-> d.lines[l].quantity])

\* Postponing an order product moves it: every subcustomer still waits for as
\* many of every product as before, whichever order they are in.
WantedIsKept ==
    [][\/ \A name \in Subcustomers, p \in Products : Wanted(db', name, p) = Wanted(db, name, p)
       \/ \A l \in DOMAIN db.lines : ~postpone_order_product(l)]_db

\* An order that is in an invoice is deleted only as a draft.
InvoicedIsKept ==
    [][\A o \in DOMAIN db.orders \ DOMAIN db'.orders :
          db.orders[o].invoice # None => db.orders[o].status = "draft"]_db

\* "Returns total of the order - subtotal plus shipping costs plus service
\* fee" (order.py:318): the stored total includes the service fee.
TotalIncludesFee ==
    \A o \in DOMAIN db.orders :
       db.orders[o].total = db.orders[o].subtotal + db.orders[o].cost + ServiceFee

=============================================================================
