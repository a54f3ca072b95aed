------------------------------ MODULE Warehouse ------------------------------
(* The warehouse module of the application (src/app/modules/warehouse): the  *)
(* stock of the local warehouses, moved by the signals that a sale order has *)
(* been shipped and that a purchase order has been delivered, and edited by  *)
(* an administrator.                                                         *)
(*                                                                           *)
(* A request or a background task is one transaction under REPEATABLE READ:  *)
(* it computes on the database it saw when it began (tx[w].db), and its      *)
(* commit writes the rows it has changed with the values it has computed.    *)
(* One sale order is modelled, with one purchase order per suborder.         *)
EXTENDS Integers, FiniteSets, SequencesExt

CONSTANTS Workers,      \* web workers and the background worker
          Warehouses, Products,
          PurchaseOrders,
          OrderProducts,
          Product,      \* the product of an order product
          Quantity,     \* and how many of it
          Suborder,     \* and the purchase order its suborder is bought with
          VendorStatuses, \* what the vendor can say of a purchase order
          MaxTx,        \* bound on the number of transactions
          None          \* no warehouse, no row, no transaction

Order == "order"        \* the row of the sale order
Rows == Warehouses \X Products
POStatuses == {"none", "pending", "posted", "shipped", "delivered", "cancelled"}
OrderStatuses == {"po_created", "at_warehouse", "shipped"}

ASSUME WarehouseAssumption ==
    /\ IsFiniteSet(OrderProducts) /\ IsFiniteSet(PurchaseOrders)
    /\ Order \notin PurchaseOrders /\ OrderProducts \cap PurchaseOrders = {}
    /\ None \notin Int \cup Warehouses
    /\ Product \in [OrderProducts -> Products]
    /\ Quantity \in [OrderProducts -> Nat \ {0}]
    /\ Suborder \in [OrderProducts -> PurchaseOrders]
    /\ VendorStatuses \subseteq POStatuses \ {"none"}
    /\ MaxTx \in Nat

VARIABLES db,           \* the committed database
          tx,           \* the transaction of each worker
          txs,          \* number of transactions begun
          (* history *)
          ledger,       \* what the committed moves add up to, per row
          torn,         \* rows written over a value the writer had not seen
          counted,      \* how often a purchase order was put in its warehouse
          again,        \* purchase orders that were delivered more than once
          taken,        \* how often the sale order was taken from a warehouse
          reopened      \* the sale order was not shipped once and for all

vars == <<db, tx, txs, ledger, torn, counted, again, taken, reopened>>

Database == [stock : [Rows -> Int \cup {None}],
             link : [OrderProducts \cup PurchaseOrders -> Warehouses \cup {None}],
             status : [PurchaseOrders \cup {Order} -> POStatuses \cup OrderStatuses],
             warehouses : SUBSET Warehouses]

\* The purchase orders have been made and posted, with or without a warehouse.
Init ==
    /\ \E l \in [OrderProducts \cup PurchaseOrders -> Warehouses \cup {None}] :
          /\ \A o \in OrderProducts : l[o] # None
          /\ db = [stock |-> [r \in Rows |-> None],
                      link |-> l,
                   status |-> [x \in PurchaseOrders \cup {Order} |->
                                  IF x = Order THEN "po_created" ELSE "posted"],
                   warehouses |-> Warehouses]
    /\ tx = [w \in Workers |-> None]
    /\ txs = 0
    /\ ledger = [r \in Rows |-> 0] /\ torn = {}
    /\ counted = [po \in PurchaseOrders |-> 0] /\ again = {}
    /\ taken = 0 /\ reopened = FALSE

-----------------------------------------------------------------------------
(* The handlers, as functions of the database the transaction works on.      *)

\* A plausible mistake: a row that exists is overwritten.
SetProduct(d, r, n) == [d EXCEPT !.stock[r] = n]

add_product(d, r, n) ==
    [d EXCEPT !.stock[r] = (IF @ = None THEN 0 ELSE @) + n]

sub_product(d, r, n) == add_product(d, r, -n)

RowOf(x, o) == <<x, Product[o]>>

\* The products of the order that are linked to a warehouse are taken from it.
on_sale_order_shipped(d) ==
    FoldLeft(LAMBDA e, o : IF e.link[o] = None THEN e
                           ELSE sub_product(e, RowOf(e.link[o], o), Quantity[o]),
             d, SetToSeq(OrderProducts))

Existing(d) == {po \in PurchaseOrders : d.status[po] # "none"}

\* A plausible mistake: one delivered purchase order is enough.
AnyComplete(d) == \E po \in Existing(d) : d.status[po] = "delivered"

pos_complete(d) == \A po \in Existing(d) : d.status[po] = "delivered"

OfPO(po) == {o \in OrderProducts : Suborder[o] = po}

order_at_warehouse(d, po) == [d EXCEPT !.status[Order] = "at_warehouse"]

\* Nothing is stored, and the order is left as it is, for a purchase order
\* without a warehouse.
on_purchase_order_delivered(d, po) ==
    IF d.link[po] = None THEN d
    ELSE LET e == FoldLeft(LAMBDA f, o : add_product(f, RowOf(d.link[po], o), Quantity[o]),
                           d, SetToSeq(OfPO(po)))
         IN  IF pos_complete(e) THEN order_at_warehouse(e, po) ELSE e

set_po_status(d, po, s) ==
    LET e == [d EXCEPT !.status[po] = s]
    IN  IF s = "delivered" THEN on_purchase_order_delivered(e, po) ELSE e

\* cleanse_payload drops a status that is the one the order has.
set_order_status(d, s) ==
    CASE s = d.status[Order] -> d
      [] s # d.status[Order] /\ s = "shipped" ->
            on_sale_order_shipped([d EXCEPT !.status[Order] = s])
      [] OTHER -> [d EXCEPT !.status[Order] = s]

\* The link is removed by any save that names no warehouse.
on_saving(d, x, wh) == [d EXCEPT !.link[x] = wh]

\* The purchase orders that are there are deleted with their links and made anew.
create_purchase_orders(d, wh) ==
    [d EXCEPT !.status = [x \in DOMAIN @ |-> IF x = Order THEN "po_created" ELSE "pending"],
              !.link = [x \in DOMAIN @ |-> IF x \in PurchaseOrders THEN wh ELSE @[x]]]

\* A plausible mistake: delivered ones are looked at again.
RefreshedAgain(d) == {po \in PurchaseOrders : d.status[po] \notin {"none", "cancelled"}}

\* The purchase orders a refresh without an id looks at.
Refreshed(d) == {po \in PurchaseOrders :
                    d.status[po] \notin {"none", "cancelled", "shipped", "delivered"}}

KnownToVendor(d, po) == d.status[po] \notin {"none", "pending"}

\* The vendor's list is walked in its order; orders that are still only placed
\* are skipped.
update_purchase_orders_status(d, pos, seen) ==
    FoldLeft(LAMBDA e, po : IF KnownToVendor(e, po) /\ seen[po] # "posted"
                            THEN set_po_status(e, po, seen[po]) ELSE e,
             d, pos)

is_editable(d, po) == d.status[po] \in {"posted", "pending", "cancelled"}

save_warehouse_product(d, r, n) == [d EXCEPT !.stock[r] = n]

delete_warehouse(d, x) ==
    [d EXCEPT !.warehouses = @ \ {x},
              !.stock = [r \in DOMAIN @ |-> IF r[1] = x THEN None ELSE @[r]]]

-----------------------------------------------------------------------------
(* A transaction: what it is asked for and the database it saw. The vendor   *)
(* answers a refresh whatever it likes.                                      *)

Begin(w, kind, of, arg) ==
    /\ tx[w] = None /\ txs < MaxTx
    /\ txs' = txs + 1
    /\ tx' = [tx EXCEPT ![w] = [kind |-> kind, of |-> of, arg |-> arg, db |-> db]]
    /\ UNCHANGED <<db, ledger, torn, counted, again, taken, reopened>>

\* create_purchase_orders refuses when some exist and it is not told to recreate.
BeginCreate(w) == \E wh \in Warehouses \cup {None} :
    /\ wh \in db.warehouses \cup {None}
    /\ Begin(w, "create", <<>>, wh)

BeginPost(w) == \E po \in PurchaseOrders :
    db.status[po] = "pending" /\ Begin(w, "post", <<po>>, None)

BeginRefresh(w) ==
    \/ Refreshed(db) # {} /\ \E s \in SetToSeqs(Refreshed(db)),
                                seen \in [Refreshed(db) -> VendorStatuses] :
                               Begin(w, "refresh", s, seen)
    \/ \E po \in Existing(db), s \in VendorStatuses :
          Begin(w, "refresh_one", <<po>>, [x \in {po} |-> s])

BeginEditPO(w) == \E po \in Existing(db), s \in {"delivered", "cancelled"} :
    is_editable(db, po) /\ Begin(w, "edit_po", <<po>>, s)

BeginRepost(w) == \E po \in Existing(db) : Begin(w, "repost", <<po>>, None)

BeginSaveOrder(w) == \E s \in {"po_created", "shipped"} :
    Begin(w, "save_order", <<Order>>, s)

BeginSaveOrderProduct(w) == \E o \in OrderProducts, wh \in db.warehouses \cup {None} :
    Begin(w, "save_product", <<o>>, wh)

\* The row is looked for: without it the handler fails, and a new one is added
\* by a call of its own.
BeginSaveStock(w) == \E r \in Rows, n \in {5} :
    r[1] \in db.warehouses /\ Begin(w, "save_stock", r, n)

BeginDeleteStock(w) == \E r \in Rows :
    db.stock[r] # None /\ Begin(w, "save_stock", r, None)

BeginDeleteWarehouse(w) == \E x \in db.warehouses :
    Begin(w, "delete_warehouse", <<x>>, None)

Refreshes == {"refresh", "refresh_one"}

Result(t) ==
    CASE t.kind = "create" -> create_purchase_orders(t.db, t.arg)
      [] t.kind = "post" -> set_po_status(t.db, t.of[1], "posted")
      [] t.kind \in Refreshes -> update_purchase_orders_status(t.db, t.of, t.arg)
      [] t.kind = "edit_po" -> set_po_status(t.db, t.of[1], t.arg)
      [] t.kind = "repost" -> set_po_status(t.db, t.of[1], "pending")
      [] t.kind = "save_order" -> set_order_status(t.db, t.arg)
      [] t.kind = "save_product" -> on_saving(t.db, t.of[1], t.arg)
      [] t.kind = "save_stock" -> save_warehouse_product(t.db, t.of, t.arg)
      [] t.kind = "delete_warehouse" -> delete_warehouse(t.db, t.of[1])

Dirty(old, new) == {x \in DOMAIN old : old[x] # new[x]}

\* An inserted row is already there, an updated one is gone, or a foreign key
\* points to a warehouse that is gone or is still pointed to.
Conflict(t, new) ==
    \/ \E r \in Dirty(t.db.stock, new.stock) :
          new.stock[r] # None /\ (t.db.stock[r] = None) # (db.stock[r] = None)
    \/ \E x \in Dirty(t.db.link, new.link) :
          t.kind # "create" /\ new.link[x] # None /\ (t.db.link[x] = None) # (db.link[x] = None)
    \/ \E r \in Dirty(t.db.stock, new.stock) : new.stock[r] # None /\ r[1] \notin db.warehouses
    \/ \E x \in Dirty(t.db.link, new.link) : new.link[x] \notin db.warehouses \cup {None}
    \/ \E x \in t.db.warehouses \ new.warehouses :
          \/ x \notin db.warehouses
          \/ \E y \in DOMAIN db.link : db.link[y] = x
          \/ \E r \in Rows : r[1] = x /\ db.stock[r] # None /\ t.db.stock[r] = None

Merged(old, new, now) == [x \in DOMAIN now |-> IF new[x] # old[x] THEN new[x] ELSE now[x]]

Delivers(t) ==
    CASE t.kind \in Refreshes -> {po \in Range(t.of) :
                                    KnownToVendor(t.db, po) /\ t.arg[po] = "delivered"}
      [] t.kind = "edit_po" /\ t.arg = "delivered" -> Range(t.of)
      [] OTHER -> {}

Ships(t) == t.kind = "save_order" /\ t.arg = "shipped" /\ t.db.status[Order] # "shipped"

\* The pieces of some order products.
PiecesOf(o) == {o} \X (1..Quantity[o])
Pieces(S) == UNION {PiecesOf(o) : o \in S}
SumOf(S) == Cardinality(Pieces(S))

\* What the transaction means to move in or out of a row.
Move(t, r) ==
    LET of(o, x) == x # None /\ RowOf(x, o) = r
    IN  SumOf({o \in OrderProducts : Suborder[o] \in Delivers(t) /\ of(o, t.db.link[Suborder[o]])})
        - (IF Ships(t) THEN SumOf({o \in OrderProducts : of(o, t.db.link[o])}) ELSE 0)

ByHand(t, r) == \/ t.kind = "save_stock" /\ r = t.of
                \/ t.kind = "delete_warehouse" /\ r[1] = t.of[1]

Commit(w) ==
    LET t == tx[w]
        new == Result(t)
        next == [stock |-> Merged(t.db.stock, new.stock, db.stock),
                 link |-> IF t.kind = "create" THEN create_purchase_orders(db, t.arg).link
                          ELSE Merged(t.db.link, new.link, db.link),
                 status |-> Merged(t.db.status, new.status, db.status),
                 warehouses |-> db.warehouses \ (t.db.warehouses \ new.warehouses)]
        moved == {po \in Delivers(t) : t.db.link[po] # None}
    IN  /\ t # None /\ ~Conflict(t, new)
        /\ db' = next
        /\ tx' = [tx EXCEPT ![w] = None]
        /\ ledger' = [r \in Rows |->
                        IF ByHand(t, r) THEN IF next.stock[r] = None THEN 0 ELSE next.stock[r]
                        ELSE ledger[r] + Move(t, r)]
        /\ torn' = (torn \cup {r \in Dirty(t.db.stock, new.stock) : db.stock[r] # t.db.stock[r]})
                   \ {r \in Rows : ByHand(t, r)}
        /\ counted' = [po \in PurchaseOrders |-> counted[po] + (IF po \in moved THEN 1 ELSE 0)]
        /\ again' = again \cup {po \in moved : db.status[po] = "delivered" /\
                                  (t.kind # "refresh" \/ t.db.status[po] # "delivered")}
                          \cup {po \in PurchaseOrders :
                                  db.status[po] = "delivered" /\ next.status[po] # "delivered"}
        /\ taken' = taken + (IF Ships(t) THEN 1 ELSE 0)
        /\ reopened' = (\/ reopened
                        \/ db.status[Order] = "shipped" /\ next.status[Order] # "shipped"
                        \/ db.status[Order] = "shipped" /\ Ships(t))
        /\ UNCHANGED txs

\* An error of the database: everything the transaction did is undone.
Rollback(w) ==
    /\ tx[w] # None /\ Conflict(tx[w], Result(tx[w]))
    /\ tx' = [tx EXCEPT ![w] = None]
    /\ UNCHANGED <<db, txs, ledger, torn, counted, again, taken, reopened>>

Next == \E w \in Workers :
    \/ BeginCreate(w) \/ BeginPost(w) \/ BeginRefresh(w) \/ BeginEditPO(w)
    \/ BeginRepost(w) \/ BeginSaveOrder(w) \/ BeginSaveOrderProduct(w)
    \/ BeginSaveStock(w) \/ BeginDeleteStock(w) \/ BeginDeleteWarehouse(w)
    \/ Commit(w) \/ Rollback(w)

Spec == Init /\ [][Next]_vars

-----------------------------------------------------------------------------
\* The shape of the database, of the transactions and of the history.
TypeOK ==
    /\ db \in Database
    /\ \A po \in PurchaseOrders : db.status[po] \in POStatuses
    /\ \A w \in Workers : tx[w] # None => tx[w].db \in Database
    /\ txs \in 0..MaxTx
    /\ ledger \in [Rows -> Int] /\ torn \subseteq Rows
    /\ counted \in [PurchaseOrders -> Nat] /\ again \subseteq PurchaseOrders
    /\ taken \in Nat /\ reopened \in BOOLEAN

\* add_product and sub_product read a quantity and write the new one: unless
\* two transactions did so with the same row at the same time, its quantity is
\* the last one an administrator gave it plus all that was delivered to it
\* minus all that was shipped from it.
StockIsKept ==
    \A r \in Rows \ torn : ledger[r] = (IF db.stock[r] = None THEN 0 ELSE db.stock[r])

\* set_status and the signals: a purchase order is put in its warehouse once,
\* and the products of the sale order are taken out once, unless the purchase
\* order is delivered a second time (a refresh of it by its id, a repost, a
\* recreation, two transactions at once), or the sale order leaves "shipped"
\* and is shipped again or by two transactions at once.
MovedOnce ==
    /\ \A po \in PurchaseOrders \ again : counted[po] <= 1
    /\ reopened \/ taken <= 1

\* The last of them is the one after which the transaction delivers no other.
IsLast(t, po) ==
    \E k \in DOMAIN t.of :
        t.of[k] = po /\ \A j \in DOMAIN t.of : j > k => t.of[j] \notin Delivers(t)

\* on_purchase_order_delivered: the step that delivers the last purchase order
\* of the sale order, and puts it in a warehouse, moves the sale order to
\* "at_warehouse", unless another one changed a status it had read; a delivery
\* moves it there in no other case.
AtWarehouseWhenAllDelivered == [][
    \A w \in Workers :
        LET t == tx[w]
            all == \A po \in PurchaseOrders : db'.status[po] \in {"none", "delivered"}
        IN  Commit(w) /\ t.db.status = db.status =>
              \A last \in Delivers(t) : IsLast(t, last) =>
                /\ all /\ t.db.link[last] # None => db'.status[Order] = "at_warehouse"
                /\ db'.status[Order] # db.status[Order] => all ]_vars

=============================================================================
