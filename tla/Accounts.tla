------------------------------ MODULE Accounts ------------------------------
(***************************************************************************)
(* The customers' money: payments credit a customer's balance, shipped     *)
(* orders charge it, and every change is a row of the table transactions.  *)
(*                                                                         *)
(* Several gunicorn workers serve requests at the same time.  A request    *)
(* reads the database as it was when it started (InnoDB REPEATABLE READ),  *)
(* computes on private objects (the SQLAlchemy session) and writes back    *)
(* the columns that it changed, with the values it computed, when it       *)
(* commits.  So a request is one action that computes work from snap (a    *)
(* few actions for the recursive shipping of attached orders), followed by *)
(* Commit or by Rollback.                                                  *)
(***************************************************************************)
EXTENDS RunningBalance, FiniteSets

CONSTANTS
    Workers,               \* gunicorn worker processes (and the celery worker)
    Customers,
    Orders,                \* orders that ever exist, drafts included
    EmsOrders,             \* those of them that are shipped by EMS
    Products,              \* product lines an order may have
    Payments,
    Amounts,               \* amounts sent and received, 0 meaning not set
    Totals,                \* totals Order.update_total may compute
    ManualAmounts,         \* amounts of transactions entered by hand
    AdminPaymentStatuses,  \* statuses the administrator sets on a payment
    AdminOrderStatuses,    \* statuses the administrator sets on an order
    MaxRows,               \* bound: rows of one customer's statement
    NoOrder                \* attached_order_id is NULL

PaymentStatus == {"pending", "approved", "rejected", "cancelled"}
OrderStatus == {"draft", "pending", "can_be_paid", "po_created", "packed", "shipped",
                "cancelled", "ready_to_ship", "at_warehouse", "shipment_is_paid"}

ASSUME AccountsAssumption ==
    /\ EmsOrders \subseteq Orders
    /\ NoOrder \notin Orders
    /\ Amounts \subseteq Nat /\ 0 \in Amounts
    /\ Totals \subseteq Nat
    /\ ManualAmounts \subseteq Int
    /\ AdminPaymentStatuses \subseteq PaymentStatus
    /\ AdminOrderStatuses \subseteq OrderStatus
    /\ MaxRows \in Nat

VARIABLES
    db,        \* the committed tables users, payments and orders
    ledger,    \* the committed table transactions, per customer, in commit order
    session    \* what every worker's request has read and computed so far

vars == <<db, ledger, session>>

-----------------------------------------------------------------------------
\* Rows, and the tables they make up.

Absent == [status |-> "absent"]
Deleted == [status |-> "deleted"]
NoRow == {Absent, Deleted}

PaymentRow == [status: PaymentStatus, user: Customers, sent: Amounts,
               received: Amounts, orders: SUBSET Orders]

\* unfinished: the order products that are neither unavailable nor purchased.
OrderRow == [status: OrderStatus, user: Customers, total: Totals,
             unfinished: SUBSET Products, attachedTo: Orders \cup {NoOrder}]

TransactionRow == [amount: Int, balance: Int, kind: {"payment", "revert", "order", "manual"},
                   of: Payments \cup Orders \cup {NoOrder}]

Database == [balance: [Customers -> Int],
             payment: [Payments -> PaymentRow \cup {Absent}],
             order: [Orders -> OrderRow \cup NoRow]]

ExistingOrders(d) == {o \in Orders : d.order[o] \notin NoRow}
Exists(p) == db.payment[p] # Absent
Attached(d, o) == {x \in ExistingOrders(d) : d.order[x].attachedTo = o}

-----------------------------------------------------------------------------
\* A request's session.

Idle == [pc |-> "idle"]

\* stack: the calls of Order.set_status that ship attached orders, innermost last.
Frame == [order: Orders, todo: SUBSET Orders]
Session == [pc: {"shipping", "ready"}, snap: Database, work: Database,
            rows: [Customers -> Seq(TransactionRow)], stack: Seq(Frame)]

Begin == [pc |-> "ready", snap |-> db, work |-> db,
          rows |-> [c \in Customers |-> <<>>], stack |-> <<>>]

\* An idle worker serves a request.
Request(w, s) == /\ session' = [session EXCEPT ![w] = s]
                 /\ UNCHANGED <<db, ledger>>

WritePayment(s, p, row) == [s EXCEPT !.work.payment[p] = row]
WritePayments(s, table) == [s EXCEPT !.work.payment = table]
WriteOrder(s, o, row) == [s EXCEPT !.work.order[o] = row]
WriteOrders(s, table) == [s EXCEPT !.work.order = table]

\* Mutant: the row is built before the balance is updated.
TransactionShowingOld(s, c, amount, kind, of) ==
    [s EXCEPT !.work.balance[c] = @ + amount,
              !.rows[c] = Append(@, [amount |-> amount, balance |-> s.work.balance[c],
                                     kind |-> kind, of |-> of])]

\* Mutant: a revert books its row and leaves User.balance alone.
TransactionKeepingBalance(s, c, amount, kind, of) ==
    LET balance == s.work.balance[c] + amount
    IN  [s EXCEPT !.work.balance[c] = IF kind = "revert" THEN @ ELSE balance,
                  !.rows[c] = Append(@, [amount |-> amount, balance |-> balance,
                                         kind |-> kind, of |-> of])]

Transaction(s, c, amount, kind, of) ==
    LET balance == s.work.balance[c] + amount
    IN  [s EXCEPT !.work.balance[c] = balance,
                  !.rows[c] = Append(@, [amount |-> amount, balance |-> balance,
                                         kind |-> kind, of |-> of])]

-----------------------------------------------------------------------------
\* Commit writes the columns whose value the request changed; the others keep
\* what other requests may have committed meanwhile.

Column(old, new, current) == IF new = old THEN current ELSE new
Links(old, new, current) == (current \ (old \ new)) \cup (new \ old)

MergePayment(old, new, current) ==
    IF new = old THEN current
    ELSE IF Absent \in {old, new} THEN new
    ELSE [status   |-> Column(old.status, new.status, current.status),
          user     |-> Column(old.user, new.user, current.user),
          sent     |-> Column(old.sent, new.sent, current.sent),
          received |-> Column(old.received, new.received, current.received),
          orders   |-> Links(old.orders, new.orders, current.orders)]

MergeOrder(old, new, current) ==
    IF new = old THEN current
    ELSE IF old \in NoRow \/ new \in NoRow THEN new
    ELSE [status     |-> Column(old.status, new.status, current.status),
          user       |-> current.user,
          total      |-> Column(old.total, new.total, current.total),
          unfinished |-> Links(old.unfinished, new.unfinished, current.unfinished),
          attachedTo |-> Column(old.attachedTo, new.attachedTo, current.attachedTo)]

\* Mutant: the balance is incremented in the database, the row is computed here.
MergeAdding(s) ==
    [balance |-> [c \in Customers |->
                    db.balance[c] + (s.work.balance[c] - s.snap.balance[c])],
     payment |-> [p \in Payments |->
                    MergePayment(s.snap.payment[p], s.work.payment[p], db.payment[p])],
     order   |-> [o \in Orders |->
                    MergeOrder(s.snap.order[o], s.work.order[o], db.order[o])]]

Merge(s) ==
    [balance |-> [c \in Customers |->
                    Column(s.snap.balance[c], s.work.balance[c], db.balance[c])],
     payment |-> [p \in Payments |->
                    MergePayment(s.snap.payment[p], s.work.payment[p], db.payment[p])],
     order   |-> [o \in Orders |->
                    MergeOrder(s.snap.order[o], s.work.order[o], db.order[o])]]

\* No duplicate key, no update of a row that has gone, no dangling foreign key.
Flushable(s) ==
    LET merged == Merge(s)
        orders == ExistingOrders(merged)
    IN  /\ \A p \in Payments : s.work.payment[p] # s.snap.payment[p] =>
                (s.snap.payment[p] = Absent <=> db.payment[p] = Absent)
        /\ \A o \in Orders : s.work.order[o] # s.snap.order[o] =>
                /\ s.snap.order[o] = Absent <=> db.order[o] = Absent
                /\ db.order[o] = Deleted => s.work.order[o] = Deleted
        /\ \A o \in orders : merged.order[o].attachedTo \in orders \cup {NoOrder}
        /\ \A p \in Payments : merged.payment[p] # Absent =>
                merged.payment[p].orders \subseteq orders

Commit(w) ==
    /\ session[w] # Idle /\ session[w].pc = "ready"
    /\ Flushable(session[w])
    /\ \A c \in Customers : Len(ledger[c]) + Len(session[w].rows[c]) <= MaxRows
    /\ db' = Merge(session[w])
    /\ ledger' = [c \in Customers |-> ledger[c] \o session[w].rows[c]]
    /\ session' = [session EXCEPT ![w] = Idle]

\* An exception, a lost connection, a lock timeout, a deadlock or a crash.
Rollback(w) ==
    /\ session[w] # Idle
    /\ session' = [session EXCEPT ![w] = Idle]
    /\ UNCHANGED <<db, ledger>>

-----------------------------------------------------------------------------
\* Payments.

\* Mutant: an approved payment may be approved again.
CanSetStatusAgain(payment, status) ==
    status = "approved" => payment.received # 0

\* Payment.set_status raises PaymentStatusTransitionError or
\* PaymentNoReceivedAmountException otherwise.
CanSetStatus(payment, status) ==
    status = "approved" => payment.status \in {"pending", "rejected"} /\ payment.received # 0

\* Mutant: the orders get the payment's status.
UpdateOrdersToApproved(s, orders) ==
    WriteOrders(s, [o \in Orders |->
        IF o \in orders /\ s.work.order[o].status = "pending"
        THEN [s.work.order[o] EXCEPT !.status = "approved"]
        ELSE s.work.order[o]])

\* The pending orders of an approved payment can be paid.
UpdateOrders(s, orders) ==
    WriteOrders(s, [o \in Orders |->
        IF o \in orders /\ s.work.order[o].status = "pending"
        THEN [s.work.order[o] EXCEPT !.status = "can_be_paid"]
        ELSE s.work.order[o]])

\* Mutant: only the orders that the amount covers are released.
AddPaymentIfCovered(s, p, payment) ==
    UpdateOrders(Transaction(s, payment.user, payment.received, "payment", p),
        {o \in payment.orders : s.work.order[o].total <= payment.received})

AddPayment(s, p, payment) ==
    UpdateOrders(Transaction(s, payment.user, payment.received, "payment", p), payment.orders)

RevertPayment(s, p, payment) ==
    Transaction(s, payment.user, -payment.received, "revert", p)

\* Payment.set_status on the payment as the request sees it.
SetPaymentStatus(s, p, payment, status) ==
    WritePayment(CASE status = "approved" -> AddPayment(s, p, payment)
                   [] status = "rejected" /\ payment.status = "approved" -> RevertPayment(s, p, payment)
                   [] OTHER -> s,
                 p, [payment EXCEPT !.status = status])

user_create_payment(w, p, user, sent, orders) ==
    /\ db.payment[p] = Absent
    /\ Request(w, WritePayment(Begin, p,
            [status |-> "pending", user |-> user, sent |-> sent, received |-> 0,
             orders |-> orders]))

user_delete_payment(w, p) ==
    /\ Exists(p)
    /\ db.payment[p].status # "approved"
    /\ Request(w, WritePayment(Begin, p, [db.payment[p] EXCEPT !.status = "cancelled"]))

admin_set_payment_status(w, p, status) ==
    /\ Exists(p)
    /\ CanSetStatus(db.payment[p], status)
    /\ Request(w, SetPaymentStatus(Begin, p, db.payment[p], status))

\* The edit form: it is open in every status, and an empty order list is ignored.
admin_edit_payment(w, p, user, sent, received, orders) ==
    /\ Exists(p)
    /\ Request(w, WritePayment(Begin, p,
            [db.payment[p] EXCEPT !.user = user, !.sent = sent, !.received = received,
                                  !.orders = IF orders = {} THEN @ ELSE orders]))

\* Stripe's webhook. It may be delivered more than once.
handle_checkout_complete(w, p) ==
    LET payment == [db.payment[p] EXCEPT !.received = db.payment[p].sent]
    IN  /\ Exists(p)
        /\ db.payment[p].status = "pending"
        /\ CanSetStatus(payment, "approved")
        /\ Request(w, SetPaymentStatus(Begin, p, payment, "approved"))

\* PayPal's capture, which says what was received net of the fee.
approve_payment(w, p, net_amount) ==
    LET payment == [db.payment[p] EXCEPT !.received = net_amount]
    IN  /\ Exists(p)
        /\ db.payment[p].status # "approved"
        /\ CanSetStatus(payment, "approved")
        /\ Request(w, SetPaymentStatus(Begin, p, payment, "approved"))

admin_save_transaction(w, c, amount) ==
    Request(w, Transaction(Begin, c, amount, "manual", NoOrder))

-----------------------------------------------------------------------------
\* Orders.

\* Order.attach_orders: the given orders replace those attached so far.
Attach(table, o, orders) ==
    [x \in Orders |->
        IF table[x] \in NoRow THEN table[x]
        ELSE [table[x] EXCEPT !.attachedTo =
                IF x \in orders THEN o ELSE IF @ = o THEN NoOrder ELSE @]]

\* The ORM clears attached_order_id of the orders attached to a deleted one.
Remove(table, o) == [Attach(table, o, {}) EXCEPT ![o] = Deleted]

\* ... and deletes its rows in payments_orders.
RemoveOrder(s, o) ==
    WritePayments(WriteOrders(s, Remove(s.work.order, o)),
        [p \in Payments |->
            IF s.work.payment[p] = Absent THEN s.work.payment[p]
            ELSE [s.work.payment[p] EXCEPT !.orders = @ \ {o}]])

NewOrder(s, o, user, status, total, products, orders) ==
    WriteOrders(s, Attach([s.work.order EXCEPT ![o] =
        [status |-> status, user |-> user, total |-> total,
         unfinished |-> products, attachedTo |-> NoOrder]], o, orders))

\* The handler may go on to create the purchase orders, so that the new order
\* may be left in can_be_paid or in po_created.
CreatedStatus == {"pending", "can_be_paid", "po_created"}

user_create_order(w, o, user, status, total, products, orders) ==
    /\ db.order[o] = Absent
    /\ status \in CreatedStatus \cup {"draft"}
    /\ Request(w, NewOrder(Begin, o, user, status, total, products, orders))

\* user_save_order of a draft that is no longer one: the draft is deleted and
\* an order is created in its place, for the user who saves it.
user_submit_draft(w, draft, o, user, status, total, products, orders) ==
    /\ draft \in ExistingOrders(db) /\ db.order[draft].status = "draft"
    /\ db.order[o] = Absent
    /\ status \in CreatedStatus
    /\ Request(w, NewOrder(RemoveOrder(Begin, draft), o, user, status, total, products,
                           orders \ {draft}))

\* user_save_order otherwise: a draft by its user, any order by an administrator.
user_save_order(w, o, total, products, orders) ==
    /\ o \in ExistingOrders(db)
    /\ Request(w, WriteOrders(Begin,
            Attach([db.order EXCEPT ![o].total = total, ![o].unfinished = products], o, orders)))

user_delete_order(w, o) ==
    /\ o \in ExistingOrders(db) /\ db.order[o].status = "draft"
    /\ Request(w, RemoveOrder(Begin, o))

\* Only the orders of no invoice are deleted; invoices are not modelled here.
admin_delete_order(w, o) ==
    /\ o \in ExistingOrders(db)
    /\ db.order[o].status \notin {"po_created", "shipped"}
    /\ Request(w, RemoveOrder(Begin, o))

\* An order product becomes purchased, unavailable or one of the other
\* statuses. Only set_status to unavailable recomputes the order's total.
admin_set_order_product_status(w, o, product, status, total) ==
    /\ o \in ExistingOrders(db)
    /\ Request(w, WriteOrder(Begin, o,
            [db.order[o] EXCEPT
                !.unfinished = IF status = "pending" THEN @ \cup {product} ELSE @ \ {product},
                !.total = IF status = "unavailable" THEN total ELSE @]))

\* admin_save_order_product and user_delete_order_product: whatever the order's
\* status, an order product is edited or deleted and the total follows.
change_order_product(w, o, products, total) ==
    /\ o \in ExistingOrders(db)
    /\ \E product \in Products :
           products \in {db.order[o].unfinished \cup {product}, db.order[o].unfinished \ {product}}
    /\ Request(w, WriteOrder(Begin, o, [db.order[o] EXCEPT !.total = total,
                                                           !.unfinished = products]))

\* OrderProduct.postpone: the product moves to a pending order of the same
\* user that waits for postponed products, or to a new one.
postpone_order_product(w, o, product, q, total, q_total) ==
    LET source == [db.order[o] EXCEPT !.unfinished = @ \ {product}, !.total = total]
        waiting == IF q = o THEN source
                   ELSE IF db.order[q] # Absent THEN db.order[q]
                   ELSE [source EXCEPT !.status = "pending", !.unfinished = {},
                                       !.attachedTo = NoOrder]
    IN  /\ o \in ExistingOrders(db) /\ db.order[q] # Deleted
        /\ waiting.user = db.order[o].user
        /\ waiting.status \in {"pending", "can_be_paid"}
        /\ Request(w, WriteOrder(WriteOrder(Begin, o, source),
                q, [waiting EXCEPT !.unfinished = @ \cup {product}, !.total = q_total]))

\* Printing an EMS label assigns the status and leaves everything else out.
admin_print_label(w, o) ==
    /\ o \in EmsOrders \cap ExistingOrders(db)
    /\ Request(w, WriteOrder(Begin, o, [db.order[o] EXCEPT !.status = "shipped"]))

\* Order.to_dict recomputes an undefined total, and commits, in a GET request.
to_dict(w, o, total) ==
    /\ o \in ExistingOrders(db) /\ db.order[o].total = 0
    /\ Request(w, WriteOrder(Begin, o, [db.order[o] EXCEPT !.total = total]))

-----------------------------------------------------------------------------
\* Shipping: Order.set_status('shipped') charges the attached orders, each in
\* the same way, and then the order itself.

Top(s) == s.stack[Len(s.stack)]
OnStack(s) == {s.stack[i].order : i \in 1..Len(s.stack)}

\* Mutant: the orders attached to it are left out.
EnterAlone(s, o) ==
    [s EXCEPT !.pc = "shipping", !.stack = Append(@, [order |-> o, todo |-> {}])]

\* Mutant: the order is charged before its attached orders, too.
EnterCharging(s, o) ==
    LET order == s.work.order[o]
    IN  [Transaction(s, order.user, -order.total, "order", o) EXCEPT
            !.pc = "shipping",
            !.stack = Append(@, [order |-> o, todo |-> Attached(s.work, o)])]

\* A call of set_status begins; it has found no unfinished product.
Enter(s, o) ==
    [s EXCEPT !.pc = "shipping",
              !.stack = Append(@, [order |-> o, todo |-> Attached(s.work, o)])]

\* Mutant: the status is assigned, as printing an EMS label does.
AssignStatus(w, o, status, total) ==
    /\ o \in ExistingOrders(db)
    /\ Request(w, WriteOrder(Begin, o, [db.order[o] EXCEPT !.status = status, !.total = total]))

\* admin_save_order: a status equal to the current one is dropped from the
\* payload, and the boxes or the weight may have changed the total.
admin_save_order(w, o, status, total) ==
    LET s == WriteOrder(Begin, o, [db.order[o] EXCEPT !.total = total])
    IN  /\ o \in ExistingOrders(db)
        /\ \/ /\ status = db.order[o].status
              /\ Request(w, s)
           \/ /\ status \notin {db.order[o].status, "shipped"}
              /\ Request(w, WriteOrder(s, o, [s.work.order[o] EXCEPT !.status = status]))
           \/ /\ status = "shipped" /\ db.order[o].status # "shipped"
              /\ db.order[o].unfinished = {}
              /\ Request(w, Enter(s, o))

\* The next attached order is shipped first.
ship_attached(w, x) ==
    LET s == session[w]
    IN  /\ s # Idle /\ s.pc = "shipping"
        /\ x \in Top(s).todo \ OnStack(s)
        /\ s.work.order[x].unfinished = {}
        /\ session' = [session EXCEPT ![w] =
                Enter([s EXCEPT !.stack[Len(s.stack)].todo = @ \ {x}], x)]
        /\ UNCHANGED <<db, ledger>>

\* It has unfinished products (UnfinishedOrderError), or its call is already
\* under way and the recursion has no end (RecursionError).
ship_attached_fails(w, x) ==
    LET s == session[w]
    IN  /\ s # Idle /\ s.pc = "shipping"
        /\ x \in Top(s).todo
        /\ x \in OnStack(s) \/ s.work.order[x].unfinished # {}
        /\ session' = [session EXCEPT ![w] = Idle]
        /\ UNCHANGED <<db, ledger>>

\* All attached orders are shipped: Order.__pay, the status, and the return.
pay(w, total) ==
    LET s == session[w]
        o == Top(s).order
        order == s.work.order[o]
        charged == Transaction(s, order.user, -total, "order", o)
        shipped == WriteOrder(charged, o, [order EXCEPT !.status = "shipped", !.total = total])
    IN  /\ s # Idle /\ s.pc = "shipping"
        /\ Top(s).todo = {}
        /\ order.total # 0 => total = order.total
        /\ session' = [session EXCEPT ![w] =
                [shipped EXCEPT !.stack = SubSeq(@, 1, Len(@) - 1),
                                !.pc = IF Len(s.stack) = 1 THEN "ready" ELSE "shipping"]]
        /\ UNCHANGED <<db, ledger>>

-----------------------------------------------------------------------------

Init == /\ db = [balance |-> [c \in Customers |-> 0],
                 payment |-> [p \in Payments |-> Absent],
                 order   |-> [o \in Orders |-> Absent]]
        /\ ledger = [c \in Customers |-> <<>>]
        /\ session = [w \in Workers |-> Idle]

PaymentRequest(w) ==
    \E p \in Payments :
        \/ \E user \in Customers, sent \in Amounts, orders \in SUBSET ExistingOrders(db) :
               \/ user_create_payment(w, p, user, sent, orders)
               \/ \E received \in Amounts : admin_edit_payment(w, p, user, sent, received, orders)
        \/ user_delete_payment(w, p)
        \/ \E status \in AdminPaymentStatuses : admin_set_payment_status(w, p, status)
        \/ handle_checkout_complete(w, p)
        \/ \E net_amount \in Amounts : approve_payment(w, p, net_amount)

TransactionRequest(w) ==
    \E c \in Customers, amount \in ManualAmounts : admin_save_transaction(w, c, amount)

OrderRequest(w) ==
    \E o \in Orders, total \in Totals :
        \/ \E products \in SUBSET Products, orders \in SUBSET ExistingOrders(db) :
               \/ \E user \in Customers, status \in CreatedStatus \cup {"draft"} :
                      \/ user_create_order(w, o, user, status, total, products, orders)
                      \/ \E draft \in ExistingOrders(db) :
                             user_submit_draft(w, draft, o, user, status, total, products, orders)
               \/ user_save_order(w, o, total, products, orders)
        \/ user_delete_order(w, o)
        \/ admin_delete_order(w, o)
        \/ \E status \in AdminOrderStatuses \cup {db.order[o].status} :
               admin_save_order(w, o, status, total)
        \/ admin_print_label(w, o)
        \/ to_dict(w, o, total)

OrderProductRequest(w) ==
    \E o \in Orders, total \in Totals, product \in Products :
        \/ \E status \in {"pending", "unavailable", "purchased"} :
               admin_set_order_product_status(w, o, product, status, total)
        \/ \E products \in SUBSET Products : change_order_product(w, o, products, total)
        \/ \E q \in Orders, q_total \in Totals :
               postpone_order_product(w, o, product, q, total, q_total)

Shipping(w) ==
    \/ \E x \in Orders : ship_attached(w, x) \/ ship_attached_fails(w, x)
    \/ \E total \in Totals : pay(w, total)

Next == \E w \in Workers :
    \/ /\ session[w] = Idle
       /\ \/ PaymentRequest(w)
          \/ TransactionRequest(w)
          \/ OrderRequest(w)
          \/ OrderProductRequest(w)
    \/ Shipping(w)
    \/ Commit(w)
    \/ Rollback(w)

Spec == Init /\ [][Next]_vars

-----------------------------------------------------------------------------
\* Properties.

\* The tables, the statements and the open sessions hold what their columns allow.
TypeOK ==
    /\ db \in Database
    /\ ledger \in [Customers -> Seq(TransactionRow)]
    /\ session \in [Workers -> {Idle} \cup Session]

\* The rows of a kind that belong to a payment or an order, over all statements.
RowsOf(kind, of) ==
    {r \in Customers \X (1..MaxRows) :
        /\ r[2] <= Len(ledger[r[1]])
        /\ ledger[r[1]][r[2]].kind = kind /\ ledger[r[1]][r[2]].of = of}
Booked(kind, of) == Cardinality(RowsOf(kind, of))

\* The last row that moved money shows the customer's balance, however many
\* requests write at the same time: Transaction.customer_balance and
\* User.balance are written by the same commit.
StatementEndsInBalance == \A c \in Customers : EndsIn(ledger[c], 0, db.balance[c])

\* When requests are served one at a time, every row of a statement shows the
\* balance of the row before it plus its amount, and the balance is the last one.
StatementChains ==
    \A c \in Customers : /\ Chained(ledger[c], 0)
                         /\ db.balance[c] = EndOf(ledger[c], 0)

\* ... which is what the abstract statement promises.
AsStatement == INSTANCE Statement WITH balance <- db.balance, statement <- ledger
ImplementsStatement == AsStatement!Spec

\* When requests are served one at a time and administrators only approve and
\* reject, the money of a payment is on the account exactly while it is
\* approved, whatever the order of approvals, rejections, cancellations,
\* edits, webhooks and captures.
ApprovedIsCredited ==
    \A p \in Payments : Exists(p) =>
        Booked("payment", p) - Booked("revert", p)
            = (IF db.payment[p].status = "approved" THEN 1 ELSE 0)

\* An approval leaves none of the payment's orders waiting for the payment
\* (Payment.update_orders).
ApprovalReleasesOrders ==
    [][\A p \in Payments :
          /\ Exists(p) /\ db.payment[p].status # "approved"
          /\ db'.payment[p].status = "approved"
          => \A o \in db'.payment[p].orders : db'.order[o].status # "pending"]_vars

\* An order is charged only together with all the orders attached to it, only
\* when it has no unfinished product, and is shipped then.
Charged(o) == Booked("order", o)' > Booked("order", o)
ShipmentIsWhole ==
    [][\A o \in Orders : Charged(o) =>
          /\ db.order[o].unfinished = {}
          /\ db'.order[o].status = "shipped"
          /\ \A x \in Attached(db, o) : Charged(x)]_vars

\* No shipment charges an order twice, also when the orders were attached to
\* each other in a circle.
ShipmentChargesOnce ==
    [][\A o \in Orders : Booked("order", o)' <= Booked("order", o) + 1]_vars

\* A shipped order has been charged to its customer, unless EMS ships it.
HasBeenCharged(o) ==
    \E i \in 1..Len(ledger[db.order[o].user]) :
        /\ ledger[db.order[o].user][i].kind = "order"
        /\ ledger[db.order[o].user][i].of = o
ShippedIsCharged ==
    \A o \in ExistingOrders(db) \ EmsOrders :
        db.order[o].status = "shipped" => HasBeenCharged(o)

\* Order.set_status says of 'shipped' that it deducts points from the user's
\* balance. Printing an EMS label ships the order without that.
EveryShippedIsCharged ==
    \A o \in ExistingOrders(db) : db.order[o].status = "shipped" => HasBeenCharged(o)

\* Shipping an order twice does not charge it twice. It does when the order is
\* attached to another one that is shipped after it.
OrderChargedOnce == \A o \in Orders : Booked("order", o) <= 1

\* An approved payment is not approved again. Two requests that both saw it
\* pending approve it twice.
CreditedOnce == \A p \in Payments : Booked("payment", p) - Booked("revert", p) <= 1

\* The revert of a payment takes back what the payment gave. It takes what the
\* payment says now, from the customer it names now.
RevertUndoesCredit ==
    \A c \in Customers : \A i \in 1..Len(ledger[c]) :
        ledger[c][i].kind = "revert" =>
            \E k \in 1..(i - 1) : /\ ledger[c][k].kind = "payment"
                                  /\ ledger[c][k].of = ledger[c][i].of
                                  /\ ledger[c][k].amount = -ledger[c][i].amount

=============================================================================
