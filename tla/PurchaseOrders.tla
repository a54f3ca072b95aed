--------------------------- MODULE PurchaseOrders ---------------------------
(***************************************************************************)
(* Purchase orders: an order is split into purchase orders, one for every  *)
(* suborder, and a celery worker orders each of them at the vendor's site  *)
(* through a browser and later polls what has become of it.                *)
(*                                                                         *)
(* A job holds what it has read for as long as the browser works, and      *)
(* administrators change the same rows meanwhile.  Their requests are      *)
(* answered at once and are one action each; a job is an action per        *)
(* transaction and per thing that happens at the vendor.  The worker has   *)
(* one process, so that there is at most one job.  Celery acknowledges a   *)
(* task before it runs: a worker that dies loses it.                       *)
(***************************************************************************)
EXTENDS Naturals, Sequences, FiniteSets

CONSTANTS
    POs,               \* the purchase orders that ever exist, one per suborder
    Orders,
    OrderOf,           \* the order of a purchase order
    Products,          \* product lines of a suborder that are not unavailable
    Exempt,            \* those that are not to be purchased, or have no quantity
    Retries,           \* AtomyQuick._retries
    EditedStatuses,    \* statuses an administrator sets by hand
    Reposted,          \* the purchase orders that an administrator may repost
    Recreated,         \* the orders whose purchase orders may be created again
    Faults,            \* what may go wrong
    MaxVendorOrders,   \* bound: orders placed at the vendor
    MaxTasks,          \* bound: tasks in the queue
    All                \* a task's po_id is None

PurchaseOrderStatus == {"pending", "partially_posted", "posted", "paid", "payment_past_due",
                        "shipped", "delivered", "failed", "cancelled"}

ASSUME PurchaseOrdersAssumption ==
    /\ OrderOf \in [POs -> Orders]
    /\ Exempt \subseteq Products
    /\ Retries \in Nat
    /\ EditedStatuses \subseteq PurchaseOrderStatus
    /\ Reposted \subseteq POs
    /\ Recreated \subseteq Orders
    /\ Faults \subseteq {"crash", "lost_answer", "broken_page"}
    /\ MaxVendorOrders \in Nat
    /\ MaxTasks \in Nat
    /\ All \notin POs

VARIABLES
    po,        \* the table purchase_orders
    bought,    \* the order products in status purchased, per suborder
    tasks,     \* the celery queue
    job,       \* the job that the celery worker runs
    vendor     \* the orders placed at the vendor, oldest first

vars == <<po, bought, tasks, job, vendor>>

Absent == [status |-> "absent", vendorId |-> 0]
PORow == [status: PurchaseOrderStatus, vendorId: 0..MaxVendorOrders]   \* 0: NULL
VendorOrder == [po: POs, products: SUBSET Products, status: PurchaseOrderStatus]
Task == [job: {"post", "update"}, po: POs \cup {All}]

Existing == {p \in POs : po[p] # Absent}
Covers(target, p) == target \in {All, p}

\* What a transaction writes into a column: only what it has changed.
Written(read, new, current) == IF new = read THEN current ELSE new

-----------------------------------------------------------------------------
\* The job's state.  seen: the rows as the job's transaction read them.

Idle == [pc |-> "idle"]

PostingJob == [pc: {"next", "calling", "returned", "broken"},
               target: POs \cup {All},
               batch: SUBSET POs,               \* not yet posted
               current: POs,
               retries: 0..Retries,
               placed: 0..MaxVendorOrders,      \* 0: nothing was ordered
               seen: [POs -> PORow \cup {Absent}]]

UpdatingJob == [pc: {"updating"},
                batch: SUBSET POs,
                seen: [POs -> PORow \cup {Absent}],
                status: [POs -> PurchaseOrderStatus \cup {"absent"}]]

Init ==
    /\ po = [p \in POs |-> Absent]
    /\ bought = [p \in POs |-> {}]
    /\ tasks = <<>>
    /\ job = Idle
    /\ vendor = <<>>

-----------------------------------------------------------------------------
\* The queue.

Enqueue(name, target) ==
    /\ Len(tasks) < MaxTasks
    /\ tasks' = Append(tasks, [job |-> name, po |-> target])

\* apply_async fails, after the request has committed.
NotEnqueued == UNCHANGED tasks

\* The beat: post_purchase_orders every day, the status update every two hours.
PostingTime == Enqueue("post", All) /\ UNCHANGED <<po, bought, job, vendor>>
UpdateTime == Enqueue("update", All) /\ UNCHANGED <<po, bought, job, vendor>>

-----------------------------------------------------------------------------
\* Requests of the administrator.

create_purchase_orders(o) ==
    LET created == {p \in POs : OrderOf[p] = o}
    IN  /\ created \cap Existing = {} \/ o \in Recreated
        /\ po' = [p \in POs |-> IF p \in created
                                THEN [status |-> "pending", vendorId |-> 0] ELSE po[p]]
        /\ Enqueue("post", All) \/ NotEnqueued
        /\ UNCHANGED <<bought, job, vendor>>

\* Mutant: the vendor's number stays.
ResetKeepingNumber(row) == [row EXCEPT !.status = "pending"]

reset_status(row) == [row EXCEPT !.status = "pending", !.vendorId = 0]

\* Any purchase order, whatever its status.
repost(p) ==
    /\ p \in Existing \cap Reposted
    /\ po' = [po EXCEPT ![p] = reset_status(@)]
    /\ Enqueue("post", p) \/ NotEnqueued
    /\ UNCHANGED <<bought, job, vendor>>

request_status_update(p) ==
    /\ p \in Existing
    /\ Enqueue("update", p)
    /\ UNCHANGED <<po, bought, job, vendor>>

is_editable(row) == row.status \in {"posted", "pending", "failed", "payment_past_due", "cancelled"}

edit(p, status) ==
    /\ is_editable(po[p])
    /\ po' = [po EXCEPT ![p].status = status]
    /\ UNCHANGED <<bought, tasks, job, vendor>>

-----------------------------------------------------------------------------
\* post_purchase_orders.  A commit expires what the session has read, so that
\* the rows are read again before the next purchase order is posted.  The list
\* of the purchase orders is read once, and a status is not looked at again.

Call(p, target, batch, retries) ==
    job' = [pc |-> "calling", target |-> target, batch |-> batch, current |-> p,
            retries |-> retries, placed |-> 0, seen |-> po]

\* Mutant: the filter on the id is applied when there is no id, too.
ToPostById(target) == {p \in Existing : po[p].status = "pending" /\ p = target}

ToPost(target) == {p \in Existing : po[p].status = "pending" /\ Covers(target, p)}

StartPosting ==
    /\ job = Idle
    /\ tasks # <<>> /\ Head(tasks).job = "post"
    /\ LET target == Head(tasks).po
       IN  \/ ToPost(target) = {} /\ UNCHANGED job
           \/ \E p \in ToPost(target) : Call(p, target, ToPost(target), Retries)
    /\ tasks' = Tail(tasks)
    /\ UNCHANGED <<po, bought, vendor>>

PostNext ==
    /\ job.pc = "next"
    /\ \E p \in job.batch : Call(p, job.target, job.batch, job.retries)
    /\ UNCHANGED <<po, bought, tasks, vendor>>

\* The commit that ends one purchase order.
Settle(row) ==
    LET rest == job.batch \ {job.current}
    IN  /\ po' = [po EXCEPT ![job.current] = row]
        /\ job' = IF rest = {} THEN Idle ELSE [job EXCEPT !.pc = "next", !.batch = rest]

\* Mutant: what could not be ordered is not looked at.
PostedIfAny(products) == IF products # {} THEN "posted" ELSE "failed"

\* Mutant: the status of the order products is given to the purchase order.
PostedAsPurchased(products) == IF products = Products THEN "purchased" ELSE "failed"

\* The status of a purchase order by its products that are purchased.
PostedStatus(products) ==
    IF products = Products THEN "posted"
    ELSE IF products # {} THEN "partially_posted"
    ELSE "failed"

\* AtomyLoginError or PurchaseOrderError: bad credentials, a date that has
\* passed, nothing available, an error message of the site, no retries left.
VendorRefuses ==
    /\ job.pc = "calling"
    /\ Settle([po[job.current] EXCEPT !.status =
                    Written(job.seen[job.current].status, "failed", @)])
    /\ UNCHANGED <<bought, tasks, vendor>>

\* A PurchaseOrderError that asks for a retry.  The retries are the job's.
VendorRetries ==
    /\ job.pc = "calling" /\ job.retries > 0
    /\ job' = [job EXCEPT !.retries = @ - 1]
    /\ UNCHANGED <<po, bought, tasks, vendor>>

\* The purchase date lies ahead: post_purchase_order returns without posting.
SkipNotYetDue ==
    /\ job.pc = "calling"
    /\ job' = [job EXCEPT !.pc = "returned"]
    /\ UNCHANGED <<po, bought, tasks, vendor>>

\* The site places an order for what it could add to the cart.  An answer that
\* does not come is an exception that post_purchase_orders does not expect.
PlaceOrder(products) ==
    /\ job.pc = "calling"
    /\ products # {}
    /\ Len(vendor) < MaxVendorOrders
    /\ vendor' = Append(vendor, [po |-> job.current, products |-> products, status |-> "posted"])
    /\ \/ job' = [job EXCEPT !.pc = "returned", !.placed = Len(vendor) + 1]
       \/ "lost_answer" \in Faults /\ job' = [job EXCEPT !.pc = "broken"]
    /\ UNCHANGED <<po, bought, tasks>>

BreakPage ==
    /\ "broken_page" \in Faults
    /\ job.pc = "calling"
    /\ job' = [job EXCEPT !.pc = "broken"]
    /\ UNCHANGED <<po, bought, tasks, vendor>>

\* Mutant: the number is kept of complete orders only.
NumberOfWhole(p, products) ==
    IF job.placed = 0 \/ products # Products THEN po[p].vendorId ELSE job.placed

VendorNumber(p, products) == IF job.placed = 0 THEN po[p].vendorId ELSE job.placed

RecordPosting ==
    /\ job.pc = "returned"
    /\ LET p == job.current
           ordered == IF job.placed = 0 THEN {} ELSE vendor[job.placed].products
           products == bought[p] \cup ordered
       IN  /\ Settle([status |-> Written(job.seen[p].status, PostedStatus(products), po[p].status),
                      vendorId |-> VendorNumber(p, ordered)])
           /\ bought' = [bought EXCEPT ![p] = products]
    /\ UNCHANGED <<tasks, vendor>>

\* The handler around the whole job, in the transaction of the broken posting.
MarkPendingFailed ==
    /\ job.pc = "broken"
    /\ po' = [p \in POs |->
                IF job.seen[p].status = "pending" /\ Covers(job.target, p)
                THEN [po[p] EXCEPT !.status = "failed"] ELSE po[p]]
    /\ job' = Idle
    /\ UNCHANGED <<bought, tasks, vendor>>

\* What the transaction has written is rolled back, the task is gone.
Crash ==
    /\ "crash" \in Faults
    /\ job # Idle
    /\ job' = Idle
    /\ UNCHANGED <<po, bought, tasks, vendor>>

-----------------------------------------------------------------------------
\* update_purchase_orders_status.

Settled == {"cancelled", "failed", "payment_past_due", "shipped", "delivered"}

\* recent: the purchase orders of the last week.
ToUpdate(target, recent) ==
    IF target = All THEN {p \in recent : po[p].status \notin Settled} ELSE {target}

StartUpdating ==
    /\ job = Idle
    /\ tasks # <<>> /\ Head(tasks).job = "update"
    /\ \E recent \in SUBSET Existing :
          job' = [pc |-> "updating", batch |-> ToUpdate(Head(tasks).po, recent), seen |-> po,
                  status |-> [p \in POs |-> po[p].status]]
    /\ tasks' = Tail(tasks)
    /\ UNCHANGED <<po, bought, vendor>>

\* Mutant: an order of the vendor is recognised by the receiver's name.
MatchesReceiver(p, n) == vendor[n].po = p

Matches(p, n) == job.seen[p].vendorId = n

\* The page lists an order.  One that it does not list, or that comes after one
\* with an unknown status, or whose customer cannot log in, is left alone.
UpdateStatus(p, n) ==
    /\ job.pc = "updating"
    /\ p \in job.batch
    /\ Matches(p, n)
    /\ vendor[n].status \notin {"posted", job.status[p]}
    /\ job' = [job EXCEPT !.status[p] = vendor[n].status]
    /\ UNCHANGED <<po, bought, tasks, vendor>>

CommitUpdate ==
    /\ job.pc = "updating"
    /\ po' = [p \in POs |->
                [po[p] EXCEPT !.status = Written(job.seen[p].status, job.status[p], @)]]
    /\ job' = Idle
    /\ UNCHANGED <<bought, tasks, vendor>>

-----------------------------------------------------------------------------
\* The vendor handles its orders.
VendorSteps == {<<"posted", "paid">>, <<"posted", "payment_past_due">>, <<"posted", "cancelled">>,
                <<"paid", "shipped">>, <<"paid", "cancelled">>, <<"shipped", "delivered">>}

VendorProceeds(n, status) ==
    /\ <<vendor[n].status, status>> \in VendorSteps
    /\ vendor' = [vendor EXCEPT ![n].status = status]
    /\ UNCHANGED <<po, bought, tasks, job>>

-----------------------------------------------------------------------------
Posting ==
    \/ StartPosting
    \/ PostNext
    \/ VendorRefuses
    \/ VendorRetries
    \/ SkipNotYetDue
    \/ \E products \in SUBSET (Products \ Exempt) : PlaceOrder(products)
    \/ BreakPage
    \/ RecordPosting
    \/ MarkPendingFailed

Updating ==
    \/ StartUpdating
    \/ \E p \in POs, n \in 1..Len(vendor) : UpdateStatus(p, n)
    \/ CommitUpdate

Administration ==
    \/ \E o \in Orders : create_purchase_orders(o)
    \/ \E p \in POs : repost(p) \/ request_status_update(p)
    \/ \E p \in POs, status \in EditedStatuses : edit(p, status)

Next ==
    \/ Administration
    \/ PostingTime
    \/ UpdateTime
    \/ Posting
    \/ Updating
    \/ Crash
    \/ \E n \in 1..Len(vendor), status \in PurchaseOrderStatus : VendorProceeds(n, status)

Spec == Init /\ [][Next]_vars

\* The worker works, and the beat is on time: MaxTasks is a bound of the model,
\* so that a full queue must not keep the beat from ever adding a task.
FairSpec == Spec /\ WF_vars(Posting) /\ WF_vars(Updating) /\ SF_vars(PostingTime)

-----------------------------------------------------------------------------
TypeOK ==
    /\ po \in [POs -> PORow \cup {Absent}]
    /\ bought \in [POs -> SUBSET Products]
    /\ tasks \in Seq(Task)
    /\ job \in {Idle} \cup PostingJob \cup UpdatingJob
    /\ vendor \in Seq(VendorOrder)

\* The worker goes to the vendor only for a purchase order that has no number of
\* a vendor's order, so that none is placed over one that the row still names.
OrderedOnce == job.pc = "calling" => po[job.current].vendorId = 0

\* Every order placed at the vendor is named by its purchase order, or the worker
\* is about to record it.
VendorOrdersKnown ==
    \A n \in 1..Len(vendor) :
        \/ po[vendor[n].po].vendorId = n
        \/ job.pc = "returned" /\ job.placed = n

\* A purchase order that says posted was placed with all its products.
PostedIsWhole ==
    \A p \in Existing : po[p].status = "posted" =>
        po[p].vendorId # 0 /\ vendor[po[p].vendorId].products = Products

\* A purchase order is not said to be further than the vendor's order is. (One
\* that is reposted during an update is overwritten, and has no order any more.)
Rank == [s \in PurchaseOrderStatus |->
            CASE s = "paid" -> 1 [] s = "shipped" -> 2 [] s = "delivered" -> 3 [] OTHER -> 0]

StatusFollowsVendor ==
    \A p \in Existing : Rank[po[p].status] > 0 =>
        IF po[p].vendorId = 0
        THEN p \in Reposted \/ OrderOf[p] \in Recreated
        ELSE \/ Rank[po[p].status] <= Rank[vendor[po[p].vendorId].status]
             \/ vendor[po[p].vendorId].status = "cancelled"

\* A pending purchase order is eventually posted or failed, or settled by hand.
PendingIsSettled ==
    \A p \in POs : po[p].status = "pending" ~> po[p].status # "pending"

\* "Run pending POs every day" (jobs.py:24): what the worker goes to the vendor
\* for was pending when the worker read it last.
PostsOnlyPending == job.pc = "calling" => job.seen[job.current].status = "pending"

\* "Skip <%s>: purchase date is %s" (atomy_quick.py:322): a purchase order whose
\* purchase date lies ahead is not failed by the posting that skips it.
SkippedStaysPending ==
    [][\A p \in POs : job.pc = "returned" /\ job.placed = 0 /\ job.current = p
            /\ po[p].status = "pending" => po'[p].status # "failed"]_vars

=============================================================================
