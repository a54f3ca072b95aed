# Verification of the order system

TLA+ models of the order system in this repository, the TLC runs that check them
and the proofs that TLAPS checks. Every definition of a component's module is
read off the code that `PROJECT.json` names for it under `map`; paths below are
relative to `src/`.

## The system

A Flask application (`app/`) sells goods of Korean vendors to customers abroad.
It runs as five synchronous gunicorn workers and one celery worker with its beat
(`app/entrypoint.sh`), all on one MySQL database, one SQLAlchemy session per
request. Around it run a job that posts purchase orders to the vendor's site
(`purchase_order_job/`), a crawler that mirrors the vendor's network of
distributors into a graph database (`network_builder/`, driven by
`network_manager/`), and a shipment service with a database of its own
(`eurocargo_management/`).

| Component | State it keeps | Operations | Talks to | Modules |
|---|---|---|---|---|
| Payments and transactions (`app/payments`) | `payments` (status, amounts, user, orders), `transactions` (rows of a statement), `users.balance` | create, cancel, approve, reject, edit, Stripe webhook, PayPal capture, manual transaction | orders: an approval sets `can_be_paid` | `Accounts`, `RunningBalance`, `Statement` |
| Sale orders (`app/orders`) | `orders` (status, total, attached order), `suborders`, `order_products` | create, drafts, edit, attach, delete, status, product status, postpone, totals | transactions: shipping charges; signals to warehouse and shipping | `Accounts` (statuses, shipping, money), `OrderContents` (products, totals) |
| Purchase orders (`app/purchase`) | `purchase_orders` (status, vendor's number) | split an order into purchase orders, post them (celery), poll their status (beat), edit | vendor clients, warehouse signals | `PurchaseOrders` |
| Vendor clients, purchase order job (`app/purchase/models/vendors`, `purchase_order_job`) | the vendor's session, the page | log in, fill in the form, submit, read the number, poll | the vendor's web site | `QuickOrder`, `Posting` |
| Warehouse (`app/modules/warehouse`) | stock of a product in a warehouse, links of order products and purchase orders | signal handlers, administration | purchase orders, sale orders | `Warehouse` |
| Invoices (`app/invoices`) | `invoices`, their items | create from orders, edit, delete, export | orders | `OrderContents` |
| Shipping rates (`app/shipping`) | methods, tariffs, a cache of answers | what a weight costs, which methods are offered, administration | orders | `ShippingRates`, `ShippingMethods` |
| Carrier clients (`app/shipping/methods/ems`, `fedex`) | a token and a flag in the cache, consignments at the carrier | log in, quote, consign, print | EMS, FedEx | `Consignments` |
| Separate shipping, shipment service (`app/shipping/methods/separate`, `eurocargo_management/backend`) | `shipments`, their payment, invoices, labels, consignments | create over HTTP, choose carrier, pay, consign, track | Revolut, DHL | `Shipments` |
| Network builder (`network_builder`) | nodes of the tree, a list of nodes to visit, worker threads, tokens | crawl, find a parent, repeat | the vendor's API, Neo4j | `TreeCrawler`, `TokenManager` |
| Network manager (`network_manager`) | the containers, cached counts | start, stop, fetch, edit, count | builder, Docker | `NetworkManager` |
| Products and their import (`app/products`, `app/jobs.py`, `product_importer`) | `products` | import every 8 hours, save, delete | the vendor | `Catalogue` |
| Users and subcustomers (`app/users`, `app/orders`) | rows of their own | create (also by an order), delete, edit | orders | `OrderContents` (subcustomers) |
| Packer, PV statistics, notifications, settings, currencies, addresses | tables of their own | create, read, update, delete | | none |

### What is hard

* Requests run concurrently. Each reads a snapshot (InnoDB's REPEATABLE READ),
  decides on what it read, and writes absolute values of the columns it changed:
  checks may be stale when their effect is committed and updates may be lost.
* `Order.set_status('shipped')` recurses over the attached orders, each of which
  may fail after others have been charged.
* Statuses are assigned by many handlers, not all of which go through
  `set_status`.
* Webhooks, captures and vendor calls may be repeated, late, or half done: the
  remote side changes before the local commit.
* The periodic jobs run while administrators edit the same rows.
* The crawler is a pool of threads around one list, with failures, shared tokens
  and termination by "nothing is left to do".
* Calls of carriers and of the shipment service are repeated after a server
  error whether or not they have had their effect, and their answers may be lost.
* A login is shared by all web workers through a cache.
* Containers are asked about, removed and run in separate calls of Docker, each of
  which may fail, and a failure to answer counts as "does not run".
* The product import works for minutes on rows it read at its beginning.

### What makes each component correct

* Payments: an approved payment is on the account once, any other one not at
  all; a revert takes back what was given; every row of a statement shows the
  balance it led to; the last one is the customer's balance.
* Orders: an order is charged when it is shipped, once, with all that is attached
  to it, and only when no product is unfinished; an approval releases its orders.
* Purchase orders: none is ordered over an order that it names, none is left
  pending, and its status follows the vendor's.
* Posting: the vendor gets at most one order per call, what is recorded as
  purchased is what it got, and the caller knows whether there is one.
* Order contents: the stored totals are those of the products, postponing loses
  no product, an invoiced order is not deleted.
* Warehouse: stock is what was delivered minus what was taken, each once.
* Separate shipping and shipment service: a shipped order has its shipments and
  their link; a paid amount is final; a parcel is consigned once; invoice numbers
  have no gaps.
* Carrier clients: an order has the number of its own accepted consignment, and
  nobody waits for a login forever.
* Crawler: nothing above which all went well is missed, every crawl comes to its
  end whatever fails and a repeated build unless pages fail for ever, and turns with
  one token are a cooldown apart.
* Rates: the right row of the table, monotone in weight; a quoted price is the
  current one.
* Catalogue: what was imported is what the vendor told.
* Network manager: a builder that runs is not removed by a later start that was told
  that it runs or did not overlap with another one.

## Modules

### Accounts (payments, transactions, orders)

`Accounts.tla` is the core of the project. State:

| Variable | Code |
|---|---|
| `db.balance` | `User.balance` |
| `db.payment[p]` | a row of `payments`: `status`, `user_id`, `amount_sent_krw`, `amount_received_krw`, the rows of `payments_orders` |
| `db.order[o]` | a row of `orders`: `status`, `user_id`, `total_base_currency`, `attached_order_id`, and `unfinished`, the order products that are neither purchased nor unavailable |
| `ledger[c]` | the customer's rows of `transactions`, in the order of their commits |
| `session[w]` | the SQLAlchemy session of the request that worker `w` is serving: what it read (`snap`), what it has computed (`work`, `rows`) and, while it ships, the recursive calls of `set_status` (`stack`) |

A request is one action that computes its whole effect on the private session
(the action is named after the handler), followed by `Commit` or `Rollback`.
Because a request sees only its snapshot, nothing another request does in
between can change what it computes, so computing it in one action loses no
behaviour. Shipping is the exception by choice: `admin_save_order`,
`ship_attached`, `ship_attached_fails` and `pay` follow the recursion call by
call, so that its failure after a partial charge is a behaviour of the model.

`Commit` writes the columns whose value the request changed, with the value it
computed, over whatever is committed by then (`Merge`); it refuses what the
database refuses (`Flushable`: duplicate keys, rows that have gone, dangling
foreign keys). `Rollback` is enabled at every point: an exception, a deadlock, a
lock timeout, a lost connection or a crash of the worker. Rows of `transactions`
appear in the order of the commits, because the `UPDATE` of the customer's row
precedes the `INSERT` of the transaction in a flush and holds the row's lock.

Abstractions:

* a total is any member of `Totals`: how `Order.update_total` computes it is in
  `OrderContents`;
* order products are names; only whether each is finished matters to shipping;
* the second commit of `user_create_order` (purchase orders are created at once)
  is folded into the status the order is created with;
* `OrderProduct.postpone` looks for an order with the postpone shipping; here any
  pending order of the user may be the one;
* the shipping method of an order does not change: `EmsOrders`;
* what is in an order, and the invoice it may be in, are the subject of
  `OrderContents`.

`RunningBalance.tla` holds the arithmetic of a statement, `Statement.tla` what the
accounts promise a customer: a statement that only grows, in which every row
shows the balance it led to. `Accounts` states that it implements `Statement`
(`AsStatement`, `ImplementsStatement`) with `balance <- db.balance` and
`statement <- ledger`.

### PurchaseOrders (purchase orders, the posting and the polling job, the vendor)

| Variable | Code |
|---|---|
| `po[p]` | a row of `purchase_orders`: `status`, `vendor_po_id` (0 is NULL); `Absent` before it is created |
| `bought[p]` | the order products of the suborder whose status is `purchased` |
| `tasks` | the celery queue: `post_purchase_orders` or `update_purchase_orders_status`, with or without a `po_id` |
| `job` | what the celery worker is doing: the list it has read (`batch`), the purchase order it is at (`current`), the retries that are left, the rows as its transaction has read them (`seen`), what it will write (`status`) |
| `vendor` | the orders at the vendor's site: for whom, which products, how far |

A job takes minutes and an administrator's request a moment, so that a request is
one action (`create_purchase_orders`, `repost`, `request_status_update`, `edit`)
and a job is one action per transaction and per event at the vendor. Posting one
purchase order is `Call` (the refresh after the previous commit), then one of
`VendorRefuses`, `VendorRetries`, `SkipNotYetDue`, `PlaceOrder`, `BreakPage`, then
`RecordPosting` or, after an unexpected exception, `MarkPendingFailed`. `Written`
is SQLAlchemy's rule that a transaction writes only the columns it changed:
assigning the value that was read writes nothing. The worker has one process and
acknowledges a task when it takes it, so that `Crash` loses the task and what was
not committed, and not what the vendor has done.

Abstractions:

* the browser's steps on the vendor's page are the outcomes that
  `AtomyQuick.post_purchase_order` can have, which `QuickOrder` follows step by step; the vendor never orders products
  that are `Exempt` and may leave out any other;
* "created in the last week" is any subset of the purchase orders, and so is what
  the vendor's page lists;
* all purchase orders have the same vendor, with the one vendor object, and so one
  count of retries, that the job makes for it;
* the vendor's number, payment account, customer and vendor edited by hand, and
  the purchase date, are not modelled: a date that has not come is the choice of
  `SkipNotYetDue`;
* the signals to the warehouse are the subject of `Warehouse`.

### QuickOrder and Posting (one call of `post_purchase_order`)

`QuickOrder.tla` follows one call of `post_purchase_order` step by step, in the
celery worker (`app`, `AtomyQuick`) and in the job that runs in a container of
its own (`job`, `purchase_order_job/post_po.py`). The two fill in the same form
in different orders (`AppSteps`, `JobSteps`) and treat failures differently.

| Variable | Code |
|---|---|
| `pos` | the step of the program that comes next |
| `retries`, `tries` | the retries handed on; the attempts made |
| `todo`, `cart`, `ordered`, `separate`, `unavailable`, `combined` | the order products not yet looked at, the page's cart, `ordered_products`, the products delivered separately, `unavailable_products`, the box for combined shipment |
| `addresses` | whether the vendor's customer has the receiver's address, and how often the call added it |
| `placed`, `result` | what the vendor took an order for; what the caller is told |

Every step of the page succeeds or fails in each way the handlers tell apart: a
`PurchaseOrderError`, one that asks for a retry, any other exception.
`Posting.tla` is what the caller may rely on: at most one order at the vendor, and
a true answer unless the call broke; `QuickOrder` implements it (`ContractSpec`)
with `orders <- Len(placed)`. `PurchaseOrders` assumes the same of a call. The
vendor's other client, `AtomyCenter`, cannot post and is not modelled. Waits on
the page that the code does not bound are assumed to end.

### Warehouse

One sale order with a purchase order per suborder. `tx[w].db` is the database a
transaction saw when it began, on which the handlers (`add_product`,
`on_sale_order_shipped`, `on_purchase_order_delivered`, ...) compute as functions;
`Commit` writes the rows they changed. `ledger`, `torn`, `counted`, `again`,
`taken` and `reopened` are histories for the properties: what the committed moves
add up to, the rows written over a value nobody had seen, how often a purchase
order was put into and the sale order taken from a warehouse.

### Shipments (separate shipping and the shipment service)

The application's transaction that ships an order (`client`) posts one request
per box over `net`, which loses, delays and answers too late; the service creates
a shipment, refuses the data or answers a conflict, or fails. `order.valid` says
whether the service takes the data: an order without an e-mail is posted with an empty
one (`separate/signal_handlers.py:82`), which `ShipmentCreate` does not accept
(`schemas/shipment.py:14`); the refusal is logged only, so that the order is shipped
without a shipment. An order keeps its e-mail from one attempt to the next. In the service a request (`tx`) decides
on the rows it loaded and its commit writes the fields it changed (READ
COMMITTED). Customers choose a carrier and get an invoice, administrators change
statuses, labels, tracking numbers and carriers, and order consignments from DHL,
whose answer may be lost (`consigned`). Weights, countries and tables stay the
same, so that a price is a carrier and its multiplier.

### ShippingRates, ShippingMethods

`ShippingRates.tla` has the arithmetic: the row of a table, DHL's rows and its
price per kilogram, cargo, prices by weight, EMS's charges, and the weight of the
box. DHL's rows and rates are fractions in the code: a row of half a kilogram is 500
grams here, and a rate is counted in the smallest unit that its table uses. `DHLTest`
in `MCOrderContents` evaluates `dhl_cost` on the table of the repository's own test
(`tests/shipping/test_dhl.py`). `ShippingMethods.tla` has the shipping methods (`shop`), the cache
(`answers`) and the web workers (`desk`): asking, storing the answer, changing a
tariff, a country or a method, clearing the cache. The cache is one for all
workers; `app/config-default.json:46` configures one per process (`SimpleCache`), in
which case an answer may also be outdated in every process but the one that made
the change. Which products a method carries, FedEx's settings and a method's
discriminator are left out.

### OrderContents (orders, order products, subcustomers, invoices)

A request is one action on `db`: creation with the split into suborders of ten
products, drafts, editing, product statuses and prices, postponement into another
order, deletion, packing and weighing, invoices and subcustomers. `unpriced` is
the history of orders whose products were changed by a handler that leaves the
total behind. Concurrency is the subject of `Accounts` and `Warehouse`. One
customer; orders are not attached to each other here.

### Consignments (EMS and FedEx)

A web worker (`clerk`) runs the steps of a request: consign, print, offer, quote.
Each call asks for the login first: the flag and the token in the cache, one
access at a time. A server error makes curl run again, which repeats the call;
the carrier may have had its effect (`made`). The commit of the number may fail, which
the handler answers as an error (`shipping/routes/api.py:266`), and a web worker may die
anywhere (`WorkerDies`), after the carrier has accepted. `given_up` is the history of
numbers that were lost with an answer, a label, a commit or a worker, or replaced. A worker has one request at
a time. The login loops never wait, because of `and not timeout` (`ems.py`,
`fedex.py`), which `LookAgain` says as the code does it.

### TreeCrawler, TokenManager (network builder)

`TreeCrawler.tla`: the main loop of `crawl` and of `find_parent`, and the worker
threads, between any two reads of what they share: the list and the set of nodes,
the number of threads, the queue of exceptions. The limit is looked at before the wait
for a free thread (`GoesOn`), and not again after it (`Proceeds`). A thread that the
system refuses lowers `max_threads` by `Fewer` where there are `Many` (5 and 10 in the
code). The build is repeated without a bound while a node is out of date: `again` is
only the history of whether it was. The vendor's tree does not change
during a crawl; nodes in the database may have left it. `worker[w].pc` is where a
worker is; `failed` and `refused` are histories of the nodes whose page failed or
that an outage kept everybody from seeing. What a page shows (`Page`) is the vendor's
affair: a node and some levels below it. Which of its nodes are added to the list
(`ToEnqueue`) and which leave the set (`ToDiscard`) are `_get_children` over levels. A
query for nodes gives the first `Batch` of them (100 in the code) by their ids
(`FirstOf`). It asks for what is below the root in the database; the model takes all
that is in the database, also what a deletion above it has cut off.

`TokenManager.tla`: `_ensure_lock`, `get_token`, `invalidate`, `set_cooldown` and
the loop of requests around them. `locks[u]` is a lock object, which two threads
may both make, and which a thread has read before it waits for it (`held`); `holder` is
who has it; `tokens`, `last_used`. What `get_token` returns is read again after the
lock is let go (`atomy_client.py:70`): nothing, if another thread has invalidated the
token, or the token of another thread's login. `handed` is the history of what was
returned of a user: the token, the time of the thread's turn, and whether the token is
the one that the turn was waited for with. `Spaced` is about turns with one token that
were waited for. The docstring speaks of a cooldown of the user, which a new login
does not keep (`UserIsSpaced`, below). `TreeCrawler` takes the outcome of a
request from it: a page, a failure, or an outage.

### NetworkManager

The containers by name (`box`), the requests of the callers (`caller`), one call
of Docker or one query a step: start, stop, fetch a node, save a node, count. Docker
may fail at each call: a check that is not answered counts as "does not run"
(`CheckBuilder`; `answered` is the history of it), a container that has gone when it is
to be removed is no error (`RemoveContainer`), one may be made and not start, and
anything else ends the request (`DockerFails`). Of
the counts only the whole tree's: a filtered count is stored under a key with two
fields and looked up by one with three (`node_repository.py:309`,
`network_manager.py:159`), so that it is never found.

### Catalogue (products and their import)

`import` is the running import: the products it holds, their rows when it had its
answer (`seen`), what the vendor told (`got`). It writes at its end the columns it
found different, over whatever is there; a row that has gone or that is there
already makes the database refuse, and the whole import is lost. The
administrator's requests are one step each, before the import has read a row or
after. A price stands for all columns taken from the vendor.

## Runs

Deadlock is checked unless said otherwise; where it is not, a bound of the
instance lets the model run out of requests, as a shop without customers does.
Every run takes less than four minutes with two workers.

| Run | Instance | Shows |
|---|---|---|
| `payments` | 1 worker, 2 customers, 1 payment, 1 order that may go by EMS, 2 rows per statement | `TypeOK`; `StatementChains`; `ApprovedIsCredited`; `ApprovalReleasesOrders`; `ImplementsStatement` |
| `attachments` | 1 worker, 3 orders attached in every way, 1 product | `ShipmentIsWhole`, `ShipmentChargesOnce` |
| `concurrent_orders` | 2 workers, 1 customer, 1 order, 1 product, manual transactions | `StatementEndsInBalance`, `ShippedIsCharged` |
| `double_credit` | 2 workers, 1 payment | violates `CreditedOnce` |
| `po_posting` | 2 purchase orders of an order, 2 products, 2 vendor's orders, 1 retry, no faults; `FairSpec` | `VendorOrdersKnown`; `PostedIsWhole`; `PendingIsSettled` |
| `po_faults` | 2 purchase orders of two orders, 1 product, 2 vendor's orders, all faults; one may be reposted and created again | `OrderedOnce`; `StatusFollowsVendor` |
| `quick_order` | 4 lines, one not purchased, one with options; 2 retries, 4 attempts; both programs; `FairSpec` | `OrderedIsBought`; `AddressAddedOnce`; `CheapIsCombined`; `ContractSpec`; `Ends` |
| `crawler` | 8 nodes in the tree and one that has left it; pages of 2 levels; queries of 2 nodes; 2 threads, lowered to 1, and 3 that may exist, limit 0 or 6, any number of repetitions; 1 node whose page fails, once or for ever, and 1 that an outage hides; both modes; `FairSpec` | `LimitedWhileCounted`; `NothingLost`; `FoundIsParent`; `Ends` |
| `tokens` | 2 threads, a user and its sponsor, 6 logins, 2 answers that are no page, cooldowns 1 and 2; `FairSpec` | `Spaced`; `AllEnd` |
| `shop` | the union of five parts (below), 2 workers in each | `StockIsKept`, `MovedOnce`, `AtWarehouseWhenAllDelivered`; `NumbersHaveNoGaps`, `ConsignedOnce`, `ShippedIsAnnounced`, `PaidIsFinal`; `AnswersAreCurrent`; `SyncedIsAsTold`; `StartedIsKept` |
| `orders` | 2 products, one of them separate, 2 subcustomers, 2 methods, 2 per suborder, 5 requests, 3 order products, 1 invoice | `SubtotalIsSum`; `WantedIsKept`; `InvoicedIsKept` |
| `consignments` | 2 web workers, one order by EMS and one by FedEx, 2 requests, 2 faults, each call repeated once and tried twice; fair | `ConsignmentsAreKept`; `AllEnd` |

`double_credit` states what a message and a test of the code say, and shows that
the code does otherwise; `PROJECT.json` quotes them under `findings`.

`Shop.tla` is five components that share no state, for any values of their
constants, and `MCShop.tla` their instance for TLC. A behaviour is one of a single
part, chosen at the start, so that its state space is their sum: the
warehouse (2 order products with a purchase order each, 1 warehouse, 3
transactions, 133k states), the shipments (2 boxes, DHL and GLS, 3 requests to the
service, 1 fault, 546k), the methods (by weight, cargo, EMS; 3 questions, 2
changes), the catalogue (2 products, 2 prices, 2 changes, 28k; 3 changes, 322k,
pass alone) and the network manager (2 callers, 1 fetched node, 3 starts, 2 nodes).

### Why the bounds are enough

Two workers are what a race needs: every property is about one row, container,
login or token and the two requests that touch it. Three orders give chains,
stars, pairs in a circle and an order attached to itself. Two rows per statement
hold a credit and its revert, three a double credit. Administrators use the two
buttons of the payments page (`MCApproveReject`); the API would accept any status,
and `approved`, `pending`, `approved` would credit twice: this is a restriction of
the run `payments`, not of the model. The concurrent runs are small because the
sessions multiply; that the last row shows the balance whatever the requests do is
proved for any number of workers (`EndsInBalance`).

Two purchase orders give a batch in which one waits while the other is posted; two
vendor's orders give one purchase order a second one after an unrecorded or an
abandoned first one. Two properties need what their run leaves out.
`VendorOrdersKnown` is false after a crash, a lost answer, a repost or a
recreation, each of which lets go of an order at the vendor; `PostedIsWhole` is
false after a repost, because products bought the first time count. Both are
checked without those, and `OrderedOnce` and `StatusFollowsVendor` say what holds
with them. The administrator of the runs sets only `cancelled` by hand: a purchase
order that is set to `pending` by hand keeps its number and is ordered over it,
which `NotSetByHand` excludes in the theorems.

`quick_order`: four lines are one of each kind, with amounts on both sides of the
limit of free delivery; four attempts are one more than the retries allow, so that
the job is seen to exceed them. `ContractSpec` and `AddressAddedOnce` are proved
for every purchase order and any number of retries.

`crawler`: the database has three nodes and gives two at a time, so that one has to
come with a page or with the next crawl. Below the first page there are two to be read
at once and one below one of them, so that workers append to the list, find the parent,
and end while others run. A limit of 6 is reached by the first pages, while a worker is
out; a third slot lets a worker of a crawl that stopped at its limit live on while the
next starts two more, which is why the count of threads is wrong then and
`LimitedWhileCounted` is restricted to the first crawl or to no limit. `Many` is 2, so
that a thread that cannot be started lowers the two threads to one, as it lowers 60 by 5
again and again in the code. Nothing bounds how often the build is repeated, or how often
the one page that fails does so: the state is finite without. `tokens`: two answers that
are no page are an expiry and a rate limit, or one of each thread; in the code nothing
bounds either, and a vendor that answers nothing else keeps a thread asking for ever.
Two threads that start with one user make every race for its lock; the sponsor is the
user they go on with when a login fails.

`orders`: five requests create an order, postpone from it into another one of the
subcustomer, invoice, edit and delete; the payloads have one suborder that is split
and one product nobody knows; rates, weights and prices lie on both sides of a row
of the table and of the free local delivery.

`shop`: three transactions are two purchase orders and the sale order, in every
order and overlap; three requests are two that race and one that changes what they
read; three starts of the network manager are two that race, or one after a check that
was not answered, and one more. `consignments`: two faults lose a login and an answer,
or two answers, or an answer and a commit.

### Fairness

`PurchaseOrders`: the worker goes on with a job (`WF_vars(Posting)`,
`WF_vars(Updating)`: the browser's waits time out, and a time-out is one of the
outcomes) and the beat adds its daily task (`SF_vars(PostingTime)`: strong only
because `MaxTasks` makes the queue full, which the broker's queue never is).
Nothing is assumed of the administrator, of the vendor's handling of orders or of
the enqueueing after a request. Crashes are left out of `po_posting`: a worker
that dies in every posting settles nothing.

`QuickOrder`: `WF_vars(Next)`, the program runs on and the page answers or times
out. `TreeCrawler`: the scheduler runs the main loop and every worker (weak
fairness); a thread is started again and again refused only while none is to be
had (`SF_vars(StartWorker)`). Nothing is assumed of the pages: the build, which
`--repeat` (always given by the network manager, `network_manager.py:107`) repeats while
a node is out of date, does not end while a page goes on failing or coming back empty
(`build_network.py:104`), nor while each crawl stops before it has read the exception
about a node that nobody may see. `Ends` says that a crawl always ends, and the build
too except for these two. `TokenManager`: weak fairness of the clock and of
each thread; a released lock is taken by some thread, and no fairness among those
that wait is assumed. `Consignments`: weak fairness of each web worker's request;
none of new requests, of expiry, or of one step of it over another.

No liveness is stated for `Accounts`, `Warehouse`, `OrderContents`, `Shipments`,
`ShippingMethods`, `Catalogue` and `NetworkManager`: a request is answered or
fails, nothing retries it, and nothing is promised to happen eventually.

## Proofs

| Module | Theorem | States |
|---|---|---|
| `AccountsProofs` | `TypeCorrect` | `Spec => []TypeOK` |
| | `EndsInBalance` | `Spec => []StatementEndsInBalance`, for any number of workers |
| | `SerialStatementChains` | `Spec => []StatementChains`, if there is one worker |
| | `SerialImplementsStatement` | `Spec => AsStatement!Spec`, if there is one worker |
| | `ShippedAreCharged` | `Spec => []ShippedIsCharged`, for any number of workers |
| | `ShipmentsChargeOnce` | `Spec => ShipmentChargesOnce`, for any number of workers |
| | `SerialShipmentIsWhole` | `Spec => ShipmentIsWhole`, if there is one worker |
| | `SerialApprovalReleases` | `Spec => ApprovalReleasesOrders`, if there is one worker |
| | `SerialApprovedIsCredited` | `Spec => []ApprovedIsCredited`, if there is one worker and administrators only approve and reject |
| `PurchaseOrdersProofs` | `POTypeCorrect` | `Spec => []TypeOK` |
| | `POOrderedOnce` | `Spec => []OrderedOnce` with every fault, repost and recreation, if `NotSetByHand` |
| | `POVendorOrdersKnown` | `Spec => []VendorOrdersKnown`, if `NothingBreaks` as well |
| | `POPostedIsWhole` | `Spec => []PostedIsWhole` with every fault, if `NotSetByHand` and none is reposted or created again (`Once`) |
| | `POStatusFollowsVendor` | `Spec => []StatusFollowsVendor` with every fault, repost and recreation, if `NotSetByHand` and `RankedNotSetByHand` |
| `QuickOrderProofs` | `PostingKeepsContract` | `Spec => ContractSpec`: the detailed posting implements `Posting` |
| | `AddressOnce` | `Spec => []AddressAddedOnce` |
| | `RecordedIsBought` | `Spec => []OrderedIsBought`, if every product has one line (`OneLineEach`) |
| | `CheapOrdersAreCombined` | `Spec => []CheapIsCombined`, if every product has one line (`OneLineEach`) |
| `ConsignmentsProofs` | `Consigned` | `Spec => []ConsignmentsAreKept`, for any number of web workers, requests and faults |
| `ShopProofs` | `BuilderIsKept` | `ShopSpec => []StartedIsKept` |
| | `ImportTells` | `ShopSpec => []SyncedIsAsTold` |
| | `CacheIsCurrent` | `ShopSpec => []AnswersAreCurrent` |
| | `NumbersAreKept` | `ShopSpec => []NumbersHaveNoGaps` |
| | `SecondHasACause` | `ShopSpec => []ConsignedOnce` |
| | `PaidStays` | `ShopSpec => PaidIsFinal` |
| | `AnnouncedWhole` | `ShopSpec => []ShippedIsAnnounced` |
| | `StockAddsUp` | `ShopSpec => []StockIsKept`, for any number of workers, warehouses and order products |
| | `GoodsMoveOnce` | `ShopSpec => []MovedOnce` |
| | `LastMovesOrder` | `ShopSpec => AtWarehouseWhenAllDelivered` |
| `TreeCrawlerProofs` | `CrawlLimited` | `Spec => []LimitedWhileCounted`, for every tree, any failures and any number of slots |
| | `CrawlLosesNothing` | `Spec => []NothingLost`, if the root is among the nodes the build begins with (`RootIsAsked`) |
| | `SearchFinds` | `Spec => []FoundIsParent` |
| `TokenManagerProofs` | `TokensAreSpaced` | `Spec => []Spaced`, for any number of threads and users |
| `OrderContentsProofs` | `OrdersAreTyped` | `Spec => []TypeOK` |
| | `SubtotalsAddUp` | `Spec => []SubtotalIsSum`, for every catalogue, payload, table of rates and number of requests |
| | `PostponedIsKept` | `Spec => WantedIsKept` |
| | `InvoicesKeepTheirOrders` | `Spec => InvoicedIsKept` |
| | `TableRowCovers`, `TableIsMonotone`, `WeightIsPaidFor`, `WeightIsMonotone`, `DHLIsMonotone`, `BoxGrowsWithParcel` | what the rates return for every table and weight |

All are proved for every value of the constants that satisfies the module's
assumption.

Accounts. The first part of `AccountsProofs.tla` proves what appending a row, and a
sequence of rows, does to a statement. None of the invariants is inductive: `Commit` takes
over what the session holds. `IInv` therefore adds what every open session
satisfies (`SessionOK`): its tables and its stack are typed and the stack names
orders that exist in its view (`StackOK`), and the rows it has booked lead from
the balance it read to the balance it will write, and if these are equal then no
row moved money (`BooksOK`). The last clause is what makes the concurrent theorem
true, and it rests on the code: a request books one transaction, or, while it
ships, deductions only, so that money cannot leave and come back within one
request. With one worker (`Serial`) an open session's snapshot is the committed
state, so that the rows it adds continue the statement. There is one lemma per
operator on sessions (`WriteOrdersOK`, `TransactionOK`, `EnterOK`, ...), one per
group of actions (`PaymentRequestStep`, ..., `CommitStep`), and `NextOK` joins
them.

`ShippedAreCharged` needs to know how the row of an order may have changed between
the reading of a request and its commit (`Follows`: missing, existing, deleted, in
this order, and of one customer throughout), and that a request that makes an order
shipped has booked its charge for that customer (`Traces`). The column `status` is
written only if the request changed it, and then in the commit that adds the
charge; if the request did not, the table's own status counts, which was charged
before (`MergeOrderShipped`). Nothing is assumed of the administrators' statuses:
an order becomes `shipped` in `set_status`, or by its EMS label, which the
property leaves out. What a later request does to a charged row does not matter,
because statements only grow.

The last four theorems about accounts share the invariant `MInv`. `Counted` says how
many rows a payment and an order have; the rest says of every open session what it
will add to them. `PayOK`: a request either leaves all approvals as it read them and
books no row of a payment, or turns the approval of exactly one payment and books
exactly one row for it (`BooksPayments`), and in the latter case the payment's orders
wait no longer (`Released`). `ShipOK` describes the recursion of `Order.set_status`:
the orders charged so far are finished, shipped, and charged together with all that
is attached to them (`PaidOK`); the calls under way are a chain in which each order is
attached to the one before, none of them is charged yet, and what is attached to an
order on the chain is charged, still to do, or the next on the chain (`CallsOK`). That
an order is never charged twice (`Once`) follows without any assumption that the
attachments form a tree: an order on the chain is not entered again, because the
code's recursion would not end, and an order that is charged already is on no list
still to do, because the order it is attached to would have been charged after it,
and there is only one such. The links do not change while a request ships (`Alike`).
`ShipmentsChargeOnce` holds for any number of workers, as a request counts only its
own rows; the others need that what a request read is what its commit finds, and
therefore one worker (`SerialStatus`, `SerialOrder`): two requests at once do break
them, which `double_credit` shows of the first.

Purchase orders. The strengthening for types is `TInv`: the batch exists, the
current purchase order is in it, what was placed is at the vendor (`JobOK`).
`UInv` is the inductive invariant of `POOrderedOnce`: a pending row has no number,
and neither has any row of the batch, whose status is pending or one set by hand
since; the status that the worker has read is one of these, so that the status it
writes with a new number is never `pending` again; an update does not write
`pending` unless it read it. `NotSetByHand` enters twice: where a row is edited,
and where the status the worker writes equals the one it has read, so that nothing
is written and a repost in between would show through. A number is written only
over none, which gives `POVendorOrdersKnown`.

The second part of `PurchaseOrdersProofs.tla` brings every action into one of six
forms for each row (`RowStep`), and shows that an order of the vendor keeps its products and never
goes back (`VendorGoesOn`). `POPostedIsWhole` needs that nothing was bought for a
row without a number (`BoughtByOrder`): it is false after a repost, which takes the
number away and leaves the products bought. `POStatusFollowsVendor` needs what an
update holds while it works (`UpdateFollows`): a status it will write was read of
the order that the row names, or the row was reset meanwhile.

Posting. Every action of the two programs is brought into one of six forms
(`Form`), which say what it does to the four variables that matter: ahead, stay,
back to the beginning, place the order, add the address, tell the caller. The
invariant `IInv` says that an order is placed just when the call is at its last
step, and that the address that was added is known or the call is over: the
first makes a retry safe, because no failure after the order asks for one; the
second makes a second addition impossible. The forms, not the actions, are then
shown to keep it (`FormKeepsPlaced`, `FormKeepsAdded`) and to be steps of
`Posting` (`FormImplements`). For `RecordedIsBought` the actions have other forms, by
what they do to the cart (`CartStep`): leave it, empty it with the lists, look at one
line, remove one item. Nothing is known yet of a line that has not been looked at
(`Untouched`), so that what is noted of it agrees with the cart. This needs one line
for each product, which `add_order_product` does not ensure (`orders/routes/api.py:588`):
of two lines of one product the first may be bought and the second refused.

For `CheapOrdersAreCombined` what is recorded as ordered is among the lines that are
not skipped (`AskedFor`), and after the step of `__set_local_shipment` the box is
settled (`BoxIsSettled`): it is ticked, or the fold over the lines did not find less
than the threshold, and no later step but a retry, which begins again, changes the
list. What is left is about the fold alone (`AmountIsBounded`): it takes the lines in
their order, the property sums a set of products in any order, and the fold starts
again from nothing at a line that is delivered separately, so that it finds at most
what the products are worth. The induction is over how many lines have been added
(`UpTo`, `OneByOne`); that the sum of a set is the same with one product taken out
first (`SumAny`) needs no order. One line for each product is needed here too: of two
lines of one product the fold counts both, and the property, which sums products, one.

Consignments. The invariant says of each request under way what its step implies
(`RequestOK`): before `new` and `ship` it has no number; between, that of a
consignment for its parcel, which is not submitted yet or was by a call that is
being repeated and is given up; before the label and the commit, that of a submitted
one. No two requests work on the same consignment (`Unshared`), because a carrier
numbers them anew. One lemma, `MovesKeeps`, does for every step but the commit: a
step may change only a consignment of its own request that is not submitted, and
what it submits it has in hand or gives up. `NextStep` and `FirstStep` compute the
programs of steps once.

Catalogue. `SyncedIsAsTold` is not inductive: a commit writes columns that were
compared with rows read long before. `Seen` adds that a product the import holds
and nobody saved since is as it was read, or deleted, and that one it does not
hold is absent unless it was saved since.

Tokens. A token is one user's, a user has one lock, and only the thread that holds
it moves the time of the last use of the token (`OwnedByOne`, `HoldsItsLock`). What a
sleeping thread has read is therefore still true when it wakes: it takes its turn a
cooldown after the last use, which is not before any turn with the token
(`TurnsBefore`), also after `set_cooldown`. Between its turn and its return a thread has
let the lock go, and others may return before it: so the turns that have been returned
are apart, and these from the ones about to be, and those from each other (`DoneApart`,
`LaterApart`, `ReturningApart`). What is read again may be another token; as `handed`
says what was returned, the theorem is about what the callers get. `Spaced` is
conditional on `OneLockEach`, and so is the invariant: there are always at least as many
locks as users that have one, so that once two threads have made one each the condition
stays false.

Rates. The row that a table finds is the least of those that cover the weight,
which exists by the well-foundedness of the naturals; monotonicity assumes rates
that grow from row to row, which the administrators' tables need not do.
`DHLIsMonotone` takes tables like the repository's: flat rates up to 30 kg, which rise,
and a rate per kilogram beyond, which may be far below them, provided that 31 kg cost no
less than any flat rate (`DHLTable`), and parcels that have a row of their own kind
(`DHLCovers`): a parcel of up to 30 kg that no flat row covers is charged a single
kilogram of the next row. `BoxGrowsWithParcel` is stated below 30 kg only: from there on no box is weighed,
so that a parcel of 29.9 kg weighs more with its box than one of 30 kg.

Orders. A request is a composition of folds over what is sent, so that most of the
proof is about operators. As in the warehouse, the function that a fold chooses
exists (`FoldExists`), and what each step keeps, the last one has (`FoldLands`); sums
over finite sets are shown not to depend on the order of their elements (`SumAny`), by
induction on subsets (`OneByOne`). Everything that works on the contents of order `o`
in a database `d` stays in `States(d, o)`: the sound databases that differ from `d` in
that order only (`SubordersAdded`, `OrderUpdated`, `LineAdded`, `LineDeleted`).
`TotalUpdated` then shows that `update_total` stores what `AddsUp` demands, product by
product, and touches nothing else. The invariant `Whole` is that the database is sound
(rows typed, tables finite, every reference to a row that is there), that each order
that is not left behind adds up, and that each has a rate; `WholeBut(d, S)` leaves out
the orders that a request is working on, and every request is a chain from `Whole`
through `WholeBut` to `Whole`. Soundness is needed for the sums: an order's total
depends on no product of another order only because suborders have numbers of their own
and every order product is in a suborder that exists. A rate is asked for at the end of
a request, and of one order; the other order that postponing touches is not shipped, and
costs nothing (`PostponeIsWhole`). `PostponedIsKept` follows from `Moved`, what
postponing does to the table, by taking one product out of the sum and another in. The
assumption `OrderAssumption` gives the constants their types, and that there is the
method `postpone`, which the code finds by its class.

Network manager. Two requests may be at work on the same container at once, so
`StartedIsKept` speaks of a request that is `alone` only. `AloneIsAlone` says what
that is worth: nobody else is at work on its container until it ends. What it has
seen is therefore still so: once it has looked, no container runs under its name
(`StoppedIfAlone`), and what it removes cannot be a builder at work. This needs an
answer to the question whether one runs (`answered`).

Methods. The invariant follows an answer on its way to the cache: a worker that is
about to store has what the database says now, or its answer is marked as computed
before a change (`OnTheWay`); what is in the cache and not outdated is what the
database says, or a worker is between its change and clearing (`Answered`). A
change marks all answers on their way, which is what `dated` is for.

Shipments. `Good` says what each kind of request knows of the row that it loaded when
it commits: somebody who orders a consignment without force saw a shipment that was
not shipped and had no consignment, and who saw a shipped one will find it shipped,
unless someone took that back meanwhile (`doubtful`). `Accounted` closes the circle:
every consignment is in the hands of a request that has not committed, or its
shipment is shipped. Invoices are numbered by their count, so that `NumbersHaveNoGaps`
needs that a request counted no more of them than there are; that two requests that
counted the same cannot both commit is the unique key of the column.

Announcing. Without a fault, and with data that the service takes, an attempt of the
application to ship an order has
created a shipment for each box it is past and for none ahead of it, its only request
is the one for the box it is at, and the link it keeps is that of the first
(`FirstTry`). The steps of the service in between, of any number of workers, do not
disturb this, because no request of the service creates or deletes a shipment
(`ServiceKeeps`).

Warehouse. The handlers are folds over sequences, and what a fold computes is an
induction over data, for which the library's theorems take an operator. `FoldExists` and
`FoldChain` do without: the function over sets of indices that the library's folds
choose exists, by the well-foundedness of the naturals (`UpTo`), and goes through the
indices one after the other, so that there is a chain of databases from the first to the
last (`ShippedChain`, `DeliveredChain`, `UpdateChain`). Along the chains, the stock is
moved by the quantities of the order products gone through so far (`ChainMoves`,
`UpdateSteps`); the sum of quantities is the number of pieces (`SumOf`), of which sets
of order products without a common one have each their own. `Computes` collects what the
result of each kind of transaction is worth. With it, `StockIsKept` is inductive: a row
that is not torn is, at the commit, as the transaction saw it or not written.
`MovedOnce` needs that what was counted is delivered and that a transaction that saw it
delivered is right, or it is noted in `again` (`CountedIsDelivered`, `StillDelivered`):
the refresh without an id, the one way to count without being noted, passes by what is
delivered. `AtWarehouseWhenAllDelivered` follows from the chain of a refresh: what it is
told after the last delivery is not "delivered" (`LastDecides`), and of several purchase
orders only the last one looked at can complete the order (`OnlyLastCompletes`).

Crawler. `Counted` is about threads only: the scan starts one when it has seen room, and
an exit is counted in the step that ends the worker. Between the look and the start
`max_threads` does not change, and it is never above what was asked for, any positive
number. `NothingLost` needs to know where
the nodes are that have not been looked at. A page takes out of the set what is below
each of its nodes that is there already, so that "the way to a node" changes while
workers run. `AllCovered` states what does not change: from the root, and from every
node of the set, each sought node below it has been updated, or lies below a node that
failed or was refused, or an entry of the list or a worker leads to it from there on, or
a page with it is being saved. `LookedKeeps` shows it of a page: what led to the nodes
of the page is handed to the page's nodes, and the node that was in the set before all
of them keeps what it covers. At the end there is no entry and no worker, and what
`AllCovered` says from the root is what `NothingLost` promises. That every node of the
tree is below its root is `IsTree`, a property of the constants in the form of an
induction over sets (`FromTheRoot`). `RootIsAsked`, the hypothesis of the theorem, is
that the root is among the first nodes that the build reads from the database: the
build reads as many as `Batch` in the order of their ids, and of a root that is not
among them nothing is known.

Only model-checked, and why: liveness (`PendingIsSettled`, `Ends`, `AllEnd`) is
out of the prover's reach. Every safety invariant and action property that a passing
run checks is the statement of a theorem; some need the hypotheses the table names.

## What the code does otherwise

Each of the following is stated in its module as a property the code does not
have, next to one that it has, and is in no run but `double_credit`.

| Property | Says, where | The code |
|---|---|---|
| `CreditedOnce` | an approved payment is approved once (`paypal.py:102`, a test) | two requests that both read `pending` both book it |
| `RevertUndoesCredit` | a rejection takes back what the approval gave | the amount or the customer may have been edited in between (`payment.py:134`) |
| `OrderChargedOnce` | an order is charged once | one that is shipped, then attached to another, is charged again with it (`order.py:160`) |
| `EveryShippedIsCharged` | a shipped order was charged | printing an EMS label ships without a charge (`ems/routes/client.py:33`) |
| `PostsOnlyPending` | the job posts pending purchase orders | one cancelled while the job is at another one is posted (`purchase/jobs.py:56`) |
| `SkippedStaysPending` | a purchase order that is not yet due is left for later | the job marks it failed (`purchase/jobs.py:79`) |
| `JobTriesAreBounded` | "number of retries in case of failure" | the job hands none on, and each attempt has all of them (`post_po.py:220`) |
| `OnlyGoneAreDeleted` | "has no parent in network. Deleting." | while nobody can log in, every node asked for is deleted (`tree_crawler.py:213`) |
| `StaleIsRemoved` | "Remove stale container" (`network_manager.py:88`) | of two starts at once the second removes the builder that the first has just run; and a start to which Docker does not say whether a builder runs removes it (`network_manager.py:36`) |
| `EveryShippedIsAnnounced` | a shipped order's shipments are created at the service (`separate/signal_handlers.py:25`) | an order without an e-mail is refused (422), the refusal is logged, and the order is shipped without shipment or link |
| `UserIsSpaced` | "Blocks until the per-user cooldown has elapsed so that we never hit Atomy's rate limit" (`atomy_client.py:52`) | a new login counts as used a cooldown ago, and the token that is read again after the lock may be one that was not waited for (`atomy_client.py:70`) |
| `TotalIncludesFee` | "subtotal plus shipping costs plus service fee" (`order.py:318`) | the fee is an attribute of the class and no column, so that later updates of the total drop it |

Met while modelling, and in the models as the code does it:

* restoring an unavailable product, and an administrator's status of a product, do
  not update the order's total (`order_product.py:193`); neither do boxes alone; a
  manual weight grows when products are added; the number of boxes is ignored in
  their weight;
* postponing within the order of postponed products counts them twice, and fails
  if the subcustomer has two suborders there;
* an invoice takes drafts and orders that are already in one;
* one failed login to EMS leaves its flag and fails one later request; the key
  that would spare a login is never written;
* a server error repeats FedEx's request to ship, and a second consignment is made;
  a repeated submission is refused by EMS and its number lost; a label that cannot
  be stored loses FedEx's number; an existing number is not looked at;
* the handlers of cargo and of the methods themselves do not clear the cache of
  prices, and an answer computed before a change may be stored after;
* a request for one product's options that fails makes the product unavailable; a
  product saved or deleted at the wrong moment costs the whole import; an empty
  list raises before it is reported;
* a commit that fails, or a web worker that dies, after the carrier has accepted a
  consignment loses its number;
* a parcel of up to 30 kg that no flat row of DHL covers (30 kg exactly, as the rows are
  compared strictly) is charged a single kilogram of the row beyond;
* two counts at once leave two `Quantity` rows.

## Not modelled

* Packer, PV statistics, notifications and addresses, users and roles: requests
  that write or show rows of their own. Settings and the rates of currencies are
  constants of the models.
* Rendering, validation of input formats, authentication, exports to Excel,
  documents and e-mails, searches and lists.
* The HTTP and browser details of the clients of vendors and carriers, beyond
  their outcomes; GLS, which has no client; `AtomyCenter`, which cannot post.
* `purchase_order_job/update_po_status.py` and `user_save_payment`, which nothing
  reaches; `pv_crawler.py` and `state_server.py` of the network builder, which read
  what the others write.
* In the shipment service: logging in, the proxy to trackers and the unused
  payment module. In the network manager: queries, and the branch tags.
* Interactions left to their interfaces: `Accounts`, `Warehouse`, `Shipments` and
  `OrderContents` each see the signal or the request of the other as one of their
  own actions. Their product is beyond TLC, and no property that relates the stock
  to a statement is promised by the code.

## Plan

1. Composition of the sale order's `shipped` signal over `Accounts` and
   `Shipments`, with one transaction, on an instance of one order.
2. Proofs: the posting's carts without the hypothesis of one line for each product,
   with a count of the lines in place of the set of products.
3. The attachment of orders in `OrderContents`; the administration of a purchase
   order's number and customer in `PurchaseOrders`.
