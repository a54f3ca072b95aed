----------------------------- MODULE QuickOrder -----------------------------
(***************************************************************************)
(* One call of post_purchase_order: a purchase order is typed into the     *)
(* vendor's form, one field after another, and submitted.  Two programs do *)
(* so: "app" drives the quick order page in the celery worker, "job" is    *)
(* its copy that runs in a container of its own.                           *)
(*                                                                         *)
(* Everything the page does is the environment's choice: a field may be    *)
(* refused, an element may not come, a product may have gone.              *)
(***************************************************************************)
EXTENDS Integers, Sequences, FiniteSets, SequencesExt

CONSTANTS
    OrderProducts,   \* the product lines of the purchase order, in their order
    Purchase,        \* products that are to be purchased
    WithOptions,     \* products the cart knows by the number of their base product
    Quantity,
    Price,
    Threshold,       \* FREE_LOCAL_SHIPPING_AMOUNT_THRESHOLD
    Retries,
    DueIn,           \* days from today in Seoul to the purchase date
    Weekdays,        \* 0 is Monday
    Programs,        \* which of the programs may run
    MaxTries         \* bound: attempts that are counted

Products == Range(OrderProducts)

ASSUME QuickOrderAssumption ==
    /\ OrderProducts \in Seq(Products)
    /\ Purchase \subseteq Products
    /\ WithOptions \subseteq Products
    /\ Quantity \in [Products -> Int]
    /\ Price \in [Products -> Nat]
    /\ Threshold \in Nat
    /\ Retries \in Nat
    /\ DueIn \subseteq Int
    /\ Weekdays \subseteq 0..6
    /\ Programs \subseteq {"app", "job"}
    /\ MaxTries \in Nat

VARIABLES
    program,
    date,          \* when the purchase order is due, and what day it is
    pos,           \* the step of the program that comes next
    retries,
    tries,         \* attempts made so far, up to MaxTries (history)
    todo,          \* product lines that are not yet looked at
    cart,          \* the page's cart: quantities of products
    ordered,       \* ordered_products
    separate,      \* products the vendor delivers separately
    unavailable,   \* unavailable_products
    combined,      \* the box for combined shipment
    addresses,     \* whether the vendor has the address, and how often the call added it
    placed,        \* carts the vendor has taken an order for
    result

vars == <<program, date, pos, retries, tries, todo, cart, ordered, separate, unavailable,
          combined, addresses, placed, result>>
form == <<todo, cart, ordered, separate, unavailable, combined>>
call == <<program, date, retries, tries, addresses>>

EmptyCart == [p \in {} |-> 0]

AppSteps == <<"check", "login", "init", "date", "search", "add", "cart", "mobile", "name",
              "address", "update", "select", "verify", "shipment", "payment", "tax", "submit",
              "details">>
JobSteps == <<"check", "login", "init", "search", "add", "cart", "date", "mobile", "name",
              "address", "update", "select", "shipment", "payment", "tax", "submit", "details">>

Steps == IF program = "app" THEN AppSteps ELSE JobSteps

Init ==
    /\ program \in Programs
    /\ date \in [due: DueIn, weekday: Weekdays]
    /\ pos = 1
    /\ retries = Retries
    /\ tries = 1
    /\ todo = OrderProducts
    /\ cart = EmptyCart
    /\ ordered = <<>>
    /\ separate = {}
    /\ unavailable = {}
    /\ combined = "unset"
    /\ addresses \in [known: BOOLEAN, added: {0}]
    /\ placed = <<>>
    /\ result = "open"

At(step) == result = "open" /\ Steps[pos] = step

Proceed == pos' = pos + 1 /\ UNCHANGED <<call, form, placed, result>>

Return(r) == result' = r /\ UNCHANGED <<call, form, pos, placed>>

\* A new browser context, an empty page.
Restart(left) ==
    /\ tries' = IF tries < MaxTries THEN tries + 1 ELSE tries
    /\ retries' = left
    /\ pos' = 1
    /\ todo' = OrderProducts
    /\ cart' = EmptyCart
    /\ ordered' = <<>>
    /\ unavailable' = {}
    /\ combined' = "unset"
    /\ UNCHANGED <<program, date, separate, addresses, placed, result>>

\* Mutant: every attempt has all retries.
FailsForgetful(kind) ==
    IF kind = "retry" THEN IF retries > 0 THEN Restart(Retries) ELSE Return("refused")
    ELSE Return(kind)

\* The handlers of post_purchase_order: "refused" is a PurchaseOrderError or an
\* AtomyLoginError, "retry" a PurchaseOrderError that asks for a retry, "broken"
\* any other exception.
AppFails(kind) ==
    IF kind = "retry" THEN IF retries > 0 THEN Restart(retries - 1) ELSE Return("refused")
    ELSE Return(kind)

\* The number of retries left is not handed to the next attempt, which has the default.
JobFails(kind) ==
    IF kind = "retry" THEN IF retries > 0 THEN Restart(Retries) ELSE Return("refused")
    ELSE Return(kind)

Fails(kind) == IF program = "app" THEN AppFails(kind) ELSE JobFails(kind)

\* A step that only fills in the form.
Fills(step, failures) == At(step) /\ (Proceed \/ \E kind \in failures : Fails(kind))

-----------------------------------------------------------------------------
\* The steps of the quick order page.

is_purchase_date_valid ==
    /\ date.due >= -(IF date.weekday < 2 THEN 3 ELSE 2)
    /\ date.due <= (IF date.weekday = 5 THEN 2 ELSE 1)

\* behind: the server's day is one before the day in Seoul.
check_date ==
    /\ At("check")
    /\ \E behind \in {0, 1} :
          IF is_purchase_date_valid THEN Proceed
          ELSE IF date.due < -behind THEN Fails("refused")
          ELSE Return("skipped")

\* An alert of the page: the account is inactive, which is no obstacle, or the
\* user is not let in.
handle_login_alert == Proceed \/ Fails("refused")

login == At("login") /\ (Proceed \/ handle_login_alert \/ Fails("broken"))

init_quick_order == Fills("init", {"refused", "broken"})

\* Anything that goes wrong while the search form is opened is retried.
open_search == Fills("search", {"retry"})

\* The lines that are not asked for at all.
Skipped(p) == p \notin Purchase \/ Quantity[p] <= 0

Taken(p, quantity) == [q \in DOMAIN cart \cup {p} |-> IF q = p THEN quantity ELSE cart[q]]

skip_product ==
    /\ At("add") /\ todo # <<>>
    /\ Skipped(Head(todo))
    /\ todo' = Tail(todo)
    /\ UNCHANGED <<call, pos, cart, ordered, separate, unavailable, combined, placed, result>>

\* ProductNotAvailableError, before the product is in the cart.
product_unavailable ==
    /\ At("add") /\ todo # <<>>
    /\ ~Skipped(Head(todo))
    /\ todo' = Tail(todo)
    /\ unavailable' = unavailable \cup {Head(todo)}
    /\ UNCHANGED <<call, pos, cart, ordered, separate, combined, placed, result>>

\* Any other exception is only logged.  It may come when the product is in the
\* cart, once, and its quantity is about to be typed in.
product_breaks ==
    /\ At("add") /\ todo # <<>>
    /\ ~Skipped(Head(todo))
    /\ todo' = Tail(todo)
    /\ \/ UNCHANGED cart
       \/ cart' = Taken(Head(todo), 1)
    /\ UNCHANGED <<call, pos, ordered, separate, unavailable, combined, placed, result>>

\* The vendor tells whether it delivers the product separately.
add_product ==
    /\ At("add") /\ todo # <<>>
    /\ LET p == Head(todo)
       IN  /\ ~Skipped(p)
           /\ cart' = Taken(p, Quantity[p])
           /\ ordered' = Append(ordered, p)
           /\ separate' \in {separate \cup {p}, separate \ {p}}
    /\ todo' = Tail(todo)
    /\ UNCHANGED <<call, pos, unavailable, combined, placed, result>>

products_added ==
    /\ At("add") /\ todo = <<>>
    /\ IF ordered = <<>> THEN Fails("refused") ELSE Proceed

\* Mutant: the removed item stays among the ordered products.
RemoveFromCart(p) ==
    /\ cart' = [q \in DOMAIN cart \ {p} |-> cart[q]]
    /\ UNCHANGED <<call, pos, todo, ordered, unavailable, separate, combined, placed, result>>

\* The page refuses an item that is to be bought at a branch: it is removed and
\* the cart registered again.  The item of a product with options is not
\* recognised among the ordered products.
RemoveItem(p) ==
    /\ cart' = [q \in DOMAIN cart \ {p} |-> cart[q]]
    /\ IF p \in Range(ordered) /\ p \notin WithOptions
       THEN /\ ordered' = RemoveFirst(ordered, p)
            /\ unavailable' = unavailable \cup {p}
       ELSE UNCHANGED <<ordered, unavailable>>
    /\ UNCHANGED <<call, pos, todo, separate, combined, placed, result>>

register_cart ==
    /\ \/ Fills("cart", {"refused", "broken"})
       \/ At("cart") /\ \E p \in DOMAIN cart :
             IF DOMAIN cart = {p} THEN Fails("refused") ELSE RemoveItem(p)

set_purchase_date == Fills("date", {"retry", "refused", "broken"})

set_receiver_mobile == Fills("mobile", {"broken"})

set_receiver_name == Fills("name", {"broken"})

\* Mutant: the address is not looked up before it is added.
add_address ==
    /\ At("address")
    /\ \/ addresses' = [known |-> TRUE, added |-> addresses.added + 1]
          /\ pos' = pos + 1
          /\ UNCHANGED <<program, date, retries, tries, form, placed, result>>
       \/ Fails("refused")

\* The address is looked up among those of the customer and added to them if
\* it is not there.  It may not be found afterwards; what is found under another
\* base address is taken.  Every failure is reported as a PurchaseOrderError.
find_address ==
    /\ At("address")
    /\ \/ addresses.known /\ Proceed
       \/ ~addresses.known /\ addresses' = [addresses EXCEPT !.known = TRUE]
          /\ pos' = pos + 1
          /\ UNCHANGED <<program, date, retries, tries, form, placed, result>>
       \/ ~addresses.known /\ addresses' = [known |-> TRUE, added |-> addresses.added + 1]
          /\ pos' = pos + 1
          /\ UNCHANGED <<program, date, retries, tries, form, placed, result>>
       \/ ~addresses.known /\ addresses' = [addresses EXCEPT !.added = @ + 1]
          /\ result' = "refused"
          /\ UNCHANGED <<program, date, retries, tries, form, pos, placed>>
       \/ Fails("refused")

update_address == Fills("update", {"refused"})

select_address == Fills("select", {"refused"})

\* The page shows that it has taken the address.
verify_address_set == At("verify") /\ Proceed

\* It is chosen again until it is, which may fail.
ensure_address_set == At("verify") /\ Fails("refused")

set_receiver_address ==
    find_address \/ update_address \/ select_address \/ verify_address_set \/ ensure_address_set

\* Mutant: the lines that are delivered separately count.
WholeAmount == FoldLeft(LAMBDA acc, p : acc + Price[p] * Quantity[p], 0, ordered)

\* The amount is built up in the order of the lines, and starts again from
\* nothing at one that the vendor delivers separately.
free_shipping_eligible_amount ==
    FoldLeft(LAMBDA acc, p : IF p \in separate THEN 0 ELSE acc + Price[p] * Quantity[p], 0, ordered)

\* The box is not on every page.
set_local_shipment ==
    /\ At("shipment")
    /\ IF free_shipping_eligible_amount < Threshold
       THEN \/ combined' \in {"set", "not_offered"}
               /\ pos' = pos + 1
               /\ UNCHANGED <<call, todo, cart, ordered, separate, unavailable, placed, result>>
            \/ Fails("broken")
       ELSE Proceed

set_payment_params == Fills("payment", {"broken"})

set_tax_info == Fills("tax", {"broken"})

\* The vendor takes the order.
PlaceOrder == placed' = Append(placed, cart) /\ pos' = pos + 1 /\ UNCHANGED <<call, form, result>>

\* An error message of the page is retried: the order has not been taken.
submit_order ==
    /\ At("submit")
    /\ \/ PlaceOrder
       \/ Fails("retry")
       \/ Fails("broken")

\* Mutant: an order that cannot be read is reported as a failed one.
get_details_or_refuse ==
    /\ At("details")
    /\ Return("posted") \/ Fails("refused")

\* The page of the order that was taken comes, and is read, or does not come.
get_order_details ==
    /\ At("details")
    /\ Return("posted") \/ Return("broken")

-----------------------------------------------------------------------------
\* What the job does differently.

job_check_date == check_date

job_login == Fills("login", {"broken"})

job_init_quick_order == Fills("init", {"refused", "broken"})

job_get_product == product_unavailable \/ product_breaks \/ add_product

job_add_products == open_search \/ skip_product \/ job_get_product \/ products_added

job_register_cart == Fills("cart", {"refused", "broken"})

job_set_purchase_date == Fills("date", {"retry", "refused", "broken"})

job_set_local_shipment == set_local_shipment

job_set_receiver == set_receiver_name \/ set_receiver_mobile

\* An address that was added and is not found is reported.
job_find_address == find_address

job_update_address == update_address

job_set_receiver_address == job_find_address \/ job_update_address \/ select_address

job_set_tax_info == set_payment_params \/ set_tax_info

\* No message of the page is looked at.
job_submit_order == At("submit") /\ (PlaceOrder \/ Fails("broken"))

job_get_order_details == get_order_details

-----------------------------------------------------------------------------
App ==
    /\ program = "app"
    /\ \/ check_date
       \/ login
       \/ init_quick_order
       \/ set_purchase_date
       \/ open_search
       \/ skip_product
       \/ product_unavailable
       \/ product_breaks
       \/ add_product
       \/ products_added
       \/ register_cart
       \/ set_receiver_mobile
       \/ set_receiver_name
       \/ set_receiver_address
       \/ set_local_shipment
       \/ set_payment_params
       \/ set_tax_info
       \/ submit_order
       \/ get_order_details

Job ==
    /\ program = "job"
    /\ \/ check_date
       \/ job_login
       \/ job_init_quick_order
       \/ job_add_products
       \/ job_register_cart
       \/ job_set_purchase_date
       \/ job_set_receiver
       \/ job_set_receiver_address
       \/ job_set_local_shipment
       \/ job_set_tax_info
       \/ job_submit_order
       \/ job_get_order_details

Next == App \/ Job

Spec == Init /\ [][Next]_vars

\* The program runs on, and what it waits for on the page comes or does not.
FairSpec == Spec /\ WF_vars(Next)

-----------------------------------------------------------------------------
IsCart(c) == DOMAIN c \subseteq Products /\ \A p \in DOMAIN c : c[p] \in Int

TypeOK ==
    /\ program \in Programs
    /\ pos \in 1..Len(Steps)
    /\ retries \in 0..Retries
    /\ tries \in Nat
    /\ Range(todo) \subseteq Products
    /\ IsCart(cart)
    /\ Range(ordered) \subseteq Products
    /\ separate \subseteq Products
    /\ unavailable \subseteq Products
    /\ combined \in {"unset", "set", "not_offered"}
    /\ addresses \in [known: BOOLEAN, added: Nat]
    /\ \A n \in DOMAIN placed : IsCart(placed[n])
    /\ result \in {"open", "posted", "refused", "skipped", "broken"}

\* A product that will be recorded as purchased has been bought, in its
\* quantity, and one that is reported as unavailable has not.  Not so for a
\* product with options that the page has refused (__add_products,
\* __register_cart).
OrderedIsBought ==
    result = "posted" =>
        /\ \A p \in Range(ordered) \ WithOptions :
              p \in DOMAIN placed[1] /\ placed[1][p] = Quantity[p]
        /\ unavailable \cap DOMAIN placed[1] = {}

\* A call adds the address to those of the customer once, however often it tries
\* (find_existing_address, create_address).
AddressAddedOnce == addresses.added <= 1

\* An order whose products do not reach the amount of free delivery is not
\* submitted with the box for combined shipment left open: the fold of
\* __set_local_shipment never finds more than there is.
CheapIsCombined ==
    (result = "posted" /\ combined = "unset") =>
        FoldSet(LAMBDA p, sum : sum + Price[p] * Quantity[p], 0, Range(ordered) \ separate)
            >= Threshold

\* post_purchase_order of the worker comes to an end.
Ends == program = "app" ~> result # "open"

\* "int retries: number of retries in case of failure" (post_po.py): not kept by
\* the job, which hands no number of retries to the next attempt.
JobTriesAreBounded == tries <= Retries + 1

\* What the caller may rely on.
Contract == INSTANCE Posting WITH orders <- Len(placed)
ContractSpec == Contract!Spec

=============================================================================
