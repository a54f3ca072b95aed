-------------------------- MODULE QuickOrderProofs --------------------------
(* That a call of post_purchase_order keeps the contract of Posting, adds the *)
(* receiver's address once, records as purchased what was bought, and has     *)
(* cheap orders delivered in one box, for every purchase order, every number  *)
(* of retries and both programs.                                              *)
(*                                                                           *)
(* Every action is first brought into one of a few forms, which say what it   *)
(* does to the variables that matter; then the forms preserve the invariant   *)
(* and implement the contract. What an order is worth is a fold over its      *)
(* lines: the lemmas on folds are proved by induction over the finite set of  *)
(* indices folded over.                                                       *)
EXTENDS QuickOrder, SequenceTheorems, FiniteSetTheorems, WellFoundedInduction, TLAPS

\* The step after which nothing comes.
LastStep == IF program = "app" THEN 18 ELSE 17

Typed ==
    /\ program \in {"app", "job"}
    /\ pos \in 1..LastStep
    /\ addresses \in [known: BOOLEAN, added: Nat]

\* An order has been placed just when the call is at its last step; what the
\* caller is told agrees with it.
PlacedAtTheEnd ==
    /\ placed = <<>> \/ Len(placed) = 1
    /\ result = "open" => (placed # <<>> <=> pos = LastStep)
    /\ result = "posted" => placed # <<>> /\ pos = LastStep
    /\ result \in {"refused", "skipped"} => placed = <<>>

\* The address has been added to those the vendor knows, or the call is over.
AddedIsKnown ==
    \/ addresses.added = 0
    \/ addresses.added = 1 /\ (addresses.known \/ result # "open")

IInv == Typed /\ PlacedAtTheEnd /\ AddedIsKnown

------------------------------------------------------------------------------
\* The forms of a step.

Ahead == pos < LastStep - 1 /\ pos' = pos + 1 /\ UNCHANGED <<program, placed, result, addresses>>

Stay == UNCHANGED <<program, pos, placed, result, addresses>>

Back == pos < LastStep /\ pos' = 1 /\ UNCHANGED <<program, placed, result, addresses>>

Places ==
    /\ pos = LastStep - 1 /\ pos' = LastStep
    /\ placed' = Append(placed, cart)
    /\ UNCHANGED <<program, result, addresses>>

Tells(r) ==
    /\ IF r = "posted" THEN pos = LastStep ELSE r = "broken" \/ pos < LastStep
    /\ result' = r
    /\ UNCHANGED <<program, pos, placed, addresses>>

\* The address that is not known is found, added, or added and not found.
Adds ==
    /\ pos < LastStep - 1 /\ ~addresses.known
    /\ \/ /\ addresses' \in {[addresses EXCEPT !.known = TRUE],
                             [known |-> TRUE, added |-> addresses.added + 1]}
          /\ pos' = pos + 1 /\ result' = result
       \/ /\ addresses' = [addresses EXCEPT !.added = @ + 1]
          /\ pos' = pos /\ result' = "refused"
    /\ UNCHANGED <<program, placed>>

Form ==
    /\ result = "open"
    /\ \/ Ahead \/ Stay \/ Back \/ Places \/ Adds
       \/ \E r \in {"posted", "refused", "skipped", "broken"} : Tells(r)

\* Where a step is in its program.
LEMMA Where ==
    ASSUME Typed, NEW step, At(step)
    PROVE  /\ result = "open"
           /\ step = "details" => pos = LastStep
           /\ step = "submit" => pos = LastStep - 1
           /\ step \notin {"submit", "details"} => pos < LastStep - 1
<1>1. CASE program = "app"
  <2>1. Steps = AppSteps /\ pos \in 1..18 /\ LastStep = 18
    BY <1>1 DEF Typed, Steps, LastStep
  <2> QED BY <2>1 DEF At, AppSteps
<1>2. CASE program = "job"
  <2>1. Steps = JobSteps /\ pos \in 1..17 /\ LastStep = 17
    BY <1>2 DEF Typed, Steps, LastStep
  <2> QED BY <2>1 DEF At, JobSteps
<1> QED BY <1>1, <1>2 DEF Typed

\* A failure is told, or the call begins again.
LEMMA FailsForm ==
    ASSUME Typed, NEW kind \in {"retry", "refused", "broken"}, Fails(kind),
           result = "open", kind = "broken" \/ pos < LastStep
    PROVE  Form
<1>1. CASE Return(kind) /\ kind # "retry"
  BY <1>1 DEF Return, call, form, Tells, Form
<1>2. CASE Return("refused") /\ kind = "retry"
  BY <1>2 DEF Return, call, form, Tells, Form
<1>3. CASE (\E left \in {retries - 1, Retries} : Restart(left)) /\ kind = "retry"
  BY <1>3 DEF Restart, Back, Form
<1> QED BY <1>1, <1>2, <1>3 DEF Fails, AppFails, JobFails

\* A step that only fills in the form.
LEMMA FillsForm ==
    ASSUME Typed, NEW step, step \notin {"submit", "details"},
           NEW failures \in SUBSET {"retry", "refused", "broken"}, Fills(step, failures)
    PROVE  Form
<1>1. result = "open" /\ pos < LastStep - 1 /\ pos < LastStep
  BY Where DEF Fills, Typed, LastStep
<1>2. CASE Proceed
  BY <1>1, <1>2 DEF Proceed, call, Ahead, Form
<1>3. CASE \E kind \in failures : Fails(kind)
  BY <1>1, <1>3, FailsForm
<1> QED BY <1>2, <1>3 DEF Fills

\* The date is looked at: it is due, late or not yet due.
LEMMA CheckForm == ASSUME Typed, check_date PROVE Form
<1>1. result = "open" /\ pos < LastStep - 1 /\ pos < LastStep
  BY Where DEF check_date, Typed, LastStep
<1>2. CASE Proceed
  BY <1>1, <1>2 DEF Proceed, call, Ahead, Form
<1>3. CASE Fails("refused")
  BY <1>1, <1>3, FailsForm
<1>4. CASE Return("skipped")
  BY <1>1, <1>4 DEF Return, call, form, Tells, Form
<1> QED BY <1>2, <1>3, <1>4 DEF check_date

\* The user is let in, an alert comes, or something breaks.
LEMMA LoginForm == ASSUME Typed, login PROVE Form
<1>1. result = "open" /\ pos < LastStep - 1 /\ pos < LastStep
  BY Where DEF login, Typed, LastStep
<1>2. CASE Proceed
  BY <1>1, <1>2 DEF Proceed, call, Ahead, Form
<1>3. CASE Fails("refused") \/ Fails("broken")
  BY <1>1, <1>3, FailsForm
<1> QED BY <1>2, <1>3 DEF login, handle_login_alert

\* A product line is looked at, or there is none left.
LEMMA AddForm ==
    ASSUME Typed,
           skip_product \/ product_unavailable \/ product_breaks \/ add_product \/ products_added
    PROVE  Form
<1>1. result = "open" /\ pos < LastStep - 1 /\ pos < LastStep
  BY Where DEF skip_product, product_unavailable, product_breaks, add_product, products_added,
               Typed, LastStep
<1>2. CASE skip_product \/ product_unavailable \/ product_breaks \/ add_product
  BY <1>1, <1>2 DEF skip_product, product_unavailable, product_breaks, add_product, call, Stay, Form
<1>3. CASE products_added
  <2>1. CASE Fails("refused")
    BY <1>1, <2>1, FailsForm
  <2>2. CASE Proceed
    BY <1>1, <2>2 DEF Proceed, call, Ahead, Form
  <2> QED BY <1>3, <2>1, <2>2 DEF products_added
<1> QED BY <1>2, <1>3

\* The cart is registered, refused, or an item leaves it.
LEMMA CartForm == ASSUME Typed, register_cart PROVE Form
<1>1. CASE Fills("cart", {"refused", "broken"})
  BY <1>1, FillsForm
<1>2. CASE At("cart") /\ \E p \in DOMAIN cart :
               IF DOMAIN cart = {p} THEN Fails("refused") ELSE RemoveItem(p)
  <2>1. result = "open" /\ pos < LastStep
    BY <1>2, Where DEF Typed, LastStep
  <2>2. CASE Fails("refused")
    BY <2>1, <2>2, FailsForm
  <2>3. CASE \E p \in DOMAIN cart : RemoveItem(p)
    BY <2>1, <2>3 DEF RemoveItem, call, Stay, Form
  <2> QED BY <1>2, <2>2, <2>3
<1> QED BY <1>1, <1>2 DEF register_cart

\* The address is known, found, added, or lost.
LEMMA AddressForm == ASSUME Typed, set_receiver_address PROVE Form
<1>1. CASE find_address
  <2>1. result = "open" /\ pos < LastStep - 1 /\ pos < LastStep
    BY <1>1, Where DEF find_address, Typed, LastStep
  <2>2. CASE Proceed
    BY <2>1, <2>2 DEF Proceed, call, Ahead, Form
  <2>3. CASE Fails("refused")
    BY <2>1, <2>3, FailsForm
  <2>4. CASE ~Proceed /\ ~Fails("refused")
    <3>1. Adds
      BY <1>1, <2>1, <2>4 DEF find_address, Adds, form
    <3> QED BY <2>1, <3>1 DEF Form
  <2> QED BY <2>2, <2>3, <2>4
<1>2. CASE update_address \/ select_address
  BY <1>2, FillsForm DEF update_address, select_address
<1>3. CASE verify_address_set \/ ensure_address_set
  <2>1. result = "open" /\ pos < LastStep - 1 /\ pos < LastStep
    BY <1>3, Where DEF verify_address_set, ensure_address_set, Typed, LastStep
  <2>2. CASE Proceed
    BY <2>1, <2>2 DEF Proceed, call, Ahead, Form
  <2>3. CASE Fails("refused")
    BY <2>1, <2>3, FailsForm
  <2> QED BY <1>3, <2>2, <2>3 DEF verify_address_set, ensure_address_set
<1> QED BY <1>1, <1>2, <1>3 DEF set_receiver_address

\* The box for combined shipment is ticked, is not there, or is not needed.
LEMMA ShipmentForm == ASSUME Typed, set_local_shipment PROVE Form
<1>1. result = "open" /\ pos < LastStep - 1 /\ pos < LastStep
  BY Where DEF set_local_shipment, Typed, LastStep
<1>2. CASE Proceed
  BY <1>1, <1>2 DEF Proceed, call, Ahead, Form
<1>3. CASE Fails("broken")
  BY <1>1, <1>3, FailsForm
<1>4. CASE ~Proceed /\ ~Fails("broken")
  BY <1>1, <1>4 DEF set_local_shipment, call, Ahead, Form
<1> QED BY <1>2, <1>3, <1>4

\* The order is taken, or it fails.
LEMMA SubmitForm == ASSUME Typed, submit_order \/ job_submit_order PROVE Form
<1>1. result = "open" /\ pos = LastStep - 1 /\ pos < LastStep
  BY Where DEF submit_order, job_submit_order, Typed, LastStep
<1>2. CASE PlaceOrder
  BY <1>1, <1>2 DEF PlaceOrder, call, Places, Form, Typed, LastStep
<1>3. CASE Fails("retry") \/ Fails("broken")
  BY <1>1, <1>3, FailsForm
<1> QED BY <1>2, <1>3 DEF submit_order, job_submit_order

\* The order is read, or the call breaks.
LEMMA DetailsForm == ASSUME Typed, get_order_details PROVE Form
<1>1. result = "open" /\ pos = LastStep
  BY Where DEF get_order_details
<1> QED BY <1>1 DEF get_order_details, Return, call, form, Tells, Form

\* Every step has a form.
LEMMA NextForm == ASSUME Typed, Next PROVE Form
<1>1. CASE check_date
  BY <1>1, CheckForm
<1>2. CASE login \/ job_login
  BY <1>2, LoginForm, FillsForm DEF job_login
<1>3. CASE init_quick_order \/ open_search \/ set_purchase_date \/ job_set_purchase_date
  BY <1>3, FillsForm DEF init_quick_order, open_search, set_purchase_date, job_set_purchase_date
<1>4. CASE set_receiver_mobile \/ set_receiver_name \/ set_payment_params \/ set_tax_info
  BY <1>4, FillsForm DEF set_receiver_mobile, set_receiver_name, set_payment_params, set_tax_info
<1>5. CASE skip_product \/ product_unavailable \/ product_breaks \/ add_product \/ products_added
  BY <1>5, AddForm
<1>6. CASE register_cart \/ job_register_cart \/ job_init_quick_order
  BY <1>6, CartForm, FillsForm DEF job_register_cart, job_init_quick_order
<1>7. CASE set_receiver_address \/ job_set_receiver_address
  BY <1>7, AddressForm
     DEF set_receiver_address, job_set_receiver_address, job_find_address, job_update_address
<1>8. CASE set_local_shipment
  BY <1>8, ShipmentForm
<1>9. CASE submit_order \/ job_submit_order
  BY <1>9, SubmitForm
<1>10. CASE get_order_details
  BY <1>10, DetailsForm
<1>11. CASE App
  BY <1>1, <1>2, <1>3, <1>4, <1>5, <1>6, <1>7, <1>8, <1>9, <1>10, <1>11 DEF App
<1>12. CASE Job
  BY <1>1, <1>2, <1>3, <1>4, <1>5, <1>6, <1>7, <1>8, <1>9, <1>10, <1>12
     DEF Job, job_add_products, job_get_product, job_set_receiver, job_set_tax_info,
         job_set_local_shipment, job_get_order_details
<1> QED BY <1>11, <1>12 DEF Next

------------------------------------------------------------------------------
\* What the forms do.

\* A form leaves the variables that matter well typed.
LEMMA FormKeepsTyped == ASSUME Typed, Form PROVE Typed'
<1>1. CASE Ahead \/ Stay \/ Back \/ Places
  BY <1>1 DEF Typed, LastStep, Ahead, Stay, Back, Places
<1>2. CASE Adds
  <2>1. addresses \in [known: BOOLEAN, added: Nat]
    BY DEF Typed
  <2>2. [addresses EXCEPT !.known = TRUE] \in [known: BOOLEAN, added: Nat]
    BY <2>1
  <2>3. [known |-> TRUE, added |-> addresses.added + 1] \in [known: BOOLEAN, added: Nat]
    BY <2>1
  <2>4. [addresses EXCEPT !.added = @ + 1] \in [known: BOOLEAN, added: Nat]
    BY <2>1
  <2>5. addresses' \in [known: BOOLEAN, added: Nat]
    BY <1>2, <2>2, <2>3, <2>4 DEF Adds
  <2>6. program' = program /\ pos' \in {pos, pos + 1} /\ pos < LastStep - 1
    BY <1>2 DEF Adds
  <2> QED BY <2>5, <2>6 DEF Typed, LastStep
<1>3. CASE \E r \in {"posted", "refused", "skipped", "broken"} : Tells(r)
  BY <1>3 DEF Typed, LastStep, Tells
<1> QED BY <1>1, <1>2, <1>3 DEF Form

\* A form places an order only as the last step comes, and answers truly.
LEMMA FormKeepsPlaced ==
    ASSUME Typed, PlacedAtTheEnd, Form
    PROVE  PlacedAtTheEnd'
<1>1. CASE Ahead \/ Stay \/ Back \/ Adds
  BY <1>1 DEF Typed, LastStep, Ahead, Stay, Back, Adds, PlacedAtTheEnd, Form
<1>2. CASE Places
  <2>1. placed = <<>> /\ pos < LastStep
    BY <1>2 DEF Places, PlacedAtTheEnd, Form, Typed, LastStep
  <2>2. placed' = <<cart>>
    BY <1>2, <2>1 DEF Places
  <2>3. LastStep' = LastStep /\ pos' = LastStep /\ result' = "open"
    BY <1>2 DEF Places, LastStep, Form
  <2> QED BY <2>2, <2>3 DEF PlacedAtTheEnd
<1>3. CASE \E r \in {"posted", "refused", "skipped", "broken"} : Tells(r)
  BY <1>3 DEF Typed, LastStep, Tells, PlacedAtTheEnd, Form
<1> QED BY <1>1, <1>2, <1>3 DEF Form

\* A form adds an address only where none has been added.
LEMMA FormKeepsAdded ==
    ASSUME Typed, AddedIsKnown, Form
    PROVE  AddedIsKnown'
<1>1. CASE Ahead \/ Stay \/ Back \/ Places
  BY <1>1 DEF Ahead, Stay, Back, Places, AddedIsKnown
<1>2. CASE Adds
  BY <1>2 DEF Typed, Adds, AddedIsKnown, Form
<1>3. CASE \E r \in {"posted", "refused", "skipped", "broken"} : Tells(r)
  BY <1>3 DEF Tells, AddedIsKnown
<1> QED BY <1>1, <1>2, <1>3 DEF Form

\* A form is a step of the contract, or none the caller notices.
LEMMA FormImplements ==
    ASSUME Typed, PlacedAtTheEnd, Form
    PROVE  Contract!Next \/ UNCHANGED <<result, Len(placed)>>
<1>1. CASE Ahead \/ Stay \/ Back
  BY <1>1 DEF Ahead, Stay, Back
<1>2. CASE Places
  <2>1. placed = <<>>
    BY <1>2 DEF Places, PlacedAtTheEnd, Form, Typed, LastStep
  <2>2. Len(placed) = 0 /\ Len(placed') = 1 /\ Len(placed)' = 1
    BY <1>2, <2>1 DEF Places
  <2> QED BY <1>2, <2>2 DEF Places, Form, Contract!Next, Contract!Order
<1>3. CASE Adds
  <2>1. Len(placed)' = Len(placed)
    BY <1>3 DEF Adds
  <2>2. CASE result' = result
    BY <2>1, <2>2
  <2>3. CASE result' = "refused"
    <3>1. placed = <<>>
      BY <1>3 DEF Adds, PlacedAtTheEnd, Form, Typed, LastStep
    <3>2. Len(placed) = 0
      BY <3>1
    <3>3. Contract!Answer("refused")
      BY <2>1, <2>3, <3>2 DEF Contract!Answer, Form
    <3> QED BY <3>3 DEF Contract!Next
  <2> QED BY <1>3, <2>2, <2>3 DEF Adds
<1>4. CASE \E r \in {"posted", "refused", "skipped", "broken"} : Tells(r)
  <2>1. PICK r \in {"posted", "refused", "skipped", "broken"} : Tells(r)
    BY <1>4
  <2>2. Len(placed)' = Len(placed) /\ result' = r /\ result = "open"
    BY <2>1 DEF Tells, Form
  <2>3. r = "posted" => Len(placed) = 1
    BY <2>1 DEF Tells, PlacedAtTheEnd, Form, Typed, LastStep
  <2>4. r \in {"refused", "skipped"} => Len(placed) = 0
    BY <2>1 DEF Tells, PlacedAtTheEnd, Form, Typed, LastStep
  <2>5. Contract!Answer(r)
    BY <2>2, <2>3, <2>4 DEF Contract!Answer
  <2> QED BY <2>5 DEF Contract!Next
<1> QED BY <1>1, <1>2, <1>3, <1>4 DEF Form

------------------------------------------------------------------------------
\* A call begins with nothing placed and nothing added.
LEMMA InitEstablishes == ASSUME Init PROVE IInv /\ Contract!Init
<1>1. program \in {"app", "job"}
  BY QuickOrderAssumption DEF Init
<1>2. Typed
  BY <1>1 DEF Init, Typed, LastStep
<1>3. PlacedAtTheEnd /\ AddedIsKnown
  BY <1>1 DEF Init, PlacedAtTheEnd, AddedIsKnown, LastStep
<1>4. Contract!Init
  BY DEF Init, Contract!Init
<1> QED BY <1>2, <1>3, <1>4 DEF IInv

\* A step of the page, or none, keeps the invariant and the contract.
LEMMA StepKeeps ==
    ASSUME IInv, [Next]_vars
    PROVE  IInv' /\ [Contract!Next]_(Contract!vars)
<1>1. CASE Next
  <2>1. Form
    BY <1>1, NextForm DEF IInv
  <2>2. Typed' /\ PlacedAtTheEnd' /\ AddedIsKnown'
    BY <2>1, FormKeepsTyped, FormKeepsPlaced, FormKeepsAdded DEF IInv
  <2>3. Contract!Next \/ UNCHANGED <<result, Len(placed)>>
    BY <2>1, FormImplements DEF IInv
  <2> QED BY <2>2, <2>3 DEF IInv, Contract!vars
<1>2. CASE UNCHANGED vars
  BY <1>2 DEF vars, IInv, Typed, PlacedAtTheEnd, AddedIsKnown, LastStep, Contract!vars
<1> QED BY <1>1, <1>2

\* The vendor gets at most one order of a call of post_purchase_order, and the
\* caller is told truly whether it did, unless the call broke: for every
\* purchase order, both programs and any number of retries.
THEOREM PostingKeepsContract == Spec => ContractSpec
<1>1. Init => IInv /\ Contract!Init
  BY InitEstablishes
<1>2. IInv /\ [Next]_vars => IInv' /\ [Contract!Next]_(Contract!vars)
  BY StepKeeps
<1> QED BY <1>1, <1>2, PTL DEF Spec, ContractSpec, Contract!Spec

\* A call adds the receiver's address at most once to those of the vendor's
\* customer, although every attempt may look it up and add it
\* (find_existing_address, create_address).
THEOREM AddressOnce == Spec => []AddressAddedOnce
<1>1. Init => IInv
  BY InitEstablishes
<1>2. IInv /\ [Next]_vars => IInv'
  BY StepKeeps
<1>3. IInv => AddressAddedOnce
  BY DEF IInv, AddedIsKnown, AddressAddedOnce
<1> QED BY <1>1, <1>2, <1>3, PTL DEF Spec

------------------------------------------------------------------------------
\* What is recorded as purchased.

OneEach(s) == \A m, n \in DOMAIN s : s[m] = s[n] => m = n

\* Every product has one line.
OneLineEach == OneEach(OrderProducts)

\* The products recorded are in the cart, but for those the page has refused
\* under another number, and those reported as unavailable are not.
AsOrdered(c) ==
    /\ \A p \in Range(ordered) \ WithOptions : p \in DOMAIN c /\ c[p] = Quantity[p]
    /\ unavailable \cap DOMAIN c = {}

\* Nothing is known yet of the lines that have not been looked at.
Untouched ==
    /\ todo \in Seq(Products) /\ ordered \in Seq(Products) /\ OneEach(todo) /\ OneEach(ordered)
    /\ \A p \in Range(todo) : p \notin DOMAIN cart /\ p \notin Range(ordered) /\ p \notin unavailable

CartIsKept == AsOrdered(cart) /\ Untouched /\ (placed = <<>> \/ placed = <<cart>>)

\* The forms of a step with respect to the cart.
Fixed == UNCHANGED <<todo, cart, ordered, unavailable>>

Emptied == todo' = OrderProducts /\ cart' = EmptyCart /\ ordered' = <<>> /\ unavailable' = {}

Looked ==
    /\ todo # <<>> /\ todo' = Tail(todo)
    /\ LET p == Head(todo)
       IN  \/ UNCHANGED <<cart, ordered, unavailable>>
           \/ UNCHANGED <<cart, ordered>> /\ unavailable' = unavailable \cup {p}
           \/ UNCHANGED <<ordered, unavailable>> /\ cart' = Taken(p, 1)
           \/ /\ ~Skipped(p) /\ cart' = Taken(p, Quantity[p]) /\ ordered' = Append(ordered, p)
              /\ unavailable' = unavailable

Removed ==
    \E p \in DOMAIN cart :
        /\ todo' = todo /\ cart' = [q \in DOMAIN cart \ {p} |-> cart[q]]
        /\ IF p \in Range(ordered) /\ p \notin WithOptions
           THEN ordered' = RemoveFirst(ordered, p) /\ unavailable' = unavailable \cup {p}
           ELSE UNCHANGED <<ordered, unavailable>>

CartStep ==
    \/ Fixed /\ placed' = placed
    \/ Fixed /\ placed' = Append(placed, cart) /\ pos < LastStep
    \/ (Emptied \/ Looked \/ Removed) /\ placed' = placed /\ pos < LastStep

\* A failure leaves the form as it is or empties it.
LEMMA FailsCart ==
    ASSUME NEW kind, Fails(kind), pos < LastStep \/ kind # "retry"
    PROVE  CartStep
<1>1. CASE Return(kind) \/ Return("refused")
  BY <1>1 DEF Return, call, form, Fixed, CartStep
<1>2. CASE kind = "retry" /\ \E left \in {retries - 1, Retries} : Restart(left)
  BY <1>2 DEF Restart, Emptied, CartStep
<1> QED BY <1>1, <1>2 DEF Fails, AppFails, JobFails

\* A step that fills in the form does not touch the cart.
LEMMA FillsCart ==
    ASSUME Typed, NEW step, step \notin {"submit", "details"}, NEW failures, Fills(step, failures)
    PROVE  CartStep
<1>1. pos < LastStep
  BY Where DEF Fills, Typed, LastStep
<1>2. CASE Proceed
  BY <1>2 DEF Proceed, call, form, Fixed, CartStep
<1>3. CASE \E kind \in failures : Fails(kind)
  BY <1>1, <1>3, FailsCart
<1> QED BY <1>2, <1>3 DEF Fills

\* The lines of the purchase order, one after another.
LEMMA AddCart ==
    ASSUME Typed,
           skip_product \/ product_unavailable \/ product_breaks \/ add_product \/ products_added
    PROVE  CartStep
<1>1. pos < LastStep
  BY Where DEF skip_product, product_unavailable, product_breaks, add_product, products_added,
               Typed, LastStep
<1>2. CASE skip_product \/ product_unavailable \/ product_breaks \/ add_product
  BY <1>1, <1>2 DEF skip_product, product_unavailable, product_breaks, add_product, Looked, CartStep
<1>3. CASE products_added
  BY <1>1, <1>3, FailsCart DEF products_added, Proceed, call, form, Fixed, CartStep
<1> QED BY <1>2, <1>3

\* The cart is registered, refused, or an item leaves it.
LEMMA RegisterCart == ASSUME Typed, register_cart PROVE CartStep
<1>1. CASE Fills("cart", {"refused", "broken"})
  BY <1>1, FillsCart
<1>2. CASE At("cart") /\ \E p \in DOMAIN cart :
               IF DOMAIN cart = {p} THEN Fails("refused") ELSE RemoveItem(p)
  <2>1. pos < LastStep
    BY <1>2, Where DEF Typed, LastStep
  <2>2. CASE Fails("refused")
    BY <2>1, <2>2, FailsCart
  <2>3. CASE \E p \in DOMAIN cart : RemoveItem(p)
    BY <2>1, <2>3 DEF RemoveItem, Removed, CartStep
  <2> QED BY <1>2, <2>2, <2>3
<1> QED BY <1>1, <1>2 DEF register_cart

\* Every step has one of these forms.
LEMMA NextCart == ASSUME Typed, Next PROVE CartStep
<1>1. CASE check_date
  BY <1>1, FailsCart DEF check_date, Proceed, Return, call, form, Fixed, CartStep
<1>2. CASE login \/ job_login
  <2>1. CASE login
    BY <2>1, FailsCart DEF login, handle_login_alert, Proceed, call, form, Fixed, CartStep
  <2>2. CASE job_login
    BY <2>2, FillsCart DEF job_login
  <2> QED BY <1>2, <2>1, <2>2
<1>3. CASE init_quick_order \/ open_search \/ set_purchase_date \/ job_set_purchase_date
  BY <1>3, FillsCart DEF init_quick_order, open_search, set_purchase_date, job_set_purchase_date
<1>4. CASE set_receiver_mobile \/ set_receiver_name \/ set_payment_params \/ set_tax_info
  BY <1>4, FillsCart DEF set_receiver_mobile, set_receiver_name, set_payment_params, set_tax_info
<1>5. CASE skip_product \/ product_unavailable \/ product_breaks \/ add_product \/ products_added
  BY <1>5, AddCart
<1>6. CASE register_cart \/ job_register_cart \/ job_init_quick_order
  BY <1>6, RegisterCart, FillsCart DEF job_register_cart, job_init_quick_order
<1>7. CASE set_receiver_address \/ job_set_receiver_address
  <2>1. CASE find_address
    BY <2>1, FailsCart DEF find_address, Proceed, call, form, Fixed, CartStep
  <2>2. CASE update_address \/ select_address
    BY <2>2, FillsCart DEF update_address, select_address
  <2>3. CASE verify_address_set \/ ensure_address_set
    BY <2>3, FailsCart DEF verify_address_set, ensure_address_set, Proceed, call, form, Fixed, CartStep
  <2> QED BY <1>7, <2>1, <2>2, <2>3
      DEF set_receiver_address, job_set_receiver_address, job_find_address, job_update_address
<1>8. CASE set_local_shipment
  BY <1>8, FailsCart DEF set_local_shipment, Proceed, call, form, Fixed, CartStep
<1>9. CASE submit_order \/ job_submit_order
  <2>1. pos < LastStep
    BY <1>9, Where DEF submit_order, job_submit_order, Typed, LastStep
  <2>2. CASE PlaceOrder
    BY <2>1, <2>2 DEF PlaceOrder, call, form, Fixed, CartStep
  <2> QED BY <1>9, <2>1, <2>2, FailsCart DEF submit_order, job_submit_order
<1>10. CASE get_order_details
  BY <1>10 DEF get_order_details, Return, call, form, Fixed, CartStep
<1>11. CASE App
  BY <1>1, <1>2, <1>3, <1>4, <1>5, <1>6, <1>7, <1>8, <1>9, <1>10, <1>11 DEF App
<1>12. CASE Job
  BY <1>1, <1>2, <1>3, <1>4, <1>5, <1>6, <1>7, <1>8, <1>9, <1>10, <1>12
     DEF Job, job_add_products, job_get_product, job_set_receiver, job_set_tax_info,
         job_set_local_shipment, job_get_order_details
<1> QED BY <1>11, <1>12 DEF Next

\* Removing the only occurrence of an element.
LEMMA RemoveOnly ==
    ASSUME NEW S, NEW s \in Seq(S), OneEach(s), NEW p \in Range(s), NEW t, t = RemoveFirst(s, p)
    PROVE  t \in Seq(S) /\ OneEach(t) /\ Range(t) \subseteq Range(s) /\ p \notin Range(t)
<1> DEFINE n == Len(s)
<1>1. n \in Nat /\ DOMAIN s = 1..n
  BY LenProperties
<1>2. PICK k \in 1..n : s[k] = p
  BY <1>1 DEF Range
<1>3. {i \in 1..n : s[i] = p} = {k}
  BY <1>1, <1>2 DEF OneEach
<1>4. Min({k}) = k
  BY <1>2 DEF Min
<1>5. SelectInSeq(s, LAMBDA v : v = p) = k
  BY <1>3, <1>4 DEF SelectInSeq
<1>6. t = SubSeq(s, 1, k - 1) \o SubSeq(s, k + 1, n)
  BY <1>2, <1>5 DEF RemoveFirst, RemoveAt
<1> DEFINE u == SubSeq(s, 1, k - 1)
           v == SubSeq(s, k + 1, n)
<1>7. /\ u \in Seq(S) /\ Len(u) = k - 1 /\ \A i \in 1..(k - 1) : u[i] = s[i]
      /\ v \in Seq(S) /\ Len(v) = n - k /\ \A i \in 1..(n - k) : v[i] = s[k + i]
  <2>1. k - 1 \in Int /\ k + 1 \in Int /\ 1 \in Int /\ n \in Int
    BY <1>1, <1>2
  <2>2. (\A i \in 1..(k - 1) : s[i] \in S) /\ (\A i \in (k + 1)..n : s[i] \in S)
    BY <1>1, <1>2
  <2>3. /\ u \in Seq(S) /\ Len(u) = IF 1 <= k - 1 THEN (k - 1) - 1 + 1 ELSE 0
        /\ \A i \in 1..((k - 1) - 1 + 1) : u[i] = s[1 + i - 1]
    BY <2>1, <2>2, SubSeqProperties
  <2>4. /\ v \in Seq(S) /\ Len(v) = IF k + 1 <= n THEN n - (k + 1) + 1 ELSE 0
        /\ \A i \in 1..(n - (k + 1) + 1) : v[i] = s[(k + 1) + i - 1]
    BY <2>1, <2>2, SubSeqProperties
  <2> HIDE DEF u, v
  <2>5. Len(u) = k - 1 /\ \A i \in 1..(k - 1) : u[i] = s[i]
    BY <1>1, <1>2, <2>3
  <2>6. Len(v) = n - k /\ \A i \in 1..(n - k) : v[i] = s[k + i]
    <3>1. Len(v) = n - k
      <4>1. CASE k + 1 <= n
        <5>1. Len(v) = n - (k + 1) + 1
          BY <2>4, <4>1
        <5> QED BY <1>1, <1>2, <5>1
      <4>2. CASE ~ (k + 1 <= n)
        <5>1. Len(v) = 0
          BY <2>4, <4>2
        <5>2. k = n
          <6>1. n \in Nat /\ k \in 1..n /\ ~ (k + 1 <= n)
            BY <1>1, <4>2
          <6> HIDE DEF n
          <6> QED BY <6>1
        <5>3. n - k = 0
          BY <1>1, <5>2
        <5> QED BY <5>1, <5>3
      <4> QED BY <4>1, <4>2
    <3>2. ASSUME NEW i \in 1..(n - k) PROVE v[i] = s[k + i]
      <4>1. i \in 1..(n - (k + 1) + 1) /\ (k + 1) + i - 1 = k + i
        BY <1>1, <1>2
      <4> QED BY <2>4, <4>1
    <3> QED BY <3>1, <3>2
  <2> QED BY <2>3, <2>4, <2>5, <2>6
<1> HIDE DEF u, v
<1>8. /\ t \in Seq(S) /\ Len(t) = n - 1
      /\ \A i \in 1..(n - 1) : t[i] = IF i < k THEN s[i] ELSE s[i + 1]
  <2>1. t = u \o v
    BY <1>6 DEF u, v
  <2>2. t \in Seq(S) /\ Len(t) = (k - 1) + (n - k)
    <3>1. u \o v \in Seq(S) /\ Len(u \o v) = Len(u) + Len(v)
      BY <1>7, ConcatProperties
    <3> QED BY <1>7, <2>1, <3>1
  <2>3. ASSUME NEW i \in 1..(n - 1)
        PROVE  t[i] = IF i < k THEN s[i] ELSE s[i + 1]
    <3>1. CASE i < k
      BY <1>1, <1>2, <1>7, <2>1, <3>1
    <3>2. CASE i >= k
      <4>1. t[i] = v[i - (k - 1)]
        <5>1. /\ i \in 1..(Len(u) + Len(v)) /\ i > Len(u)
              /\ i - Len(u) = i - (k - 1)
          BY <1>1, <1>2, <1>7, <3>2
        <5>2. u \in Seq(S) /\ v \in Seq(S)
          BY <1>7
        <5>3. (u \o v)[i] = v[i - Len(u)]
          BY <5>1, <5>2, ConcatProperties
        <5> QED BY <2>1, <5>1, <5>3
      <4>2. i - (k - 1) \in 1..(n - k) /\ k + (i - (k - 1)) = i + 1
        BY <1>1, <1>2, <3>2
      <4> QED BY <1>7, <3>2, <4>1, <4>2
    <3> QED BY <1>1, <1>2, <3>1, <3>2
  <2>4. (k - 1) + (n - k) = n - 1
    BY <1>1, <1>2
  <2> QED BY <2>2, <2>3, <2>4
<1>9. ASSUME NEW i \in 1..(n - 1)
      PROVE  \E j \in 1..n : t[i] = s[j] /\ j # k /\ j = IF i < k THEN i ELSE i + 1
  BY <1>1, <1>2, <1>8
<1>10. DOMAIN t = 1..(n - 1)
  BY <1>8
<1>11. OneEach(t)
  <2>1. SUFFICES ASSUME NEW i \in 1..(n - 1), NEW j \in 1..(n - 1), i # j
                 PROVE  t[i] # t[j]
    BY <1>10 DEF OneEach
  <2>2. /\ t[i] = IF i < k THEN s[i] ELSE s[i + 1]
        /\ t[j] = IF j < k THEN s[j] ELSE s[j + 1]
    BY <1>8
  <2> DEFINE a == IF i < k THEN i ELSE i + 1
             b == IF j < k THEN j ELSE j + 1
  <2>3. a \in 1..n /\ b \in 1..n /\ a # b
    <3>1. n \in Nat /\ k \in 1..n /\ i \in 1..(n - 1) /\ j \in 1..(n - 1) /\ i # j
      BY <1>1, <1>2, <2>1
    <3> HIDE DEF n
    <3>2. a \in 1..n /\ b \in 1..n
      BY <3>1
    <3>3. a # b
      BY <3>1
    <3> QED BY <3>2, <3>3
  <2>4. t[i] = s[a] /\ t[j] = s[b]
    BY <2>2
  <2> HIDE DEF a, b
  <2>5. s[a] # s[b]
    BY <1>1, <2>3 DEF OneEach
  <2> QED BY <2>4, <2>5
<1>12. Range(t) \subseteq Range(s)
  BY <1>1, <1>9, <1>10 DEF Range
<1>13. p \notin Range(t)
  BY <1>1, <1>2, <1>9, <1>10 DEF Range, OneEach
<1> QED BY <1>8, <1>11, <1>12, <1>13

\* Looking at the first line of those that are left.
LEMMA LookAt ==
    ASSUME Untouched, todo # <<>>
    PROVE  /\ Head(todo) \in Products /\ Head(todo) \in Range(todo)
           /\ Tail(todo) \in Seq(Products) /\ OneEach(Tail(todo))
           /\ Range(Tail(todo)) \subseteq Range(todo) /\ Head(todo) \notin Range(Tail(todo))
<1> DEFINE n == Len(todo)
<1>1. todo \in Seq(Products) /\ n \in Nat /\ n # 0 /\ DOMAIN todo = 1..n
  BY EmptySeq, LenProperties DEF Untouched
<1>2. /\ Head(todo) = todo[1] /\ Tail(todo) \in Seq(Products) /\ Len(Tail(todo)) = n - 1
      /\ \A i \in 1..(n - 1) : Tail(todo)[i] = todo[i + 1]
  BY <1>1, HeadTailProperties
<1>3. DOMAIN Tail(todo) = 1..(n - 1)
  BY <1>2
<1>4. Head(todo) \in Products /\ Head(todo) \in Range(todo)
  BY <1>1, <1>2, ElementOfSeq DEF Range
<1> DEFINE t == Tail(todo)
<1> HIDE DEF t
<1>5. DOMAIN t = 1..(n - 1) /\ \A i \in 1..(n - 1) : i + 1 \in 1..n /\ t[i] = todo[i + 1]
  BY <1>1, <1>2, <1>3 DEF t
<1>6. OneEach(t)
  <2> SUFFICES ASSUME NEW i \in 1..(n - 1), NEW j \in 1..(n - 1), t[i] = t[j] PROVE i = j
    BY <1>5 DEF OneEach
  <2> DEFINE a == i + 1
             b == j + 1
  <2>1. a \in 1..n /\ b \in 1..n /\ todo[a] = todo[b]
    BY <1>5
  <2> HIDE DEF a, b
  <2>2. a = b
    BY <1>1, <2>1 DEF OneEach, Untouched
  <2> QED BY <1>1, <2>2 DEF a, b
<1>7. Range(t) \subseteq Range(todo)
  BY <1>1, <1>5 DEF Range
<1>8. ASSUME NEW i \in 1..(n - 1)
      PROVE  t[i] # todo[1]
  BY <1>1, <1>5, <1>8 DEF OneEach, Untouched
<1>9. Head(todo) \notin Range(t)
  BY <1>2, <1>5, <1>8 DEF Range
<1> QED BY <1>2, <1>4, <1>6, <1>7, <1>9 DEF t

\* The forms keep the cart as it is recorded.
LEMMA CartStepKeeps ==
    ASSUME OneLineEach, PlacedAtTheEnd, Typed, result = "open", CartIsKept, CartStep
    PROVE  CartIsKept'
<1>1. pos < LastStep => placed = <<>>
  BY DEF PlacedAtTheEnd, Typed, LastStep
<1>2. CASE Fixed
  <2>1. AsOrdered(cart)' /\ Untouched'
    BY <1>2 DEF Fixed, AsOrdered, Untouched, CartIsKept
  <2>2. placed' = placed \/ (placed = <<>> /\ placed' = Append(placed, cart))
    BY <1>1, <1>2 DEF CartStep, Emptied, Looked, Removed
  <2>3. placed' = <<>> \/ placed' = <<cart'>>
    BY <1>2, <2>2 DEF Fixed, CartIsKept
  <2> QED BY <2>1, <2>3 DEF CartIsKept
<1>3. CASE ~ Fixed
  <2>1. placed' = <<>> /\ (Emptied \/ Looked \/ Removed)
    BY <1>1, <1>3 DEF CartStep
  <2>2. CASE Emptied
    <3>1. DOMAIN cart' = {} /\ Range(ordered') = {} /\ OneEach(ordered') /\ ordered' \in Seq(Products)
      BY <2>2 DEF Emptied, EmptyCart, Range, OneEach
    <3>2. todo' \in Seq(Products) /\ OneEach(todo') /\ unavailable' = {}
      BY <2>2, QuickOrderAssumption DEF Emptied, OneLineEach
    <3> QED BY <2>1, <3>1, <3>2 DEF CartIsKept, AsOrdered, Untouched
  <2>3. CASE Looked
    <3> DEFINE p == Head(todo)
    <3>1. /\ p \in Products /\ p \in Range(todo) /\ todo' \in Seq(Products) /\ OneEach(todo')
          /\ Range(todo') \subseteq Range(todo) /\ p \notin Range(todo')
      BY <2>3, LookAt DEF Looked, CartIsKept
    <3>2. /\ p \notin DOMAIN cart /\ p \notin Range(ordered) /\ p \notin unavailable
          /\ \A q \in Range(todo') :
                q # p /\ q \notin DOMAIN cart /\ q \notin Range(ordered) /\ q \notin unavailable
      BY <3>1 DEF CartIsKept, Untouched
    <3>3. \A c : /\ DOMAIN Taken(p, c) = DOMAIN cart \cup {p} /\ Taken(p, c)[p] = c
                 /\ \A q \in DOMAIN cart : q # p => Taken(p, c)[q] = cart[q]
      BY DEF Taken
    <3>4. \/ UNCHANGED <<cart, ordered, unavailable>>
          \/ UNCHANGED <<cart, ordered>> /\ unavailable' = unavailable \cup {p}
          \/ UNCHANGED <<ordered, unavailable>> /\ cart' = Taken(p, 1)
          \/ /\ cart' = Taken(p, Quantity[p]) /\ ordered' = Append(ordered, p)
             /\ unavailable' = unavailable
      BY <2>3 DEF Looked
    <3> HIDE DEF p
    <3>5. CASE UNCHANGED <<cart, ordered, unavailable>>
      BY <2>1, <3>1, <3>2, <3>5 DEF CartIsKept, AsOrdered, Untouched
    <3>6. CASE UNCHANGED <<cart, ordered>> /\ unavailable' = unavailable \cup {p}
      BY <2>1, <3>1, <3>2, <3>6 DEF CartIsKept, AsOrdered, Untouched
    <3>7. CASE UNCHANGED <<ordered, unavailable>> /\ cart' = Taken(p, 1)
      BY <2>1, <3>1, <3>2, <3>3, <3>7 DEF CartIsKept, AsOrdered, Untouched
    <3>8. CASE /\ cart' = Taken(p, Quantity[p]) /\ ordered' = Append(ordered, p)
               /\ unavailable' = unavailable
      <4> DEFINE n == Len(ordered)
      <4>1. /\ ordered \in Seq(Products) /\ n \in Nat /\ DOMAIN ordered = 1..n /\ OneEach(ordered)
            /\ ordered' \in Seq(Products) /\ Len(ordered') = n + 1 /\ DOMAIN ordered' = 1..(n + 1)
            /\ ordered'[n + 1] = p /\ \A i \in 1..n : ordered'[i] = ordered[i]
        BY <3>1, <3>8, LenProperties, AppendProperties DEF CartIsKept, Untouched
      <4>2. Range(ordered') = Range(ordered) \cup {p}
        BY <4>1 DEF Range
      <4>3. \A i \in 1..n : ordered[i] # p
        BY <3>2, <4>1 DEF Range
      <4>4. OneEach(ordered')
        BY <4>1, <4>3 DEF OneEach
      <4>5. Untouched'
        BY <3>1, <3>2, <3>3, <3>8, <4>1, <4>2, <4>4 DEF Untouched
      <4>6. AsOrdered(cart)'
        BY <3>2, <3>3, <3>8, <4>2 DEF CartIsKept, AsOrdered
      <4> QED BY <2>1, <4>5, <4>6 DEF CartIsKept
    <3> QED BY <3>4, <3>5, <3>6, <3>7, <3>8
  <2>4. CASE Removed
    <3>1. PICK p \in DOMAIN cart :
            /\ todo' = todo /\ cart' = [q \in DOMAIN cart \ {p} |-> cart[q]]
            /\ IF p \in Range(ordered) /\ p \notin WithOptions
               THEN ordered' = RemoveFirst(ordered, p) /\ unavailable' = unavailable \cup {p}
               ELSE UNCHANGED <<ordered, unavailable>>
      BY <2>4 DEF Removed
    <3>2. /\ DOMAIN cart' = DOMAIN cart \ {p}
          /\ \A q \in DOMAIN cart' : cart'[q] = cart[q]
      BY <3>1
    <3>3. CASE p \in Range(ordered) /\ p \notin WithOptions
      <4>1. ordered' = RemoveFirst(ordered, p) /\ unavailable' = unavailable \cup {p}
        BY <3>1, <3>3
      <4>2. /\ ordered' \in Seq(Products) /\ OneEach(ordered')
            /\ Range(ordered') \subseteq Range(ordered) /\ p \notin Range(ordered')
        BY <3>3, <4>1, RemoveOnly DEF CartIsKept, Untouched
      <4>3. Untouched'
        BY <3>1, <3>2, <4>1, <4>2 DEF CartIsKept, Untouched
      <4>4. AsOrdered(cart)'
        BY <3>2, <4>1, <4>2 DEF CartIsKept, AsOrdered
      <4> QED BY <2>1, <4>3, <4>4 DEF CartIsKept
    <3>4. CASE ~ (p \in Range(ordered) /\ p \notin WithOptions)
      <4>1. UNCHANGED <<ordered, unavailable>>
        BY <3>1, <3>4
      <4> QED BY <2>1, <3>1, <3>2, <3>4, <4>1 DEF CartIsKept, AsOrdered, Untouched
    <3> QED BY <3>3, <3>4
  <2> QED BY <2>1, <2>2, <2>3, <2>4
<1> QED BY <1>2, <1>3

\* A call begins with nothing recorded.
LEMMA CartBegins == ASSUME OneLineEach, Init PROVE IInv /\ CartIsKept
<1>1. todo \in Seq(Products) /\ OneEach(todo) /\ cart = EmptyCart /\ ordered = <<>>
  BY QuickOrderAssumption DEF Init, OneLineEach
<1>2. /\ unavailable = {} /\ placed = <<>> /\ DOMAIN cart = {} /\ Range(ordered) = {}
      /\ OneEach(ordered) /\ ordered \in Seq(Products)
  BY DEF Init, EmptyCart, Range, OneEach
<1> QED BY <1>1, <1>2, InitEstablishes DEF CartIsKept, AsOrdered, Untouched

\* A step of the page, or none, keeps the cart as it is recorded.
LEMMA CallKeepsCart ==
    ASSUME OneLineEach, IInv, CartIsKept, [Next]_vars
    PROVE  (IInv /\ CartIsKept)'
<1>1. CASE Next
  <2>1. result = "open" /\ CartStep
    BY <1>1, NextForm, NextCart DEF IInv, Form
  <2> QED BY <2>1, CartStepKeeps, StepKeeps DEF IInv
<1>2. CASE UNCHANGED vars
  <2>1. UNCHANGED <<todo, cart, ordered, unavailable, placed>>
    BY <1>2 DEF vars
  <2>2. CartIsKept'
    BY <2>1 DEF CartIsKept, AsOrdered, Untouched
  <2> QED BY <2>2, StepKeeps
<1> QED BY <1>1, <1>2

\* A product that will be recorded as purchased has been bought, in its quantity,
\* and one that is reported as unavailable has not, whatever the page refuses and
\* however often the attempt is repeated, if every product of the purchase order
\* has one line: of a product with two lines the second may be refused
\* (__add_products, __register_cart).
THEOREM RecordedIsBought ==
    ASSUME OneLineEach
    PROVE  Spec => []OrderedIsBought
<1>1. Init => IInv /\ CartIsKept
  BY CartBegins
<1>2. IInv /\ CartIsKept /\ [Next]_vars => (IInv /\ CartIsKept)'
  BY CallKeepsCart
<1>3. IInv /\ CartIsKept => OrderedIsBought
  <2> SUFFICES ASSUME IInv, CartIsKept, result = "posted" PROVE OrderedIsBought
    BY DEF OrderedIsBought
  <2>1. placed = <<cart>> /\ placed[1] = cart
    BY DEF IInv, PlacedAtTheEnd, CartIsKept
  <2> QED BY <2>1 DEF CartIsKept, AsOrdered, OrderedIsBought
<1> QED BY <1>1, <1>2, <1>3, PTL DEF Spec

------------------------------------------------------------------------------
(* Folds: from the numbers below the next one, and from the subsets to what  *)
(* has one element more.                                                     *)

\* A set that has 0, and with each number below n the next one, has all up to n.
LEMMA UpTo ==
    ASSUME NEW n \in Nat, NEW S, 0 \in S, \A i \in 1..n : i - 1 \in S => i \in S
    PROVE  0..n \subseteq S
<1> SUFFICES ASSUME ~ (0..n \subseteq S) PROVE FALSE
  OBVIOUS
<1> DEFINE Out == (0..n) \ S  Less == OpToRel(<, Nat)
<1>1. Out \in SUBSET Nat /\ Out # {} /\ \A i \in Out : i \in 1..n
  OBVIOUS
<1>2. \E i \in Out : \A j \in Out : ~ (j < i)
  <2> HIDE DEF Out
  <2>1. IsWellFoundedOn(Less, Nat)
    BY NatLessThanWellFounded
  <2>2. PICK i \in Out : \A j \in Out : ~ (<<j, i>> \in Less)
    <3> HIDE DEF Less
    <3> QED BY <1>1, <2>1, WFMin
  <2> QED BY <1>1, <2>2 DEF OpToRel
<1>3. PICK i \in Out : \A j \in Out : ~ (j < i)
  BY <1>2
<1>4. i \in 1..n /\ i - 1 \in 0..n /\ i - 1 < i
  BY <1>1, <1>3
<1> QED BY <1>3, <1>4

\* A recursion over the subsets of a finite set that takes one element after the
\* other has a solution.
SizedTo(S, n) == {s \in SUBSET S : Cardinality(s) <= n}
Solves(g, sets, D, base, pick, F) ==
    /\ g \in [sets -> D]
    /\ \A s \in sets : g[s] = IF s = {} THEN base ELSE F[pick[s]][g[s \ {pick[s]}]]

\* There is such a function: from the sets of one size to those of the next.
LEMMA FoldExists ==
    ASSUME NEW S, IsFiniteSet(S), NEW D, NEW base \in D,
           NEW pick, \A s \in SUBSET S : s # {} => pick[s] \in s,
           NEW F, \A x \in S : F[x] \in [D -> D]
    PROVE  \E g : Solves(g, SUBSET S, D, base, pick, F)
<1> DEFINE N == Cardinality(S)
           Possible == {n \in 0..N : \E g : Solves(g, SizedTo(S, n), D, base, pick, F)}
<1>0. /\ N \in Nat
      /\ \A s \in SUBSET S : IsFiniteSet(s) /\ Cardinality(s) \in Nat /\ Cardinality(s) <= N
      /\ \A s \in SUBSET S : Cardinality(s) = 0 <=> s = {}
      /\ \A s \in SUBSET S : s # {} => Cardinality(s \ {pick[s]}) = Cardinality(s) - 1
  <2>1. \A s \in SUBSET S : IsFiniteSet(s) /\ Cardinality(s) \in Nat /\ Cardinality(s) <= N
    BY FS_Subset, FS_CardinalityType
  <2> QED BY <2>1, FS_EmptySet, FS_RemoveElement
<1>1. 0 \in Possible
  <2>1. SizedTo(S, 0) = {{}}
    BY <1>0 DEF SizedTo
  <2>2. \E g : Solves(g, {{}}, D, base, pick, F)
    <3> DEFINE z == [s \in {{}} |-> base]
    <3>1. z \in [{{}} -> D] /\ \A s \in {{}} : s = {} /\ z[s] = base
      OBVIOUS
    <3>2. z \in [{{}} -> D] /\ \A s \in {{}} : z[s] = IF s = {} THEN base ELSE F[pick[s]][z[s \ {pick[s]}]]
      <4> HIDE DEF z
      <4> QED BY <3>1
    <3> HIDE DEF z
    <3>3. Solves(z, {{}}, D, base, pick, F)
      BY <3>2 DEF Solves
    <3> QED BY <3>3
  <2>3. \E g : Solves(g, SizedTo(S, 0), D, base, pick, F)
    BY <2>1, <2>2
  <2> QED BY <1>0, <2>3
<1>2. ASSUME NEW n \in 1..N, n - 1 \in Possible PROVE n \in Possible
  <2>1. PICK g : Solves(g, SizedTo(S, n - 1), D, base, pick, F)
    BY <1>2
  <2> DEFINE T == SizedTo(S, n)  L == SizedTo(S, n - 1)
             h == [s \in T |-> IF s \in L THEN g[s] ELSE F[pick[s]][g[s \ {pick[s]}]]]
  <2>2. \A s \in T : s # {} => s \ {pick[s]} \in L /\ pick[s] \in S
    BY <1>0 DEF SizedTo
  <2>3. {} \in L /\ L \subseteq T
    BY <1>0 DEF SizedTo
  <2>4. /\ \A s \in L : g[s] \in D /\ g[s] = IF s = {} THEN base ELSE F[pick[s]][g[s \ {pick[s]}]]
    BY <2>1 DEF Solves
  <2> HIDE DEF T, L
  <2>5. \A s \in L : h[s] = g[s]
    BY <2>3
  <2>6. \A s \in T : s # {} => h[s] = F[pick[s]][g[s \ {pick[s]}]] /\ h[s] \in D
    <3> SUFFICES ASSUME NEW s \in T, s # {}
                 PROVE  h[s] = F[pick[s]][g[s \ {pick[s]}]] /\ h[s] \in D
      OBVIOUS
    <3>1. h[s] = F[pick[s]][g[s \ {pick[s]}]]
      BY <2>4
    <3>2. g[s \ {pick[s]}] \in D /\ F[pick[s]] \in [D -> D]
      BY <2>2, <2>4
    <3> QED BY <3>1, <3>2
  <2>7. h \in [T -> D] /\ \A s \in T : h[s] = IF s = {} THEN base ELSE F[pick[s]][h[s \ {pick[s]}]]
    BY <2>2, <2>3, <2>4, <2>5, <2>6
  <2>8. Solves(h, T, D, base, pick, F)
    <3> HIDE DEF h
    <3> QED BY <2>7 DEF Solves
  <2> QED BY <2>8 DEF T
<1>3. N \in Possible
  <2> HIDE DEF Possible, N
  <2>1. 0..N \subseteq Possible
    BY <1>0, <1>1, <1>2, UpTo
  <2> QED BY <1>0, <2>1
<1>4. SizedTo(S, N) = SUBSET S
  BY <1>0 DEF SizedTo
<1>5. PICK g : Solves(g, SizedTo(S, N), D, base, pick, F)
  BY <1>3
<1> HIDE DEF N
<1> QED BY <1>4, <1>5

\* A set of the numbers up to n has a largest one.
LEMMA MaxOf ==
    ASSUME NEW n \in Nat
    PROVE  /\ \A s \in SUBSET (1..n) : s # {} => Max(s) \in s
           /\ \A i \in 1..n : Max(1..i) = i /\ (1..i) \ {i} = 1..(i - 1)
<1>1. ASSUME NEW s \in SUBSET (1..n), s # {} PROVE Max(s) \in s
  <2> DEFINE Top == {i \in 0..n : \A x \in s : x <= n - i}
  <2>1. \E x \in s : \A y \in s : x >= y
    <3>1. ASSUME \A x \in s : \E y \in s : ~ (x >= y) PROVE FALSE
      <4>1. 0 \in Top
        OBVIOUS
      <4>2. ASSUME NEW i \in 1..n, i - 1 \in Top PROVE i \in Top
        BY <3>1, <4>2
      <4>3. n \in Top
        <5> HIDE DEF Top
        <5> QED BY <4>1, <4>2, UpTo
      <4>4. PICK x : x \in s
        BY <1>1
      <4>5. x \in 1..n /\ x <= n - n
        BY <4>3, <4>4
      <4> QED BY <4>5
    <3> QED BY <3>1
  <2> QED BY <2>1 DEF Max
<1>2. ASSUME NEW i \in 1..n PROVE Max(1..i) = i /\ (1..i) \ {i} = 1..(i - 1)
  BY <1>2 DEF Max
<1> QED BY <1>1, <1>2

\* What holds of no elements, and of some if it does without any one of them, holds
\* of all.
LEMMA OneByOne ==
    ASSUME NEW S, IsFiniteSet(S), NEW Good, {} \in Good,
           \A T \in SUBSET S : T # {} /\ (\A x \in T : T \ {x} \in Good) => T \in Good
    PROVE  SUBSET S \subseteq Good
<1> DEFINE N == Cardinality(S)
           Sized == {n \in 0..N : \A T \in SUBSET S : Cardinality(T) = n => T \in Good}
<1>1. /\ N \in Nat /\ \A T \in SUBSET S : IsFiniteSet(T) /\ Cardinality(T) \in Nat
      /\ \A T \in SUBSET S : Cardinality(T) = 0 => T = {}
      /\ \A T \in SUBSET S : \A x \in T : Cardinality(T \ {x}) = Cardinality(T) - 1
  <2>1. \A T \in SUBSET S : IsFiniteSet(T) /\ Cardinality(T) \in Nat
    BY FS_Subset, FS_CardinalityType
  <2>2. N \in Nat
    BY FS_CardinalityType
  <2>3. \A T \in SUBSET S : Cardinality(T) = 0 => T = {}
    BY <2>1, FS_EmptySet
  <2>4. \A T \in SUBSET S : \A x \in T : Cardinality(T \ {x}) = Cardinality(T) - 1
    BY <2>1, FS_RemoveElement
  <2> QED BY <2>1, <2>2, <2>3, <2>4
<1>2. 0 \in Sized
  <2>1. \A T \in SUBSET S : Cardinality(T) = 0 => T \in Good
    BY <1>1
  <2>2. 0 \in 0..N
    BY <1>1
  <2> QED BY <2>1, <2>2
<1>3. ASSUME NEW n \in 1..N, n - 1 \in Sized PROVE n \in Sized
  <2> SUFFICES ASSUME NEW T \in SUBSET S, Cardinality(T) = n PROVE T \in Good
    OBVIOUS
  <2>1. T # {}
    BY FS_EmptySet
  <2>2. \A x \in T : Cardinality(T \ {x}) = n - 1 /\ T \ {x} \in SUBSET S
    BY <1>1
  <2>3. \A x \in T : T \ {x} \in Good
    BY <1>3, <2>2
  <2> QED BY <2>1, <2>3
<1>4. 0..N \subseteq Sized
  <2> HIDE DEF Sized, N
  <2> QED BY <1>1, <1>2, <1>3, UpTo
<1>5. \A T \in SUBSET S : Cardinality(T) \in 0..N
  BY <1>1, FS_Subset
<1> QED BY <1>4, <1>5

------------------------------------------------------------------------------
(* What the products of the purchase order cost.                             *)

Worth(p) == Price[p] * Quantity[p]
Worths(T) == FoldSet(LAMBDA p, sum : sum + Price[p] * Quantity[p], 0, T)

Chosen(s) == CHOOSE x \in s : TRUE

\* What a sum of the library computes: a function of the subsets.
Sums(g, S) ==
    /\ g \in [SUBSET S -> Int] /\ g[{}] = 0
    /\ \A s \in SUBSET S : s # {} => Chosen(s) \in s /\ g[s] = g[s \ {Chosen(s)}] + Worth(Chosen(s))
Integral(S) == \A x \in S : Worth(x) \in Int

\* There is such a function, and the sum over S is its value there.
LEMMA SumSolves ==
    ASSUME NEW S, IsFiniteSet(S), Integral(S)
    PROVE  \E g : Sums(g, S) /\ Worths(S) = g[S]
<1> DEFINE pick == [s \in SUBSET S |-> Chosen(s)]
           F == [x \in S |-> [n \in Int |-> n + Worth(x)]]
           Iter(g) == g = [s \in SUBSET S |->
                              IF s = {} THEN 0 ELSE g[s \ {Chosen(s)}] + Worth(Chosen(s))]
<1>1. Worths(S) = (CHOOSE g : Iter(g))[S]
  BY DEF Worths, Worth, FoldSet, MapThenFoldSet, Chosen
<1>2. \A s \in SUBSET S : s # {} => Chosen(s) \in s /\ pick[s] = Chosen(s) /\ s \ {Chosen(s)} \in SUBSET S
  BY DEF Chosen
<1>3. \A x \in S : F[x] \in [Int -> Int] /\ \A n \in Int : F[x][n] = n + Worth(x)
  BY DEF Integral
<1> HIDE DEF pick, F
<1>4. PICK g : Solves(g, SUBSET S, Int, 0, pick, F)
  <2>1. \A s \in SUBSET S : s # {} => pick[s] \in s
    BY <1>2
  <2>2. \A x \in S : F[x] \in [Int -> Int]
    BY <1>3
  <2>3. 0 \in Int
    OBVIOUS
  <2> QED BY <2>1, <2>2, <2>3, FoldExists
<1>5. Iter(g)
  <2>1. g \in [SUBSET S -> Int] /\ \A s \in SUBSET S : g[s] = IF s = {} THEN 0 ELSE F[pick[s]][g[s \ {pick[s]}]]
    BY <1>4 DEF Solves
  <2>2. ASSUME NEW s \in SUBSET S, s # {} PROVE g[s] = g[s \ {Chosen(s)}] + Worth(Chosen(s))
    <3>1. PICK x \in S : x = Chosen(s) /\ x = pick[s] /\ s \ {x} \in SUBSET S
      BY <1>2, <2>2
    <3>2. g[s] = F[x][g[s \ {x}]] /\ g[s \ {x}] \in Int
      BY <2>1, <2>2, <3>1
    <3> QED BY <1>3, <3>1, <3>2
  <2> QED BY <2>1, <2>2
<1>6. PICK h : Iter(h) /\ h = CHOOSE x : Iter(x)
  BY <1>5
<1>7. \A s \in SUBSET S : h[s] = IF s = {} THEN 0 ELSE h[s \ {Chosen(s)}] + Worth(Chosen(s))
  BY <1>6
<1>8. \A T \in SUBSET S : h[T] \in Int
  <2> DEFINE Good == {s \in SUBSET S : h[s] \in Int}
  <2>1. {} \in Good
    <3>1. {} \in SUBSET S /\ h[{}] = 0
      BY <1>7
    <3> QED BY <3>1
  <2>2. ASSUME NEW T \in SUBSET S, T # {}, \A x \in T : T \ {x} \in Good PROVE T \in Good
    <3>1. PICK x \in T : x = Chosen(T)
      BY <1>2, <2>2
    <3>2. h[T] = h[T \ {x}] + Worth(x) /\ Worth(x) \in Int /\ h[T \ {x}] \in Int
      BY <1>7, <2>2, <3>1 DEF Integral
    <3> QED BY <3>2
  <2>3. SUBSET S \subseteq Good
    <3> HIDE DEF Good
    <3> QED BY <2>1, <2>2, OneByOne
  <2> QED BY <2>3
<1>9. Sums(h, S)
  <2>1. h \in [SUBSET S -> Int]
    BY <1>6, <1>8
  <2> QED BY <1>2, <1>7, <2>1 DEF Sums
<1> QED BY <1>1, <1>6, <1>9

\* The order does not matter.
LEMMA SumAny ==
    ASSUME NEW S, IsFiniteSet(S), Integral(S), NEW g, Sums(g, S)
    PROVE  \A T \in SUBSET S : \A x \in T : g[T] = g[T \ {x}] + Worth(x)
<1> DEFINE Good == {T \in SUBSET S : \A x \in T : g[T] = g[T \ {x}] + Worth(x)}
<1>1. {} \in Good
  OBVIOUS
<1>2. ASSUME NEW T \in SUBSET S, T # {}, \A x \in T : T \ {x} \in Good PROVE T \in Good
  <2> SUFFICES ASSUME NEW x \in T PROVE g[T] = g[T \ {x}] + Worth(x)
    OBVIOUS
  <2>1. PICK p \in T : p = Chosen(T) /\ g[T] = g[T \ {p}] + Worth(p)
    BY <1>2 DEF Sums
  <2>2. CASE x = p
    BY <2>1, <2>2
  <2>3. CASE x # p
    <3> DEFINE A == T \ {p}  B == T \ {x}  C == (T \ {p}) \ {x}
    <3>1. x \in A /\ p \in B /\ C = B \ {p} /\ C = A \ {x} /\ C \in SUBSET S /\ A \in SUBSET S /\ B \in SUBSET S
      BY <2>3
    <3>2. A \in Good /\ B \in Good
      BY <1>2
    <3> HIDE DEF A, B, C
    <3>3. g[A] = g[C] + Worth(x) /\ g[B] = g[C] + Worth(p)
      BY <3>1, <3>2
    <3>4. Worth(x) \in Int /\ Worth(p) \in Int /\ g[C] \in Int
      BY <3>1 DEF Sums, Integral
    <3>5. g[T] = g[B] + Worth(x)
      BY <2>1, <3>3, <3>4 DEF A
    <3> QED BY <3>5 DEF B
  <2> QED BY <2>2, <2>3
<1>3. SUBSET S \subseteq Good
  <2> HIDE DEF Good
  <2> QED BY <1>1, <1>2, OneByOne
<1> QED BY <1>3

\* The sum of no products is zero, and with one more it is its worth more.
LEMMA SumOver ==
    ASSUME NEW S, IsFiniteSet(S), Integral(S)
    PROVE  /\ Worths({}) = 0 /\ Worths(S) \in Int
           /\ \A x \in S : Worths(S \ {x}) \in Int /\ Worths(S) = Worths(S \ {x}) + Worth(x)
<1>1. PICK g : Sums(g, S) /\ Worths(S) = g[S]
  BY SumSolves
<1>2. ASSUME NEW T \in SUBSET S PROVE Worths(T) = g[T]
  <2>1. IsFiniteSet(T) /\ Integral(T)
    BY FS_Subset DEF Integral
  <2>2. PICK k : Sums(k, T) /\ Worths(T) = k[T]
    BY <2>1, SumSolves
  <2> DEFINE Good == {U \in SUBSET T : k[U] = g[U]}
  <2>3. {} \in Good
    BY <1>1, <2>2 DEF Sums
  <2>4. ASSUME NEW U \in SUBSET T, U # {}, \A x \in U : U \ {x} \in Good PROVE U \in Good
    <3>1. PICK x \in U : x = Chosen(U)
      BY <2>2, <2>4 DEF Sums
    <3>2. k[U] = k[U \ {x}] + Worth(x)
      BY <2>2, <2>4, <3>1 DEF Sums
    <3>3. g[U] = g[U \ {x}] + Worth(x)
      BY <1>1, <2>4, <3>1 DEF Sums
    <3>4. k[U \ {x}] = g[U \ {x}]
      BY <2>4
    <3> QED BY <3>2, <3>3, <3>4
  <2>5. SUBSET T \subseteq Good
    <3> HIDE DEF Good
    <3> QED BY <2>1, <2>3, <2>4, OneByOne
  <2> QED BY <2>2, <2>5
<1>3. \A x \in S : g[S] = g[S \ {x}] + Worth(x)
  BY <1>1, SumAny
<1>4. g[{}] = 0 /\ g \in [SUBSET S -> Int]
  BY <1>1 DEF Sums
<1> QED BY <1>2, <1>3, <1>4

\* Products that are worth nothing or more are so together.
LEMMA SumIsNat ==
    ASSUME NEW S, IsFiniteSet(S), \A x \in S : Worth(x) \in Nat
    PROVE  Worths(S) \in Nat
<1> DEFINE Good == {T \in SUBSET S : Worths(T) \in Nat}
<1>1. \A T \in SUBSET S : IsFiniteSet(T) /\ Integral(T)
  BY FS_Subset DEF Integral
<1>2. {} \in Good
  BY <1>1, SumOver
<1>3. ASSUME NEW T \in SUBSET S, T # {}, \A x \in T : T \ {x} \in Good PROVE T \in Good
  <2>1. PICK x : x \in T
    BY <1>3
  <2>2. Worths(T) = Worths(T \ {x}) + Worth(x)
    BY <1>1, <2>1, SumOver
  <2>3. Worth(x) \in Nat /\ Worths(T \ {x}) \in Nat
    BY <1>3, <2>1
  <2> QED BY <2>2, <2>3
<1>4. SUBSET S \subseteq Good
  <2> HIDE DEF Good
  <2> QED BY <1>2, <1>3, OneByOne
<1> QED BY <1>4

\* The amount that __set_local_shipment builds up, and starts again at every line
\* that is delivered separately, is never more than what the lines that are not
\* come to, if no product has two lines.
LEMMA AmountIsBounded ==
    ASSUME NEW n \in Nat, ordered \in [1..n -> Products], OneEach(ordered), Len(ordered) = n,
           \A i \in 1..n : Worth(ordered[i]) \in Nat
    PROVE  /\ free_shipping_eligible_amount <= Worths(Range(ordered) \ separate)
           /\ free_shipping_eligible_amount \in Int /\ Worths(Range(ordered) \ separate) \in Int
<1> DEFINE D == Int
           Step(acc, p) == IF p \in separate THEN 0 ELSE acc + Worth(p)
           F == [i \in 1..n |-> [acc \in D |-> Step(acc, ordered[i])]]
           pick == [s \in SUBSET (1..n) |-> Max(s)]
           Iter(g) == g = [s \in SUBSET (1..n) |->
                              IF s = {} THEN 0 ELSE Step(g[s \ {Max(s)}], ordered[Max(s)])]
<1>1. free_shipping_eligible_amount = (CHOOSE g : Iter(g))[1..n]
  BY DEF free_shipping_eligible_amount, FoldLeft, MapThenFoldSet, Worth
<1>2. 0 \in D /\ \A i \in 1..n : \A acc \in D : Step(acc, ordered[i]) \in D
  OBVIOUS
<1>3. \A i \in 1..n : F[i] \in [D -> D] /\ \A acc \in D : F[i][acc] = Step(acc, ordered[i])
  BY <1>2
<1>4. \A s \in SUBSET (1..n) : s # {} => pick[s] \in s /\ pick[s] = Max(s)
  BY MaxOf
<1>5. IsFiniteSet(1..n)
  BY FS_Interval
<1> HIDE DEF F, D, Step, pick
<1>6. PICK g : Solves(g, SUBSET (1..n), D, 0, pick, F)
  BY <1>2, <1>3, <1>4, <1>5, FoldExists
<1>7. Iter(g)
  <2>1. g \in [SUBSET (1..n) -> D]
        /\ \A s \in SUBSET (1..n) : g[s] = IF s = {} THEN 0 ELSE F[pick[s]][g[s \ {pick[s]}]]
    BY <1>6 DEF Solves
  <2>2. ASSUME NEW s \in SUBSET (1..n), s # {} PROVE g[s] = Step(g[s \ {Max(s)}], ordered[Max(s)])
    <3>1. PICK m \in 1..n : m = Max(s) /\ m = pick[s]
      BY <1>4, <2>2
    <3>2. PICK x \in D : x = g[s \ {m}]
      BY <2>1
    <3>3. g[s] = F[m][x]
      BY <2>1, <2>2, <3>1, <3>2
    <3> QED BY <1>3, <3>1, <3>2, <3>3
  <2> QED BY <2>1, <2>2
<1>8. PICK h : Iter(h) /\ h = CHOOSE x : Iter(x)
  BY <1>7
<1>9. h[{}] = 0 /\ \A i \in 1..n : h[1..i] = Step(h[1..(i - 1)], ordered[i])
  <2>1. h[{}] = 0
    BY <1>8
  <2>2. ASSUME NEW i \in 1..n PROVE h[1..i] = Step(h[1..(i - 1)], ordered[i])
    <3> DEFINE s == 1..i
    <3>1. s \in SUBSET (1..n) /\ s # {}
      OBVIOUS
    <3>2. Max(s) = i /\ s \ {i} = 1..(i - 1)
      BY MaxOf
    <3>3. h[s] = Step(h[1..(i - 1)], ordered[i])
      <4> HIDE DEF s
      <4> QED BY <1>8, <3>1, <3>2
    <3> QED BY <3>3
  <2> QED BY <2>1, <2>2
<1> DEFINE First(i) == {ordered[j] : j \in 1..i} \ separate
           Good == {i \in 0..n : /\ h[1..i] \in Int /\ Worths(First(i)) \in Int
                                 /\ h[1..i] <= Worths(First(i))}
<1>10. \A i \in 0..n : IsFiniteSet(First(i)) /\ \A x \in First(i) : Worth(x) \in Nat
  <2> SUFFICES ASSUME NEW i \in 0..n PROVE IsFiniteSet(First(i)) /\ \A x \in First(i) : Worth(x) \in Nat
    OBVIOUS
  <2> DEFINE f == [j \in 1..i |-> ordered[j]]  S == {ordered[j] : j \in 1..i}
  <2>1. f \in Surjection(1..i, S)
    BY DEF Surjection
  <2>2. IsFiniteSet(1..i)
    BY FS_Interval
  <2>3. IsFiniteSet(S)
    <3> HIDE DEF f, S
    <3> QED BY <2>1, <2>2, FS_Surjection
  <2>4. \A x \in S : Worth(x) \in Nat
    OBVIOUS
  <2>5. First(i) \in SUBSET S
    OBVIOUS
  <2> HIDE DEF First, S
  <2> QED BY <2>3, <2>4, <2>5, FS_Subset
<1>11. 0 \in Good
  <2>1. 1..0 = {} /\ First(0) = {}
    OBVIOUS
  <2>2. Worths({}) = 0
    BY FS_EmptySet, SumOver DEF Integral
  <2> HIDE DEF First
  <2>3. h[1..0] = 0 /\ Worths(First(0)) = 0
    BY <1>9, <2>1, <2>2
  <2> QED BY <2>3
<1>12. ASSUME NEW i \in 1..n, i - 1 \in Good PROVE i \in Good
  <2> DEFINE p == ordered[i]  S == First(i)  R == First(i - 1)
  <2>1. /\ h[1..(i - 1)] \in Int /\ h[1..(i - 1)] <= Worths(R)
    BY <1>12
  <2>2. h[1..i] = Step(h[1..(i - 1)], p)
    BY <1>9
  <2>3. p \notin {ordered[j] : j \in 1..(i - 1)}
    BY DEF OneEach
  <2>4. /\ p \in separate => S = R
        /\ p \notin separate => p \in S /\ S \ {p} = R
    BY <2>3
  <2>5. IsFiniteSet(S) /\ Integral(S) /\ Worths(S) \in Nat /\ Worth(p) \in Nat
    BY <1>10, SumIsNat DEF Integral
  <2> HIDE DEF S, R, First, p
  <2>6. h[1..i] \in Int /\ Worths(S) \in Int /\ h[1..i] <= Worths(S)
    <3>1. CASE p \in separate
      BY <2>2, <2>5, <3>1 DEF Step
    <3>2. CASE p \notin separate
      <4>1. Worths(S) = Worths(R) + Worth(p) /\ Worths(R) \in Int
        BY <2>4, <2>5, <3>2, SumOver
      <4> QED BY <2>1, <2>2, <2>5, <3>2, <4>1 DEF Step
    <3> QED BY <3>1, <3>2
  <2> QED BY <2>6 DEF S
<1>13. n \in Good
  <2> HIDE DEF Good
  <2>1. 0..n \subseteq Good
    BY <1>11, <1>12, UpTo
  <2> QED BY <2>1
<1>14. First(n) = Range(ordered) \ separate
  BY DEF Range
<1> QED BY <1>1, <1>8, <1>13, <1>14

------------------------------------------------------------------------------
\* The box for combined shipment.

ShipmentStep == IF program = "app" THEN 14 ELSE 13

\* The products recorded were asked for.
AskedFor == \A p \in Range(ordered) : ~ (Quantity[p] <= 0)

\* Once the program is past the box, it has seen to it: the box is ticked, or is not
\* there, or the products that are still recorded are worth enough.
BoxIsSettled ==
    pos > ShipmentStep => combined # "unset" \/ ~ (free_shipping_eligible_amount < Threshold)

\* The products recorded come from the lines, and leave again.
LEMMA StaysAskedFor ==
    ASSUME CartIsKept, AskedFor, CartStep
    PROVE  AskedFor'
<1>1. CASE Fixed
  BY <1>1 DEF Fixed, AskedFor
<1>2. CASE Emptied
  BY <1>2 DEF Emptied, AskedFor, Range
<1>3. CASE Looked
  <2> DEFINE p == Head(todo)  n == Len(ordered)
  <2>1. CASE ordered' = ordered
    BY <2>1 DEF AskedFor
  <2>2. CASE ~ Skipped(p) /\ ordered' = Append(ordered, p)
    <3>1. /\ ordered \in Seq(Products) /\ p \in Products
      BY <1>3, LookAt DEF CartIsKept, Untouched, Looked
    <3> HIDE DEF p
    <3>2. /\ n \in Nat /\ DOMAIN ordered = 1..n /\ DOMAIN ordered' = 1..(n + 1)
          /\ ordered'[n + 1] = p /\ \A i \in 1..n : ordered'[i] = ordered[i]
      BY <2>2, <3>1, LenProperties, AppendProperties
    <3>3. Range(ordered') = Range(ordered) \cup {p}
      BY <3>2 DEF Range
    <3> QED BY <2>2, <3>3 DEF AskedFor, Skipped
  <2> QED BY <1>3, <2>1, <2>2 DEF Looked
<1>4. CASE Removed
  <2>1. Range(ordered') \subseteq Range(ordered)
    <3>1. PICK p : \/ p \in Range(ordered) /\ ordered' = RemoveFirst(ordered, p)
                   \/ ordered' = ordered
      BY <1>4 DEF Removed
    <3>2. ordered \in Seq(Products) /\ OneEach(ordered)
      BY DEF CartIsKept, Untouched
    <3> QED BY <3>1, <3>2, RemoveOnly
  <2> QED BY <2>1 DEF AskedFor
<1> QED BY <1>1, <1>2, <1>3, <1>4 DEF CartStep

\* The amount depends on the products recorded, and on those delivered separately.
AmountOf(lines, apart) ==
    FoldLeft(LAMBDA acc, p : IF p \in apart THEN 0 ELSE acc + Price[p] * Quantity[p], 0, lines)

\* While they do not change, it does not.
LEMMA AmountStays ==
    ASSUME UNCHANGED <<ordered, separate>>
    PROVE  free_shipping_eligible_amount' = free_shipping_eligible_amount
<1>1. free_shipping_eligible_amount = AmountOf(ordered, separate)
  BY DEF free_shipping_eligible_amount, AmountOf
<1>2. free_shipping_eligible_amount' = AmountOf(ordered', separate')
  BY DEF free_shipping_eligible_amount, AmountOf, FoldLeft, MapThenFoldSet
<1> QED BY <1>1, <1>2

\* Where a step is with respect to the box.
LEMMA WhereBox ==
    ASSUME Typed, NEW step, At(step)
    PROVE  /\ step = "shipment" => pos = ShipmentStep
           /\ step \in {"payment", "tax", "submit", "details"} => pos > ShipmentStep
           /\ step \notin {"shipment", "payment", "tax", "submit", "details"} => pos < ShipmentStep
<1>1. CASE program = "app"
  <2>1. Steps = AppSteps /\ pos \in 1..18 /\ ShipmentStep = 14
    BY <1>1 DEF Typed, Steps, LastStep, ShipmentStep
  <2> QED BY <2>1 DEF At, AppSteps
<1>2. CASE program = "job"
  <2>1. Steps = JobSteps /\ pos \in 1..17 /\ ShipmentStep = 13
    BY <1>2 DEF Typed, Steps, LastStep, ShipmentStep
  <2> QED BY <2>1 DEF At, JobSteps
<1> QED BY <1>1, <1>2 DEF Typed

\* A step goes on by one at most.
LEMMA FormMoves ==
    ASSUME Typed, Form
    PROVE  program' = program /\ pos' \in Int /\ pos' <= pos + 1
  BY DEF Typed, LastStep, Form, Ahead, Stay, Back, Places, Adds, Tells

\* The forms of a step with respect to the box: the program is not past it, or
\* leaves what was ordered and the box alone, or sees to it.
Before == pos < ShipmentStep

After == pos > ShipmentStep /\ (pos' = 1 \/ UNCHANGED <<ordered, separate, combined>>)

Settles ==
    /\ pos = ShipmentStep
    /\ \/ pos' <= pos
       \/ /\ UNCHANGED <<ordered, separate>>
          /\ combined' # "unset" \/ ~ (free_shipping_eligible_amount < Threshold)

\* After a failure the program stays or begins again.
LEMMA FailsBox ==
    ASSUME NEW kind, Fails(kind)
    PROVE  pos' = 1 \/ (pos' = pos /\ UNCHANGED <<ordered, separate, combined>>)
  BY DEF Fails, AppFails, JobFails, Return, Restart, form

\* Filling in the form, early or late.
LEMMA FillsBox ==
    ASSUME Typed, NEW step, step # "shipment", NEW failures, Fills(step, failures)
    PROVE  Before \/ After
<1>1. pos < ShipmentStep \/ pos > ShipmentStep
  BY WhereBox DEF Fills
<1>2. CASE Proceed
  BY <1>1, <1>2 DEF Proceed, form, Before, After
<1>3. CASE \E kind \in failures : Fails(kind)
  BY <1>1, <1>3, FailsBox DEF Before, After
<1> QED BY <1>2, <1>3 DEF Fills

\* The box is looked at, and ticked if the products are not worth enough.
LEMMA ShipmentBox == ASSUME Typed, set_local_shipment PROVE Settles
<1>1. pos = ShipmentStep /\ pos \in Nat
  BY WhereBox DEF set_local_shipment, Typed, LastStep
<1>2. CASE free_shipping_eligible_amount < Threshold
  <2>1. CASE Fails("broken")
    <3>1. pos' <= pos
      BY <1>1, <2>1, FailsBox DEF ShipmentStep
    <3> QED BY <1>1, <3>1 DEF Settles
  <2>2. CASE combined' \in {"set", "not_offered"} /\ UNCHANGED <<ordered, separate>>
    BY <1>1, <2>2 DEF Settles
  <2> QED BY <1>2, <2>1, <2>2 DEF set_local_shipment
<1>3. CASE ~ (free_shipping_eligible_amount < Threshold)
  <2>1. UNCHANGED <<ordered, separate>>
    BY <1>3 DEF set_local_shipment, Proceed, form
  <2> QED BY <1>1, <1>3, <2>1 DEF Settles
<1> QED BY <1>2, <1>3

\* Every step has one of these forms.
LEMMA NextBox == ASSUME Typed, Next PROVE Before \/ After \/ Settles
<1>1. CASE check_date \/ login \/ find_address \/ verify_address_set \/ ensure_address_set
  BY <1>1, WhereBox
     DEF check_date, login, find_address, verify_address_set, ensure_address_set, Before
<1>2. CASE skip_product \/ product_unavailable \/ product_breaks \/ add_product \/ products_added
  BY <1>2, WhereBox
     DEF skip_product, product_unavailable, product_breaks, add_product, products_added, Before
<1>3. CASE register_cart
  BY <1>3, WhereBox DEF register_cart, Fills, Before
<1>4. CASE job_login \/ init_quick_order \/ job_init_quick_order \/ open_search \/ set_purchase_date
           \/ job_set_purchase_date \/ job_register_cart
  BY <1>4, FillsBox DEF job_login, init_quick_order, job_init_quick_order, open_search,
     set_purchase_date, job_set_purchase_date, job_register_cart
<1>5. CASE set_receiver_mobile \/ set_receiver_name \/ update_address \/ select_address
           \/ set_payment_params \/ set_tax_info
  BY <1>5, FillsBox DEF set_receiver_mobile, set_receiver_name, update_address, select_address,
     set_payment_params, set_tax_info
<1>6. CASE set_local_shipment
  BY <1>6, ShipmentBox
<1>7. CASE submit_order \/ job_submit_order
  <2>1. pos > ShipmentStep
    BY <1>7, WhereBox DEF submit_order, job_submit_order
  <2>2. CASE PlaceOrder
    BY <2>1, <2>2 DEF PlaceOrder, form, After
  <2>3. CASE Fails("retry") \/ Fails("broken")
    BY <2>1, <2>3, FailsBox DEF After
  <2> QED BY <1>7, <2>2, <2>3 DEF submit_order, job_submit_order
<1>8. CASE get_order_details
  <2>1. pos > ShipmentStep
    BY <1>8, WhereBox DEF get_order_details
  <2> QED BY <1>8, <2>1 DEF get_order_details, Return, form, After
<1>9. CASE App
  BY <1>1, <1>2, <1>3, <1>4, <1>5, <1>6, <1>7, <1>8, <1>9 DEF App, set_receiver_address
<1>10. CASE Job
  BY <1>1, <1>2, <1>3, <1>4, <1>5, <1>6, <1>7, <1>8, <1>10
     DEF Job, job_add_products, job_get_product, job_set_receiver, job_set_tax_info,
         job_set_local_shipment, job_get_order_details, job_check_date,
         job_set_receiver_address, job_find_address, job_update_address
<1> QED BY <1>9, <1>10 DEF Next

\* A step leaves the box settled.
LEMMA BoxStaysSettled ==
    ASSUME Typed, BoxIsSettled, Next
    PROVE  BoxIsSettled'
<1>1. program' = program /\ pos' \in Int /\ pos' <= pos + 1 /\ pos \in Nat
  BY NextForm, FormMoves DEF Typed, LastStep
<1>2. ShipmentStep' = ShipmentStep /\ ShipmentStep \in 13..14
  BY <1>1 DEF ShipmentStep
<1>3. UNCHANGED <<ordered, separate>> =>
        free_shipping_eligible_amount' = free_shipping_eligible_amount
  BY AmountStays
<1>4. CASE Before
  BY <1>1, <1>2, <1>4 DEF Before, BoxIsSettled
<1>5. CASE After
  BY <1>2, <1>3, <1>5 DEF After, BoxIsSettled
<1>6. CASE Settles
  BY <1>1, <1>2, <1>3, <1>6 DEF Settles, BoxIsSettled
<1> QED BY <1>4, <1>5, <1>6, NextBox

\* An order whose products do not reach the amount of free delivery is never
\* submitted with the box for combined shipment left open, whatever the products
\* cost and the vendor delivers separately, in whichever order the lines are, if
\* every product has one line (__set_local_shipment).
THEOREM CheapOrdersAreCombined ==
    ASSUME OneLineEach
    PROVE  Spec => []CheapIsCombined
<1> DEFINE J == IInv /\ CartIsKept /\ AskedFor /\ BoxIsSettled
<1>1. Init => J
  <2> SUFFICES ASSUME Init PROVE J
    OBVIOUS
  <2>1. AskedFor
    BY DEF Init, AskedFor, Range
  <2>2. BoxIsSettled
    BY DEF Init, BoxIsSettled, ShipmentStep
  <2> QED BY <2>1, <2>2, InitEstablishes, CartBegins
<1>2. J /\ [Next]_vars => J'
  <2> SUFFICES ASSUME J, [Next]_vars PROVE J'
    OBVIOUS
  <2>1. (IInv /\ CartIsKept)'
    BY CallKeepsCart
  <2>2. CASE Next
    <3>1. CartStep /\ Typed
      BY <2>2, NextCart DEF IInv
    <3> QED BY <2>1, <2>2, <3>1, StaysAskedFor, BoxStaysSettled
  <2>3. CASE UNCHANGED vars
    <3>1. UNCHANGED <<program, pos, ordered, separate, combined>>
      BY <2>3 DEF vars
    <3>2. AskedFor' /\ BoxIsSettled'
      BY <3>1, AmountStays DEF AskedFor, BoxIsSettled, ShipmentStep
    <3> QED BY <2>1, <3>2
  <2> QED BY <2>2, <2>3
<1>3. J => CheapIsCombined
  <2> SUFFICES ASSUME J, result = "posted", combined = "unset"
               PROVE  Worths(Range(ordered) \ separate) >= Threshold
    BY DEF CheapIsCombined, Worths
  <2>1. ~ (free_shipping_eligible_amount < Threshold)
    <3>1. pos > ShipmentStep
      BY DEF IInv, Typed, PlacedAtTheEnd, LastStep, ShipmentStep
    <3> QED BY <3>1 DEF BoxIsSettled
  <2> DEFINE n == Len(ordered)
  <2>2. n \in Nat /\ ordered \in [1..n -> Products] /\ OneEach(ordered)
    BY LenProperties DEF CartIsKept, Untouched
  <2>3. \A i \in 1..n : Worth(ordered[i]) \in Nat
    <3> TAKE i \in 1..n
    <3> DEFINE p == ordered[i]
    <3>1. p \in Products /\ p \in Range(ordered)
      BY <2>2 DEF Range
    <3>2. Price[p] \in Nat /\ Quantity[p] \in Nat
      BY <3>1, QuickOrderAssumption DEF AskedFor
    <3> HIDE DEF p
    <3>3. Price[p] * Quantity[p] \in Nat
      BY <3>2
    <3> QED BY <3>3 DEF Worth, p
  <2>4. free_shipping_eligible_amount <= Worths(Range(ordered) \ separate)
    BY <2>2, <2>3, AmountIsBounded
  <2>5. free_shipping_eligible_amount \in Int /\ Worths(Range(ordered) \ separate) \in Int
    BY <2>2, <2>3, AmountIsBounded
  <2> QED BY <2>1, <2>4, <2>5, QuickOrderAssumption
<1> QED BY <1>1, <1>2, <1>3, PTL DEF Spec

==============================================================================
