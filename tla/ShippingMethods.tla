--------------------------- MODULE ShippingMethods ---------------------------
(* The shipping methods that are offered and what they are said to cost      *)
(* (src/app/shipping/routes), with the cache of the answers and the          *)
(* administration of the tariffs.  One destination is modelled.              *)
(*                                                                           *)
(* A question that is not in the cache is answered from one snapshot of the  *)
(* database, and the answer is stored in a step of its own.  A change is     *)
(* committed, and the handlers that clear the cache do so in a second step.  *)
EXTENDS ShippingRates, FiniteSets, TLC

CONSTANTS Desks,        \* web workers
          Shippings,    \* shipping methods
          Kind,         \* "table", "dhl", "ems", "cargo", "weight_based" or "noshipping"
          Tariff,       \* the tariff of a shipping method at first; Unserved if none
          Used,         \* shipping methods that orders refer to
          NewTariffs,   \* what is entered for methods by weight
          CarrierTells, \* what EMS tells when it changes its tariff; Unserved: nothing
          Questions,    \* what is asked: <<"rate", a method or "all", weight>> for prices,
                        \* <<"methods", "all", weight>> for the methods that are offered
          MaxChanges    \* bound on the changes

Unserved == <<>>
NoAnswer == {}

VARIABLES shop,         \* the committed database
          answers,      \* the cache
          desk,         \* what each web worker is at
          changes,      \* number of changes made
          outdated      \* history: answers nobody has told the cache to forget

svars == <<shop, answers, desk, changes, outdated>>

Idle == [at |-> "idle", q |-> <<>>, answer |-> NoAnswer, dated |-> FALSE]

Init ==
    /\ shop = [there |-> Shippings, enabled |-> Shippings, tariff |-> Tariff]
    /\ answers = <<>> /\ outdated = {}
    /\ desk = [w \in Desks |-> Idle]
    /\ changes = 0

-----------------------------------------------------------------------------
(* Answers.                                                                  *)

get_shipping_cost(d, m, weight) ==
    LET t == d.tariff[m]
    IN  CASE Kind[m] = "noshipping" -> 0
          [] Kind[m] # "noshipping" /\ t = Unserved -> NoRate
          [] Kind[m] = "table" /\ t # Unserved -> table_cost(t, weight)
          [] Kind[m] = "dhl" /\ t # Unserved -> dhl_cost(t, weight)
          [] Kind[m] = "ems" /\ t # Unserved -> ems_cost(t, weight)
          [] Kind[m] = "cargo" /\ t # Unserved -> cargo_cost(t)
          [] Kind[m] = "weight_based" /\ t # Unserved -> weight_based_cost(t, weight)

\* DHL is offered wherever it has a zone, with a price or not.  EMS is offered
\* by its list of charges, whatever it computes; if it does not answer, it is not.
can_ship(d, m, weight) ==
    CASE Kind[m] = "dhl" -> d.tariff[m] # Unserved /\ weight <= 99999
      [] Kind[m] = "ems" -> d.tariff[m] # Unserved /\ ems_can_ship(d.tariff[m], weight)
      [] OTHER -> get_shipping_cost(d, m, weight) # NoRate

get_shipping_methods(d, weight) == {m \in d.there \cap d.enabled : can_ship(d, m, weight)}

\* Methods that are not enabled have a price, too; no weight costs nothing.
get_shipping_rate(d, asked, weight) ==
    IF weight = 0 THEN {<<m, 0>> : m \in d.there \cap asked}
    ELSE {<<m, get_shipping_cost(d, m, weight)>> :
             m \in {x \in d.there \cap asked : get_shipping_cost(d, x, weight) # NoRate}}

Answer(d, q) ==
    IF q[1] = "methods" THEN get_shipping_methods(d, q[3])
    ELSE get_shipping_rate(d, IF q[2] = "all" THEN Shippings ELSE {q[2]}, q[3])

\* The absence of an answer is not stored.
Ask(w, q) ==
    /\ desk[w] = Idle /\ q \notin DOMAIN answers /\ Answer(shop, q) # NoAnswer
    /\ desk' = [desk EXCEPT ![w] = [Idle EXCEPT !.at = "store", !.q = q,
                                                !.answer = Answer(shop, q)]]
    /\ UNCHANGED <<shop, answers, changes, outdated>>

Store(w) ==
    LET r == desk[w]
    IN  /\ r.at = "store"
        /\ answers' = [x \in DOMAIN answers \cup {r.q} |->
                           IF x = r.q THEN r.answer ELSE answers[x]]
        /\ outdated' = IF r.dated THEN outdated \cup {r.q} ELSE outdated \ {r.q}
        /\ desk' = [desk EXCEPT ![w] = Idle]
        /\ UNCHANGED <<shop, changes>>

\* After a day an answer is forgotten.
Expire(q) ==
    /\ q \in DOMAIN answers
    /\ answers' = [x \in DOMAIN answers \ {q} |-> answers[x]]
    /\ outdated' = outdated \ {q}
    /\ UNCHANGED <<shop, desk, changes>>

-----------------------------------------------------------------------------
(* Changes.  Answers computed before a change are stored after it as they    *)
(* are (dated).                                                              *)

Change(d) ==
    /\ changes < MaxChanges /\ changes' = changes + 1
    /\ d # shop /\ shop' = d

Dated(f) == [w \in Desks |-> IF f[w].at = "store" THEN [f[w] EXCEPT !.dated = TRUE] ELSE f[w]]

\* The change is committed, and the cache is cleared next.
Announced(w, d) ==
    /\ desk[w] = Idle /\ Change(d)
    /\ desk' = Dated([desk EXCEPT ![w] = [Idle EXCEPT !.at = "clear"]])
    /\ UNCHANGED <<answers, outdated>>

\* The change is committed, and the cache is left as it is.
Unannounced(w, d) ==
    /\ desk[w] = Idle /\ Change(d)
    /\ desk' = Dated(desk)
    /\ outdated' = outdated \cup DOMAIN answers
    /\ UNCHANGED answers

\* A plausible mistake: the cache is not cleared.
CommitOnly(w, d) ==
    /\ desk[w] = Idle /\ Change(d)
    /\ desk' = Dated(desk)
    /\ UNCHANGED <<answers, outdated>>

SaveTariff(w, d) == Announced(w, d)

Clear(w) ==
    /\ desk[w].at = "clear"
    /\ answers' = <<>> /\ outdated' = {}
    /\ desk' = [desk EXCEPT ![w] = Idle]
    /\ UNCHANGED <<shop, changes>>

\* A tariff by weight: its minimum must not be more than its maximum.
weight_based_save_rate(w, m) ==
    /\ Kind[m] = "weight_based" /\ m \in shop.there
    /\ \E t \in NewTariffs : /\ t.minimum_weight <= t.maximum_weight
                             /\ SaveTariff(w, [shop EXCEPT !.tariff[m] = t])

weight_based_delete_rate(w, m) ==
    /\ Kind[m] = "weight_based" /\ m \in shop.there
    /\ SaveTariff(w, [shop EXCEPT !.tariff[m] = Unserved])

\* Cargo serves the destination, or does not any more.
cargo_save_rate(w, m) ==
    /\ Kind[m] = "cargo" /\ m \in shop.there /\ shop.tariff[m] = Unserved
    /\ Unannounced(w, [shop EXCEPT !.tariff[m] = 0 :> 0])

cargo_delete_rate(w, m) ==
    /\ Kind[m] = "cargo" /\ m \in shop.there
    /\ Unannounced(w, [shop EXCEPT !.tariff[m] = Unserved])

cargo_save_countries(w, m) ==
    /\ Kind[m] = "cargo" /\ m \in shop.there
    /\ \E t \in {Unserved, 0 :> 0} : Unannounced(w, [shop EXCEPT !.tariff[m] = t])

admin_save_shipping_method(w, m) ==
    /\ m \in shop.there
    /\ Unannounced(w, [shop EXCEPT !.enabled = IF m \in @ THEN @ \ {m} ELSE @ \cup {m}])

\* The database refuses to delete a method that an order refers to.
admin_delete_shipping_method(w, m) ==
    /\ m \in shop.there \ Used
    /\ Unannounced(w, [shop EXCEPT !.there = @ \ {m}])

\* EMS changes what it tells, or cannot be asked: nobody tells the cache.
CarrierChanges(m) ==
    /\ Kind[m] = "ems"
    /\ \E t \in CarrierTells : Change([shop EXCEPT !.tariff[m] = t])
    /\ desk' = Dated(desk)
    /\ outdated' = outdated \cup DOMAIN answers
    /\ UNCHANGED answers

Administration(w, m) ==
    \/ weight_based_save_rate(w, m) \/ weight_based_delete_rate(w, m)
    \/ cargo_save_rate(w, m) \/ cargo_delete_rate(w, m) \/ cargo_save_countries(w, m)
    \/ admin_save_shipping_method(w, m) \/ admin_delete_shipping_method(w, m)

Next ==
    \/ \E w \in Desks : \/ \E q \in Questions : Ask(w, q)
                        \/ Store(w) \/ Clear(w)
                        \/ \E m \in Shippings : Administration(w, m)
    \/ \E q \in Questions : Expire(q)
    \/ \E m \in Shippings : CarrierChanges(m)

Spec == Init /\ [][Next]_svars

-----------------------------------------------------------------------------
(* Properties.                                                               *)

TypeOK ==
    /\ shop.there \subseteq Shippings /\ shop.enabled \subseteq Shippings
    /\ DOMAIN answers \subseteq Questions /\ outdated \subseteq Questions
    /\ changes \in 0 .. MaxChanges
    /\ \A w \in Desks : desk[w].at \in {"idle", "store", "clear"} /\ desk[w].dated \in BOOLEAN

\* What the cache answers is what the database says now: a customer is told a
\* price that has been changed only until the cache is cleared, when the change
\* came between computing and storing the answer, or when it was made by one of
\* the handlers that leave the cache alone (outdated).
AnswersAreCurrent ==
    \A q \in DOMAIN answers \ outdated :
       answers[q] = Answer(shop, q) \/ \E w \in Desks : desk[w].at = "clear"

==============================================================================
