---------------------------- MODULE Consignments ----------------------------
(* Parcels handed to EMS and FedEx over their web services                   *)
(* (src/app/shipping/methods/ems, fedex), and the login the web workers      *)
(* share in the cache: a token per carrier and a flag that says that one of  *)
(* them is logging in.                                                       *)
(*                                                                           *)
(* A request runs the steps of its kind.  Most of them are calls of the      *)
(* carrier, and every call asks for the login first.  A step is one access   *)
(* to the cache, one exchange with the carrier or one commit.                *)
EXTENDS Integers, FiniteSets, Sequences

CONSTANTS Clerks,       \* web workers
          Parcels,      \* sale orders
          Carrier,      \* "ems" or "fedex", by sale order
          HttpRetries,  \* how often curl is run again (2 or 3 in the code)
          Attempts,     \* how often a call that is refused is made (3 in the code)
          MaxCalls,     \* bound on the number of requests
          MaxFaults,    \* bound on what goes wrong, see the actions with a Fault
          None

Carriers == {"ems", "fedex"}

ASSUME ConsignmentsAssumption ==
    /\ Carrier \in [Parcels -> Carriers]
    /\ None \notin Nat

\* The consignment account is configured, so EMS is logged in to anew first
\* (nothing writes the key that would spare it).
consign_ems == <<"relogin", "new", "rate", "save", "submit", "commit">>
print_ems == <<"relogin", "list", "list", "print", "get">>
consign_fedex == <<"ship", "label", "commit">>

\* can_ship of FedEx; EMS lists its rates without a login.
service_availability == <<"availability">>
get_shipping_cost == <<"rate">>

Steps(kind, c) ==
    CASE kind = "consign" -> IF c = "ems" THEN consign_ems ELSE consign_fedex
      [] kind = "print" -> print_ems
      [] kind = "offer" -> service_availability
      [] kind = "quote" -> get_shipping_cost

\* Steps that do not call the carrier, and calls whose answer is not parsed.
Local == {"label", "commit"}
Unparsed == {"new", "save", "print"}

VARIABLES flag,         \* {carrier}_login_in_progress
          token,        \* whether the cache holds a token of the carrier
          clerk,        \* the request of each web worker
          made,         \* the consignments the carriers have registered
          tracking,     \* the tracking number of a sale order
          calls, faults,
          (* history *)
          given_up      \* consignments whose number was lost on its way, or replaced

cvars == <<flag, token, clerk, made, tracking, calls, faults, given_up>>

Free == [kind |-> "none", parcel |-> None, step |-> 1, at |-> "free", force |-> FALSE,
         header |-> FALSE, attempts |-> 0, sent |-> 0, id |-> None]

Init ==
    /\ flag = [c \in Carriers |-> FALSE] /\ token = [c \in Carriers |-> FALSE]
    /\ clerk = [w \in Clerks |-> Free]
    /\ made = <<>> /\ tracking = [o \in Parcels |-> None]
    /\ calls = 0 /\ faults = 0 /\ given_up = {}

StepOf(r) == Steps(r.kind, Carrier[r.parcel])[r.step]
Its(w) == Carrier[clerk[w].parcel]

\* The request goes to its step i, or has made its last.
Enter(r, i) ==
    IF i > Len(Steps(r.kind, Carrier[r.parcel])) THEN Free
    ELSE LET e == [r EXCEPT !.step = i, !.attempts = 0, !.sent = 0]
         IN  [e EXCEPT !.force = StepOf(e) = "relogin",
                       !.at = IF StepOf(e) \in Local THEN "local" ELSE "flag"]

Becomes(w, r) == clerk' = [clerk EXCEPT ![w] = r]
Goes(w, at) == Becomes(w, [clerk[w] EXCEPT !.at = at])

\* An exception ends the request with an error.
Fails(w) == Becomes(w, Free)

Fault == faults < MaxFaults /\ faults' = faults + 1

\* An administrator consigns an order, again if need be, or prints a label;
\* anyone asks for a price, or whether the carrier serves the destination.
Begin(w, kind, o) ==
    /\ clerk[w] = Free /\ calls < MaxCalls
    /\ kind = "print" => Carrier[o] = "ems" /\ tracking[o] # None
    /\ kind = "offer" => Carrier[o] = "fedex"
    /\ Becomes(w, Enter([Free EXCEPT !.kind = kind, !.parcel = o,
                            !.id = IF kind = "print" THEN tracking[o] ELSE None], 1))
    /\ calls' = calls + 1
    /\ UNCHANGED <<flag, token, made, tracking, faults, given_up>>

Begins(w) ==
    \E kind \in {"consign", "print", "offer", "quote"}, o \in Parcels : Begin(w, kind, o)

-----------------------------------------------------------------------------
(* __login.  The loop that should wait for another login to end does not:    *)
(* it runs while the flag is set and no time is left.                        *)

CheckFlag(w) ==
    /\ clerk[w].at = "flag"
    /\ Goes(w, IF flag[Its(w)] THEN "look" ELSE "token")
    /\ UNCHANGED <<flag, token, made, tracking, calls, faults, given_up>>

\* A plausible mistake: the flag is waited for until its owner deletes it.
WaitForFlag(w) ==
    /\ clerk[w].at = "look" /\ ~flag[Its(w)]
    /\ Becomes(w, [clerk[w] EXCEPT !.at = "token", !.force = FALSE])
    /\ UNCHANGED <<flag, token, made, tracking, calls, faults, given_up>>

\* A flag that is still set is deleted and fails the request, unless no header
\* was asked for; otherwise the token of the other login will do.
LookAgain(w) ==
    LET r == clerk[w]
    IN
    /\ r.at = "look"
    /\ IF ~flag[Its(w)] THEN Becomes(w, [r EXCEPT !.at = "token", !.force = FALSE])
       ELSE IF StepOf(r) = "relogin" THEN Becomes(w, Enter(r, r.step + 1))
       ELSE Fails(w)
    /\ flag' = [flag EXCEPT ![Its(w)] = FALSE]
    /\ UNCHANGED <<token, made, tracking, calls, faults, given_up>>

CheckToken(w) ==
    LET fresh == token[Its(w)] /\ ~clerk[w].force
    IN  /\ clerk[w].at = "token"
        /\ Goes(w, IF fresh THEN "header" ELSE "login")
        /\ flag' = IF fresh THEN flag ELSE [flag EXCEPT ![Its(w)] = TRUE]
        /\ UNCHANGED <<token, made, tracking, calls, faults, given_up>>

LogIn(w) ==
    /\ clerk[w].at = "login"
    /\ token' = [token EXCEPT ![Its(w)] = TRUE]
    /\ Goes(w, "unflag")
    /\ UNCHANGED <<flag, made, tracking, calls, faults, given_up>>

\* The flag stays.
LoginFails(w) ==
    /\ clerk[w].at = "login" /\ Fault /\ Fails(w)
    /\ UNCHANGED <<flag, token, made, tracking, calls, given_up>>

Unflag(w) ==
    /\ clerk[w].at = "unflag"
    /\ flag' = [flag EXCEPT ![Its(w)] = FALSE]
    /\ Goes(w, "header")
    /\ UNCHANGED <<token, made, tracking, calls, faults, given_up>>

\* After so many refusals the call is given up.
ReadToken(w) ==
    LET r == clerk[w]
    IN  /\ r.at = "header"
        /\ Becomes(w, IF StepOf(r) = "relogin" THEN Enter(r, r.step + 1)
                      ELSE IF r.attempts = Attempts THEN Free
                      ELSE [r EXCEPT !.at = "send", !.header = token[Its(w)]])
        /\ UNCHANGED <<flag, token, made, tracking, calls, faults, given_up>>

Expire(c) ==
    /\ token[c] /\ Fault
    /\ token' = [token EXCEPT ![c] = FALSE]
    /\ UNCHANGED <<flag, clerk, made, tracking, calls, given_up>>

-----------------------------------------------------------------------------
(* The calls.                                                                *)

New(o, state) == Append(made, [parcel |-> o, state |-> state])

\* A consignment of EMS is submitted once, and only when it is filled in.
Submits(r) == r.id # None /\ made[r.id].state = "saved"

\* A plausible mistake: a consignment that was refused gets its number, too.
NeverRefused(r) == TRUE

\* EMS answers that a consignment has been submitted, or why it has not.
Accepted(r) == StepOf(r) = "submit" => Submits(r)

\* What the carrier registers.  A consignment of EMS is registered empty,
\* filled in and submitted, once; one of FedEx is made by one call.
Effect(r) ==
    CASE StepOf(r) = "new" -> New(r.parcel, "empty")
      [] StepOf(r) = "ship" -> New(r.parcel, "submitted")
      [] StepOf(r) = "save" /\ r.id # None -> [made EXCEPT ![r.id].state = "saved"]
      [] StepOf(r) = "submit" /\ Submits(r) -> [made EXCEPT ![r.id].state = "submitted"]
      [] OTHER -> made

Answer(w) ==
    LET r == clerk[w]
    IN  /\ r.at = "send" /\ r.header
        /\ made' = Effect(r)
        /\ Becomes(w, IF ~Accepted(r) THEN Free
                      ELSE Enter([r EXCEPT !.id = IF StepOf(r) \in {"new", "ship"}
                                                  THEN Len(made) + 1 ELSE @], r.step + 1))
        /\ UNCHANGED <<flag, token, tracking, calls, faults, given_up>>

\* A token that is missing, or that the carrier does not take any more: the
\* call is repeated after a login, and nothing has been registered.
Unauthorized(w) ==
    LET r == clerk[w]
    IN  /\ r.at = "send"
        /\ IF r.header THEN Fault ELSE UNCHANGED faults
        /\ Becomes(w, [r EXCEPT !.at = "flag", !.force = TRUE, !.attempts = @ + 1])
        /\ UNCHANGED <<flag, token, made, tracking, calls, given_up>>

\* curl is run again, but not for a price of FedEx; in the end its answer is
\* empty, which fails a call whose answer is parsed.  A consignment without a
\* number is carried on with.
Repeated(r) == ~(r.kind = "quote" /\ Carrier[r.parcel] = "fedex")
Unanswered(r) ==
    IF r.sent < HttpRetries /\ Repeated(r) THEN [r EXCEPT !.sent = @ + 1]
    ELSE IF StepOf(r) \in Unparsed THEN Enter(r, r.step + 1) ELSE Free

\* The consignment that an answer would have been about, if it is lost.
Unheard(r) ==
    IF StepOf(r) \in {"new", "ship"} THEN {Len(made) + 1}
    ELSE IF StepOf(r) = "submit" /\ Submits(r) THEN {r.id}
    ELSE {}

\* A server error, before or after the carrier has done what it was asked.
ServerError(w) ==
    LET r == clerk[w]
    IN  /\ r.at = "send" /\ r.header /\ Fault
        /\ Becomes(w, Unanswered(r))
        /\ \/ UNCHANGED <<made, given_up>>
           \/ /\ made' = Effect(r)
              /\ given_up' = given_up \cup Unheard(r)
        /\ UNCHANGED <<flag, token, tracking, calls>>

\* The label of FedEx is written to a file before the number is stored.
SaveLabel(w) ==
    /\ clerk[w].at = "local" /\ StepOf(clerk[w]) = "label"
    /\ \/ /\ Becomes(w, Enter(clerk[w], clerk[w].step + 1))
          /\ UNCHANGED <<faults, given_up>>
       \/ Fault /\ Fails(w) /\ given_up' = given_up \cup {clerk[w].id}
    /\ UNCHANGED <<flag, token, made, tracking, calls>>

\* A number the order had before is replaced; or the commit fails, and the new
\* one is known to nobody, though the carrier has accepted the consignment.
Commit(w) ==
    LET o == clerk[w].parcel
    IN  /\ clerk[w].at = "local" /\ StepOf(clerk[w]) = "commit"
        /\ \/ /\ tracking' = [tracking EXCEPT ![o] = clerk[w].id]
              /\ given_up' = given_up \cup ({tracking[o]} \ {None})
              /\ UNCHANGED faults
           \/ Fault /\ given_up' = given_up \cup {clerk[w].id} /\ UNCHANGED tracking
        /\ Becomes(w, Free)
        /\ UNCHANGED <<flag, token, made, calls>>

\* The consignment a request is about to make known.
Carried(r) == IF r.kind = "consign" THEN {r.id} \ {None} ELSE {}

\* The worker dies with its request, which may have reached the carrier; a flag
\* it has set stays.
WorkerDies(w) ==
    LET r == clerk[w]
    IN  /\ r # Free /\ Fault /\ Fails(w)
        /\ \/ made' = made /\ given_up' = given_up \cup Carried(r)
           \/ /\ r.at = "send" /\ r.header
              /\ made' = Effect(r)
              /\ given_up' = given_up \cup Carried(r) \cup Unheard(r)
        /\ UNCHANGED <<flag, token, tracking, calls>>

-----------------------------------------------------------------------------
Work(w) ==
    \/ CheckFlag(w) \/ LookAgain(w) \/ CheckToken(w) \/ LogIn(w) \/ Unflag(w) \/ ReadToken(w)
    \/ Answer(w) \/ SaveLabel(w) \/ Commit(w)
    \/ LoginFails(w) \/ Unauthorized(w) \/ ServerError(w)

Next ==
    \/ \E w \in Clerks : Work(w) \/ WorkerDies(w) \/ Begins(w)
    \/ \E c \in Carriers : Expire(c)

\* Every web worker goes on with its request; none has to die or to begin one.
Fairness == \A w \in Clerks : WF_cvars(Work(w))

Spec == Init /\ [][Next]_cvars /\ Fairness

-----------------------------------------------------------------------------
(* Properties.                                                               *)

TypeOK ==
    /\ flag \in [Carriers -> BOOLEAN] /\ token \in [Carriers -> BOOLEAN]
    /\ \A w \in Clerks : clerk[w] = Free \/ clerk[w].step \in 1 .. 6
    /\ \A i \in DOMAIN made : made[i] \in [parcel : Parcels, state : {"empty", "saved", "submitted"}]
    /\ tracking \in [Parcels -> DOMAIN made \cup {None}]
    /\ calls \in 0 .. MaxCalls /\ faults \in 0 .. MaxFaults

\* The tracking number of an order is that of a consignment the carrier has
\* accepted for this order; and a consignment the carrier has accepted is known
\* to the order or on its way there, whatever was refused, repeated or logged
\* in to in between.  Excepted are those whose answer was lost, whose label or
\* number could not be stored, whose web worker died before it was, and those
\* replaced by a later number (given_up).
ConsignmentsAreKept ==
    /\ \A o \in Parcels :
          tracking[o] # None => made[tracking[o]] = [parcel |-> o, state |-> "submitted"]
    /\ \A i \in DOMAIN made \ given_up :
          made[i].state = "submitted" =>
             \/ tracking[made[i].parcel] = i
             \/ \E w \in Clerks : clerk[w].kind = "consign" /\ clerk[w].id = i

\* No request waits forever for the login of another one, even one that failed
\* and left its flag behind.
AllEnd == \A w \in Clerks : clerk[w] # Free ~> clerk[w] = Free

=============================================================================
