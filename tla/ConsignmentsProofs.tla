------------------------- MODULE ConsignmentsProofs -------------------------
(* ConsignmentsAreKept, for any number of web workers, parcels, requests and *)
(* faults.                                                                   *)
EXTENDS Consignments, SequenceTheorems, TLAPS

-----------------------------------------------------------------------------
(* The inductive invariant.                                                  *)

Request == [kind : {"none", "consign", "print", "offer", "quote"}, parcel : Parcels \cup {None},
            step : Nat,
            at : {"free", "flag", "look", "token", "login", "unflag", "header", "send", "local"},
            force : BOOLEAN, header : BOOLEAN, attempts : Nat, sent : Nat, id : Nat \cup {None}]
Consignment == [parcel : Parcels, state : {"empty", "saved", "submitted"}]
TablesOK ==
    /\ made \in Seq(Consignment)
    /\ tracking \in [Parcels -> 1 .. Len(made) \cup {None}]
    /\ clerk \in [Clerks -> Request]

\* A request is at a step of its kind, and calls the carrier unless the step is
\* one of its own.
AtStep(r) ==
    /\ r.kind \in {"consign", "print", "offer", "quote"} /\ r.parcel \in Parcels
    /\ r.kind = "print" => Carrier[r.parcel] = "ems"
    /\ r.kind = "offer" => Carrier[r.parcel] = "fedex"
    /\ r.step \in 1 .. Len(Steps(r.kind, Carrier[r.parcel]))
    /\ r.at = "local" <=> StepOf(r) \in Local

\* One that consigns has no number at first, then that of a consignment for its
\* parcel, which its last call to the carrier submits; if that call was repeated
\* the consignment has been given up.
Consigns(r, m, g) ==
    /\ StepOf(r) \in {"relogin", "new", "ship"} => r.id = None
    /\ StepOf(r) \in {"rate", "save", "submit"} /\ r.id # None =>
          /\ r.id \in 1 .. Len(m) /\ m[r.id].parcel = r.parcel
          /\ m[r.id].state = "submitted" => StepOf(r) = "submit" /\ r.id \in g
    /\ StepOf(r) \in Local =>
          /\ r.id \in 1 .. Len(m)
          /\ m[r.id] = [parcel |-> r.parcel, state |-> "submitted"]
RequestOK(r, m, g) == AtStep(r) /\ (r.kind = "consign" => Consigns(r, m, g))
RequestsOK == \A w \in Clerks : clerk[w] # Free => RequestOK(clerk[w], made, given_up)

\* No two requests work on the same consignment.
WorksOn(r, i) == r.kind = "consign" /\ r.id = i
Unshared == \A v, w \in Clerks : \A i \in Nat : WorksOn(clerk[v], i) /\ WorksOn(clerk[w], i) => v = w

IInv == TablesOK /\ RequestsOK /\ Unshared /\ ConsignmentsAreKept

-----------------------------------------------------------------------------
(* The steps of a request.                                                   *)

\* A web worker that is free is a request that works on nothing.
LEMMA FreeOK == Free \in Request /\ Free.kind = "none" /\ Free.at = "free" /\ Free.id = None
  BY DEF Free, Request

\* The carrier of a parcel.
LEMMA CarrierOf == \A o \in Parcels : Carrier[o] \in {"ems", "fedex"}
  BY ConsignmentsAssumption DEF Carriers

\* Entering a step.
LEMMA EnterFields ==
    ASSUME NEW r \in Request, NEW i \in Nat, NEW e, e = Enter(r, i)
    PROVE  IF i > Len(Steps(r.kind, Carrier[r.parcel])) THEN e = Free
           ELSE /\ e \in Request /\ e.kind = r.kind /\ e.parcel = r.parcel /\ e.id = r.id
                /\ e.step = i /\ (e.at = "local" <=> StepOf(e) \in Local)
  <1> DEFINE n == Len(Steps(r.kind, Carrier[r.parcel]))
             d == [r EXCEPT !.step = i, !.attempts = 0, !.sent = 0]
             f == [d EXCEPT !.force = StepOf(d) = "relogin",
                            !.at = IF StepOf(d) \in Local THEN "local" ELSE "flag"]
  <1>1. CASE i > n
    BY <1>1 DEF Enter
  <1>2. CASE ~ (i > n)
    <2>1. e = f
      BY <1>2 DEF Enter
    <2>2. /\ d \in Request /\ d.kind = r.kind /\ d.parcel = r.parcel /\ d.id = r.id /\ d.step = i
      BY DEF Request
    <2>3. (StepOf(d) = "relogin") \in BOOLEAN
      OBVIOUS
    <2> HIDE DEF d
    <2>4. /\ f \in Request /\ f.kind = r.kind /\ f.parcel = r.parcel /\ f.id = r.id /\ f.step = i
          /\ f.at = IF StepOf(d) \in Local THEN "local" ELSE "flag"
      BY <2>2, <2>3 DEF Request
    <2> HIDE DEF f
    <2>5. StepOf(f) = StepOf(d)
      BY <2>2, <2>4 DEF StepOf
    <2>6. QED
      BY <1>2, <2>1, <2>4, <2>5
  <1>3. QED
    BY <1>1, <1>2

\* The step after the one a request has made.
LEMMA NextStep ==
    ASSUME NEW r \in Request, AtStep(r), NEW e, e = Enter(r, r.step + 1)
    PROVE  \/ /\ e = Free
              /\ r.kind = "consign" => StepOf(r) = "commit"
           \/ /\ e \in Request /\ AtStep(e)
              /\ e.kind = r.kind /\ e.parcel = r.parcel /\ e.id = r.id
              /\ r.kind = "consign" =>
                    \/ StepOf(r) = "relogin" /\ StepOf(e) = "new"
                    \/ StepOf(r) = "new" /\ StepOf(e) = "rate"
                    \/ StepOf(r) = "rate" /\ StepOf(e) = "save"
                    \/ StepOf(r) = "save" /\ StepOf(e) = "submit"
                    \/ StepOf(r) = "submit" /\ StepOf(e) = "commit"
                    \/ StepOf(r) = "ship" /\ StepOf(e) = "label"
                    \/ StepOf(r) = "label" /\ StepOf(e) = "commit"
  <1> DEFINE program == Steps(r.kind, Carrier[r.parcel])
             n == Len(program)
  <1>1. r.step \in Nat /\ r.step + 1 \in Nat /\ n \in Nat /\ r.step \in 1 .. n
    BY CarrierOf DEF AtStep, Request, Steps, consign_ems, print_ems, consign_fedex,
       service_availability, get_shipping_cost
  <1>2. CASE r.step + 1 > n
    <2>1. e = Free
      BY <1>1, <1>2, EnterFields
    <2>2. r.step = n
      BY <1>1, <1>2
    <2>3. r.kind = "consign" => StepOf(r) = "commit"
      BY <2>2, CarrierOf DEF AtStep, StepOf, Steps, consign_ems, consign_fedex
    <2>4. QED
      BY <2>1, <2>3
  <1>3. CASE ~ (r.step + 1 > n)
    <2>1. /\ e \in Request /\ e.kind = r.kind /\ e.parcel = r.parcel /\ e.id = r.id
          /\ e.step = r.step + 1 /\ (e.at = "local" <=> StepOf(e) \in Local)
      <3> DEFINE i == r.step + 1
      <3>1. i \in Nat /\ e = Enter(r, i) /\ ~ (i > Len(Steps(r.kind, Carrier[r.parcel])))
        BY <1>1, <1>3
      <3> HIDE DEF i
      <3>2. QED
        BY <3>1, EnterFields DEF i
    <2>2. AtStep(e)
      BY <1>1, <1>3, <2>1 DEF AtStep
    <2>3. ASSUME r.kind = "consign", Carrier[r.parcel] = "ems"
          PROVE  \/ StepOf(r) = "relogin" /\ StepOf(e) = "new"
                 \/ StepOf(r) = "new" /\ StepOf(e) = "rate"
                 \/ StepOf(r) = "rate" /\ StepOf(e) = "save"
                 \/ StepOf(r) = "save" /\ StepOf(e) = "submit"
                 \/ StepOf(r) = "submit" /\ StepOf(e) = "commit"
      <3>1. StepOf(r) = consign_ems[r.step] /\ StepOf(e) = consign_ems[r.step + 1] /\ n = 6
        BY <2>1, <2>3 DEF StepOf, Steps, consign_ems
      <3>2. r.step \in {1, 2, 3, 4, 5}
        BY <1>1, <1>3, <3>1
      <3>3. QED
        BY <3>1, <3>2 DEF consign_ems
    <2>4. ASSUME r.kind = "consign", Carrier[r.parcel] = "fedex"
          PROVE  \/ StepOf(r) = "ship" /\ StepOf(e) = "label"
                 \/ StepOf(r) = "label" /\ StepOf(e) = "commit"
      <3>1. StepOf(r) = consign_fedex[r.step] /\ StepOf(e) = consign_fedex[r.step + 1] /\ n = 3
        BY <2>1, <2>4 DEF StepOf, Steps, consign_fedex
      <3>2. r.step \in {1, 2}
        BY <1>1, <1>3, <3>1
      <3>3. QED
        BY <3>1, <3>2 DEF consign_fedex
    <2>5. QED
      BY <2>1, <2>2, <2>3, <2>4, CarrierOf DEF AtStep
  <1>4. QED
    BY <1>2, <1>3

\* A request that begins.
Starting(kind, o, id) == Enter([Free EXCEPT !.kind = kind, !.parcel = o, !.id = id], 1)

LEMMA FirstStep ==
    ASSUME NEW kind \in {"consign", "print", "offer", "quote"}, NEW o \in Parcels,
           kind = "print" => Carrier[o] = "ems", kind = "offer" => Carrier[o] = "fedex",
           NEW id \in Nat \cup {None}, NEW e,
           e = Starting(kind, o, id)
    PROVE  /\ e \in Request /\ AtStep(e) /\ e.kind = kind /\ e.id = id
           /\ kind = "consign" => StepOf(e) \in {"relogin", "ship"}
  <1> DEFINE r == [Free EXCEPT !.kind = kind, !.parcel = o, !.id = id]
  <1>1. r \in Request /\ r.kind = kind /\ r.parcel = o /\ r.id = id
    BY DEF Free, Request
  <1> HIDE DEF r
  <1>2. Len(Steps(kind, Carrier[o])) \in Nat \ {0}
    BY CarrierOf DEF Steps, consign_ems, print_ems, consign_fedex, service_availability,
       get_shipping_cost
  <1>3. /\ e \in Request /\ e.kind = kind /\ e.parcel = o /\ e.id = id
        /\ e.step = 1 /\ (e.at = "local" <=> StepOf(e) \in Local)
    <2> DEFINE i == 1
    <2>1. i \in Nat /\ e = Enter(r, i) /\ ~ (i > Len(Steps(r.kind, Carrier[r.parcel])))
      BY <1>1, <1>2 DEF r, Starting
    <2> HIDE DEF i
    <2>2. QED
      BY <1>1, <2>1, EnterFields DEF i
  <1>4. AtStep(e)
    BY <1>2, <1>3 DEF AtStep
  <1>5. kind = "consign" => StepOf(e) \in {"relogin", "ship"}
    BY <1>3, CarrierOf DEF StepOf, Steps, consign_ems, consign_fedex
  <1>6. QED
    BY <1>3, <1>4, <1>5

-----------------------------------------------------------------------------
(* What a step may do.                                                       *)

\* A request goes on, or ends, and changes at most a consignment of its own that
\* is not submitted yet, or makes one.
Moves(w, r) ==
    /\ r = Free \/ (r \in Request /\ RequestOK(r, made', given_up'))
    /\ clerk' = [clerk EXCEPT ![w] = r]
    /\ made' \in Seq(Consignment) /\ Len(made) <= Len(made')
    /\ \A i \in 1 .. Len(made) :
          \/ made'[i] = made[i]
          \/ WorksOn(clerk[w], i) /\ made[i].state # "submitted" /\ made'[i].parcel = made[i].parcel
    /\ tracking' = tracking
    /\ given_up \subseteq given_up'
    /\ \A i \in Nat : WorksOn(r, i) => i \notin 1 .. Len(made) \/ WorksOn(clerk[w], i)
    \* what it submitted it has, or it is given up
    /\ \A i \in 1 .. Len(made') :
          made'[i].state = "submitted" /\ (i \notin 1 .. Len(made) \/ WorksOn(clerk[w], i))
          => i \in given_up' \/ WorksOn(r, i)

\* A request that works on a consignment has one.
LEMMA WorksOnMade ==
    ASSUME IInv, NEW w \in Clerks, NEW i \in Nat, WorksOn(clerk[w], i)
    PROVE  i \in 1 .. Len(made)
  <1>1. clerk[w] # Free /\ i # None
    BY FreeOK, ConsignmentsAssumption DEF WorksOn
  <1>2. Consigns(clerk[w], made, given_up) /\ AtStep(clerk[w])
    BY <1>1 DEF IInv, RequestsOK, RequestOK, WorksOn
  <1>3. StepOf(clerk[w]) \in {"relogin", "new", "ship", "rate", "save", "submit"} \cup Local
    BY <1>2, CarrierOf DEF WorksOn, AtStep, StepOf, Steps, consign_ems, consign_fedex, Local
  <1>4. QED
    BY <1>1, <1>2, <1>3 DEF Consigns, WorksOn

\* The invariant survives any such step.
LEMMA MovesKeeps ==
    ASSUME IInv, NEW w \in Clerks, NEW r, Moves(w, r)
    PROVE  IInv'
  <1>1. /\ made \in Seq(Consignment) /\ made' \in Seq(Consignment) /\ r \in Request
        /\ clerk \in [Clerks -> Request] /\ clerk' \in [Clerks -> Request]
        /\ \A v \in Clerks : clerk'[v] = IF v = w THEN r ELSE clerk[v]
    BY FreeOK DEF IInv, TablesOK, Moves
  <1>2. /\ Len(made) \in Nat /\ Len(made') \in Nat
        /\ \A i \in 1 .. Len(made) : i \in 1 .. Len(made') /\ i \in Nat
        /\ \A i \in 1 .. Len(made') : i \in Nat
    BY <1>1, LenProperties DEF Moves
  <1>3. TablesOK'
    BY <1>1, <1>2 DEF IInv, TablesOK, Moves
  <1>4. ASSUME NEW v \in Clerks, v # w
        PROVE  \A i \in 1 .. Len(made) : WorksOn(clerk[v], i) => made'[i] = made[i]
    BY <1>2, <1>4 DEF IInv, Unshared, Moves
  <1>5. ASSUME NEW v \in Clerks, v # w, clerk[v] # Free
        PROVE  RequestOK(clerk[v], made', given_up')
    <2> DEFINE x == clerk[v]
    <2>1. AtStep(x) /\ (x.kind = "consign" => Consigns(x, made, given_up))
      BY <1>5 DEF IInv, RequestsOK, RequestOK
    <2>2. x.kind = "consign" /\ x.id \in 1 .. Len(made) => made'[x.id] = made[x.id]
      BY <1>4, <1>5 DEF WorksOn
    <2>3. given_up \subseteq given_up'
      BY DEF Moves
    <2> HIDE DEF x
    <2>4. ASSUME x.kind = "consign"
          PROVE  Consigns(x, made', given_up')
      BY <1>2, <2>1, <2>2, <2>3, <2>4 DEF Consigns
    <2>5. RequestOK(x, made', given_up')
      BY <2>1, <2>4 DEF RequestOK
    <2>6. QED
      BY <2>5 DEF x
  <1>6. RequestsOK'
    BY <1>1, <1>5 DEF RequestsOK, Moves
  <1>7. Unshared'
    <2> SUFFICES ASSUME NEW u \in Clerks, NEW v \in Clerks, NEW i \in Nat,
                        WorksOn(clerk'[u], i), WorksOn(clerk'[v], i)
                 PROVE  u = v
      BY DEF Unshared
    <2>1. ASSUME NEW a \in Clerks, NEW b \in Clerks, a = w, b # w,
                 WorksOn(clerk'[a], i), WorksOn(clerk'[b], i)
          PROVE  FALSE
      <3>1. WorksOn(r, i) /\ WorksOn(clerk[b], i)
        BY <1>1, <2>1
      <3>2. i \in 1 .. Len(made)
        BY <3>1, WorksOnMade
      <3>3. WorksOn(clerk[w], i)
        BY <3>1, <3>2 DEF Moves
      <3>4. QED
        BY <2>1, <3>1, <3>3 DEF IInv, Unshared
    <2>2. CASE u = w \/ v = w
      BY <2>1, <2>2
    <2>3. CASE u # w /\ v # w
      BY <1>1, <2>3 DEF IInv, Unshared
    <2>4. QED
      BY <2>2, <2>3
  <1>8. ASSUME NEW o \in Parcels, tracking'[o] # None
        PROVE  made'[tracking'[o]] = [parcel |-> o, state |-> "submitted"]
    <2>1. tracking[o] \in 1 .. Len(made) /\ tracking'[o] = tracking[o]
      BY <1>8 DEF IInv, TablesOK, Moves
    <2>2. made[tracking[o]] = [parcel |-> o, state |-> "submitted"]
      BY <1>8, <2>1 DEF IInv, ConsignmentsAreKept
    <2>3. made'[tracking[o]] = made[tracking[o]]
      BY <2>1, <2>2 DEF Moves
    <2>4. QED
      BY <2>1, <2>2, <2>3
  <1>9. ASSUME NEW i \in 1 .. Len(made'), i \notin given_up', made'[i].state = "submitted"
        PROVE  \/ tracking'[made'[i].parcel] = i
               \/ \E v \in Clerks : WorksOn(clerk'[v], i)
    <2>1. CASE i \notin 1 .. Len(made) \/ WorksOn(clerk[w], i)
      BY <1>1, <1>9, <2>1 DEF Moves
    <2>2. CASE i \in 1 .. Len(made) /\ ~ WorksOn(clerk[w], i)
      <3>1. made'[i] = made[i] /\ i \notin given_up /\ tracking' = tracking
        BY <1>9, <2>2 DEF Moves
      <3>2. tracking[made[i].parcel] = i \/ \E v \in Clerks : WorksOn(clerk[v], i)
        BY <1>1, <1>9, <2>2, <3>1 DEF IInv, ConsignmentsAreKept, WorksOn
      <3>3. \A v \in Clerks : WorksOn(clerk[v], i) => WorksOn(clerk'[v], i)
        BY <1>1, <2>2
      <3>4. QED
        BY <3>1, <3>2, <3>3
    <2>3. QED
      BY <2>1, <2>2
  <1>10. ConsignmentsAreKept'
    <2>1. DOMAIN made' = 1 .. Len(made')
      BY <1>1
    <2>2. QED
      BY <1>8, <1>9, <2>1 DEF ConsignmentsAreKept, WorksOn
  <1>11. QED
    BY <1>3, <1>6, <1>7, <1>10 DEF IInv

-----------------------------------------------------------------------------
(* The steps that register nothing.                                          *)

\* A request that is under way.
LEMMA Current ==
    ASSUME IInv, NEW w \in Clerks, clerk[w].at # "free"
    PROVE  /\ clerk[w] \in Request /\ AtStep(clerk[w])
           /\ clerk[w].kind = "consign" => Consigns(clerk[w], made, given_up)
           /\ clerk[w].at = "local" <=> StepOf(clerk[w]) \in Local
           /\ clerk[w].kind = "consign" =>
                StepOf(clerk[w]) \in {"relogin", "new", "ship", "rate", "save", "submit"} \cup Local
  <1>1. clerk[w] # Free /\ clerk[w] \in Request
    BY FreeOK DEF IInv, TablesOK
  <1>2. RequestOK(clerk[w], made, given_up)
    BY <1>1 DEF IInv, RequestsOK
  <1>3. clerk[w].kind = "consign" =>
          StepOf(clerk[w]) \in {"relogin", "new", "ship", "rate", "save", "submit"} \cup Local
    BY <1>2, CarrierOf DEF RequestOK, AtStep, StepOf, Steps, consign_ems, consign_fedex, Local
  <1>4. QED
    BY <1>1, <1>2, <1>3 DEF RequestOK, AtStep

\* Before its last call a request has submitted nothing that is not given up.
LEMMA NotYetSubmitted ==
    ASSUME IInv, NEW w \in Clerks, clerk[w].at \notin {"free", "local"},
           NEW i \in 1 .. Len(made), WorksOn(clerk[w], i)
    PROVE  made[i].state = "submitted" => i \in given_up /\ StepOf(clerk[w]) = "submit"
  <1>1. i \in Nat /\ i # None /\ clerk[w].kind = "consign" /\ clerk[w].id = i
    BY ConsignmentsAssumption DEF WorksOn
  <1>2. /\ Consigns(clerk[w], made, given_up)
        /\ StepOf(clerk[w]) \in {"relogin", "new", "ship", "rate", "save", "submit"}
    BY <1>1, Current
  <1>3. QED
    BY <1>1, <1>2 DEF Consigns

\* A request goes on at its step.
LEMMA StaysKeeps ==
    ASSUME IInv, NEW w \in Clerks, clerk[w].at \notin {"free", "local"},
           NEW r \in Request, r.at \notin {"free", "local"},
           r.kind = clerk[w].kind, r.parcel = clerk[w].parcel, r.step = clerk[w].step,
           r.id = clerk[w].id, Becomes(w, r), UNCHANGED <<made, tracking, given_up>>
    PROVE  IInv'
  <1>1. StepOf(r) = StepOf(clerk[w])
    BY DEF StepOf
  <1>2. RequestOK(r, made', given_up')
    BY <1>1, Current DEF RequestOK, AtStep, Consigns
  <1>3. \A i : WorksOn(r, i) <=> WorksOn(clerk[w], i)
    BY DEF WorksOn
  <1>4. made \in Seq(Consignment) /\ Len(made) \in Nat
    BY LenProperties DEF IInv, TablesOK
  <1>5. Moves(w, r)
    BY <1>2, <1>3, <1>4 DEF Moves, Becomes
  <1>6. QED
    BY <1>5, MovesKeeps

\* A request fails.
LEMMA FailsKeeps ==
    ASSUME IInv, NEW w \in Clerks, clerk[w].at \notin {"free", "local"},
           Fails(w), UNCHANGED <<made, tracking, given_up>>
    PROVE  IInv'
  <1>1. made \in Seq(Consignment) /\ Len(made) \in Nat
    BY LenProperties DEF IInv, TablesOK
  <1>2. \A i : ~ WorksOn(Free, i)
    BY FreeOK DEF WorksOn
  <1>3. \A i \in 1 .. Len(made) :
            made[i].state = "submitted" /\ (i \notin 1 .. Len(made) \/ WorksOn(clerk[w], i))
            => i \in given_up
    BY NotYetSubmitted
  <1>4. Moves(w, Free)
    <2>1. made' = made /\ tracking' = tracking /\ given_up' = given_up
          /\ clerk' = [clerk EXCEPT ![w] = Free]
      BY DEF Fails, Becomes
    <2>2. \A i \in 1 .. Len(made') :
            made'[i].state = "submitted" /\ (i \notin 1 .. Len(made) \/ WorksOn(clerk[w], i))
            => i \in given_up' \/ WorksOn(Free, i)
      BY <1>3, <2>1
    <2>3. \A i \in Nat : WorksOn(Free, i) => i \notin 1 .. Len(made) \/ WorksOn(clerk[w], i)
      BY <1>2
    <2>4. QED
      BY <1>1, <2>1, <2>2, <2>3 DEF Moves
  <1>5. QED
    BY <1>4, MovesKeeps

\* A request that is to log in has done so.
LEMMA LoggedInKeeps ==
    ASSUME IInv, NEW w \in Clerks, clerk[w].at \notin {"free", "local"},
           StepOf(clerk[w]) = "relogin", NEW r, r = Enter(clerk[w], clerk[w].step + 1),
           Becomes(w, r), UNCHANGED <<made, tracking, given_up>>
    PROVE  IInv'
  <1>1. CASE r = Free
    BY <1>1, FailsKeeps DEF Fails
  <1>2. CASE r # Free
    <2>1. /\ r \in Request /\ AtStep(r) /\ r.kind = clerk[w].kind /\ r.id = clerk[w].id
          /\ r.kind = "consign" => StepOf(r) = "new" /\ r.id = None
      <3>1. clerk[w] \in Request /\ AtStep(clerk[w])
        BY Current
      <3>2. /\ r \in Request /\ AtStep(r) /\ r.kind = clerk[w].kind /\ r.id = clerk[w].id
            /\ r.kind = "consign" => StepOf(r) = "new"
        BY <1>2, <3>1, NextStep
      <3>3. clerk[w].kind = "consign" => clerk[w].id = None
        BY Current DEF Consigns
      <3>4. QED
        BY <3>2, <3>3
    <2>2. RequestOK(r, made', given_up')
      BY <2>1 DEF RequestOK, Consigns, Local
    <2>3. \A i : WorksOn(r, i) <=> WorksOn(clerk[w], i)
      BY <2>1 DEF WorksOn
    <2>4. made \in Seq(Consignment) /\ Len(made) \in Nat
      BY LenProperties DEF IInv, TablesOK
    <2>5. Moves(w, r)
      BY <2>1, <2>2, <2>3, <2>4 DEF Moves, Becomes
    <2>6. QED
      BY <2>5, MovesKeeps
  <1>3. QED
    BY <1>1, <1>2

\* The login, and the answer that asks for one.
LEMMA LoginKeeps ==
    ASSUME IInv, token \in [Carriers -> BOOLEAN], NEW w \in Clerks,
           \/ CheckFlag(w) \/ LookAgain(w) \/ CheckToken(w) \/ LogIn(w) \/ Unflag(w)
           \/ ReadToken(w) \/ LoginFails(w) \/ Unauthorized(w)
    PROVE  IInv'
  <1> DEFINE r == clerk[w]
  <1>1. UNCHANGED <<made, tracking, given_up>> /\ r.at \notin {"free", "local"}
    BY DEF CheckFlag, LookAgain, CheckToken, LogIn, Unflag, ReadToken, LoginFails, Unauthorized
  <1>2. r \in Request
    BY DEF IInv, TablesOK
  <1>3. ASSUME NEW at \in {"look", "token", "header", "login", "unflag"}, Goes(w, at)
        PROVE  IInv'
    <2>1. [r EXCEPT !.at = at] \in Request
      BY <1>2 DEF Request
    <2>2. QED
      BY <1>1, <1>2, <1>3, <2>1, StaysKeeps DEF Goes, Request
  <1>4. CASE CheckFlag(w) \/ CheckToken(w) \/ LogIn(w) \/ Unflag(w)
    BY <1>3, <1>4 DEF CheckFlag, CheckToken, LogIn, Unflag
  <1>5. CASE LookAgain(w)
    <2>1. [r EXCEPT !.at = "token", !.force = FALSE] \in Request
      BY <1>2 DEF Request
    <2>2. Becomes(w, [r EXCEPT !.at = "token", !.force = FALSE]) => IInv'
      BY <1>1, <1>2, <2>1, StaysKeeps DEF Request
    <2>3. QED
      BY <1>1, <1>5, <2>2, LoggedInKeeps, FailsKeeps DEF LookAgain
  <1>6. CASE LoginFails(w)
    BY <1>1, <1>6, FailsKeeps DEF LoginFails
  <1>7. CASE ReadToken(w)
    <2> DEFINE s == [r EXCEPT !.at = "send", !.header = token[Its(w)]]
    <2>1. token[Its(w)] \in BOOLEAN
      BY <1>1, Current, ConsignmentsAssumption DEF AtStep, Its
    <2>2. s \in Request
      BY <1>2, <2>1 DEF Request
    <2>3. Becomes(w, s) => IInv'
      BY <1>1, <1>2, <2>2, StaysKeeps DEF Request
    <2>4. QED
      BY <1>1, <1>7, <2>3, LoggedInKeeps, FailsKeeps DEF ReadToken, Fails
  <1>8. CASE Unauthorized(w)
    <2> DEFINE s == [r EXCEPT !.at = "flag", !.force = TRUE, !.attempts = @ + 1]
    <2>1. s \in Request
      <3>1. r.attempts + 1 \in Nat
        BY <1>2 DEF Request
      <3>2. QED
        BY <1>2, <3>1 DEF Request
    <2>2. QED
      BY <1>1, <1>2, <1>8, <2>1, StaysKeeps DEF Request, Unauthorized
  <1>9. QED
    BY <1>4, <1>5, <1>6, <1>7, <1>8

-----------------------------------------------------------------------------
(* The steps that register something.                                        *)

\* What the carrier's tables are after a call.
Registered(r, m) ==
    /\ m \in Seq(Consignment)
    /\ StepOf(r) \in {"new", "ship"} =>
          /\ Len(m) = Len(made) + 1
          /\ \A i \in 1 .. Len(made) : m[i] = made[i]
          /\ m[Len(made) + 1] = [parcel |-> r.parcel,
                                 state |-> IF StepOf(r) = "new" THEN "empty" ELSE "submitted"]
    /\ StepOf(r) \notin {"new", "ship"} =>
          /\ Len(m) = Len(made)
          /\ \A i \in 1 .. Len(made) :
                \/ m[i] = made[i]
                \/ /\ WorksOn(r, i) /\ made[i].state # "submitted"
                   /\ m[i].parcel = made[i].parcel /\ StepOf(r) \in {"save", "submit"}
                   /\ m[i].state = IF StepOf(r) = "save" THEN "saved" ELSE "submitted"

\* What a call registers is one of these.
LEMMA EffectRegisters ==
    ASSUME IInv, NEW w \in Clerks, clerk[w].at = "send"
    PROVE  /\ Registered(clerk[w], Effect(clerk[w]))
           /\ StepOf(clerk[w]) = "submit" =>
                IF Submits(clerk[w])
                THEN /\ clerk[w].id \in 1 .. Len(made) /\ made[clerk[w].id].parcel = clerk[w].parcel
                     /\ Effect(clerk[w])[clerk[w].id].state = "submitted"
                     /\ Effect(clerk[w])[clerk[w].id].parcel = clerk[w].parcel
                ELSE Effect(clerk[w]) = made
  <1> DEFINE r == clerk[w]
             m == Effect(r)
             n == Len(made)
             Set(k, state) == [made EXCEPT ![k].state = state]
  <1>1. /\ r \in Request /\ AtStep(r) /\ (r.kind = "consign" => Consigns(r, made, given_up))
        /\ made \in Seq(Consignment) /\ n \in Nat
    BY Current, LenProperties DEF IInv, TablesOK
  <1>2. StepOf(r) \in {"new", "ship", "save", "submit"} => r.kind = "consign" /\ r.parcel \in Parcels
    BY <1>1, CarrierOf DEF AtStep, StepOf, Steps, print_ems, service_availability,
       get_shipping_cost
  <1> HIDE DEF r, n
  <1>3. ASSUME NEW state \in {"empty", "submitted"}, r.parcel \in Parcels
        PROVE  LET a == New(r.parcel, state) IN
               /\ a \in Seq(Consignment) /\ Len(a) = n + 1
               /\ \A i \in 1 .. n : a[i] = made[i]
               /\ a[n + 1] = [parcel |-> r.parcel, state |-> state]
    <2> DEFINE rec == [parcel |-> r.parcel, state |-> state]
    <2>1. rec \in Consignment
      BY <1>3 DEF Consignment
    <2> HIDE DEF rec
    <2>2. /\ Append(made, rec) \in Seq(Consignment) /\ Len(Append(made, rec)) = n + 1
          /\ \A i \in 1 .. n : Append(made, rec)[i] = made[i]
          /\ Append(made, rec)[n + 1] = rec
      BY <1>1, <2>1, AppendProperties DEF n
    <2>3. New(r.parcel, state) = Append(made, rec)
      BY DEF New, rec
    <2>4. QED
      BY <2>2, <2>3 DEF rec
  <1>4. ASSUME NEW k \in 1 .. n, NEW state \in {"saved", "submitted"}
        PROVE  /\ Set(k, state) \in Seq(Consignment) /\ Len(Set(k, state)) = n
               /\ \A i \in 1 .. n : i # k => Set(k, state)[i] = made[i]
               /\ Set(k, state)[k].state = state /\ Set(k, state)[k].parcel = made[k].parcel
    <2> DEFINE rec == [made[k] EXCEPT !.state = state]
    <2>1. made[k] \in Consignment
      BY <1>1, ElementOfSeq DEF n
    <2>2. rec \in Consignment /\ rec.state = state /\ rec.parcel = made[k].parcel
      BY <2>1 DEF Consignment
    <2>3. [made EXCEPT ![k].state = state] = [made EXCEPT ![k] = rec]
      OBVIOUS
    <2> HIDE DEF rec
    <2>4. [made EXCEPT ![k] = rec] \in Seq(Consignment) /\ Len([made EXCEPT ![k] = rec]) = n
      BY <1>1, <2>2, ExceptSeq DEF n
    <2>5. \A i \in 1 .. n : [made EXCEPT ![k] = rec][i] = IF i = k THEN rec ELSE made[i]
      BY <1>1 DEF n
    <2>6. QED
      BY <2>2, <2>3, <2>4, <2>5
  <1>5. CASE StepOf(r) \in {"new", "ship"}
    <2>1. m = New(r.parcel, IF StepOf(r) = "new" THEN "empty" ELSE "submitted")
      BY <1>5 DEF Effect
    <2>2. QED
      BY <1>2, <1>3, <1>5, <2>1 DEF Registered, r, n
  <1>6. CASE StepOf(r) = "save" /\ r.id # None
    <2>1. m = [made EXCEPT ![r.id].state = "saved"]
      BY <1>6 DEF Effect
    <2>2. r.id \in 1 .. n /\ made[r.id].state # "submitted"
      BY <1>1, <1>2, <1>6 DEF Consigns, n
    <2>3. \A i \in 1 .. n : i = r.id => WorksOn(r, i)
      BY <1>2, <1>6 DEF WorksOn
    <2> DEFINE k == r.id
    <2>4. k \in 1 .. n /\ m = Set(k, "saved")
      BY <2>1, <2>2
    <2> HIDE DEF k, m, Set
    <2>5. /\ m \in Seq(Consignment) /\ Len(m) = n
          /\ \A i \in 1 .. n : i # k => m[i] = made[i]
          /\ m[k].state = "saved" /\ m[k].parcel = made[k].parcel
      BY <1>4, <2>4
    <2>6. Registered(r, m)
      BY <1>6, <2>2, <2>3, <2>5 DEF Registered, n, k
    <2>7. QED
      BY <1>6, <2>6 DEF r, m
  <1>7. CASE StepOf(r) = "submit" /\ Submits(r)
    <2>1. m = [made EXCEPT ![r.id].state = "submitted"]
      BY <1>7 DEF Effect
    <2>2. r.id \in 1 .. n /\ made[r.id].state # "submitted" /\ made[r.id].parcel = r.parcel
      BY <1>1, <1>2, <1>7 DEF Consigns, Submits, n
    <2>3. \A i \in 1 .. n : i = r.id => WorksOn(r, i)
      BY <1>2, <1>7 DEF WorksOn
    <2> DEFINE k == r.id
    <2>4. k \in 1 .. n /\ m = Set(k, "submitted")
      BY <2>1, <2>2
    <2> HIDE DEF k, m, Set
    <2>5. /\ m \in Seq(Consignment) /\ Len(m) = n
          /\ \A i \in 1 .. n : i # k => m[i] = made[i]
          /\ m[k].state = "submitted" /\ m[k].parcel = made[k].parcel
      BY <1>4, <2>4
    <2>6. Registered(r, m)
      BY <1>7, <2>2, <2>3, <2>5 DEF Registered, n, k
    <2>7. QED
      BY <1>7, <2>2, <2>5, <2>6 DEF r, m, n, k
  <1>8. CASE /\ StepOf(r) \notin {"new", "ship"} /\ ~ (StepOf(r) = "save" /\ r.id # None)
             /\ ~ (StepOf(r) = "submit" /\ Submits(r))
    <2>1. m = made
      BY <1>8 DEF Effect
    <2>2. QED
      BY <1>1, <1>8, <2>1 DEF Registered, r, n
  <1>9. QED
    BY <1>5, <1>6, <1>7, <1>8

\* The consignments a call leaves behind are the carrier's, and those of other
\* requests are as they were.
LEMMA RegisteredMoves ==
    ASSUME IInv, NEW w \in Clerks, clerk[w].at = "send", Registered(clerk[w], made')
    PROVE  /\ made' \in Seq(Consignment) /\ Len(made) \in Nat /\ Len(made) <= Len(made')
           /\ \A i \in 1 .. Len(made) :
                 \/ made'[i] = made[i]
                 \/ /\ WorksOn(clerk[w], i) /\ made[i].state # "submitted"
                    /\ made'[i].parcel = made[i].parcel
           /\ \A i \in 1 .. Len(made') : i \notin 1 .. Len(made) =>
                 i = Len(made) + 1 /\ StepOf(clerk[w]) \in {"new", "ship"}
  <1>1. Len(made) \in Nat
    BY LenProperties DEF IInv, TablesOK
  <1>2. CASE StepOf(clerk[w]) \in {"new", "ship"}
    BY <1>1, <1>2 DEF Registered
  <1>3. CASE StepOf(clerk[w]) \notin {"new", "ship"}
    BY <1>1, <1>3 DEF Registered
  <1>4. QED
    BY <1>2, <1>3

\* The carrier answers.
LEMMA AnswerKeeps ==
    ASSUME IInv, NEW w \in Clerks, Answer(w)
    PROVE  IInv'
  <1> DEFINE r == clerk[w]
             n == Len(made)
             id == IF StepOf(r) \in {"new", "ship"} THEN n + 1 ELSE r.id
             s == [r EXCEPT !.id = id]
             e == Enter(s, r.step + 1)
  <1>1. /\ r.at = "send" /\ made' = Effect(r) /\ tracking' = tracking /\ given_up' = given_up
        /\ Becomes(w, IF ~ Accepted(r) THEN Free ELSE e)
    <2>1. [r EXCEPT !.id = IF StepOf(r) \in {"new", "ship"} THEN Len(made) + 1 ELSE @] = s
      OBVIOUS
    <2>2. QED
      BY <2>1 DEF Answer
  <1>2. /\ r \in Request /\ AtStep(r) /\ (r.kind = "consign" => Consigns(r, made, given_up))
        /\ StepOf(r) \notin Local /\ n \in Nat
        /\ r.kind = "consign" =>
                StepOf(r) \in {"relogin", "new", "ship", "rate", "save", "submit"}
    BY <1>1, Current, LenProperties DEF IInv, TablesOK
  <1>3. /\ Registered(r, made')
        /\ StepOf(r) = "submit" =>
             IF Submits(r)
             THEN /\ r.id \in 1 .. n /\ made[r.id].parcel = r.parcel
                  /\ made'[r.id].state = "submitted" /\ made'[r.id].parcel = r.parcel
             ELSE made' = made
    BY <1>1, EffectRegisters
  <1>4. /\ made' \in Seq(Consignment) /\ n <= Len(made')
        /\ \A i \in 1 .. n :
              \/ made'[i] = made[i]
              \/ WorksOn(r, i) /\ made[i].state # "submitted" /\ made'[i].parcel = made[i].parcel
        /\ \A i \in 1 .. Len(made') : i \notin 1 .. n =>
              i = n + 1 /\ StepOf(r) \in {"new", "ship"}
    BY <1>1, <1>3, RegisteredMoves
  <1>5. \A i \in 1 .. n : WorksOn(r, i) =>
            (made[i].state = "submitted" => i \in given_up /\ StepOf(r) = "submit")
    BY <1>1, NotYetSubmitted
  <1>6. StepOf(r) \in {"new", "ship", "save", "submit"} => r.kind = "consign"
    BY <1>2, CarrierOf DEF AtStep, StepOf, Steps, print_ems, service_availability,
       get_shipping_cost
  <1>7. s \in Request /\ s.kind = r.kind /\ s.parcel = r.parcel /\ s.step = r.step /\ s.id = id
        /\ StepOf(s) = StepOf(r) /\ s.at = r.at
    BY <1>2 DEF Request, StepOf
  <1>8. AtStep(s)
    BY <1>2, <1>7 DEF AtStep
  <1>9. \/ e = Free /\ r.kind # "consign"
        \/ /\ e \in Request /\ AtStep(e) /\ e.kind = r.kind /\ e.parcel = r.parcel /\ e.id = id
           /\ r.kind = "consign" =>
                \/ StepOf(r) = "relogin" /\ StepOf(e) = "new"
                \/ StepOf(r) = "new" /\ StepOf(e) = "rate"
                \/ StepOf(r) = "rate" /\ StepOf(e) = "save"
                \/ StepOf(r) = "save" /\ StepOf(e) = "submit"
                \/ StepOf(r) = "submit" /\ StepOf(e) = "commit"
                \/ StepOf(r) = "ship" /\ StepOf(e) = "label"
    <2>1. e = Enter(s, s.step + 1)
      BY <1>7
    <2> HIDE DEF e, s
    <2>2. \/ e = Free /\ (s.kind = "consign" => StepOf(s) = "commit")
          \/ /\ e \in Request /\ AtStep(e) /\ e.kind = s.kind /\ e.parcel = s.parcel /\ e.id = s.id
             /\ s.kind = "consign" =>
                    \/ StepOf(s) = "relogin" /\ StepOf(e) = "new"
                    \/ StepOf(s) = "new" /\ StepOf(e) = "rate"
                    \/ StepOf(s) = "rate" /\ StepOf(e) = "save"
                    \/ StepOf(s) = "save" /\ StepOf(e) = "submit"
                    \/ StepOf(s) = "submit" /\ StepOf(e) = "commit"
                    \/ StepOf(s) = "ship" /\ StepOf(e) = "label"
                    \/ StepOf(s) = "label" /\ StepOf(e) = "commit"
      BY <1>7, <1>8, <2>1, NextStep
    <2>3. QED
      BY <1>2, <1>7, <2>2 DEF Local
  <1> HIDE DEF e, s, r, n
  <1>10. CASE ~ Accepted(r)
    <2>1. made' = made
      BY <1>3, <1>10 DEF Accepted
    <2>2. Fails(w)
      BY <1>1, <1>10 DEF Fails
    <2>3. QED
      BY <1>1, <2>1, <2>2, FailsKeeps DEF r
  <1>11. CASE Accepted(r) /\ e = Free
    <2>1. r.kind # "consign" /\ Fails(w)
      BY <1>1, <1>2, <1>9, <1>11, FreeOK DEF Fails, AtStep
    <2>2. \A i : ~ WorksOn(r, i)
      BY <2>1 DEF WorksOn
    <2>3. made' = made
      BY <1>1, <1>6, <2>1 DEF Effect
    <2>4. QED
      BY <1>1, <2>1, <2>3, FailsKeeps DEF r
  <1>12. CASE Accepted(r) /\ e # Free
    <2>1. /\ e \in Request /\ AtStep(e) /\ e.kind = r.kind /\ e.parcel = r.parcel /\ e.id = id
          /\ r.kind = "consign" =>
                \/ StepOf(r) = "relogin" /\ StepOf(e) = "new"
                \/ StepOf(r) = "new" /\ StepOf(e) = "rate"
                \/ StepOf(r) = "rate" /\ StepOf(e) = "save"
                \/ StepOf(r) = "save" /\ StepOf(e) = "submit"
                \/ StepOf(r) = "submit" /\ StepOf(e) = "commit"
                \/ StepOf(r) = "ship" /\ StepOf(e) = "label"
      BY <1>9, <1>12
    <2>2. r.kind = "consign" => Consigns(e, made', given_up')
      <3> SUFFICES ASSUME r.kind = "consign" PROVE Consigns(e, made', given_up')
        OBVIOUS
      <3>1. Consigns(r, made, given_up)
        BY <1>2
      <3>2. CASE StepOf(r) = "relogin"
        BY <2>1, <3>1, <3>2 DEF Consigns, Local
      <3>3. CASE StepOf(r) = "new"
        BY <1>2, <1>3, <2>1, <3>3 DEF Consigns, Local, Registered, n
      <3>4. CASE StepOf(r) = "rate"
        BY <1>2, <1>3, <2>1, <3>1, <3>4 DEF Consigns, Local, Registered, n
      <3>5. CASE StepOf(r) = "save"
        BY <1>2, <1>3, <2>1, <3>1, <3>5 DEF Consigns, Local, Registered, n
      <3>6. CASE StepOf(r) = "submit"
        <4>1. /\ r.id \in 1 .. n /\ made'[r.id].state = "submitted"
              /\ made'[r.id].parcel = r.parcel /\ n = Len(made')
          BY <1>3, <1>12, <3>6 DEF Accepted, Registered, n
        <4>2. made'[r.id] \in Consignment
          BY <1>4, <4>1, ElementOfSeq
        <4>3. made'[r.id] = [parcel |-> r.parcel, state |-> "submitted"]
          BY <4>1, <4>2 DEF Consignment
        <4>4. QED
          BY <2>1, <3>6, <4>1, <4>3 DEF Consigns, Local
      <3>7. CASE StepOf(r) = "ship"
        BY <1>2, <1>3, <2>1, <3>7 DEF Consigns, Local, Registered, n
      <3>8. QED
        BY <1>2, <3>2, <3>3, <3>4, <3>5, <3>6, <3>7
    <2>3. RequestOK(e, made', given_up')
      BY <2>1, <2>2 DEF RequestOK
    <2>4. \A i \in Nat : WorksOn(e, i) => i \notin 1 .. n \/ WorksOn(r, i)
      BY <1>2, <2>1 DEF WorksOn
    <2>5. \A i \in 1 .. Len(made') :
              made'[i].state = "submitted" /\ (i \notin 1 .. n \/ WorksOn(r, i))
              => i \in given_up' \/ WorksOn(e, i)
      <3> SUFFICES ASSUME NEW i \in 1 .. Len(made'), i \notin 1 .. n \/ WorksOn(r, i)
                   PROVE  WorksOn(e, i) \/ (i \in given_up' /\ i \in 1 .. n)
                                        \/ (i \in 1 .. n /\ made'[i].state # "submitted")
        BY <1>1
      <3>1. CASE i \notin 1 .. n
        BY <1>4, <1>6, <2>1, <3>1 DEF WorksOn
      <3>2. CASE i \in 1 .. n /\ WorksOn(r, i)
        <4>1. CASE StepOf(r) \in {"new", "ship"}
          <5>1. r.id = None
            BY <1>2, <3>2, <4>1 DEF Consigns, WorksOn
          <5>2. i \in Nat
            BY <3>2
          <5>3. QED
            BY <3>2, <5>1, <5>2, ConsignmentsAssumption DEF WorksOn
        <4>2. CASE StepOf(r) \notin {"new", "ship"}
          BY <2>1, <3>2, <4>2 DEF WorksOn
        <4>3. QED
          BY <4>1, <4>2
      <3>3. QED
        BY <3>1, <3>2
    <2>6. Moves(w, e)
      BY <1>1, <1>4, <1>12, <2>1, <2>3, <2>4, <2>5 DEF Moves, Becomes, r, n
    <2>7. QED
      BY <2>6, MovesKeeps
  <1>13. QED
    BY <1>10, <1>11, <1>12

\* A call without an answer is made again, carried on from, or given up.
LEMMA UnansweredFields ==
    ASSUME IInv, NEW w \in Clerks, clerk[w].at = "send", NEW e, e = Unanswered(clerk[w])
    PROVE  \/ e = Free
           \/ /\ e \in Request /\ AtStep(e) /\ e.kind = clerk[w].kind
              /\ e.parcel = clerk[w].parcel /\ e.id = clerk[w].id
              /\ clerk[w].kind = "consign" =>
                    \/ StepOf(e) = StepOf(clerk[w])
                    \/ StepOf(clerk[w]) = "new" /\ StepOf(e) = "rate"
                    \/ StepOf(clerk[w]) = "save" /\ StepOf(e) = "submit"
  <1> DEFINE r == clerk[w]
  <1>1. r \in Request /\ AtStep(r)
    BY Current
  <1>2. CASE e = [r EXCEPT !.sent = @ + 1]
    <2>1. r.sent + 1 \in Nat
      BY <1>1 DEF Request
    <2>2. /\ e \in Request /\ e.kind = r.kind /\ e.parcel = r.parcel /\ e.id = r.id
          /\ e.step = r.step /\ e.at = r.at
      BY <1>1, <1>2, <2>1 DEF Request
    <2>3. StepOf(e) = StepOf(r)
      BY <2>2 DEF StepOf
    <2>4. QED
      BY <1>1, <2>2, <2>3 DEF AtStep
  <1>3. CASE StepOf(r) \in Unparsed /\ e = Enter(r, r.step + 1)
    <2> HIDE DEF r
    <2>1. QED
      BY <1>1, <1>3, NextStep DEF Unparsed, r
  <1>4. QED
    BY <1>2, <1>3 DEF Unanswered

\* A server error loses the answer, or the call; what it may have submitted is
\* given up.
LEMMA ServerErrorKeeps ==
    ASSUME IInv, NEW w \in Clerks, ServerError(w)
    PROVE  IInv'
  <1> DEFINE r == clerk[w]
             n == Len(made)
             e == Unanswered(r)
  <1>1. /\ r.at = "send" /\ tracking' = tracking /\ clerk' = [clerk EXCEPT ![w] = e]
        /\ \/ made' = made /\ given_up' = given_up
           \/ /\ made' = Effect(r)
              /\ given_up' = IF StepOf(r) \in {"new", "ship"} THEN given_up \cup {n + 1}
                             ELSE IF StepOf(r) = "submit" /\ Submits(r) THEN given_up \cup {r.id}
                             ELSE given_up
    BY DEF ServerError, Becomes, Unheard
  <1>2. /\ (r.kind = "consign" => Consigns(r, made, given_up))
        /\ made \in Seq(Consignment) /\ n \in Nat
        /\ r.kind = "consign" =>
                StepOf(r) \in {"relogin", "new", "ship", "rate", "save", "submit"}
    BY <1>1, Current, LenProperties DEF IInv, TablesOK
  <1>3. \/ e = Free
        \/ /\ e \in Request /\ AtStep(e) /\ e.kind = r.kind /\ e.parcel = r.parcel /\ e.id = r.id
           /\ r.kind = "consign" =>
                 \/ StepOf(e) = StepOf(r)
                 \/ StepOf(r) = "new" /\ StepOf(e) = "rate"
                 \/ StepOf(r) = "save" /\ StepOf(e) = "submit"
    BY <1>1, UnansweredFields
  <1>4. \A i \in 1 .. n : WorksOn(r, i) =>
            (made[i].state = "submitted" => i \in given_up /\ StepOf(r) = "submit")
    BY <1>1, NotYetSubmitted
  <1>5. /\ made' \in Seq(Consignment) /\ n <= Len(made') /\ given_up \subseteq given_up'
        /\ \A i \in 1 .. n :
              \/ made'[i] = made[i]
              \/ WorksOn(r, i) /\ made[i].state # "submitted" /\ made'[i].parcel = made[i].parcel
        /\ \A i \in 1 .. Len(made') : i \notin 1 .. n => i \in given_up'
        /\ \A i \in 1 .. n : WorksOn(r, i) =>
              (made'[i].state = "submitted" => i \in given_up' /\ StepOf(r) = "submit")
    <2>1. CASE made' = made /\ given_up' = given_up
      BY <1>2, <1>4, <2>1
    <2>2. CASE /\ made' = Effect(r)
               /\ given_up' = IF StepOf(r) \in {"new", "ship"} THEN given_up \cup {n + 1}
                              ELSE IF StepOf(r) = "submit" /\ Submits(r)
                                   THEN given_up \cup {r.id}
                              ELSE given_up
      <3>1. Registered(r, made') /\ (StepOf(r) = "submit" /\ ~ Submits(r) => made' = made)
        BY <1>1, <2>2, EffectRegisters
      <3>2. /\ made' \in Seq(Consignment) /\ n <= Len(made')
            /\ \A i \in 1 .. n :
                  \/ made'[i] = made[i]
                  \/ /\ WorksOn(r, i) /\ made[i].state # "submitted"
                     /\ made'[i].parcel = made[i].parcel
            /\ \A i \in 1 .. Len(made') : i \notin 1 .. n =>
                  i = n + 1 /\ StepOf(r) \in {"new", "ship"}
        BY <1>1, <3>1, RegisteredMoves
      <3> HIDE DEF r, n, e
      <3>3. given_up \subseteq given_up'
        BY <2>2
      <3>4. \A i \in 1 .. Len(made') : i \notin 1 .. n => i \in given_up'
        BY <2>2, <3>2
      <3>5. ASSUME NEW i \in 1 .. n, WorksOn(r, i), made'[i].state = "submitted"
            PROVE  i \in given_up' /\ StepOf(r) = "submit"
        <4>1. CASE made'[i] = made[i]
          BY <1>4, <3>3, <3>5, <4>1
        <4>2. CASE made'[i] # made[i]
          <5>1. StepOf(r) = "submit" /\ Submits(r)
            BY <3>1, <3>5, <4>2 DEF Registered, n
          <5>2. QED
            BY <2>2, <3>5, <5>1 DEF WorksOn
        <4>3. QED
          BY <4>1, <4>2
      <3>6. QED
        BY <3>2, <3>3, <3>4, <3>5
    <2>3. QED
      BY <1>1, <2>1, <2>2
  <1> HIDE DEF r, n, e
  <1>6. CASE e = Free
    <2>1. \A i : ~ WorksOn(e, i)
      BY <1>6, FreeOK DEF WorksOn
    <2>2. \A i \in 1 .. Len(made') :
              made'[i].state = "submitted" /\ (i \notin 1 .. n \/ WorksOn(r, i)) => i \in given_up'
      BY <1>5
    <2>3. Moves(w, e)
      BY <1>1, <1>5, <1>6, <2>1, <2>2 DEF Moves, r, n
    <2>4. QED
      BY <2>3, MovesKeeps
  <1>7. CASE e # Free
    <2>1. /\ e \in Request /\ AtStep(e) /\ e.kind = r.kind /\ e.parcel = r.parcel /\ e.id = r.id
          /\ r.kind = "consign" =>
                \/ StepOf(e) = StepOf(r)
                \/ StepOf(r) = "new" /\ StepOf(e) = "rate"
                \/ StepOf(r) = "save" /\ StepOf(e) = "submit"
      BY <1>3, <1>7
    <2>2. ASSUME r.kind = "consign"
          PROVE  Consigns(e, made', given_up')
      <3>1. StepOf(e) \notin Local
        BY <1>2, <2>1, <2>2 DEF Local
      <3>2. StepOf(e) \in {"relogin", "new", "ship"} => e.id = None
        BY <1>2, <2>1, <2>2 DEF Consigns
      <3>3. ASSUME StepOf(e) \in {"rate", "save", "submit"}, e.id # None
            PROVE  /\ e.id \in 1 .. Len(made') /\ made'[e.id].parcel = e.parcel
                   /\ made'[e.id].state = "submitted" => StepOf(e) = "submit" /\ e.id \in given_up'
        <4>1. StepOf(r) \in {"rate", "save", "submit"} /\ r.id # None
          BY <1>2, <2>1, <2>2, <3>3 DEF Consigns
        <4>2. r.id \in 1 .. n /\ made[r.id].parcel = r.parcel
          BY <1>2, <2>2, <4>1 DEF Consigns, n
        <4>3. WorksOn(r, r.id)
          BY <2>2 DEF WorksOn
        <4>4. /\ made'[r.id].parcel = r.parcel
              /\ made'[r.id].state = "submitted" => r.id \in given_up' /\ StepOf(r) = "submit"
          BY <1>5, <4>2, <4>3
        <4>5. r.id \in 1 .. Len(made')
          BY <1>2, <1>5, <4>2, LenProperties
        <4>6. QED
          BY <2>1, <2>2, <4>4, <4>5
      <3>4. QED
        BY <3>1, <3>2, <3>3 DEF Consigns
    <2>3. RequestOK(e, made', given_up')
      BY <2>1, <2>2 DEF RequestOK
    <2>4. \A i : WorksOn(e, i) <=> WorksOn(r, i)
      BY <2>1 DEF WorksOn
    <2>5. Moves(w, e)
      BY <1>1, <1>5, <2>1, <2>3, <2>4 DEF Moves, r, n
    <2>6. QED
      BY <2>5, MovesKeeps
  <1>8. QED
    BY <1>6, <1>7

\* A web worker dies: what it was working on, or may have made last, is given up.
LEMMA WorkerDiesKeeps ==
    ASSUME IInv, NEW w \in Clerks, WorkerDies(w)
    PROVE  IInv'
  <1> DEFINE r == clerk[w]
             n == Len(made)
  <1>1. /\ tracking' = tracking /\ clerk' = [clerk EXCEPT ![w] = Free]
        /\ Carried(r) \subseteq given_up' /\ given_up \subseteq given_up'
        /\ \/ made' = made
           \/ r.at = "send" /\ made' = Effect(r) /\ Unheard(r) \subseteq given_up'
    BY DEF WorkerDies, Fails, Becomes
  <1>2. made \in Seq(Consignment) /\ n \in Nat
    BY LenProperties DEF IInv, TablesOK
  <1>3. \A i \in Nat : WorksOn(r, i) => i \in given_up'
    BY <1>1, ConsignmentsAssumption DEF WorksOn, Carried
  <1>4. \A i : ~ WorksOn(Free, i)
    BY FreeOK DEF WorksOn
  <1>5. /\ made' \in Seq(Consignment) /\ n <= Len(made')
        /\ \A i \in 1 .. n :
              \/ made'[i] = made[i]
              \/ WorksOn(r, i) /\ made[i].state # "submitted" /\ made'[i].parcel = made[i].parcel
        /\ \A i \in 1 .. Len(made') : i \notin 1 .. n => i \in given_up'
    <2>1. CASE made' = made
      BY <1>2, <2>1
    <2>2. CASE r.at = "send" /\ made' = Effect(r) /\ Unheard(r) \subseteq given_up'
      <3>1. Registered(r, made')
        BY <2>2, EffectRegisters
      <3>2. /\ made' \in Seq(Consignment) /\ n <= Len(made')
            /\ \A i \in 1 .. n :
                  \/ made'[i] = made[i]
                  \/ /\ WorksOn(r, i) /\ made[i].state # "submitted"
                     /\ made'[i].parcel = made[i].parcel
            /\ \A i \in 1 .. Len(made') : i \notin 1 .. n =>
                  i = n + 1 /\ StepOf(r) \in {"new", "ship"}
        BY <2>2, <3>1, RegisteredMoves
      <3>3. StepOf(r) \in {"new", "ship"} => n + 1 \in given_up'
        BY <2>2 DEF Unheard
      <3> HIDE DEF r, n
      <3>4. QED
        BY <3>2, <3>3
    <2>3. QED
      BY <1>1, <2>1, <2>2
  <1>6. \A i \in 1 .. Len(made') : i \in Nat
    BY <1>2, <1>5
  <1> HIDE DEF r, n
  <1>7. Moves(w, Free)
    BY <1>1, <1>3, <1>4, <1>5, <1>6 DEF Moves, r, n
  <1>8. QED
    BY <1>7, MovesKeeps

\* The label of FedEx is stored, or it is not and the number is lost.
LEMMA SaveLabelKeeps ==
    ASSUME IInv, NEW w \in Clerks, SaveLabel(w)
    PROVE  IInv'
  <1> DEFINE r == clerk[w]
             e == Enter(r, r.step + 1)
  <1>1. /\ r.at = "local" /\ StepOf(r) = "label" /\ made' = made /\ tracking' = tracking
        /\ \/ clerk' = [clerk EXCEPT ![w] = e] /\ given_up' = given_up
           \/ clerk' = [clerk EXCEPT ![w] = Free] /\ given_up' = given_up \cup {r.id}
    BY DEF SaveLabel, Becomes, Fails
  <1>2. /\ r \in Request /\ AtStep(r) /\ (r.kind = "consign" => Consigns(r, made, given_up))
        /\ made \in Seq(Consignment) /\ Len(made) \in Nat
    BY <1>1, Current, LenProperties DEF IInv, TablesOK
  <1>3. r.kind = "consign"
    BY <1>1, <1>2, CarrierOf DEF AtStep, StepOf, Steps, print_ems, service_availability,
       get_shipping_cost
  <1>4. \/ e = Free /\ StepOf(r) = "commit"
        \/ /\ e \in Request /\ AtStep(e) /\ e.kind = r.kind /\ e.parcel = r.parcel /\ e.id = r.id
           /\ StepOf(e) = "commit"
    <2> HIDE DEF r
    <2>1. QED
      BY <1>1, <1>2, <1>3, NextStep
  <1> HIDE DEF r, e
  <1>5. CASE clerk' = [clerk EXCEPT ![w] = e] /\ given_up' = given_up
    <2>1. /\ e \in Request /\ AtStep(e) /\ e.kind = r.kind /\ e.parcel = r.parcel /\ e.id = r.id
          /\ StepOf(e) = "commit"
      BY <1>1, <1>4
    <2>2. RequestOK(e, made', given_up')
      BY <1>1, <1>2, <1>3, <1>5, <2>1 DEF RequestOK, Consigns, Local
    <2>3. \A i : WorksOn(e, i) <=> WorksOn(r, i)
      BY <2>1 DEF WorksOn
    <2>4. Moves(w, e)
      BY <1>1, <1>2, <1>5, <2>1, <2>2, <2>3 DEF Moves, r
    <2>5. QED
      BY <2>4, MovesKeeps
  <1>6. CASE clerk' = [clerk EXCEPT ![w] = Free] /\ given_up' = given_up \cup {r.id}
    <2>1. \A i : ~ WorksOn(Free, i)
      BY FreeOK DEF WorksOn
    <2>2. \A i : WorksOn(r, i) => i \in given_up'
      BY <1>6 DEF WorksOn
    <2>3. Moves(w, Free)
      BY <1>1, <1>2, <1>6, <2>1, <2>2 DEF Moves, r
    <2>4. QED
      BY <2>3, MovesKeeps
  <1>7. QED
    BY <1>1, <1>5, <1>6

\* The number of a consignment is stored, and one it replaces is given up; or it
\* is not stored and lost.
LEMMA CommitKeeps ==
    ASSUME IInv, NEW w \in Clerks, Commit(w)
    PROVE  IInv'
  <1> DEFINE r == clerk[w]
             o == r.parcel
  <1>1. /\ r.at = "local" /\ StepOf(r) = "commit" /\ made' = made
        /\ \/ /\ tracking' = [tracking EXCEPT ![o] = r.id]
              /\ given_up' = given_up \cup ({tracking[o]} \ {None})
           \/ tracking' = tracking /\ given_up' = given_up \cup {r.id}
        /\ clerk' = [clerk EXCEPT ![w] = Free]
    BY DEF Commit, Becomes
  <1>2. /\ r \in Request /\ AtStep(r) /\ (r.kind = "consign" => Consigns(r, made, given_up))
        /\ made \in Seq(Consignment) /\ Len(made) \in Nat
        /\ tracking \in [Parcels -> 1 .. Len(made) \cup {None}] /\ clerk \in [Clerks -> Request]
    BY <1>1, Current, LenProperties DEF IInv, TablesOK
  <1>3. r.kind = "consign"
    BY <1>1, <1>2, CarrierOf DEF AtStep, StepOf, Steps, print_ems, service_availability,
       get_shipping_cost
  <1>4. /\ o \in Parcels /\ r.id \in 1 .. Len(made)
        /\ made[r.id] = [parcel |-> o, state |-> "submitted"]
    BY <1>1, <1>2, <1>3 DEF AtStep, Consigns, Local
  <1> HIDE DEF r
  <1>5. CASE /\ tracking' = [tracking EXCEPT ![o] = r.id]
             /\ given_up' = given_up \cup ({tracking[o]} \ {None})
    <2>1. /\ clerk' \in [Clerks -> Request]
          /\ \A v \in Clerks : clerk'[v] = IF v = w THEN Free ELSE clerk[v]
          /\ tracking' \in [Parcels -> 1 .. Len(made) \cup {None}]
          /\ \A p \in Parcels : tracking'[p] = IF p = o THEN r.id ELSE tracking[p]
      BY <1>1, <1>2, <1>4, <1>5, FreeOK
    <2>2. TablesOK'
      BY <1>1, <1>2, <2>1 DEF TablesOK
    <2>3. ASSUME NEW v \in Clerks, clerk'[v] # Free
          PROVE  RequestOK(clerk'[v], made', given_up')
      <3>1. RequestOK(clerk[v], made, given_up) /\ clerk'[v] = clerk[v]
        BY <2>1, <2>3 DEF IInv, RequestsOK
      <3> DEFINE x == clerk[v]
      <3> HIDE DEF x
      <3>2. RequestOK(x, made, given_up) => RequestOK(x, made', given_up')
        BY <1>1 DEF RequestOK, Consigns
      <3>3. QED
        BY <3>1, <3>2 DEF x
    <2>4. RequestsOK'
      BY <2>3 DEF RequestsOK
    <2>5. Unshared'
      <3>1. \A i : ~ WorksOn(Free, i)
        BY FreeOK DEF WorksOn
      <3>2. QED
        BY <2>1, <3>1 DEF IInv, Unshared
    <2>6. ConsignmentsAreKept'
      <3>1. ASSUME NEW p \in Parcels, tracking'[p] # None
            PROVE  made'[tracking'[p]] = [parcel |-> p, state |-> "submitted"]
        BY <1>1, <1>4, <2>1, <3>1 DEF IInv, ConsignmentsAreKept
      <3>2. ASSUME NEW i \in DOMAIN made', i \notin given_up', made'[i].state = "submitted"
            PROVE  \/ tracking'[made'[i].parcel] = i
                   \/ \E v \in Clerks : clerk'[v].kind = "consign" /\ clerk'[v].id = i
        <4>1. i \in 1 .. Len(made) /\ i # None /\ i \notin given_up /\ made[i] \in Consignment
          BY <1>1, <1>2, <3>2, ElementOfSeq, ConsignmentsAssumption
        <4>2. \/ tracking[made[i].parcel] = i
              \/ \E v \in Clerks : clerk[v].kind = "consign" /\ clerk[v].id = i
          BY <1>1, <3>2, <4>1 DEF IInv, ConsignmentsAreKept
        <4>3. CASE tracking[made[i].parcel] = i
          <5>1. made[i].parcel # o
            BY <1>1, <1>5, <3>2, <4>1, <4>3
          <5>2. QED
            BY <1>1, <2>1, <4>1, <4>3, <5>1 DEF Consignment
        <4>4. ASSUME NEW v \in Clerks, clerk[v].kind = "consign", clerk[v].id = i
              PROVE  \/ tracking'[made'[i].parcel] = i
                     \/ \E u \in Clerks : clerk'[u].kind = "consign" /\ clerk'[u].id = i
          <5>1. CASE v = w
            BY <1>1, <1>4, <2>1, <4>4, <5>1 DEF r
          <5>2. CASE v # w
            BY <2>1, <4>4, <5>2
          <5>3. QED
            BY <5>1, <5>2
        <4>5. QED
          BY <4>2, <4>3, <4>4
      <3>3. QED
        BY <3>1, <3>2 DEF ConsignmentsAreKept
    <2>7. QED
      BY <2>2, <2>4, <2>5, <2>6 DEF IInv
  <1>6. CASE tracking' = tracking /\ given_up' = given_up \cup {r.id}
    <2>1. \A i : ~ WorksOn(Free, i)
      BY FreeOK DEF WorksOn
    <2>2. \A i : WorksOn(r, i) => i \in given_up'
      BY <1>6 DEF WorksOn
    <2>3. Moves(w, Free)
      BY <1>1, <1>2, <1>6, <2>1, <2>2 DEF Moves, r
    <2>4. QED
      BY <2>3, MovesKeeps
  <1>7. QED
    BY <1>1, <1>5, <1>6

\* A request begins.
LEMMA BeginKeeps ==
    ASSUME IInv, NEW w \in Clerks, NEW kind \in {"consign", "print", "offer", "quote"},
           NEW o \in Parcels, Begin(w, kind, o)
    PROVE  IInv'
  <1> DEFINE id == IF kind = "print" THEN tracking[o] ELSE None
             e == Enter([Free EXCEPT !.kind = kind, !.parcel = o, !.id = id], 1)
  <1>1. /\ clerk[w] = Free /\ UNCHANGED <<made, tracking, given_up>>
        /\ clerk' = [clerk EXCEPT ![w] = e]
        /\ kind = "print" => Carrier[o] = "ems" /\ tracking[o] # None
        /\ kind = "offer" => Carrier[o] = "fedex"
    BY DEF Begin, Becomes
  <1>2. made \in Seq(Consignment) /\ Len(made) \in Nat /\ id \in Nat \cup {None}
    BY LenProperties DEF IInv, TablesOK
  <1> HIDE DEF id
  <1>3. /\ e \in Request /\ AtStep(e) /\ e.kind = kind /\ e.id = id
        /\ kind = "consign" => StepOf(e) \in {"relogin", "ship"}
    <2>1. e = Starting(kind, o, id)
      BY DEF Starting
    <2> HIDE DEF e
    <2>2. QED
      BY <1>1, <1>2, <2>1, FirstStep
  <1> HIDE DEF e
  <1>4. kind = "consign" => id = None
    BY DEF id
  <1>5. RequestOK(e, made', given_up')
    BY <1>3, <1>4 DEF RequestOK, Consigns, Local
  <1>6. \A i \in Nat : ~ WorksOn(e, i) /\ ~ WorksOn(clerk[w], i)
    BY <1>1, <1>3, <1>4, FreeOK, ConsignmentsAssumption DEF WorksOn
  <1>7. Moves(w, e)
    BY <1>1, <1>2, <1>3, <1>5, <1>6 DEF Moves
  <1>8. QED
    BY <1>7, MovesKeeps

-----------------------------------------------------------------------------
(* The theorem.                                                              *)

\* The token matters only to the type of a request.
KInv == IInv /\ token \in [Carriers -> BOOLEAN]

\* Nothing is made and nobody is at work in the beginning.
LEMMA InitOK == Init => KInv
  <1> SUFFICES ASSUME Init PROVE KInv
    OBVIOUS
  <1>1. made = <<>> /\ made \in Seq(Consignment) /\ Len(made) = 0 /\ DOMAIN made = {}
    BY DEF Init
  <1>2. clerk \in [Clerks -> Request] /\ \A w \in Clerks : clerk[w] = Free
    BY FreeOK DEF Init
  <1>3. tracking \in [Parcels -> {None}]
    BY DEF Init
  <1>4. TablesOK /\ RequestsOK /\ ConsignmentsAreKept
    BY <1>1, <1>2, <1>3 DEF TablesOK, RequestsOK, ConsignmentsAreKept
  <1>5. Unshared
    BY <1>2, FreeOK DEF Unshared, WorksOn
  <1>6. QED
    BY <1>4, <1>5 DEF KInv, IInv, Init

\* Every step of a worker, and an expiring token, keeps the invariant.
LEMMA StepOK == KInv /\ [Next]_cvars => KInv'
  <1> SUFFICES ASSUME KInv, [Next]_cvars PROVE KInv'
    OBVIOUS
  <1>1. CASE UNCHANGED cvars
    BY <1>1 DEF KInv, IInv, TablesOK, RequestsOK, Unshared, ConsignmentsAreKept, cvars
  <1>2. ASSUME NEW w \in Clerks, Work(w)
        PROVE  KInv'
    <2>1. IInv'
      <3>1. \/ \/ CheckFlag(w) \/ LookAgain(w) \/ CheckToken(w) \/ LogIn(w) \/ Unflag(w)
               \/ ReadToken(w) \/ LoginFails(w) \/ Unauthorized(w)
            \/ Answer(w) \/ SaveLabel(w) \/ Commit(w) \/ ServerError(w)
        BY <1>2 DEF Work
      <3>2. QED
        BY <3>1, LoginKeeps, AnswerKeeps, SaveLabelKeeps, CommitKeeps, ServerErrorKeeps DEF KInv
    <2>2. token' \in [Carriers -> BOOLEAN]
      <3>1. token' = token \/ token' = [token EXCEPT ![Its(w)] = TRUE]
        BY <1>2 DEF Work, CheckFlag, LookAgain, CheckToken, LogIn, Unflag, ReadToken, LoginFails,
           Unauthorized, Answer, SaveLabel, Commit, ServerError
      <3>2. QED
        BY <3>1 DEF KInv
    <2>3. QED
      BY <2>1, <2>2 DEF KInv
  <1>3. ASSUME NEW w \in Clerks, Begins(w)
        PROVE  KInv'
    <2>1. PICK kind \in {"consign", "print", "offer", "quote"}, o \in Parcels : Begin(w, kind, o)
      BY <1>3 DEF Begins
    <2>2. token' = token
      BY <2>1 DEF Begin
    <2>3. QED
      BY <2>1, <2>2, BeginKeeps DEF KInv
  <1>4. ASSUME NEW c \in Carriers, Expire(c)
        PROVE  KInv'
    <2>1. /\ UNCHANGED <<made, tracking, clerk, given_up>>
          /\ token' \in [Carriers -> BOOLEAN]
      BY <1>4 DEF Expire, KInv
    <2>2. QED
      BY <2>1 DEF KInv, IInv, TablesOK, RequestsOK, Unshared, ConsignmentsAreKept
  <1>5. ASSUME NEW w \in Clerks, WorkerDies(w)
        PROVE  KInv'
    <2>1. token' = token
      BY <1>5 DEF WorkerDies
    <2>2. QED
      BY <1>5, <2>1, WorkerDiesKeeps DEF KInv
  <1>6. QED
    BY <1>1, <1>2, <1>3, <1>4, <1>5 DEF Next

\* The tracking number of an order is that of a consignment the carrier has
\* accepted for it, and an accepted consignment is known to its order or on its
\* way there unless it was given up, however many workers share the login,
\* whatever the carriers refuse or leave unanswered, whichever commit fails and
\* whichever worker dies (ems/models/ems.py and fedex/models/fedex.py: consign,
\* __invoke_curl; shipping/routes/api.py: consign_order).
THEOREM Consigned == Spec => []ConsignmentsAreKept
  <1>1. KInv => ConsignmentsAreKept
    BY DEF KInv, IInv
  <1>2. QED
    BY InitOK, StepOK, <1>1, PTL DEF Spec

=============================================================================
